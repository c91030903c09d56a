SPECIFICATION ProgSpec
CONSTANTS
  c1 = c1
  c2 = c2
  ec_program = ec_program
  Controllers = {c1, c2}
  Readers = {ec_program}
  Program = ec_program
  Args <- Near
  Width = 64
  Created = 20
  MaxTicks = 2
  Lines <- MCLines
  MaxLines = 2
  Strtol <- MCStrtol
  Opens <- MCOpens
  Closes <- MCCloses
SYMMETRY Either
CONSTRAINT FewCommands
INVARIANTS NothingForgotten
PROPERTIES NoJump HoldSurvivesStart RunsOnTime
CHECK_DEADLOCK FALSE
