SPECIFICATION Spec
CONSTANTS
  o1 = o1
  o2 = o2
  v1 = v1
  NumPackets = 2
  Others <- TwoOthers
  Controllers = {o1, o2}
  Clients = {v1}
  MaxRuns = 4
  MaxFaults = 1
SYMMETRY Same
INVARIANTS OpenedReady AllOrNothing CreatedInOrder
CHECK_DEADLOCK FALSE
