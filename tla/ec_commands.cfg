SPECIFICATION FairSpec
CONSTANTS
  c1 = c1
  c2 = c2
  p1 = p1
  p2 = p2
  Commanders <- OneCommander
  Programs <- TwoPrograms
  Length <- Lengths
  QueueSize = 1
  NumRetransmits = 2
  Signalled <- OneProgram
INVARIANTS LocksExact ExecutedInOrder AckedWasReached AckTrustworthy
PROPERTIES AllEnd
