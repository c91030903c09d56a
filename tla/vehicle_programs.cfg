SPECIFICATION FairSpec
CONSTANTS
  LinesAt <- MCLinesAt
  Stoi <- MCStoi
  SizeModulus = 16
  PortModulus = 16
  Kinds = {"check", "decom", "uplink", "viewer", "mmon"}
  MaxLines = 8
  MaxChildren = 2
  MaxSignals = 2
  MaxFailures = 1
  MaxWrites = 4
  MaxUpdates = 4
  MaxRemovals = 1
  Base = 2
  Word = 3
  Double = 5
  MAX_CONVERSION_SIZE = 8
  StateText <- MCStateText
  MaxReceived = 2
INVARIANTS LocationsFit PortsAndIdsUnique MasterReapsAll GetsNewest ValuesSurvive
PROPERTIES ChildrenFollow
CHECK_DEADLOCK FALSE
