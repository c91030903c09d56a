SPECIFICATION FairSpec
CONSTANTS
  MsgLoggers = {m1}
  TelLoggers = {t1}
  QueueSize = 1
  MaxLines = 1
  Packet <- MCPacket
  StampSize = 2
  MaxSends <- MCMaxSends
  MaxStarts = 2
  MaxSets = 1
INVARIANTS LogComplete DisabledStopsFiling PacketsReadBack
PROPERTIES CleanExit LoggersProceed
CHECK_DEADLOCK FALSE
