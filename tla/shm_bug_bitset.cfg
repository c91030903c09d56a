SPECIFICATION Spec
CONSTANTS
  Writers <- OneWriter
  WriterPackets <- OneWriterPackets
  Readers <- LastReader
  CheckAll <- None
  Tracked <- TrackLast
  ReadMode <- Blocking
  Timed <- None
  Signalled <- None
  Clearers <- None
  NumPackets = 2
  BitsetWidth = 2
  NonceMod = 8
  MaxWrites = 2
  MaxLeaked = 1
INVARIANT NoLostWakeup
