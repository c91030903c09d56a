SPECIFICATION FairSpec
CONSTANTS
  Writers <- MCWriters
  WriterPackets <- MCWriterPackets
  Readers <- TwoReaders
  CheckAll <- OneReader
  Tracked <- TrackBoth
  ReadMode <- Blocking
  Timed <- None
  Signalled <- None
  Clearers <- None
  NumPackets = 2
  BitsetWidth = 2
  NonceMod = 8
  MaxWrites = 2
  MaxLeaked = 1
INVARIANTS MutualExclusion SemaphoresExact NoLostWakeup
PROPERTIES WritersPreference ImplementsStore WritesFinish ViewersCatchUp
