SPECIFICATION Spec
CONSTANTS
  Writers <- OneWriter
  WriterPackets <- OneWriterPackets
  Readers <- TwoReaders
  CheckAll <- OneReader
  Tracked <- TrackBoth
  ReadMode <- StandardAndBlocking
  Timed <- SomeReader
  Signalled <- TwoReaders
  Clearers <- OneWriter
  NumPackets = 2
  BitsetWidth = 2
  NonceMod = 3
  MaxWrites = 3
  MaxLeaked = 1
INVARIANT SemaphoresExact
CHECK_DEADLOCK FALSE
