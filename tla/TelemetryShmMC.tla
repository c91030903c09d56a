--------------------------- MODULE TelemetryShmMC ---------------------------
(***************************************************************************)
(* Small instances of TelemetryShm: two writers (decom's process for one   *)
(* packet, mmon), one or two readers, two packets.                         *)
(***************************************************************************)
EXTENDS TelemetryShm

MCWriters == {"decom", "mmon"}
MCWriterPackets == [w \in MCWriters |-> IF w = "decom" THEN {0} ELSE {1}]
OneWriter == {"mmon"}
OneWriterPackets == [w \in OneWriter |-> Packets]

None == {}
OneReader == {"all"}
SomeReader == {"some"}
TwoReaders == {"all", "some"}

\* "some" tracks packets 1 and 0 in that order, "last" packet 1 alone.
LastReader == {"last"}
TrackBoth == [r \in TwoReaders |-> <<1, 0>>]
TrackLast == [r \in LastReader |-> <<1>>]

Blocking == [r \in Readers |-> "BLOCKING_READ"]
StandardAndBlocking ==
  [r \in Readers |-> IF r = "all" THEN "STANDARD_READ" ELSE "BLOCKING_READ"]
=============================================================================
