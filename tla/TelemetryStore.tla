--------------------------- MODULE TelemetryStore ---------------------------
(***************************************************************************)
(* What the telemetry shared memory promises to its clients: a store in    *)
(* which every write is atomic, and viewers each of whose updates takes    *)
(* all the packets it tracks from one and the same state of the store.     *)
(*                                                                         *)
(* A packet's data is the number of the write that produced it.            *)
(***************************************************************************)
EXTENDS Naturals

CONSTANTS Packets, Viewers, Tracking(_)

VARIABLES
  count,   \* writes so far
  stored,  \* the data of every packet
  seen     \* what every viewer holds

storeVars == <<count, stored, seen>>

StoreInit ==
  /\ count = 0
  /\ stored = [p \in Packets |-> 0]
  /\ seen = [v \in Viewers |-> [p \in Packets |-> 0]]

Write(p) ==
  /\ count' = count + 1
  /\ stored' = [stored EXCEPT ![p] = count + 1]
  /\ UNCHANGED seen

Update(v) ==
  /\ seen' = [seen EXCEPT ![v] =
                [p \in Packets |-> IF p \in Tracking(v) THEN stored[p] ELSE @[p]]]
  /\ UNCHANGED <<count, stored>>

StoreNext ==
  \/ \E p \in Packets : Write(p)
  \/ \E v \in Viewers : Update(v)

StoreSpec == StoreInit /\ [][StoreNext]_storeVars
=============================================================================
