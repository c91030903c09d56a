----------------------------- MODULE PacketViewer -----------------------------
(***************************************************************************)
(* TelemetryViewer: a program that read the configuration chooses the      *)
(* measurements it follows, at first or later, copies their packets out of *)
(* shared memory on each update, and gets the newest copy of a measurement *)
(* that is in several packets.                                             *)
(*                                                                         *)
(* A write of a packet and an update are one step each (see TelemetryShm). *)
(* The nonce of a packet is the number of its last write, 0 before, and    *)
(* stands for its data.  The update modes differ in how long an update     *)
(* waits, and are left out; the order of the list matters to its futex     *)
(* bits only (Tracked there).                                              *)
(***************************************************************************)
EXTENDS VehicleConfig, FiniteSetsExt

CONSTANTS
  MaxWrites,    \* bound: writes of packets
  MaxUpdates,   \* bound: updates
  MaxRemovals   \* bound: calls of remove_all

VARIABLES
  nonces,       \* of every packet, in shared memory
  writes,       \* writes so far, the nonce of the last one
  packet_ids,   \* the packets the viewer tracks
  check_all,    \* whether an update reads every packet
  buffers,      \* the viewer's copy of each packet, None if there is no buffer
  last_nonces,  \* the nonce of each packet when the viewer last read it
  updates,      \* updates so far
  removals,     \* removals so far
  read,         \* history: packets an update has read
  stale         \* history: packets added after an update had read them

viewerVars == <<nonces, writes, packet_ids, check_all, buffers, last_nonces, updates, removals,
                read, stale>>

None == -1
Zeros == 0
PacketIds == DOMAIN packets

\* The constructor does not set check_all.
ViewerInit ==
  /\ nonces = <<>> /\ writes = 0
  /\ packet_ids = {} /\ check_all \in BOOLEAN
  /\ buffers = <<>> /\ last_nonces = <<>>
  /\ updates = 0 /\ removals = 0
  /\ read = {} /\ stale = {}

Opened == nonces # <<>>

\* init, with the configuration.
Open ==
  /\ status = "ok" /\ ~Opened /\ packets # <<>>
  /\ nonces' = [p \in PacketIds |-> 0]
  /\ buffers' = [p \in PacketIds |-> None]
  /\ last_nonces' = [p \in PacketIds |-> 0]
  /\ UNCHANGED <<writes, packet_ids, check_all, updates, removals, read, stale>>

WritePacket(p) ==
  /\ Opened /\ writes < MaxWrites
  /\ writes' = writes + 1
  /\ nonces' = [nonces EXCEPT ![p] = writes + 1]
  /\ UNCHANGED <<packet_ids, check_all, buffers, last_nonces, updates, removals, read, stale>>

\* add(packet_id) of each packet: one that is tracked is left alone, another gets a buffer
\* of zeros.
AddPackets(ids) ==
  LET new == ids \ packet_ids
  IN  /\ packet_ids' = packet_ids \cup new
      /\ buffers' = [p \in PacketIds |-> IF p \in new THEN Zeros ELSE buffers[p]]
      /\ stale' = stale \cup (new \cap read)
      /\ UNCHANGED <<nonces, writes, last_nonces, updates, removals, read>>

Locations(m) == addr_map[m].locations
PacketsOf(m) == {Locations(m)[i].packet_index : i \in DOMAIN Locations(m)}

\* add(measurement): the packets it is in.
Add(m) ==
  /\ Opened
  /\ AddPackets(PacketsOf(m))
  /\ UNCHANGED check_all

\* Mutant: a packet that is tracked gets a new buffer too.
AddAllAgain ==
  /\ Opened
  /\ packet_ids' = PacketIds
  /\ buffers' = [p \in PacketIds |-> Zeros]
  /\ check_all' = TRUE
  /\ stale' = stale \cup ((PacketIds \ packet_ids) \cap read)
  /\ UNCHANGED <<nonces, writes, last_nonces, updates, removals, read>>

\* add_all.
AddAll ==
  /\ Opened /\ AddPackets(PacketIds)
  /\ check_all' = TRUE

\* remove_all: the buffers stay.
RemoveAll ==
  /\ Opened /\ removals < MaxRemovals
  /\ removals' = removals + 1
  /\ packet_ids' = {} /\ check_all' = FALSE
  /\ UNCHANGED <<nonces, writes, buffers, last_nonces, updates, read, stale>>

\* The packets read_lock looks at.
Followed == IF check_all THEN PacketIds ELSE packet_ids

\* update: read_lock marks what changed since it was last read, and update copies the
\* packets among them that are tracked.
Update ==
  LET updated == {p \in Followed : nonces[p] # last_nonces[p]}
  IN  /\ Opened /\ updates < MaxUpdates
      /\ updates' = updates + 1
      /\ last_nonces' = [p \in PacketIds |-> IF p \in updated THEN nonces[p] ELSE last_nonces[p]]
      /\ buffers' = [p \in PacketIds |->
                       IF p \in updated \cap packet_ids THEN nonces[p] ELSE buffers[p]]
      /\ read' = read \cup Followed
      /\ stale' = stale \ updated
      /\ UNCHANGED <<nonces, writes, packet_ids, check_all, removals>>

\* latest_data: the first location in the packet read_lock last saw written; update_value
\* is the distance from the newest nonce.
LatestOf(m) ==
  LET newest == Max({last_nonces[p] : p \in PacketsOf(m)})
      first == Min({i \in DOMAIN Locations(m) :
                      last_nonces[Locations(m)[i].packet_index] = newest})
  IN  Locations(m)[first].packet_index

\* get_raw and the other gets, of a measurement that is in some packet.
Shown(m) == buffers[LatestOf(m)]

ViewerNext ==
  \/ Open
  \/ \E p \in PacketIds : WritePacket(p)
  \/ \E m \in DOMAIN addr_map : Add(m)
  \/ AddAll
  \/ RemoveAll
  \/ Update

-----------------------------------------------------------------------------
(* Properties.                                                              *)

Tracked(m) == PacketsOf(m) # {} /\ PacketsOf(m) \subseteq packet_ids \ stale

\* What a program gets of a measurement it follows is the newest copy there was in any of
\* its packets when it last updated, in whatever order and however often it was added;
\* except after a packet was added that an update had read while it was not tracked or
\* before remove_all: it shows zeros until it is written again.
GetsNewest ==
  \A m \in {x \in DOMAIN addr_map : Opened /\ Tracked(x)} :
    Shown(m) = Max({last_nonces[p] : p \in PacketsOf(m)})

=============================================================================
