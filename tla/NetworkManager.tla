--------------------------- MODULE NetworkManager ---------------------------
(***************************************************************************)
(* The address of one network device (lib/nm): receivers put the address   *)
(* a packet came from into shared memory (NmShm), transmitters take it     *)
(* from there for the messages they send.                                  *)
(*                                                                         *)
(* The address is copied in two parts, under a semaphore that a process    *)
(* only tries to take; after block_count failures in a row it waits.       *)
(***************************************************************************)
EXTENDS Naturals, FiniteSets

CONSTANTS
  Receivers,     \* processes of decom with an AutoNetworkReceiver
  Transmitters,  \* processes with a NetworkTransmitter
  Automatic,     \* transmitters initialised with the port of an auto device
  Addresses,     \* addresses the device may have
  Zero, Junk,    \* what an address nobody has set may look like
  BlockCount,    \* block_count
  Killable,      \* transmitters that may be sent a signal
  MaxPackets,    \* bound: packets received
  MaxRestarts    \* bound: transmitters started again

Procs == Receivers \cup Transmitters

ASSUME NetworkAssumption ==
  /\ Receivers \cap Transmitters = {}
  /\ IsFiniteSet(Procs)
  /\ Automatic \cup Killable \subseteq Transmitters
  /\ {Zero, Junk} \cap Addresses = {}
  /\ BlockCount \in Nat
  /\ MaxPackets \in Nat /\ MaxRestarts \in Nat

Halves == Addresses \cup {Zero, Junk}
Pairs == [ip : Halves, port : Halves]
Whole(a) == [ip |-> a, port |-> a]

VARIABLES
  sem,       \* the device's semaphore
  nonce,
  addr,      \* the address in shared memory
  pc,
  blocked,   \* failures to take the semaphore in a row
  remote,    \* remote_addr of the receivers
  last,      \* last_nonces of the transmitters
  dst,       \* dst_addr of the transmitters
  up,        \* the transmitters that are initialised
  lost,      \* the transmitters that were ended holding the semaphore
  sentTo,    \* where each transmitter sent its last message
  drops,     \* addresses each receiver dropped since it stored one
  packets,
  restarts

shm == <<sem, nonce, addr>>
local == <<blocked, remote, last, dst, sentTo, drops>>
process == <<up, lost, restarts>>
vars == <<shm, pc, local, packets, process>>

Inside == {"ip", "port", "count", "compare", "post"}

TypeOK ==
  /\ sem \in {0, 1}
  /\ nonce \in Nat
  /\ addr \in Pairs
  /\ pc \in [Procs -> Inside \cup {"ready", "lock", "send", "dead"}]
  /\ blocked \in [Procs -> 0 .. BlockCount]
  /\ remote \in [Receivers -> Halves]
  /\ last \in [Transmitters -> Nat]
  /\ dst \in [Transmitters -> Pairs]
  /\ sentTo \in [Transmitters -> Pairs]
  /\ up \cup lost \subseteq Transmitters
  /\ drops \in [Receivers -> Nat]
  /\ packets \in 0 .. MaxPackets
  /\ restarts \in 0 .. MaxRestarts

\* dst_addr has no initial value.
Init ==
  /\ sem = 1
  /\ nonce = 0
  /\ addr = Whole(Zero)
  /\ pc = [p \in Procs |-> IF p \in Receivers THEN "ready" ELSE "lock"]
  /\ blocked = [p \in Procs |-> BlockCount]
  /\ remote = [r \in Receivers |-> Zero]
  /\ last = [t \in Transmitters |-> 0]
  /\ dst \in [Transmitters -> {Whole(Zero), Whole(Junk)}]
  /\ sentTo = [t \in Transmitters |-> Whole(Zero)]
  /\ drops = [r \in Receivers |-> 0]
  /\ up = {}
  /\ lost = {}
  /\ packets = 0
  /\ restarts = 0

-----------------------------------------------------------------------------
At(p, l) == pc[p] = l
Goto(p, l) == pc' = [pc EXCEPT ![p] = l]

\* recvfrom of an AutoNetworkReceiver.
Rx(r, a) ==
  /\ At(r, "ready")
  /\ packets < MaxPackets
  /\ packets' = packets + 1
  /\ remote' = [remote EXCEPT ![r] = a]
  /\ Goto(r, "lock")
  /\ UNCHANGED <<shm, blocked, last, dst, sentTo, drops, process>>

\* Mutant: the address is not looked up.
DequeueBlind(t) ==
  /\ t \in Transmitters
  /\ At(t, "ready")
  /\ Goto(t, "send")
  /\ UNCHANGED <<shm, local, packets, process>>

\* tx has a message from the queue.
Dequeue(t) ==
  /\ t \in Transmitters
  /\ At(t, "ready")
  /\ Goto(t, IF t \in Automatic THEN "lock" ELSE "send")
  /\ UNCHANGED <<shm, local, packets, process>>

\* Mutant: the semaphore is not waited for.
EnterAnyway(p) ==
  /\ At(p, "lock")
  /\ sem' = 0
  /\ Goto(p, IF p \in Receivers THEN "ip" ELSE "compare")
  /\ UNCHANGED <<nonce, addr, local, packets, process>>

\* update_addr and get_addr: sem_trywait or sem_wait succeeds.
Enter(p) ==
  /\ At(p, "lock")
  /\ sem = 1
  /\ sem' = 0
  /\ Goto(p, IF p \in Receivers THEN "ip" ELSE "compare")
  /\ UNCHANGED <<nonce, addr, local, packets, process>>

\* Mutant: the failures are not counted.
BlockedForever(p) ==
  /\ At(p, "lock")
  /\ sem = 0
  /\ blocked[p] < BlockCount
  /\ IF p \in Receivers
       THEN Goto(p, "ready") /\ drops' = [drops EXCEPT ![p] = @ + 1]
       ELSE Goto(p, "send") /\ UNCHANGED drops
  /\ UNCHANGED <<shm, blocked, remote, last, dst, sentTo, packets, process>>

\* BLOCKED: a receiver drops the address, a transmitter keeps the one it has.
Blocked(p) ==
  /\ At(p, "lock")
  /\ sem = 0
  /\ blocked[p] < BlockCount
  /\ blocked' = [blocked EXCEPT ![p] = @ + 1]
  /\ IF p \in Receivers
       THEN Goto(p, "ready") /\ drops' = [drops EXCEPT ![p] = @ + 1]
       ELSE Goto(p, "send") /\ UNCHANGED drops
  /\ UNCHANGED <<shm, remote, last, dst, sentTo, packets, process>>

StoreIp(r) ==
  /\ r \in Receivers /\ At(r, "ip")
  /\ addr' = [addr EXCEPT !.ip = remote[r]]
  /\ Goto(r, "port")
  /\ UNCHANGED <<sem, nonce, local, packets, process>>

StorePort(r) ==
  /\ r \in Receivers /\ At(r, "port")
  /\ addr' = [addr EXCEPT !.port = remote[r]]
  /\ Goto(r, "count")
  /\ UNCHANGED <<sem, nonce, local, packets, process>>

Count(r) ==
  /\ At(r, "count")
  /\ nonce' = nonce + 1
  /\ Goto(r, "post")
  /\ UNCHANGED <<sem, addr, local, packets, process>>

\* Mutant: only the first address counts as news.
CompareOnce(t) ==
  /\ At(t, "compare")
  /\ last' = [last EXCEPT ![t] = nonce]
  /\ Goto(t, IF last[t] = 0 /\ nonce # 0 THEN "ip" ELSE "post")
  /\ UNCHANGED <<shm, blocked, remote, dst, sentTo, drops, packets, process>>

\* Is there news?
Compare(t) ==
  /\ At(t, "compare")
  /\ last' = [last EXCEPT ![t] = nonce]
  /\ Goto(t, IF nonce # last[t] THEN "ip" ELSE "post")
  /\ UNCHANGED <<shm, blocked, remote, dst, sentTo, drops, packets, process>>

FetchIp(t) ==
  /\ t \in Transmitters /\ At(t, "ip")
  /\ dst' = [dst EXCEPT ![t].ip = addr.ip]
  /\ Goto(t, "port")
  /\ UNCHANGED <<shm, blocked, remote, last, sentTo, drops, packets, process>>

FetchPort(t) ==
  /\ t \in Transmitters /\ At(t, "port")
  /\ dst' = [dst EXCEPT ![t].port = addr.port]
  /\ Goto(t, "post")
  /\ UNCHANGED <<shm, blocked, remote, last, sentTo, drops, packets, process>>

\* sem_post, and the counter starts anew.  The first address a transmitter
\* gets ends its initialisation, the others are for a message.
Post(p) ==
  /\ At(p, "post")
  /\ sem' = 1
  /\ blocked' = [blocked EXCEPT ![p] = 0]
  /\ drops' = IF p \in Receivers THEN [drops EXCEPT ![p] = 0] ELSE drops
  /\ up' = IF p \in Transmitters THEN up \cup {p} ELSE up
  /\ Goto(p, IF p \in up THEN "send" ELSE "ready")
  /\ UNCHANGED <<nonce, addr, remote, last, dst, sentTo, packets, lost, restarts>>

Send(t) ==
  /\ At(t, "send")
  /\ IF t \in Automatic /\ dst[t].ip = Zero
       THEN UNCHANGED sentTo
       ELSE sentTo' = [sentTo EXCEPT ![t] = dst[t]]
  /\ Goto(t, "ready")
  /\ UNCHANGED <<shm, blocked, remote, last, dst, drops, packets, process>>

\* uplink's handler ends a transmitter wherever it is.
Kill(t) ==
  /\ t \in Killable
  /\ ~At(t, "dead")
  /\ Goto(t, "dead")
  /\ lost' = IF pc[t] \in Inside THEN lost \cup {t} ELSE lost
  /\ UNCHANGED <<shm, local, packets, up, restarts>>

\* A new process: it waits for the semaphore the first time.
Restart(t) ==
  /\ At(t, "dead")
  /\ restarts < MaxRestarts
  /\ restarts' = restarts + 1
  /\ up' = up \ {t}
  /\ blocked' = [blocked EXCEPT ![t] = BlockCount]
  /\ last' = [last EXCEPT ![t] = 0]
  /\ \E a \in {Zero, Junk} : dst' = [dst EXCEPT ![t] = Whole(a)]
  /\ Goto(t, "lock")
  /\ UNCHANGED <<shm, remote, sentTo, drops, packets, lost>>

-----------------------------------------------------------------------------
Step(p) ==
  \/ Dequeue(p) \/ Enter(p) \/ Blocked(p)
  \/ StoreIp(p) \/ StorePort(p) \/ Count(p)
  \/ Compare(p) \/ FetchIp(p) \/ FetchPort(p)
  \/ Post(p) \/ Send(p)

\* Nothing more happens when everyone waits for the semaphore a transmitter
\* died with, or is dead, or waits for packets.
Stop ==
  /\ lost # {}
  /\ \A t \in Transmitters : pc[t] \in {"dead", "lock"}
  /\ \A r \in Receivers : At(r, "lock") \/ (At(r, "ready") /\ packets = MaxPackets)
  /\ UNCHANGED vars

Next ==
  \/ \E r \in Receivers, a \in Addresses : Rx(r, a)
  \/ \E p \in Procs : Step(p)
  \/ \E t \in Transmitters : Kill(t) \/ Restart(t)
  \/ Stop

Spec == Init /\ [][Next]_vars

\* Processes run, and messages to send keep coming.
FairSpec == Spec /\ \A p \in Procs : WF_vars(Step(p))

-----------------------------------------------------------------------------
\* Processes inside, and those that a signal ended there.
SemaphoreExact ==
  sem + Cardinality({p \in Procs : pc[p] \in Inside}) + Cardinality(lost) = 1

\* NmShm.h: no message goes to an address put together from two.
NeverTorn ==
  \A t \in Transmitters : sentTo[t].ip = sentTo[t].port

\* A transmitter that has seen the nonce has the address: no copy is missed or
\* taken for seen.
KnowsWhatItSaw ==
  \A t \in up : sem = 1 /\ last[t] = nonce /\ nonce # 0 => dst[t] = addr

\* NmShm.h: "if shared memory is locked, returns immediately unless we've
\* already blocked for 'block_count' many time": a receiver drops no more
\* addresses than that in a row.
DropsBounded == \A r \in Receivers : drops[r] <= BlockCount

\* Once no more packets come, a transmitter in auto mode that has messages to
\* send ends up sending them to the address in shared memory, unless a signal
\* left the semaphore taken.
AutoFollows ==
  <>[](nonce # 0 /\ lost = {} =>
         \A t \in Automatic : pc[t] # "dead" => dst[t] = addr)
=============================================================================
