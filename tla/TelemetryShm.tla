---------------------------- MODULE TelemetryShm ----------------------------
(***************************************************************************)
(* The telemetry shared memory of one vehicle (TelemetryShm.cpp) and the   *)
(* reader built on it (TelemetryViewer.cpp).                               *)
(*                                                                         *)
(* Writers (decom, one process per downlink packet; mmon) and readers (the *)
(* viewers) are separate processes.  They share a master block with a      *)
(* nonce, two counters and four semaphores, one block of data and one      *)
(* nonce per packet.  Locking is the third readers-writers protocol, with  *)
(* preference to the writers; a reader in blocking mode sleeps on a futex  *)
(* whose word is the master nonce.  Every semaphore operation, every       *)
(* access to the shared words and every futex call is a step of its own.   *)
(*                                                                         *)
(* A packet's data is the number of the write that produced it.            *)
(*                                                                         *)
(* A definition whose comment begins with "Mutant" is a wrong variant of   *)
(* the one that follows it; nothing in the model uses it.                  *)
(***************************************************************************)
EXTENDS Naturals, Sequences, FiniteSets

CONSTANTS
  Writers,        \* processes that call write (and clear)
  Readers,        \* processes that call TelemetryViewer::update in a loop
  NumPackets,     \* packets of the vehicle, identified by their index
  WriterPackets,  \* the packets each writer writes
  Clearers,       \* the writers that may also call clear
  CheckAll,       \* the readers that view every packet (add_all)
  Tracked,        \* packet_ids of the other readers, in the order of the list
  ReadMode,       \* read_mode of each reader
  Timed,          \* the readers that call update with a timeout
  Signalled,      \* the readers that may receive a signal (sighandler)
  BitsetWidth,    \* bits of a futex bitset (32)
  NonceMod,       \* number of values of a uint32_t nonce (2^32)
  MaxWrites,      \* bound: no write is started after this many
  MaxLeaked       \* bound: no update is started after this many leaked read locks

Packets == 0 .. NumPackets - 1
Modes == {"STANDARD_READ", "BLOCKING_READ", "NONBLOCKING_READ"}
Semaphores == {"rmutex", "wmutex", "readTry", "resource"}

\* What has become of a reader: attached to the shared memory, or detached by
\* its signal handler and then either stuck for ever or back in its caller
\* with a return code.
Fates == {"attached", "hangs", "SUCCESS", "FAILURE", "BLOCKED", "INTERRUPTED"}

ASSUME ProcessAssumption ==
  /\ Writers \cap Readers = {}
  /\ IsFiniteSet(Writers)
  /\ IsFiniteSet(Readers)
ASSUME PacketAssumption ==
  /\ NumPackets \in Nat \ {0}
  /\ WriterPackets \in [Writers -> SUBSET Packets]
  /\ Tracked \in [Readers -> Seq(Packets)]
ASSUME NumberAssumption ==
  /\ BitsetWidth \in Nat \ {0}
  /\ NonceMod \in Nat /\ NonceMod > 1
  /\ MaxWrites \in Nat /\ MaxLeaked \in Nat
ASSUME RoleAssumption ==
  /\ Clearers \subseteq Writers
  /\ CheckAll \subseteq Readers
  /\ Timed \subseteq Readers
  /\ Signalled \subseteq Readers
  /\ ReadMode \in [Readers -> Modes]

VARIABLES
  sem,          \* the four semaphores of the master block
  readers,      \* info->readers
  writers,      \* info->writers
  nonce,        \* info->nonce, the master nonce
  packetNonce,  \* the nonce of every packet
  data,         \* the data of every packet
  pc,           \* where every process is
  packet,       \* the packet a writer is writing
  clearing,     \* the writers that are in clear, not in write
  lastNonce,    \* last_nonce of every reader
  lastNonces,   \* last_nonces of every reader
  updated,      \* updated of every reader, as a set of packets
  view,         \* packet_buffers of every reader
  toCopy,       \* packets update has still to copy under the lock
  rest,         \* where a reader goes once read_unlock returns
  fate,         \* see Fates
  leaked,       \* read locks whose owner returned without read_unlock
  written       \* the packet of every write so far, in order

counters == <<readers, writers>>
blocks   == <<nonce, packetNonce, data, written>>
writer   == <<packet, clearing>>
nonces   == <<lastNonce, lastNonces, updated>>
locals   == <<view, toCopy, rest>>
other    == <<fate, leaked>>
vars     == <<sem, counters, blocks, pc, writer, nonces, locals, other>>

WriterLocations ==
  {"idle", "enter", "count", "lockReaders", "leaveEntry", "lockData", "copy",
   "bumpNonce", "setPacketNonce", "wake", "unlockData", "exit", "uncount",
   "unlockReaders", "leaveExit"}

ReaderLocations ==
  {"idle", "tryRead", "enterRead", "countRead", "lockRead", "leaveEnter",
   "leaveTry", "check", "fetch", "unlock", "uncountRead", "unlockRead",
   "leaveUnlock", "wait", "asleep", "awake"}

TypeOK ==
  /\ sem \in [Semaphores -> {0, 1}]
  /\ readers \in Nat
  /\ writers \in Nat
  /\ nonce \in 0 .. NonceMod - 1
  /\ packetNonce \in [Packets -> 0 .. NonceMod - 1]
  /\ data \in [Packets -> Nat]
  /\ pc \in [Writers \cup Readers -> WriterLocations \cup ReaderLocations]
  /\ \A w \in Writers : pc[w] \in WriterLocations
  /\ \A r \in Readers : pc[r] \in ReaderLocations
  /\ packet \in [Writers -> Packets]
  /\ clearing \subseteq Clearers
  /\ lastNonce \in [Readers -> 0 .. NonceMod - 1]
  /\ lastNonces \in [Readers -> [Packets -> 0 .. NonceMod - 1]]
  /\ updated \in [Readers -> SUBSET Packets]
  /\ view \in [Readers -> [Packets -> Nat]]
  /\ toCopy \in [Readers -> SUBSET Packets]
  /\ rest \in [Readers -> {"idle", "wait"}]
  /\ fate \in [Readers -> Fates]
  /\ leaked \in Nat
  /\ written \in Seq(Packets)

\* create: semaphores 1, counters 0, nonces 1; the constructor and init set
\* the reader's cached nonces to 1 as well.
Init ==
  /\ sem = [s \in Semaphores |-> 1]
  /\ readers = 0
  /\ writers = 0
  /\ nonce = 1
  /\ packetNonce = [p \in Packets |-> 1]
  /\ data = [p \in Packets |-> 0]
  /\ pc = [p \in Writers \cup Readers |-> "idle"]
  /\ packet = [w \in Writers |-> 0]
  /\ clearing = {}
  /\ lastNonce = [r \in Readers |-> 1]
  /\ lastNonces = [r \in Readers |-> [p \in Packets |-> 1]]
  /\ updated = [r \in Readers |-> {}]
  /\ view = [r \in Readers |-> [p \in Packets |-> 0]]
  /\ toCopy = [r \in Readers |-> {}]
  /\ rest = [r \in Readers |-> "idle"]
  /\ fate = [r \in Readers |-> "attached"]
  /\ leaked = 0
  /\ written = << >>

-----------------------------------------------------------------------------
(***************************************************************************)
(* Semaphores, the program counter, and the futex.                         *)
(***************************************************************************)

P(s) == sem[s] > 0 /\ sem' = [sem EXCEPT ![s] = @ - 1]
V(s) == sem' = [sem EXCEPT ![s] = @ + 1]
At(p, l) == pc[p] = l
Goto(p, l) == pc' = [pc EXCEPT ![p] = l]

TrackedIds(r) ==
  IF r \in CheckAll THEN Packets
                    ELSE {Tracked[r][i] : i \in 1 .. Len(Tracked[r])}

\* The bitset a reader waits with.  read_lock(packet_ids, num) sets bit i for
\* the i-th entry of the list; read_lock() sets every bit.
WaitBits(r) ==
  IF r \in CheckAll
    THEN 0 .. BitsetWidth - 1
    ELSE {(i - 1) % BitsetWidth : i \in 1 .. Len(Tracked[r])}

\* The bit write wakes: the packet id modulo the width.
WakeBit(p) == p % BitsetWidth

-----------------------------------------------------------------------------
(***************************************************************************)
(* write and clear.                                                        *)
(***************************************************************************)

StartWrite(w) ==
  /\ At(w, "idle")
  /\ Len(written) < MaxWrites
  /\ \E p \in WriterPackets[w] : packet' = [packet EXCEPT ![w] = p]
  /\ \E c \in BOOLEAN :
       /\ c => w \in Clearers
       /\ clearing' = IF c THEN clearing \cup {w} ELSE clearing \ {w}
  /\ Goto(w, "enter")
  /\ UNCHANGED <<sem, counters, blocks, nonces, locals, other>>

EnterWriter(w) ==
  /\ At(w, "enter")
  /\ P("wmutex")
  /\ Goto(w, "count")
  /\ UNCHANGED <<counters, blocks, writer, nonces, locals, other>>

CountWriter(w) ==
  /\ At(w, "count")
  /\ writers' = writers + 1
  /\ Goto(w, IF writers = 0 THEN "lockReaders" ELSE "leaveEntry")
  /\ UNCHANGED <<sem, readers, blocks, writer, nonces, locals, other>>

LockOutReaders(w) ==
  /\ At(w, "lockReaders")
  /\ P("readTry")
  /\ Goto(w, "leaveEntry")
  /\ UNCHANGED <<counters, blocks, writer, nonces, locals, other>>

LeaveEntry(w) ==
  /\ At(w, "leaveEntry")
  /\ V("wmutex")
  /\ Goto(w, "lockData")
  /\ UNCHANGED <<counters, blocks, writer, nonces, locals, other>>

LockData(w) ==
  /\ At(w, "lockData")
  /\ P("resource")
  /\ Goto(w, "copy")
  /\ UNCHANGED <<counters, blocks, writer, nonces, locals, other>>

CopyData(w) ==
  /\ At(w, "copy")
  /\ data' = [data EXCEPT ![packet[w]] = Len(written) + 1]
  /\ Goto(w, "bumpNonce")
  /\ UNCHANGED <<sem, counters, nonce, packetNonce, written, writer, nonces,
                 locals, other>>

BumpNonce(w) ==
  /\ At(w, "bumpNonce")
  /\ nonce' = (nonce + 1) % NonceMod
  /\ written' = Append(written, packet[w])
  /\ Goto(w, "setPacketNonce")
  /\ UNCHANGED <<sem, counters, packetNonce, data, writer, nonces, locals, other>>

SetPacketNonce(w) ==
  /\ At(w, "setPacketNonce")
  /\ packetNonce' = [packetNonce EXCEPT ![packet[w]] = nonce]
  /\ Goto(w, "wake")
  /\ UNCHANGED <<sem, counters, nonce, data, written, writer, nonces, locals, other>>

\* The sleepers the FUTEX_WAKE_BITSET of a writer reaches.  clear passes the
\* value of the nonce where the address belongs, and reaches nobody.
Woken(w) ==
  {r \in Readers : /\ At(r, "asleep")
                   /\ fate[r] = "attached"
                   /\ w \notin clearing
                   /\ WakeBit(packet[w]) \in WaitBits(r)}

Wake(w) ==
  /\ At(w, "wake")
  /\ pc' = [p \in Writers \cup Readers |->
              IF p = w THEN "unlockData"
              ELSE IF p \in Woken(w) THEN "awake" ELSE pc[p]]
  /\ UNCHANGED <<sem, counters, blocks, writer, nonces, locals, other>>

UnlockData(w) ==
  /\ At(w, "unlockData")
  /\ V("resource")
  /\ Goto(w, "exit")
  /\ UNCHANGED <<counters, blocks, writer, nonces, locals, other>>

\* Mutant: writers is decremented outside wmutex.
ExitWriterFreely(w) ==
  /\ At(w, "exit")
  /\ Goto(w, "uncount")
  /\ UNCHANGED <<sem, counters, blocks, writer, nonces, locals, other>>

ExitWriter(w) ==
  /\ At(w, "exit")
  /\ P("wmutex")
  /\ Goto(w, "uncount")
  /\ UNCHANGED <<counters, blocks, writer, nonces, locals, other>>

\* Mutant: every writer that leaves opens readTry, not only the last.
UncountWriterOpening(w) ==
  /\ At(w, "uncount")
  /\ writers' = writers - 1
  /\ Goto(w, "unlockReaders")
  /\ UNCHANGED <<sem, readers, blocks, writer, nonces, locals, other>>

UncountWriter(w) ==
  /\ At(w, "uncount")
  /\ writers' = writers - 1
  /\ Goto(w, IF writers = 1 THEN "unlockReaders" ELSE "leaveExit")
  /\ UNCHANGED <<sem, readers, blocks, writer, nonces, locals, other>>

\* Mutant: the last writer forgets V(readTry).
KeepReadersOut(w) ==
  /\ At(w, "unlockReaders")
  /\ Goto(w, "leaveExit")
  /\ UNCHANGED <<sem, counters, blocks, writer, nonces, locals, other>>

LetReadersIn(w) ==
  /\ At(w, "unlockReaders")
  /\ V("readTry")
  /\ Goto(w, "leaveExit")
  /\ UNCHANGED <<counters, blocks, writer, nonces, locals, other>>

LeaveExit(w) ==
  /\ At(w, "leaveExit")
  /\ V("wmutex")
  /\ Goto(w, "idle")
  /\ UNCHANGED <<counters, blocks, writer, nonces, locals, other>>

-----------------------------------------------------------------------------
(***************************************************************************)
(* update: read_lock, copy the updated packets, read_unlock.  A reader     *)
(* whose handler detached it takes no further step on the shared words.    *)
(***************************************************************************)

ReaderAt(r, l) == At(r, l) /\ fate[r] = "attached"

StartUpdate(r) ==
  /\ ReaderAt(r, "idle")
  /\ leaked <= MaxLeaked
  /\ updated' = [updated EXCEPT ![r] = {}]
  /\ Goto(r, "tryRead")
  /\ UNCHANGED <<sem, counters, blocks, writer, lastNonce, lastNonces, locals, other>>

TryRead(r) ==
  /\ ReaderAt(r, "tryRead")
  /\ P("readTry")
  /\ Goto(r, "enterRead")
  /\ UNCHANGED <<counters, blocks, writer, nonces, locals, other>>

EnterReader(r) ==
  /\ ReaderAt(r, "enterRead")
  /\ P("rmutex")
  /\ Goto(r, "countRead")
  /\ UNCHANGED <<counters, blocks, writer, nonces, locals, other>>

\* Mutant: the first-in test is off by one.
CountReaderLate(r) ==
  /\ ReaderAt(r, "countRead")
  /\ readers' = readers + 1
  /\ Goto(r, IF readers = 1 THEN "lockRead" ELSE "leaveEnter")
  /\ UNCHANGED <<sem, writers, blocks, writer, nonces, locals, other>>

CountReader(r) ==
  /\ ReaderAt(r, "countRead")
  /\ readers' = readers + 1
  /\ Goto(r, IF readers = 0 THEN "lockRead" ELSE "leaveEnter")
  /\ UNCHANGED <<sem, writers, blocks, writer, nonces, locals, other>>

LockForReaders(r) ==
  /\ ReaderAt(r, "lockRead")
  /\ P("resource")
  /\ Goto(r, "leaveEnter")
  /\ UNCHANGED <<counters, blocks, writer, nonces, locals, other>>

LeaveReaderEntry(r) ==
  /\ ReaderAt(r, "leaveEnter")
  /\ V("rmutex")
  /\ Goto(r, "leaveTry")
  /\ UNCHANGED <<counters, blocks, writer, nonces, locals, other>>

LeaveReadTry(r) ==
  /\ ReaderAt(r, "leaveTry")
  /\ V("readTry")
  /\ Goto(r, "check")
  /\ UNCHANGED <<counters, blocks, writer, nonces, locals, other>>

\* The tracked packets whose nonce is not the cached one.
Changed(r) == {p \in TrackedIds(r) : packetNonce[p] # lastNonces[r][p]}

\* The two read_locks decide that they have something to return.
Fresh(r) ==
  \/ ReadMode[r] = "STANDARD_READ"
  \/ IF r \in CheckAll THEN nonce # lastNonce[r] ELSE Changed(r) # {}

\* read_lock(packet_ids, num) takes a master nonce of zero for the mark of a
\* signal; read_lock() does not look at it here.
LooksSignalled(r) == r \notin CheckAll /\ nonce = 0

ReadFresh(r) ==
  /\ ReaderAt(r, "check")
  /\ ~LooksSignalled(r)
  /\ Fresh(r)
  /\ lastNonce' = [lastNonce EXCEPT ![r] = nonce]
  /\ lastNonces' = [lastNonces EXCEPT ![r] =
                      [p \in Packets |-> IF p \in Changed(r) THEN packetNonce[p]
                                                             ELSE @[p]]]
  /\ updated' = [updated EXCEPT ![r] = Changed(r)]
  /\ toCopy' = [toCopy EXCEPT ![r] = Changed(r)]
  /\ Goto(r, "fetch")
  /\ UNCHANGED <<sem, counters, blocks, writer, view, rest, other>>

\* Nothing is new: leave as a reader, then wait or return BLOCKED.
ReadStale(r) ==
  /\ ReaderAt(r, "check")
  /\ ~LooksSignalled(r)
  /\ ~Fresh(r)
  /\ lastNonce' = [lastNonce EXCEPT ![r] = nonce]
  /\ rest' = [rest EXCEPT ![r] =
                IF ReadMode[r] = "BLOCKING_READ" THEN "wait" ELSE "idle"]
  /\ Goto(r, "unlock")
  /\ UNCHANGED <<sem, counters, blocks, writer, lastNonces, updated, view, toCopy,
                 other>>

\* Mutant: the way out posts resource without counting the reader out.
ReadInterruptedPosting(r) ==
  /\ ReaderAt(r, "check")
  /\ LooksSignalled(r)
  /\ V("resource")
  /\ lastNonce' = [lastNonce EXCEPT ![r] = nonce]
  /\ leaked' = leaked + 1
  /\ Goto(r, "idle")
  /\ UNCHANGED <<counters, blocks, writer, lastNonces, updated, locals, fate>>

\* INTERRUPTED: read_lock returns inside the lock with read_locked false.
ReadInterrupted(r) ==
  /\ ReaderAt(r, "check")
  /\ LooksSignalled(r)
  /\ lastNonce' = [lastNonce EXCEPT ![r] = nonce]
  /\ leaked' = leaked + 1
  /\ Goto(r, "idle")
  /\ UNCHANGED <<sem, counters, blocks, writer, lastNonces, updated, locals, fate>>

FetchPacket(r) ==
  /\ ReaderAt(r, "fetch")
  /\ \E p \in toCopy[r] :
       /\ view' = [view EXCEPT ![r][p] = data[p]]
       /\ toCopy' = [toCopy EXCEPT ![r] = @ \ {p}]
  /\ UNCHANGED <<sem, counters, blocks, pc, writer, nonces, rest, other>>

\* Mutant: the lock is given back before every packet is copied.
FetchDoneEarly(r) ==
  /\ ReaderAt(r, "fetch")
  /\ rest' = [rest EXCEPT ![r] = "idle"]
  /\ Goto(r, "unlock")
  /\ UNCHANGED <<sem, counters, blocks, writer, nonces, view, toCopy, other>>

FetchDone(r) ==
  /\ ReaderAt(r, "fetch")
  /\ toCopy[r] = {}
  /\ rest' = [rest EXCEPT ![r] = "idle"]
  /\ Goto(r, "unlock")
  /\ UNCHANGED <<sem, counters, blocks, writer, nonces, view, toCopy, other>>

ExitReader(r) ==
  /\ ReaderAt(r, "unlock")
  /\ P("rmutex")
  /\ Goto(r, "uncountRead")
  /\ UNCHANGED <<counters, blocks, writer, nonces, locals, other>>

UncountReader(r) ==
  /\ ReaderAt(r, "uncountRead")
  /\ readers' = readers - 1
  /\ Goto(r, IF readers = 1 THEN "unlockRead" ELSE "leaveUnlock")
  /\ UNCHANGED <<sem, writers, blocks, writer, nonces, locals, other>>

UnlockForReaders(r) ==
  /\ ReaderAt(r, "unlockRead")
  /\ V("resource")
  /\ Goto(r, "leaveUnlock")
  /\ UNCHANGED <<counters, blocks, writer, nonces, locals, other>>

LeaveReader(r) ==
  /\ ReaderAt(r, "leaveUnlock")
  /\ V("rmutex")
  /\ Goto(r, rest[r])
  /\ UNCHANGED <<counters, blocks, writer, nonces, locals, other>>

\* Mutant: the reader goes to sleep without comparing the nonce again.
WaitBlindly(r) ==
  /\ ReaderAt(r, "wait")
  /\ Goto(r, "asleep")
  /\ UNCHANGED <<sem, counters, blocks, writer, nonces, locals, other>>

\* FUTEX_WAIT_BITSET compares the word and goes to sleep in one step.
FutexWait(r) ==
  /\ ReaderAt(r, "wait")
  /\ Goto(r, IF nonce = lastNonce[r] THEN "asleep" ELSE "awake")
  /\ UNCHANGED <<sem, counters, blocks, writer, nonces, locals, other>>

\* Back from the futex: INTERRUPTED if the nonce is zero, else from the top.
Awaken(r) ==
  /\ ReaderAt(r, "awake")
  /\ Goto(r, IF nonce = 0 THEN "idle" ELSE "tryRead")
  /\ UNCHANGED <<sem, counters, blocks, writer, nonces, locals, other>>

\* The wait reaches its deadline.
TimeOut(r) ==
  /\ ReaderAt(r, "asleep")
  /\ r \in Timed
  /\ Goto(r, "idle")
  /\ UNCHANGED <<sem, counters, blocks, writer, nonces, locals, other>>

-----------------------------------------------------------------------------
(***************************************************************************)
(* sighandler: detach the master block and map a private page of zeros in  *)
(* its place.  The reader then runs on alone: its posts and its counting   *)
(* stay in the private page, sem_wait on a semaphore of zeros never        *)
(* returns, and the nonce it reads is zero.  Nothing it does can reach the *)
(* others, so the rest of its run is its outcome.                          *)
(***************************************************************************)

\* What update returns once read_unlock has returned.
OutcomeOfRest(r) ==
  IF rest[r] = "wait" THEN "INTERRUPTED"
  ELSE IF ReadMode[r] = "NONBLOCKING_READ" /\ updated[r] = {} THEN "BLOCKED"
  ELSE "SUCCESS"

SignalOutcomes(r) ==
  CASE At(r, "idle") -> {"FAILURE"}   \* the next read_lock finds no block
    [] pc[r] \in {"tryRead", "enterRead", "countRead", "lockRead"} -> {"hangs"}
    [] pc[r] \in {"leaveEnter", "leaveTry", "check"} ->
         \* read_lock() succeeds, and read_unlock then finds no block
         IF r \in CheckAll THEN {"FAILURE"} ELSE {"INTERRUPTED"}
    [] At(r, "fetch") -> {"FAILURE"}
    [] At(r, "unlock") ->
         \* before read_unlock looked at the block, or after
         IF rest[r] = "idle" /\ OutcomeOfRest(r) = "SUCCESS"
           THEN {"FAILURE", "hangs"} ELSE {OutcomeOfRest(r), "hangs"}
    [] pc[r] \in {"uncountRead", "unlockRead", "leaveUnlock"} -> {OutcomeOfRest(r)}
    [] At(r, "asleep") /\ r \in Timed -> {"FAILURE"}   \* EINTR, not EAGAIN
    [] pc[r] \in {"wait", "asleep", "awake"} -> {"INTERRUPTED"}

Signal(r) ==
  /\ r \in Signalled
  /\ fate[r] = "attached"
  /\ \E f \in SignalOutcomes(r) : fate' = [fate EXCEPT ![r] = f]
  /\ UNCHANGED <<sem, counters, blocks, pc, writer, nonces, locals, leaked>>

-----------------------------------------------------------------------------
WriterStep(w) ==
  \/ EnterWriter(w) \/ CountWriter(w) \/ LockOutReaders(w) \/ LeaveEntry(w)
  \/ LockData(w) \/ CopyData(w) \/ BumpNonce(w) \/ SetPacketNonce(w) \/ Wake(w)
  \/ UnlockData(w) \/ ExitWriter(w) \/ UncountWriter(w) \/ LetReadersIn(w)
  \/ LeaveExit(w)

ReaderStep(r) ==
  \/ StartUpdate(r) \/ TryRead(r) \/ EnterReader(r) \/ CountReader(r)
  \/ LockForReaders(r) \/ LeaveReaderEntry(r) \/ LeaveReadTry(r)
  \/ ReadFresh(r) \/ ReadStale(r) \/ ReadInterrupted(r) \/ FetchPacket(r)
  \/ FetchDone(r) \/ ExitReader(r) \/ UncountReader(r) \/ UnlockForReaders(r)
  \/ LeaveReader(r) \/ FutexWait(r) \/ Awaken(r)

\* The system may stop only here: the writers have nothing left to write, and
\* every reader sleeps with nothing to read.  Any other state without a
\* successor is a deadlock.
Quiescent ==
  /\ \A w \in Writers : At(w, "idle")
  /\ Len(written) >= MaxWrites
  /\ \A r \in Readers : At(r, "asleep") /\ r \notin Timed /\ ~Fresh(r)

Stop == Quiescent /\ UNCHANGED vars

Next ==
  \/ \E w \in Writers : StartWrite(w) \/ WriterStep(w)
  \/ \E r \in Readers : ReaderStep(r) \/ TimeOut(r) \/ Signal(r)
  \/ Stop

Spec == Init /\ [][Next]_vars

\* A process that can take a step takes it: the scheduler of the system.  No
\* writer is obliged to start a write, no reader to time out or be signalled.
Fairness ==
  /\ \A w \in Writers : WF_vars(WriterStep(w))
  /\ \A r \in Readers : WF_vars(ReaderStep(r))

FairSpec == Spec /\ Fairness

-----------------------------------------------------------------------------
(***************************************************************************)
(* Who holds what.  A semaphore of the protocol is released by a process   *)
(* other than the one that took it: readTry belongs to the writers as a    *)
(* group, resource to the readers as a group.                              *)
(***************************************************************************)

HoldsWmutex(w) ==
  pc[w] \in {"count", "lockReaders", "leaveEntry", "uncount", "unlockReaders", "leaveExit"}
HoldsRmutex(r) ==
  pc[r] \in {"countRead", "lockRead", "leaveEnter", "uncountRead", "unlockRead", "leaveUnlock"}
HoldsReadTry(r) ==
  pc[r] \in {"enterRead", "countRead", "lockRead", "leaveEnter", "leaveTry"}
Writing(w) ==
  pc[w] \in {"copy", "bumpNonce", "setPacketNonce", "wake", "unlockData"}
Reading(r) ==
  pc[r] \in {"leaveEnter", "leaveTry", "check", "fetch", "unlock", "uncountRead"}

CountedWriters ==
  {w \in Writers : pc[w] \in {"lockReaders", "leaveEntry", "lockData", "copy",
     "bumpNonce", "setPacketNonce", "wake", "unlockData", "exit", "uncount"}}
CountedReaders == {r \in Readers : Reading(r) \/ At(r, "lockRead")}

\* The writers hold readTry from the first one's P to the last one's V, the
\* readers hold resource likewise, and for good once a read lock is leaked.
WritersHoldReadTry ==
  \E w \in Writers : \/ w \in CountedWriters /\ ~At(w, "lockReaders")
                     \/ At(w, "unlockReaders")
ReadersHoldResource ==
  \/ \E r \in Readers : Reading(r) \/ At(r, "unlockRead")
  \/ leaked > 0

\* No packet is written while another process reads or writes any packet: what
\* `write` and `read_lock` are for.
MutualExclusion ==
  \A w \in Writers : Writing(w) =>
    /\ \A r \in Readers : ~Reading(r)
    /\ \A x \in Writers \ {w} : ~Writing(x)

\* The counters count, and every semaphore is 0 exactly while it has a holder
\* (the inductive invariant behind MutualExclusion).  A lost V, a V by a
\* process that is not the last out, or a counter changed outside its mutex
\* breaks it.
CountersExact ==
  /\ writers = Cardinality(CountedWriters)
  /\ readers = Cardinality(CountedReaders) + leaked
WmutexExact ==
  /\ sem["wmutex"] = 0 <=> \E w \in Writers : HoldsWmutex(w)
  /\ \A w, x \in Writers : HoldsWmutex(w) /\ HoldsWmutex(x) => w = x
  /\ \A w \in Writers : /\ At(w, "lockReaders") => writers = 1
                        /\ At(w, "unlockReaders") => writers = 0
RmutexExact ==
  /\ sem["rmutex"] = 0 <=> \E r \in Readers : HoldsRmutex(r)
  /\ \A r, x \in Readers : HoldsRmutex(r) /\ HoldsRmutex(x) => r = x
  /\ \A r \in Readers : /\ At(r, "lockRead") => readers = 1
                        /\ At(r, "unlockRead") => readers = 0
ReadTryExact ==
  /\ sem["readTry"] = 0 <=> \/ WritersHoldReadTry
                            \/ \E r \in Readers : HoldsReadTry(r)
  /\ WritersHoldReadTry => \A r \in Readers : ~HoldsReadTry(r)
  /\ \A r, x \in Readers : HoldsReadTry(r) /\ HoldsReadTry(x) => r = x
ResourceExact ==
  /\ sem["resource"] = 0 <=> \/ ReadersHoldResource
                             \/ \E w \in Writers : Writing(w)
  /\ ReadersHoldResource => \A w \in Writers : ~Writing(w)
  /\ \A w, x \in Writers : Writing(w) /\ Writing(x) => w = x
SemaphoresExact ==
  CountersExact /\ WmutexExact /\ RmutexExact /\ ReadTryExact /\ ResourceExact

\* Writers' preference ("locking is done with writers preference"): from the
\* moment the first of a group of writers has shut readTry until the last one
\* opens it, no reader comes in; those already inside only leave.
WritersPreference ==
  [][WritersHoldReadTry /\ WritersHoldReadTry' => CountedReaders' \subseteq CountedReaders]_vars

\* No lost wake-up: a reader asleep in the futex has read everything it waits
\* for, or a writer that has yet to call futex is going to wake it.
PendingWake(r) ==
  \E w \in Writers : /\ pc[w] \in {"setPacketNonce", "wake"}
                     /\ w \notin clearing
                     /\ WakeBit(packet[w]) \in WaitBits(r)
NoLostWakeup ==
  \A r \in Readers : At(r, "asleep") /\ fate[r] = "attached" /\ Fresh(r) => PendingWake(r)

(***************************************************************************)
(* Refinement.  A write takes effect when its data is copied: the others   *)
(* are locked out from there to the end.  An update takes effect when      *)
(* read_lock has decided what changed: what update has still to copy       *)
(* cannot change until it has copied it.                                   *)
(***************************************************************************)
Store == INSTANCE TelemetryStore WITH
  Viewers <- Readers,
  Tracking <- TrackedIds,
  count <- IF \E w \in Writers : At(w, "bumpNonce") THEN Len(written) + 1 ELSE Len(written),
  stored <- data,
  seen <- [r \in Readers |->
             [p \in Packets |-> IF p \in toCopy[r] THEN data[p] ELSE view[r][p]]]

\* Every update a viewer returns is a snapshot of the store at one instant,
\* of every packet it tracks: no packet half written, none missed because its
\* nonce looked unchanged, none newer than another it goes with.
ImplementsStore == Store!StoreSpec

(***************************************************************************)
(* Liveness, when no reader is signalled.                                  *)
(***************************************************************************)

\* Every write that is started finishes: readers and writers never wait for
\* one another in a circle, and readers cannot keep a writer out.
WritesFinish == \A w \in Writers : At(w, "enter") ~> At(w, "idle")

\* Once the writers fall silent, every blocking viewer gets to hold the newest
\* data of every packet it tracks.
ViewersCatchUp ==
  \A r \in Readers : <>[](\A p \in TrackedIds(r) : view[r][p] = data[p])
=============================================================================
