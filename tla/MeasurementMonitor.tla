------------------------- MODULE MeasurementMonitor -------------------------
(***************************************************************************)
(* mmon (proc/mmon) and the TelemetryWriter it writes through.             *)
(*                                                                         *)
(* A monitor sleeps in TelemetryViewer::update until some packet changes,  *)
(* locks every virtual packet, runs the trigger functions of the packets   *)
(* that changed, flushes what they wrote and unlocks.  The writer works on *)
(* a cache of whole packets, which lock brings up to date.  A TelemetryShm *)
(* write is one step here (see TelemetryShm), and so is an update.         *)
(*                                                                         *)
(* A downlink packet holds one measurement, named like the packet.  The    *)
(* value of a measurement is the number of the sample it comes from: the   *)
(* trigger functions write what they were given.                           *)
(***************************************************************************)
EXTENDS Naturals, FiniteSets

CONSTANTS
  Monitors,      \* processes with a viewer and a writer on one TelemetryShm
  CheckUpdates,  \* those that call lock(true); mmon calls lock(false)
  Downlinked,    \* packets decom writes
  NumVirtual,    \* virtual packets, known by their index
  Computed,      \* measurements in virtual packets
  Places,        \* the virtual packets each of them is in
  Triggers,      \* records [monitor, on, out]
  Hesitant,      \* the triggers that may return NOCHANGE, writing nothing
  Partial,       \* the triggers that may return FAILURE after writing
  Killable,      \* monitors that may be sent SIGINT or SIGTERM
  MaxSamples,    \* bound: samples downlinked
  MaxRestarts    \* bound: clean restarts of monitors

Virtual == 0 .. NumVirtual - 1
Packets == Downlinked \cup Virtual
Names   == Downlinked \cup Computed

ASSUME MonitorAssumption ==
  /\ CheckUpdates \subseteq Monitors
  /\ Killable \subseteq Monitors
  /\ NumVirtual \in Nat \ {0}
  /\ Downlinked \cap (Virtual \cup Computed) = {}
  /\ Places \in [Computed -> (SUBSET Virtual) \ {{}}]
  /\ Triggers \subseteq [monitor : Monitors, on : Names, out : Computed]
  /\ Hesitant \cup Partial \subseteq Triggers
  \* a measurement is computed by one trigger
  /\ \A t, u \in Triggers : t.out = u.out => t = u
  /\ MaxSamples \in Nat /\ MaxRestarts \in Nat

VARIABLES
  content,   \* the measurements of every packet in shared memory
  recency,   \* the packets written as late as each packet was, or later
  samples,   \* samples downlinked so far
  locked,    \* the virtual packets whose write lock is taken
  pc,        \* where each monitor is
  next,      \* the packet its loop over the virtual packets is at
  holds,     \* locked_packets of each monitor
  unseen,    \* packets written since the monitor's last update
  updated,   \* shm->updated
  view,      \* the viewer's packet_buffers
  age,       \* recency as of the viewer's last update
  cache,     \* the writer's packet_buffers
  dirty,     \* the writer's updated
  todo,      \* triggers still to be run in this pass
  flush,     \* the flag of mmon's loop
  killed,    \* monitors whose signal handler has run
  restarts,
  taken      \* what signals have left taken of TelemetryShm's semaphores

shared   == <<content, recency, samples>>
viewer   == <<unseen, updated, view, age>>
writer   == <<cache, dirty>>
control  == <<pc, next>>
process  == <<killed, restarts, taken>>
vars     == <<shared, locked, control, holds, viewer, writer, todo, flush, process>>

Zero == [p \in Packets |-> [x \in Names |-> 0]]

Unwritten == [p \in Packets |-> {}]

\* A copy of the packets has every measurement in each of them.
Image(i) ==
  /\ i = [p \in Packets |-> i[p]]
  /\ \A p \in Packets : i[p] = [x \in Names |-> i[p][x]]

\* What a reader waits for on its way in, and a writer.
OfReaders == {"readTry", "rmutex", "writers"}
OfWriters == {"wmutex", "readTry", "resource"}

TypeOK ==
  /\ Image(content)
  /\ recency \in [Packets -> SUBSET Packets]
  /\ samples \in 0 .. MaxSamples
  /\ locked \subseteq Virtual
  /\ pc \in [Monitors -> {"update", "lock", "trigger", "flush", "write", "unlock",
                          "exited", "stuck", "hung"}]
  /\ next \in [Monitors -> 0 .. NumVirtual]
  /\ holds \in [Monitors -> SUBSET Virtual]
  /\ unseen \in [Monitors -> SUBSET Packets]
  /\ updated \in [Monitors -> SUBSET Packets]
  /\ view = [m \in Monitors |-> view[m]] /\ \A m \in Monitors : Image(view[m])
  /\ age \in [Monitors -> [Packets -> SUBSET Packets]]
  /\ cache = [m \in Monitors |-> cache[m]] /\ \A m \in Monitors : Image(cache[m])
  /\ dirty \in [Monitors -> SUBSET Virtual]
  /\ todo \in [Monitors -> SUBSET Triggers]
  /\ flush \in [Monitors -> BOOLEAN]
  /\ killed \subseteq Monitors
  /\ restarts \in 0 .. MaxRestarts
  /\ taken \subseteq OfReaders \cup OfWriters

Init ==
  /\ content = Zero
  /\ recency = Unwritten
  /\ samples = 0
  /\ locked = {}
  /\ pc = [m \in Monitors |-> "update"]
  /\ next = [m \in Monitors |-> 0]
  /\ holds = [m \in Monitors |-> {}]
  /\ unseen = [m \in Monitors |-> {}]
  /\ updated = [m \in Monitors |-> {}]
  /\ view = [m \in Monitors |-> Zero]
  /\ age = [m \in Monitors |-> Unwritten]
  /\ cache = [m \in Monitors |-> Zero]
  /\ dirty = [m \in Monitors |-> {}]
  /\ todo = [m \in Monitors |-> {}]
  /\ flush = [m \in Monitors |-> FALSE]
  /\ killed = {}
  /\ restarts = 0
  /\ taken = {}

-----------------------------------------------------------------------------
At(m, l) == pc[m] = l
Goto(m, l) == pc' = [pc EXCEPT ![m] = l]
From(m, i) == next' = [next EXCEPT ![m] = i]

\* A semaphore that a signal leaves taken is never posted again.  "writers" stands
\* for a writer that is gone but still counted, so that readTry stays taken from
\* readers and open to writers.
CanRead  == taken \cap OfReaders = {}
CanWrite == taken \cap OfWriters = {}

\* Once neither readers nor writers get in, it does not matter which are taken.
Leave(s) ==
  LET t == taken \cup s
  IN  taken' = IF t \cap OfReaders # {} /\ t \cap OfWriters # {} THEN OfReaders \cup OfWriters ELSE t

PacketsOf(x) == IF x \in Downlinked THEN {x} ELSE Places[x]

\* write: the packet's data, and its nonce moves to the front.
WritePacket(p, d) ==
  /\ content' = [content EXCEPT ![p] = d]
  /\ recency' = [q \in Packets |-> IF q = p THEN {p} ELSE recency[q] \cup {p}]
  /\ unseen' = [m \in Monitors |-> unseen[m] \cup {p}]

\* decom receives a sample of packet s.
Downlink(s) ==
  /\ samples < MaxSamples
  /\ CanWrite
  /\ samples' = samples + 1
  /\ WritePacket(s, [content[s] EXCEPT ![s] = samples + 1])
  /\ UNCHANGED <<locked, control, holds, updated, view, age, writer, todo, flush, process>>

\* latest_data: the measurement in the packet updated last; in any of them, as
\* every packet starts with zeros, when none was.
Lasts(since, ps) == {p \in ps : since[p] \cap ps \subseteq {p}}
Latest(since, ps) == CHOOSE p \in Lasts(since, ps) : TRUE
LatestData(m, x) == view[m][Latest(age[m], PacketsOf(x))][x]

-----------------------------------------------------------------------------
\* The triggers of the packets that changed (packet_map).  One whose
\* measurement is in several of them is called once for each, with the same
\* result, and once here.
Triggered(m, changed) ==
  {t \in Triggers : t.monitor = m /\ PacketsOf(t.on) \cap changed # {}}

ReadAll(m) ==
  /\ At(m, "update")
  /\ m \notin killed
  /\ unseen[m] # {}
  /\ CanRead
  /\ updated' = [updated EXCEPT ![m] = unseen[m]]
  /\ view' = [view EXCEPT ![m] = [p \in Packets |-> IF p \in unseen[m] THEN content[p] ELSE @[p]]]
  /\ age' = [age EXCEPT ![m] = recency]
  /\ unseen' = [unseen EXCEPT ![m] = {}]
  /\ Goto(m, "lock")
  /\ From(m, 0)
  /\ UNCHANGED <<shared, locked, holds, writer, todo, flush>>

Update(m) == ReadAll(m) /\ UNCHANGED process

\* Mutant: lock does not bring the cache up to date.
LockPacketStale(m) ==
  /\ At(m, "lock")
  /\ next[m] < NumVirtual
  /\ next[m] \notin locked
  /\ locked' = locked \cup {next[m]}
  /\ holds' = [holds EXCEPT ![m] = @ \cup {next[m]}]
  /\ From(m, next[m] + 1)
  /\ UNCHANGED <<shared, pc, viewer, writer, todo, flush, process>>

\* Mutant: lock copies the packet without taking its write lock.
LockPacketFreely(m) ==
  /\ At(m, "lock")
  /\ next[m] < NumVirtual
  /\ holds' = [holds EXCEPT ![m] = @ \cup {next[m]}]
  /\ cache' = [cache EXCEPT ![m][next[m]] = content[next[m]]]
  /\ From(m, next[m] + 1)
  /\ UNCHANGED <<shared, pc, locked, viewer, dirty, todo, flush, process>>

\* write_lock of the next virtual packet, and the copy under it.
LockPacket(m) ==
  /\ At(m, "lock")
  /\ next[m] < NumVirtual
  /\ next[m] \notin locked
  /\ locked' = locked \cup {next[m]}
  /\ holds' = [holds EXCEPT ![m] = @ \cup {next[m]}]
  /\ IF m \in CheckUpdates \/ next[m] \in updated[m]
       THEN cache' = [cache EXCEPT ![m][next[m]] = content[next[m]]]
       ELSE UNCHANGED cache
  /\ From(m, next[m] + 1)
  /\ UNCHANGED <<shared, pc, viewer, dirty, todo, flush, process>>

AllLocked(m) ==
  /\ At(m, "lock")
  /\ next[m] = NumVirtual
  /\ todo' = [todo EXCEPT ![m] = Triggered(m, updated[m])]
  /\ Goto(m, "trigger")
  /\ UNCHANGED <<shared, locked, next, holds, viewer, writer, flush, process>>

\* Mutant: the result goes into one of its packets only.
WriteResultOnce(m, t) ==
  LET p == CHOOSE q \in Places[t.out] : TRUE
  IN  /\ cache' = [cache EXCEPT ![m][p][t.out] = LatestData(m, t.on)]
      /\ dirty' = [dirty EXCEPT ![m] = @ \cup {p}]

\* A trigger function ran with the measurement as of the last update, and
\* TelemetryWriter::write put the result into every virtual packet it is in.
WriteResult(m, t) ==
  /\ cache' = [cache EXCEPT ![m] =
       [p \in Packets |-> IF p \in Places[t.out]
                            THEN [@[p] EXCEPT ![t.out] = LatestData(m, t.on)] ELSE @[p]]]
  /\ dirty' = [dirty EXCEPT ![m] = @ \cup Places[t.out]]

RunTrigger(m, t) ==
  /\ At(m, "trigger")
  /\ t \in todo[m]
  /\ todo' = [todo EXCEPT ![m] = @ \ {t}]
  /\ \/ WriteResult(m, t) /\ flush' = [flush EXCEPT ![m] = TRUE]
     \/ t \in Partial /\ WriteResult(m, t) /\ UNCHANGED flush
     \/ t \in Hesitant /\ UNCHANGED <<writer, flush>>
  /\ UNCHANGED <<shared, locked, control, holds, viewer, process>>

TriggersDone(m) ==
  /\ At(m, "trigger")
  /\ todo[m] = {}
  /\ Goto(m, IF flush[m] THEN "flush" ELSE "unlock")
  /\ From(m, 0)
  /\ UNCHANGED <<shared, locked, holds, viewer, writer, todo, flush, process>>

\* flush writes the packets that were written to, in the order of their index.
\* Once the handler has detached the shared memory, write fails and flush goes
\* on; the packet counts as flushed all the same.
StartWrite(m) ==
  /\ At(m, "flush")
  /\ next[m] \in dirty[m]
  /\ m \notin killed
  /\ Goto(m, "write")
  /\ UNCHANGED <<shared, locked, next, holds, viewer, writer, todo, flush, process>>

WriteNext(m) ==
  /\ At(m, "write")
  /\ CanWrite
  /\ WritePacket(next[m], cache[m][next[m]])
  /\ dirty' = [dirty EXCEPT ![m] = @ \ {next[m]}]
  /\ From(m, next[m] + 1)
  /\ Goto(m, "flush")
  /\ UNCHANGED <<samples, locked, holds, updated, view, age, cache, todo, flush>>

FinishWrite(m) == WriteNext(m) /\ UNCHANGED process

SkipPacket(m) ==
  /\ At(m, "flush")
  /\ next[m] \in Virtual
  /\ next[m] \in dirty[m] => m \in killed
  /\ dirty' = [dirty EXCEPT ![m] = @ \ {next[m]}]
  /\ From(m, next[m] + 1)
  /\ UNCHANGED <<shared, locked, pc, holds, viewer, cache, todo, flush, process>>

Flushed(m) ==
  /\ At(m, "flush")
  /\ next[m] = NumVirtual
  /\ flush' = [flush EXCEPT ![m] = FALSE]
  /\ Goto(m, "unlock")
  /\ From(m, 0)
  /\ UNCHANGED <<shared, locked, holds, viewer, writer, todo, process>>

UnlockPacket(m) ==
  /\ At(m, "unlock")
  /\ next[m] < NumVirtual
  /\ locked' = locked \ {next[m]}
  /\ holds' = [holds EXCEPT ![m] = @ \ {next[m]}]
  /\ From(m, next[m] + 1)
  /\ UNCHANGED <<shared, pc, viewer, writer, todo, flush, process>>

Unlocked(m) ==
  /\ At(m, "unlock")
  /\ next[m] = NumVirtual
  /\ Goto(m, IF m \in killed THEN "exited" ELSE "update")
  /\ UNCHANGED <<shared, locked, next, holds, viewer, writer, todo, flush, process>>

-----------------------------------------------------------------------------
(* sighandler: the shared semaphores are detached, and a page of zeros is   *)
(* mapped in their place.  A sem_wait from there on never returns, and a    *)
(* sem_post is lost; the pass goes on to its end if it meets no sem_wait.   *)

Signalled(m) ==
  /\ m \in Killable \ killed
  /\ killed' = killed \cup {m}
  /\ UNCHANGED restarts

\* Outside of TelemetryShm's read_lock, read_unlock and write.
Kill(m) ==
  /\ Signalled(m)
  /\ pc[m] \notin {"update", "write"}
  /\ UNCHANGED <<shared, locked, control, holds, viewer, writer, todo, flush, taken>>

\* In update: asleep or about to be, on the way in, or before the way out.  It
\* fails or is interrupted, or waits in the page of zeros.
KillReading(m) ==
  /\ Signalled(m)
  /\ At(m, "update")
  /\ \/ /\ Goto(m, "exited")
        /\ \E s \in {{}, {"rmutex"}, {"resource"}, {"rmutex", "resource"},
                     {"readTry", "resource"}, {"readTry", "rmutex", "resource"}} :
             (s # {} => CanRead) /\ Leave(s)
     \/ /\ \E s \in {{}, {"resource"}, {"readTry"}, {"readTry", "rmutex"},
                     {"readTry", "rmutex", "resource"}} :
             (s # {} => CanRead) /\ Leave(s)
        /\ Goto(m, "stuck")
  /\ UNCHANGED <<shared, locked, next, holds, viewer, writer, todo, flush>>

\* In write, up to its second P(wmutex), where it waits in the page of zeros if
\* not before.  From P(resource) on the packet is copied.
KillWriting(m) ==
  /\ Signalled(m)
  /\ At(m, "write")
  /\ Goto(m, "hung")
  /\ \/ /\ UNCHANGED <<content, recency, unseen>>
        /\ \/ Leave({})
           \/ "wmutex" \notin taken /\ Leave({"wmutex"})
           \/ /\ taken \cap {"wmutex", "readTry"} = {}
              /\ \E s \in {{"writers"}, {"wmutex", "writers"}} : Leave(s)
     \/ /\ CanWrite
        /\ WritePacket(next[m], cache[m][next[m]])
        /\ \E s \in {{"writers"}, {"writers", "resource"}} : Leave(s)
  /\ UNCHANGED <<samples, locked, next, holds, updated, view, age, writer, todo, flush>>

\* On the way out, past the last sem_wait: the call returns, and the pass goes on.
KillLeaving(m) ==
  /\ Signalled(m)
  /\ \/ ReadAll(m) /\ \E s \in {{"rmutex"}, {"rmutex", "resource"}} : Leave(s)
     \/ /\ WriteNext(m)
        /\ \E s \in {{"wmutex"}, {"wmutex", "readTry"}, {"wmutex", "writers"}} : Leave(s)

Signal(m) == Kill(m) \/ KillReading(m) \/ KillWriting(m) \/ KillLeaving(m)

\* A reader waits for rmutex with readTry taken.
BlockedRead(m) ==
  /\ At(m, "update") /\ m \notin killed
  /\ "rmutex" \in taken /\ taken \cap {"readTry", "writers"} = {}
  /\ Leave({"readTry"})
  /\ UNCHANGED <<shared, locked, control, holds, viewer, writer, todo, flush, killed, restarts>>

\* A writer, decom or a monitor, waits for resource, counted.
BlockedWrite ==
  /\ samples < MaxSamples \/ \E m \in Monitors : At(m, "write")
  /\ "resource" \in taken /\ taken \cap {"wmutex", "readTry", "writers"} = {}
  /\ Leave({"writers"})
  /\ UNCHANGED <<shared, locked, control, holds, viewer, writer, todo, flush, killed, restarts>>

\* Mutant: what was written before the start is not news.
RestartBlank(m) ==
  /\ At(m, "exited")
  /\ restarts < MaxRestarts
  /\ restarts' = restarts + 1
  /\ killed' = killed \ {m}
  /\ Goto(m, "update")
  /\ unseen' = [unseen EXCEPT ![m] = {}]
  /\ updated' = [updated EXCEPT ![m] = {}]
  /\ view' = [view EXCEPT ![m] = Zero]
  /\ cache' = [cache EXCEPT ![m] = Zero]
  /\ dirty' = [dirty EXCEPT ![m] = {}]
  /\ flush' = [flush EXCEPT ![m] = FALSE]
  /\ age' = [age EXCEPT ![m] = Unwritten]
  /\ UNCHANGED <<shared, locked, next, holds, todo, taken>>

Written == {p \in Packets : p \in recency[p]}

\* A monitor stopped between two passes is started again: an empty cache, an
\* empty view, and every packet that was ever written is news.
Restart(m) ==
  /\ At(m, "exited")
  /\ restarts < MaxRestarts
  /\ restarts' = restarts + 1
  /\ killed' = killed \ {m}
  /\ Goto(m, "update")
  /\ unseen' = [unseen EXCEPT ![m] = Written]
  /\ updated' = [updated EXCEPT ![m] = {}]
  /\ view' = [view EXCEPT ![m] = Zero]
  /\ cache' = [cache EXCEPT ![m] = Zero]
  /\ dirty' = [dirty EXCEPT ![m] = {}]
  /\ flush' = [flush EXCEPT ![m] = FALSE]
  /\ age' = [age EXCEPT ![m] = Unwritten]
  /\ UNCHANGED <<shared, locked, next, holds, todo, taken>>

-----------------------------------------------------------------------------
Step(m) ==
  \/ Update(m) \/ LockPacket(m) \/ AllLocked(m)
  \/ (\E t \in Triggers : RunTrigger(m, t)) \/ TriggersDone(m)
  \/ StartWrite(m) \/ FinishWrite(m) \/ SkipPacket(m) \/ Flushed(m)
  \/ UnlockPacket(m) \/ Unlocked(m)

\* In log_packet of the packet next[m], which waits while dlp's queue is full.
Logs(m) == At(m, "flush") /\ next[m] \in dirty[m]

\* The system may stop when no sample is left or none can be written, and every
\* monitor has seen all, has ended, or waits for what a signal has left taken.
Lost == UNION {holds[m] : m \in {h \in Monitors : At(h, "hung") \/ (At(h, "write") /\ ~CanWrite)}}
Stop ==
  /\ samples = MaxSamples \/ ~CanWrite
  /\ \A m \in Monitors : \/ At(m, "update") /\ (unseen[m] = {} \/ ~CanRead)
                         \/ At(m, "lock") /\ next[m] \in Lost
                         \/ At(m, "write") /\ ~CanWrite
                         \/ pc[m] \in {"exited", "stuck", "hung"}
  /\ UNCHANGED vars

Next ==
  \/ \E s \in Downlinked : Downlink(s)
  \/ \E m \in Monitors : Step(m) \/ Signal(m) \/ BlockedRead(m) \/ Restart(m)
  \/ BlockedWrite
  \/ Stop

Spec == Init /\ [][Next]_vars

\* A monitor that can take a step takes it, except that log_packet may wait for
\* ever.  sem_wait promises no more than that: a monitor may lose the race for a
\* write lock for as long as others come back for it.
FairSpec == Spec /\ \A m \in Monitors : WF_vars(~Logs(m) /\ Step(m))

-----------------------------------------------------------------------------
\* "don't want anyone writing to our virtual packets at the same time": while a
\* monitor holds a packet, what it would write back of the measurements of
\* others is what the shared packet says.
OutputsOf(m) == {t.out : t \in {u \in Triggers : u.monitor = m}}
CacheIsCurrent ==
  \A m \in Monitors : \A p \in holds[m] : \A x \in Names \ OutputsOf(m) :
    cache[m][p][x] = content[p][x]

\* "we want to not overwrite someone else's write with what's in our cache": no
\* measurement in shared memory goes back to an older sample.  If a trigger reads
\* a measurement that is in several packets, this takes that no signal cuts a
\* flush short: the copy left behind is written again by the next monitor, and
\* then is the newest to latest_data.
NeverReverts ==
  [][\A p \in Packets : \A x \in Names : content'[p][x] >= content[p][x]]_vars

\* Who reads a measurement that is in several virtual packets finds the same
\* value in all of them, except while a monitor is in the middle of a flush or
\* a signal has cut one short.
CopiesAgree ==
  killed = {} /\ restarts = 0 /\ (\A m \in Monitors : pc[m] \notin {"flush", "write"}) =>
    \A x \in Computed : \A p, q \in Places[x] : content[p][x] = content[q][x]

\* Once nothing more comes down, every measurement a running monitor computes is
\* computed from the newest sample, and stays so: also after the monitor was
\* stopped and started again, unless a signal left a semaphore or a write lock
\* taken or a monitor never comes back from its logger, and unless the trigger
\* function declines.
Settled ==
  <>[](\A t \in Triggers \ (Hesitant \cup Partial) :
         /\ t.monitor \notin killed
         /\ taken = {} /\ \A m \in Monitors : ~At(m, "hung") /\ ~Logs(m)
         => \A p \in Places[t.out], q \in PacketsOf(t.on) : content[p][t.out] = content[q][t.on])
=============================================================================
