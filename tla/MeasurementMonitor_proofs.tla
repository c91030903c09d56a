---------------------- MODULE MeasurementMonitor_proofs ----------------------
(***************************************************************************)
(* Any number of monitors with any triggers, killed and restarted as often *)
(* as they may be, write their virtual packets from current caches.        *)
(*                                                                         *)
(* CacheIsCurrent is inductive only together with who holds which lock:    *)
(* a write under way is of a packet its monitor holds, so it is in nobody  *)
(* else's cache.                                                           *)
(*                                                                         *)
(* The copies of a result in several packets agree outside a flush         *)
(* (CopiesStayEqual) by a longer invariant, Results, about the one monitor *)
(* that computes it; Alone is what it takes for a monitor that calls       *)
(* lock(false).                                                            *)
(*                                                                         *)
(* That nothing goes back (NothingReverts) follows a value from the sample *)
(* through any number of monitors.                                         *)
(***************************************************************************)
EXTENDS MeasurementMonitor, TLAPS

\* What a monitor has locked is decided by where it is.
Held(m) ==
  {i \in Virtual : \/ At(m, "lock") /\ i < next[m]
                   \/ At(m, "unlock") /\ next[m] <= i
                   \/ pc[m] \in {"trigger", "flush", "write", "hung"}}

Locks ==
  /\ \A m \in Monitors : holds[m] = Held(m) /\ holds[m] \subseteq locked
  /\ \A m, n \in Monitors : m # n => holds[m] \cap holds[n] = {}
  /\ \A m \in Monitors : At(m, "write") => next[m] \in Virtual

OwnTriggers == \A m \in Monitors : \A t \in todo[m] : t.monitor = m

IInv == TypeOK /\ Locks /\ OwnTriggers

\* What a step does to all but the processes and the semaphores a signal leaves
\* taken: nothing, or what a pass does, also if a signal comes on the way out of
\* read_unlock or write, or a signal ends update or cuts write short.
Idle == UNCHANGED <<shared, locked, control, holds, viewer, writer, todo, flush>>

Pass(m) ==
  \/ ReadAll(m) \/ LockPacket(m) \/ AllLocked(m)
  \/ (\E t \in Triggers : RunTrigger(m, t)) \/ TriggersDone(m)
  \/ StartWrite(m) \/ WriteNext(m) \/ SkipPacket(m) \/ Flushed(m)
  \/ UnlockPacket(m) \/ Unlocked(m)

Ends(m) ==
  /\ At(m, "update")
  /\ Goto(m, "exited") \/ Goto(m, "stuck")
  /\ UNCHANGED <<shared, locked, next, holds, viewer, writer, todo, flush>>

Acts(m) == Pass(m) \/ Ends(m) \/ KillWriting(m) \/ Restart(m)

LEMMA NextActs ==
  ASSUME [Next]_vars
  PROVE  \/ \E s \in Downlinked : Downlink(s)
         \/ \E m \in Monitors : Acts(m)
         \/ Idle
<1>1. ASSUME NEW m \in Monitors, Step(m) PROVE Pass(m)
  BY <1>1 DEF Step, Pass, Update, FinishWrite
<1>2. ASSUME NEW m \in Monitors, Signal(m) PROVE Acts(m) \/ Idle
  <2>1. Kill(m) => Idle
    BY DEF Kill, Idle
  <2>2. KillReading(m) => Ends(m)
    BY DEF KillReading, Ends
  <2>3. KillLeaving(m) => Pass(m)
    BY DEF KillLeaving, Pass
  <2> QED
    BY <1>2, <2>1, <2>2, <2>3 DEF Signal, Acts
<1>3. BlockedWrite \/ Stop \/ UNCHANGED vars => Idle
  BY DEF BlockedWrite, Stop, vars, Idle
<1>4. \A m \in Monitors : BlockedRead(m) => Idle
  BY DEF BlockedRead, Idle
<1> QED
  BY <1>1, <1>2, <1>3, <1>4 DEF Next, Acts

\* Who has been killed, the restarts and the semaphores left taken.
LEMMA ProcessTypes ==
  ASSUME TypeOK, [Next]_vars
  PROVE  /\ killed' \subseteq Monitors /\ restarts' \in 0 .. MaxRestarts
         /\ taken' \subseteq OfReaders \cup OfWriters
<1>1. ASSUME NEW m \in Monitors, Signal(m)
      PROVE  killed' = killed \cup {m} /\ UNCHANGED restarts
  BY <1>1 DEF Signal, Signalled, Kill, KillReading, KillWriting, KillLeaving
<1>l. ASSUME NEW s \in SUBSET (OfReaders \cup OfWriters), Leave(s)
      PROVE  taken' \subseteq OfReaders \cup OfWriters
  BY <1>l DEF Leave, TypeOK
<1>2. ASSUME NEW m \in Monitors, Signal(m)
      PROVE  taken' \subseteq OfReaders \cup OfWriters
  <2>1. CASE Kill(m)
    BY <2>1 DEF Kill, TypeOK
  <2>2. ASSUME NEW s, s \in SUBSET {"readTry", "rmutex", "wmutex", "resource", "writers"}, Leave(s)
        PROVE  taken' \subseteq OfReaders \cup OfWriters
    BY <1>l, <2>2 DEF OfReaders, OfWriters
  <2>3. CASE KillReading(m)
    BY <2>2, <2>3 DEF KillReading
  <2>4. CASE KillWriting(m)
    BY <2>2, <2>4 DEF KillWriting
  <2>5. CASE KillLeaving(m)
    BY <2>2, <2>5 DEF KillLeaving
  <2> QED
    BY <1>2, <2>1, <2>3, <2>4, <2>5 DEF Signal
<1>3. ASSUME NEW m \in Monitors, Restart(m)
      PROVE  /\ killed' \subseteq Monitors /\ restarts' \in 0 .. MaxRestarts
             /\ UNCHANGED taken
  BY <1>3, MonitorAssumption DEF Restart, TypeOK
<1>4. ASSUME BlockedWrite \/ \E m \in Monitors : BlockedRead(m)
      PROVE  UNCHANGED <<killed, restarts>> /\ taken' \subseteq OfReaders \cup OfWriters
  <2>1. UNCHANGED <<killed, restarts>> /\ (Leave({"readTry"}) \/ Leave({"writers"}))
    BY <1>4 DEF BlockedWrite, BlockedRead
  <2> QED
    BY <1>l, <2>1 DEF OfReaders, OfWriters
<1>5. (\E s \in Downlinked : Downlink(s)) \/ (\E m \in Monitors : Step(m)) \/ Stop \/ UNCHANGED vars
        => UNCHANGED process
  BY DEF Downlink, Step, Update, LockPacket, AllLocked, RunTrigger, TriggersDone, StartWrite,
     FinishWrite, SkipPacket, Flushed, UnlockPacket, Unlocked, Stop, vars
<1> QED
  BY <1>1, <1>2, <1>3, <1>4, <1>5 DEF Next, process, TypeOK

-----------------------------------------------------------------------------
LEMMA InitInv == Init => IInv
<1> SUFFICES ASSUME Init PROVE IInv
  OBVIOUS
<1>1. TypeOK
  BY MonitorAssumption DEF Init, TypeOK, Image, Zero, Unwritten
<1>2. Locks /\ OwnTriggers
  BY DEF Init, Locks, Held, At, OwnTriggers
<1> QED
  BY <1>1, <1>2 DEF IInv

\* A virtual packet is a number below NumVirtual.
LEMMA Numbers ==
  /\ NumVirtual \in Nat /\ NumVirtual > 0
  /\ Virtual \subseteq Nat
  /\ \A i \in 0 .. NumVirtual : i \in Virtual <=> i < NumVirtual
  /\ Virtual \subseteq Packets
  BY MonitorAssumption DEF Virtual, Packets

LEMMA Successor ==
  ASSUME NEW n \in Nat, NEW i \in Nat
  PROVE  /\ i < n + 1 <=> i < n \/ i = n
         /\ n + 1 <= i <=> n <= i /\ i # n
  OBVIOUS

\* The results of a trigger function go into virtual packets.
LEMMA ResultPlaces ==
  ASSUME NEW t \in Triggers
  PROVE  /\ t.out \in Computed /\ t.out \in Names
         /\ Places[t.out] \subseteq Virtual
<1>1. t.out \in Computed
  BY MonitorAssumption
<1>2. Places[t.out] \in (SUBSET Virtual) \ {{}}
  BY <1>1, MonitorAssumption
<1> QED
  BY <1>1, <1>2 DEF Names

\* Writing a packet leaves every packet whole.
LEMMA WriteTypes ==
  ASSUME TypeOK, NEW p \in Packets, NEW d, d = [x \in Names |-> d[x]], WritePacket(p, d)
  PROVE  /\ Image(content')
         /\ unseen' \in [Monitors -> SUBSET Packets]
         /\ recency' \in [Packets -> SUBSET Packets]
         /\ content'[p] = d
         /\ \A q \in Packets : q # p => content'[q] = content[q]
<1>1. content = [q \in Packets |-> content[q]]
  BY DEF TypeOK, Image
<1>2. content' = [q \in Packets |-> IF q = p THEN d ELSE content[q]]
  BY <1>1 DEF WritePacket
<1>3. Image(content')
  <2>1. content' = [q \in Packets |-> content'[q]]
    BY <1>2
  <2>2. ASSUME NEW q \in Packets PROVE content'[q] = [x \in Names |-> content'[q][x]]
    BY <1>2 DEF TypeOK, Image
  <2> QED
    BY <2>1, <2>2 DEF Image
<1>4. /\ unseen' \in [Monitors -> SUBSET Packets]
      /\ recency' \in [Packets -> SUBSET Packets]
  BY DEF WritePacket, TypeOK
<1> QED
  BY <1>2, <1>3, <1>4

\* A result goes into the monitor's own cache, and there only into its own
\* measurement.
LEMMA WriteResultTypes ==
  ASSUME TypeOK, NEW m \in Monitors, NEW t \in Triggers, WriteResult(m, t)
  PROVE  /\ cache' = [n \in Monitors |-> cache'[n]]
         /\ \A n \in Monitors : Image(cache'[n])
         /\ dirty' \in [Monitors -> SUBSET Virtual]
         /\ \A n \in Monitors : n # m => cache'[n] = cache[n]
         /\ \A p \in Packets : \A x \in Names : x # t.out => cache'[m][p][x] = cache[m][p][x]
         /\ \A p \in Places[t.out] : cache'[m][p][t.out] = LatestData(m, t.on)
<1> DEFINE v == LatestData(m, t.on)
<1> HIDE DEF v
<1>1. cache = [n \in Monitors |-> cache[n]]
  BY DEF TypeOK
<1>2. cache' = [n \in Monitors |->
        IF n = m THEN [p \in Packets |-> IF p \in Places[t.out]
                                           THEN [cache[m][p] EXCEPT ![t.out] = v] ELSE cache[m][p]]
        ELSE cache[n]]
  BY <1>1 DEF WriteResult, v
<1>3. \A p \in Packets : cache[m][p] = [x \in Names |-> cache[m][p][x]]
  BY DEF TypeOK, Image
<1>4. \A p \in Packets : cache'[m][p] = [x \in Names |->
        IF p \in Places[t.out] /\ x = t.out THEN v ELSE cache[m][p][x]]
  BY <1>2, <1>3
<1>5. Image(cache'[m])
  <2>1. cache'[m] = [p \in Packets |-> cache'[m][p]]
    BY <1>2
  <2>2. \A p \in Packets : cache'[m][p] = [x \in Names |-> cache'[m][p][x]]
    BY <1>4
  <2> QED
    BY <2>1, <2>2 DEF Image
<1>6. \A n \in Monitors : Image(cache'[n])
  BY <1>2, <1>5 DEF TypeOK
<1>7. dirty' \in [Monitors -> SUBSET Virtual]
  BY ResultPlaces DEF WriteResult, TypeOK
<1>8. \A n \in Monitors : n # m => cache'[n] = cache[n]
  BY <1>2
<1>9. ASSUME NEW p \in Packets, NEW x \in Names, x # t.out
      PROVE  cache'[m][p][x] = cache[m][p][x]
  <2> DEFINE f == [y \in Names |-> IF p \in Places[t.out] /\ y = t.out THEN v ELSE cache[m][p][y]]
  <2>1. f[x] = cache[m][p][x]
    BY <1>9
  <2> HIDE DEF f
  <2>2. cache'[m][p] = f
    BY <1>4 DEF f
  <2> QED
    BY <2>1, <2>2
<1>10. cache' = [n \in Monitors |-> cache'[n]]
  BY <1>2
<1>11. \A p \in Places[t.out] : cache'[m][p][t.out] = v
  <2>1. t.out \in Names /\ Places[t.out] \subseteq Packets
    BY ResultPlaces, Numbers
  <2> QED
    BY <1>4, <2>1
<1> QED
  BY <1>6, <1>7, <1>8, <1>9, <1>10, <1>11 DEF v

-----------------------------------------------------------------------------
\* Every step leaves the variables with their types.
LEMMA StepTypes ==
  ASSUME IInv, [Next]_vars
  PROVE  TypeOK'
<1> USE DEF IInv
<1> USE Numbers
<1>p. /\ killed' \subseteq Monitors /\ restarts' \in 0 .. MaxRestarts
      /\ taken' \subseteq OfReaders \cup OfWriters
  BY ProcessTypes
<1>1. ASSUME NEW s \in Downlinked, Downlink(s) PROVE TypeOK'
  <2> DEFINE d == [content[s] EXCEPT ![s] = samples + 1]
  <2>1. s \in Packets
    BY DEF Packets
  <2>2. d = [x \in Names |-> d[x]]
    BY <2>1 DEF TypeOK, Image
  <2>3. WritePacket(s, d)
    BY <1>1 DEF Downlink
  <2> HIDE DEF d
  <2>4. /\ Image(content') /\ unseen' \in [Monitors -> SUBSET Packets]
        /\ recency' \in [Packets -> SUBSET Packets]
    BY <2>1, <2>2, <2>3, WriteTypes
  <2>5. samples' \in 0 .. MaxSamples
    BY <1>1, MonitorAssumption DEF Downlink, TypeOK
  <2> QED
    BY <1>1, <2>4, <2>5, <1>p DEF Downlink, TypeOK, control, writer
<1>2. ASSUME NEW m \in Monitors, ReadAll(m) PROVE TypeOK'
  <2>1. Image(view'[m])
    BY <1>2 DEF ReadAll, TypeOK, Image
  <2>2. view' = [n \in Monitors |-> view'[n]] /\ \A n \in Monitors : Image(view'[n])
    BY <1>2, <2>1 DEF ReadAll, TypeOK
  <2> QED
    BY <1>2, <2>2, <1>p DEF ReadAll, At, Goto, From, TypeOK, shared, writer
<1>3. ASSUME NEW m \in Monitors, LockPacket(m) PROVE TypeOK'
  <2>1. next[m] \in Virtual /\ next[m] + 1 \in 0 .. NumVirtual
    BY <1>3 DEF LockPacket, TypeOK
  <2>2. cache' = [n \in Monitors |-> cache'[n]] /\ \A n \in Monitors : Image(cache'[n])
    <3>1. CASE UNCHANGED cache
      BY <3>1 DEF TypeOK
    <3>2. CASE cache' = [cache EXCEPT ![m][next[m]] = content[next[m]]]
      <4>a. next[m] \in Packets /\ Image(cache[m]) /\ Image(content)
        BY <2>1 DEF TypeOK
      <4>b. cache'[m] = [cache[m] EXCEPT ![next[m]] = content[next[m]]]
        BY <3>2 DEF TypeOK
      <4>c. cache'[m] = [q \in Packets |-> IF q = next[m] THEN content[q] ELSE cache[m][q]]
        BY <4>a, <4>b DEF Image
      <4>d. \A q \in Packets : cache'[m][q] = [x \in Names |-> cache'[m][q][x]]
        BY <4>a, <4>c DEF Image
      <4>1. Image(cache'[m])
        BY <4>c, <4>d DEF Image
      <4> QED
        BY <3>2, <4>1 DEF TypeOK
    <3> QED
      BY <1>3, <3>1, <3>2 DEF LockPacket
  <2>3. locked' \subseteq Virtual /\ holds' \in [Monitors -> SUBSET Virtual]
        /\ next' \in [Monitors -> 0 .. NumVirtual]
    BY <1>3, <2>1 DEF LockPacket, From, TypeOK
  <2> QED
    BY <1>3, <2>2, <2>3, <1>p DEF LockPacket, TypeOK, shared, viewer
<1>4. ASSUME NEW m \in Monitors, AllLocked(m) PROVE TypeOK'
  BY <1>4, <1>p DEF AllLocked, At, Goto, Triggered, TypeOK, shared, viewer, writer
<1>5. ASSUME NEW m \in Monitors, NEW t \in Triggers, RunTrigger(m, t) PROVE TypeOK'
  <2>1. /\ cache' = [n \in Monitors |-> cache'[n]]
        /\ \A n \in Monitors : Image(cache'[n])
        /\ dirty' \in [Monitors -> SUBSET Virtual]
    <3>1. CASE WriteResult(m, t)
      BY <3>1, WriteResultTypes
    <3>2. CASE UNCHANGED writer
      BY <3>2 DEF writer, TypeOK
    <3> QED
      BY <1>5, <3>1, <3>2 DEF RunTrigger
  <2>2. flush' \in [Monitors -> BOOLEAN] /\ todo' \in [Monitors -> SUBSET Triggers]
    BY <1>5 DEF RunTrigger, TypeOK
  <2> QED
    BY <1>5, <2>1, <2>2, <1>p DEF RunTrigger, TypeOK, shared, control, viewer
<1>6. ASSUME NEW m \in Monitors, TriggersDone(m) PROVE TypeOK'
  BY <1>6, <1>p DEF TriggersDone, At, Goto, From, TypeOK, shared, viewer, writer
<1>7. ASSUME NEW m \in Monitors, StartWrite(m) PROVE TypeOK'
  BY <1>7, <1>p DEF StartWrite, At, Goto, TypeOK, shared, viewer, writer
<1>8. ASSUME NEW m \in Monitors, WriteNext(m) PROVE TypeOK'
  <2>1. next[m] \in Virtual /\ next[m] \in Packets /\ next[m] + 1 \in 0 .. NumVirtual
    BY <1>8 DEF WriteNext, Locks, TypeOK
  <2>2. cache[m][next[m]] = [x \in Names |-> cache[m][next[m]][x]]
    BY <2>1 DEF TypeOK, Image
  <2>3. /\ Image(content') /\ unseen' \in [Monitors -> SUBSET Packets]
        /\ recency' \in [Packets -> SUBSET Packets]
    BY <1>8, <2>1, <2>2, WriteTypes DEF WriteNext
  <2> QED
    BY <1>8, <2>1, <2>3, <1>p DEF WriteNext, Goto, From, TypeOK
<1>9. ASSUME NEW m \in Monitors, SkipPacket(m) PROVE TypeOK'
  BY <1>9, <1>p DEF SkipPacket, From, TypeOK, shared, viewer
<1>10. ASSUME NEW m \in Monitors, Flushed(m) PROVE TypeOK'
  BY <1>10, <1>p DEF Flushed, Goto, From, TypeOK, shared, viewer, writer
<1>11. ASSUME NEW m \in Monitors, UnlockPacket(m) PROVE TypeOK'
  BY <1>11, <1>p DEF UnlockPacket, From, TypeOK, shared, viewer, writer
<1>12. ASSUME NEW m \in Monitors, Unlocked(m) PROVE TypeOK'
  BY <1>12, <1>p DEF Unlocked, Goto, TypeOK, shared, viewer, writer
<1>13. ASSUME NEW m \in Monitors, Ends(m) PROVE TypeOK'
  BY <1>13, <1>p DEF Ends, Goto, TypeOK, shared, viewer, writer
<1>14. ASSUME NEW m \in Monitors, KillWriting(m) PROVE TypeOK'
  <2>1. next[m] \in Packets
    BY <1>14 DEF KillWriting, Locks
  <2>2. cache[m][next[m]] = [x \in Names |-> cache[m][next[m]][x]]
    BY <2>1 DEF TypeOK, Image
  <2>3. /\ Image(content') /\ unseen' \in [Monitors -> SUBSET Packets]
        /\ recency' \in [Packets -> SUBSET Packets]
    <3>1. CASE WritePacket(next[m], cache[m][next[m]])
      BY <3>1, <2>1, <2>2, WriteTypes
    <3>2. CASE UNCHANGED <<content, recency, unseen>>
      BY <3>2 DEF TypeOK
    <3> QED
      BY <1>14, <3>1, <3>2 DEF KillWriting
  <2>4. pc' \in [Monitors -> {"update", "lock", "trigger", "flush", "write", "unlock",
                             "exited", "stuck", "hung"}]
    BY <1>14 DEF KillWriting, Goto, TypeOK
  <2> QED
    BY <1>14, <2>3, <2>4, <1>p DEF KillWriting, TypeOK, writer
<1>15. ASSUME NEW m \in Monitors, Restart(m) PROVE TypeOK'
  <2>1. Image(Zero)
    BY DEF Image, Zero
  <2>2. view' = [n \in Monitors |-> view'[n]] /\ \A n \in Monitors : Image(view'[n])
    BY <1>15, <2>1 DEF Restart, TypeOK
  <2>3. cache' = [n \in Monitors |-> cache'[n]] /\ \A n \in Monitors : Image(cache'[n])
    BY <1>15, <2>1 DEF Restart, TypeOK
  <2>4. Unwritten \in [Packets -> SUBSET Packets]
    BY DEF Unwritten
  <2> QED
    BY <1>15, <2>2, <2>3, <2>4, MonitorAssumption, <1>p DEF Restart, Written, Goto, TypeOK, shared
<1>16. CASE Idle
  BY <1>16, <1>p DEF TypeOK, Idle, shared, viewer, writer, control
<1> QED
  BY <1>1, <1>2, <1>3, <1>4, <1>5, <1>6, <1>7, <1>8, <1>9, <1>10, <1>11, <1>12, <1>13,
     <1>14, <1>15, <1>16, NextActs DEF Acts, Pass

-----------------------------------------------------------------------------
\* A step of a monitor that keeps its place and its locks, and a step of the
\* others that take none, leave the locks as they should be.
LEMMA SameLocks ==
  ASSUME IInv, UNCHANGED <<locked, pc, next, holds>>
  PROVE  Locks'
  BY DEF IInv, Locks, Held, At

\* A monitor that goes from one place to another with the same locks.
LEMMA MoveLocks ==
  ASSUME IInv, TypeOK', NEW m \in Monitors, UNCHANGED <<locked, holds>>,
         \A n \in Monitors \ {m} : pc'[n] = pc[n] /\ next'[n] = next[n],
         Held(m)' = Held(m), At(m, "write")' => next'[m] \in Virtual
  PROVE  Locks'
<1>1. ASSUME NEW n \in Monitors PROVE Held(n)' = Held(n)
  <2>1. CASE n = m
    BY <2>1
  <2>2. CASE n # m
    BY <2>2 DEF Held, At
  <2> QED
    BY <2>1, <2>2
<1>2. ASSUME NEW n \in Monitors PROVE At(n, "write")' => next'[n] \in Virtual
  BY DEF IInv, Locks, At
<1> QED
  BY <1>1, <1>2 DEF IInv, Locks

\* Every step leaves each monitor with the locks of its new place.
LEMMA StepLocks ==
  ASSUME IInv, TypeOK', [Next]_vars
  PROVE  Locks'
<1> USE Numbers DEF IInv
<1>1. ASSUME NEW s \in Downlinked, Downlink(s) PROVE Locks'
  BY <1>1, SameLocks DEF Downlink, control
<1>2. ASSUME NEW m \in Monitors, ReadAll(m) PROVE Locks'
  <2>1. Held(m)' = Held(m)
    BY <1>2 DEF ReadAll, Held, At, Goto, From, TypeOK
  <2> QED
    BY <1>2, <2>1, MoveLocks DEF ReadAll, At, Goto, From, TypeOK
<1>3. ASSUME NEW m \in Monitors, LockPacket(m) PROVE Locks'
  <2>1. /\ next[m] \in Virtual /\ next[m] \notin locked /\ pc' = pc /\ At(m, "lock")
        /\ locked' = locked \cup {next[m]}
        /\ holds' = [holds EXCEPT ![m] = @ \cup {next[m]}]
        /\ next' = [next EXCEPT ![m] = next[m] + 1]
    BY <1>3 DEF LockPacket, From, TypeOK
  <2>2. holds'[m] = holds[m] \cup {next[m]}
        /\ \A n \in Monitors \ {m} : holds'[n] = holds[n] /\ next'[n] = next[n]
    BY <2>1 DEF TypeOK
  <2>3. Held(m)' = Held(m) \cup {next[m]}
    <3>1. next[m] \in Nat /\ next'[m] = next[m] + 1
      BY <2>1 DEF TypeOK
    <3>2. \A i \in Virtual : i < next'[m] <=> i < next[m] \/ i = next[m]
      BY <3>1, Successor
    <3> QED
      BY <2>1, <3>2 DEF Held, At
  <2>4. \A n \in Monitors \ {m} : Held(n)' = Held(n)
    BY <2>1, <2>2 DEF Held, At
  <2>5. \A n \in Monitors : holds'[n] = Held(n)' /\ holds'[n] \subseteq locked'
    BY <2>1, <2>2, <2>3, <2>4 DEF Locks
  <2>6. \A n \in Monitors : next[m] \notin holds[n]
    BY <2>1 DEF Locks
  <2>7. \A n, k \in Monitors : n # k => holds'[n] \cap holds'[k] = {}
    BY <2>2, <2>6 DEF Locks
  <2>8. \A n \in Monitors : At(n, "write")' => next'[n] \in Virtual
    BY <2>1, <2>2 DEF Locks, At
  <2> QED
    BY <2>5, <2>7, <2>8 DEF Locks
<1>4. ASSUME NEW m \in Monitors, AllLocked(m) PROVE Locks'
  <2>1. Held(m)' = Held(m)
    BY <1>4 DEF AllLocked, Held, At, Goto, TypeOK, Virtual
  <2> QED
    BY <1>4, <2>1, MoveLocks DEF AllLocked, At, Goto, TypeOK
<1>5. ASSUME NEW m \in Monitors, NEW t \in Triggers, RunTrigger(m, t) PROVE Locks'
  BY <1>5, SameLocks DEF RunTrigger, control
<1>6. ASSUME NEW m \in Monitors, TriggersDone(m) PROVE Locks'
  <2>1. Held(m)' = Held(m)
    BY <1>6 DEF TriggersDone, Held, At, Goto, From, TypeOK, Virtual
  <2> QED
    BY <1>6, <2>1, MoveLocks DEF TriggersDone, At, Goto, From, TypeOK
<1>7. ASSUME NEW m \in Monitors, StartWrite(m) PROVE Locks'
  <2>1. Held(m)' = Held(m)
    BY <1>7 DEF StartWrite, Held, At, Goto, TypeOK
  <2>2. next[m] \in Virtual
    BY <1>7 DEF StartWrite, TypeOK
  <2> QED
    BY <1>7, <2>1, <2>2, MoveLocks DEF StartWrite, At, Goto, TypeOK
<1>8. ASSUME NEW m \in Monitors, WriteNext(m) PROVE Locks'
  <2>1. Held(m)' = Held(m)
    BY <1>8 DEF WriteNext, Held, At, Goto, From, TypeOK
  <2> QED
    BY <1>8, <2>1, MoveLocks DEF WriteNext, At, Goto, From, TypeOK
<1>9. ASSUME NEW m \in Monitors, SkipPacket(m) PROVE Locks'
  <2>1. Held(m)' = Held(m)
    BY <1>9 DEF SkipPacket, Held, At, From, TypeOK
  <2> QED
    BY <1>9, <2>1, MoveLocks DEF SkipPacket, At, From, TypeOK
<1>10. ASSUME NEW m \in Monitors, Flushed(m) PROVE Locks'
  <2>1. Held(m)' = Held(m)
    BY <1>10 DEF Flushed, Held, At, Goto, From, TypeOK, Virtual
  <2> QED
    BY <1>10, <2>1, MoveLocks DEF Flushed, At, Goto, From, TypeOK
<1>11. ASSUME NEW m \in Monitors, UnlockPacket(m) PROVE Locks'
  <2>1. /\ next[m] \in Virtual /\ pc' = pc /\ At(m, "unlock")
        /\ locked' = locked \ {next[m]}
        /\ holds' = [holds EXCEPT ![m] = @ \ {next[m]}]
        /\ next' = [next EXCEPT ![m] = next[m] + 1]
    BY <1>11 DEF UnlockPacket, From, TypeOK
  <2>2. holds'[m] = holds[m] \ {next[m]}
        /\ \A n \in Monitors \ {m} : holds'[n] = holds[n] /\ next'[n] = next[n]
    BY <2>1 DEF TypeOK
  <2>3. Held(m)' = Held(m) \ {next[m]}
    <3>1. next[m] \in Nat /\ next'[m] = next[m] + 1
      BY <2>1 DEF TypeOK
    <3>2. \A i \in Virtual : next'[m] <= i <=> next[m] <= i /\ i # next[m]
      BY <3>1, Successor
    <3> QED
      BY <2>1, <3>2 DEF Held, At
  <2>4. \A n \in Monitors \ {m} : Held(n)' = Held(n)
    BY <2>1, <2>2 DEF Held, At
  <2>5. next[m] \in holds[m]
    BY <2>1 DEF Locks, Held, TypeOK
  <2>6. \A n \in Monitors \ {m} : next[m] \notin holds[n]
    BY <2>5 DEF Locks
  <2>7. \A n \in Monitors : holds'[n] = Held(n)' /\ holds'[n] \subseteq locked'
    BY <2>1, <2>2, <2>3, <2>4, <2>6 DEF Locks
  <2>8. \A n, k \in Monitors : n # k => holds'[n] \cap holds'[k] = {}
    BY <2>2 DEF Locks
  <2>9. \A n \in Monitors : At(n, "write")' => next'[n] \in Virtual
    BY <2>1, <2>2 DEF Locks, At
  <2> QED
    BY <2>7, <2>8, <2>9 DEF Locks
<1>12. ASSUME NEW m \in Monitors, Unlocked(m) PROVE Locks'
  <2>1. Held(m)' = Held(m)
    BY <1>12 DEF Unlocked, Held, At, Goto, TypeOK, Virtual
  <2> QED
    BY <1>12, <2>1, MoveLocks DEF Unlocked, At, Goto, TypeOK
<1>13. ASSUME NEW m \in Monitors, Ends(m) PROVE Locks'
  <2>1. Held(m)' = Held(m)
    BY <1>13 DEF Ends, Held, At, Goto, TypeOK
  <2> QED
    BY <1>13, <2>1, MoveLocks DEF Ends, At, Goto, TypeOK
<1>14. ASSUME NEW m \in Monitors, KillWriting(m) PROVE Locks'
  <2>1. pc' = [pc EXCEPT ![m] = "hung"]
    BY <1>14 DEF KillWriting, Goto
  <2>2. Held(m)' = Held(m) /\ ~At(m, "write")'
    BY <1>14, <2>1 DEF KillWriting, Held, At, TypeOK
  <2> QED
    BY <1>14, <2>1, <2>2, MoveLocks DEF KillWriting, TypeOK
<1>15. ASSUME NEW m \in Monitors, Restart(m) PROVE Locks'
  <2>1. Held(m)' = Held(m)
    BY <1>15 DEF Restart, Held, At, Goto, TypeOK
  <2> QED
    BY <1>15, <2>1, MoveLocks DEF Restart, At, Goto, TypeOK
<1>16. CASE Idle
  BY <1>16, SameLocks DEF Idle, control
<1> QED
  BY <1>1, <1>2, <1>3, <1>4, <1>5, <1>6, <1>7, <1>8, <1>9, <1>10, <1>11, <1>12, <1>13,
     <1>14, <1>15, <1>16, NextActs DEF Acts, Pass

-----------------------------------------------------------------------------
\* A monitor has only triggers of its own to run.
LEMMA StepOwnTriggers ==
  ASSUME IInv, [Next]_vars
  PROVE  OwnTriggers'
<1> USE DEF IInv
<1>1. CASE UNCHANGED todo
  BY <1>1 DEF OwnTriggers
<1>2. ASSUME NEW m \in Monitors, AllLocked(m) PROVE OwnTriggers'
  BY <1>2 DEF AllLocked, Triggered, OwnTriggers, TypeOK
<1>3. ASSUME NEW m \in Monitors, NEW t \in Triggers, RunTrigger(m, t) PROVE OwnTriggers'
  BY <1>3 DEF RunTrigger, OwnTriggers, TypeOK
<1> QED
  BY <1>1, <1>2, <1>3, NextActs DEF Acts, Pass, Ends, Downlink, ReadAll, LockPacket,
     TriggersDone, StartWrite, WriteNext, SkipPacket, Flushed, UnlockPacket, Unlocked,
     KillWriting, Restart, Idle

LEMMA StepInv == IInv /\ [Next]_vars => IInv'
  BY StepTypes, StepLocks, StepOwnTriggers DEF IInv

\* Type correctness, for any monitors and triggers.
THEOREM TypeCorrect == Spec => []TypeOK
<1>1. IInv => TypeOK
  BY DEF IInv
<1> QED
  BY InitInv, StepInv, <1>1, PTL DEF Spec

\* No two monitors hold the write lock of one virtual packet (write_lock,
\* TelemetryShm.cpp:704-726), and one that sleeps in update or has ended holds none.
Exclusive ==
  /\ \A m, n \in Monitors : m # n => holds[m] \cap holds[n] = {}
  /\ \A m \in Monitors : pc[m] \in {"update", "exited", "stuck"} => holds[m] = {}

THEOREM LocksExclusive == Spec => []Exclusive
<1>1. IInv => Exclusive
  BY DEF IInv, Locks, Held, At, Exclusive
<1> QED
  BY InitInv, StepInv, <1>1, PTL DEF Spec

-----------------------------------------------------------------------------
\* A step that changes neither the cache nor the locks of a monitor, nor the
\* packets it holds, leaves its cache current.
LEMMA StillCurrent ==
  ASSUME CacheIsCurrent, NEW m \in Monitors, holds'[m] \subseteq holds[m],
         \A p \in holds'[m] : content'[p] = content[p] /\ cache'[m][p] = cache[m][p],
         NEW p \in holds'[m], NEW x \in Names \ OutputsOf(m)
  PROVE  cache'[m][p][x] = content'[p][x]
  BY DEF CacheIsCurrent

LEMMA UnchangedCurrent ==
  ASSUME CacheIsCurrent, UNCHANGED <<content, cache>>,
         \A m \in Monitors : holds'[m] \subseteq holds[m]
  PROVE  CacheIsCurrent'
  BY DEF CacheIsCurrent, OutputsOf

\* The measurements of virtual packets that nobody computes stay zero.
Blank ==
  \A x \in Names : (\A t \in Triggers : t.out # x) =>
    \A p \in Virtual : content[p][x] = 0 /\ \A m \in Monitors : cache[m][p][x] = 0

LEMMA BlankInit == Init => Blank
  BY Numbers DEF Init, Blank, Zero

LEMMA BlankStep ==
  ASSUME IInv, Blank, [Next]_vars
  PROVE  Blank'
<1> USE Numbers DEF IInv
<1> SUFFICES ASSUME NEW x \in Names, \A t \in Triggers : t.out # x, NEW p \in Virtual
             PROVE  content'[p][x] = 0 /\ \A m \in Monitors : cache'[m][p][x] = 0
  BY DEF Blank
<1>1. p \in Packets /\ content[p][x] = 0 /\ \A m \in Monitors : cache[m][p][x] = 0
  BY DEF Blank
<1>2. ASSUME NEW s \in Downlinked, Downlink(s) PROVE content'[p] = content[p] /\ UNCHANGED cache
  BY <1>1, <1>2, MonitorAssumption DEF Downlink, WritePacket, TypeOK, Image, writer
<1>3. ASSUME NEW m \in Monitors, LockPacket(m)
      PROVE  UNCHANGED content /\ \A n \in Monitors : cache'[n][p][x] = 0
  <2>1. UNCHANGED content /\ next[m] \in Virtual
    BY <1>3 DEF LockPacket, TypeOK, shared
  <2>2. UNCHANGED cache \/ cache' = [cache EXCEPT ![m][next[m]] = content[next[m]]]
    BY <1>3 DEF LockPacket
  <2>3. \A n \in Monitors : cache'[n][p] = cache[n][p] \/ cache'[n][p] = content[p]
    <3>1. cache = [n \in Monitors |-> cache[n]] /\ cache[m] = [q \in Packets |-> cache[m][q]]
      BY DEF TypeOK, Image
    <3>2. \A n \in Monitors \ {m} : cache'[n] = cache[n]
      BY <2>2, <3>1
    <3>3. cache'[m][p] = cache[m][p] \/ cache'[m][p] = content[p]
      BY <1>1, <2>1, <2>2, <3>1
    <3> QED
      BY <3>2, <3>3
  <2> QED
    BY <1>1, <2>1, <2>3
<1>4. ASSUME NEW m \in Monitors, NEW t \in Triggers, RunTrigger(m, t)
      PROVE  UNCHANGED content /\ \A n \in Monitors : cache'[n][p][x] = 0
  <2>1. UNCHANGED content /\ (UNCHANGED cache \/ WriteResult(m, t))
    BY <1>4 DEF RunTrigger, shared, writer
  <2> QED
    BY <1>1, <2>1, WriteResultTypes
<1>5. ASSUME NEW m \in Monitors, At(m, "write"), WritePacket(next[m], cache[m][next[m]])
      PROVE  content'[p][x] = 0
  <2>1. next[m] \in Packets
    BY <1>5 DEF Locks
  <2>2. content'[p] = content[p] \/ content'[p] = cache[m][p]
    BY <1>1, <1>5, <2>1 DEF WritePacket, TypeOK, Image
  <2> QED
    BY <1>1, <2>2
<1>6. ASSUME NEW m \in Monitors, WriteNext(m) \/ KillWriting(m)
      PROVE  content'[p][x] = 0 /\ UNCHANGED cache
  BY <1>1, <1>5, <1>6 DEF WriteNext, KillWriting, writer
<1>7. ASSUME NEW m \in Monitors, Restart(m)
      PROVE  UNCHANGED content /\ \A n \in Monitors : cache'[n][p][x] = 0
  <2>1. UNCHANGED content /\ cache' = [cache EXCEPT ![m] = Zero]
    BY <1>7 DEF Restart, shared
  <2>2. \A n \in Monitors : cache'[n] = cache[n] \/ cache'[n] = Zero
    BY <2>1 DEF TypeOK
  <2>3. Zero[p][x] = 0
    BY <1>1 DEF Zero
  <2> QED
    BY <1>1, <2>1, <2>2, <2>3
<1>8. CASE UNCHANGED <<content, cache>>
  BY <1>1, <1>8
<1> QED
  BY <1>1, <1>2, <1>3, <1>4, <1>6, <1>7, <1>8, NextActs DEF Acts, Pass, Ends, ReadAll,
     AllLocked, TriggersDone, StartWrite, SkipPacket, Flushed, UnlockPacket, Unlocked, shared,
     writer, Idle

\* A monitor that locks without check_for_updates, as mmon does, is the only one
\* to compute anything.
Attentive == \A m \in Monitors \ CheckUpdates : \A t \in Triggers : t.monitor = m

\* With lock(true), or alone, every step keeps the caches current.
LEMMA StepCurrent ==
  ASSUME Attentive, Blank, IInv, IInv', CacheIsCurrent, [Next]_vars
  PROVE  CacheIsCurrent'
<1> USE Numbers DEF IInv
<1> DEFINE Others(m) == \A n \in Monitors \ {m} : holds'[n] = holds[n] /\ cache'[n] = cache[n]
<1>1. ASSUME NEW s \in Downlinked, Downlink(s) PROVE CacheIsCurrent'
  <2>1. \A p \in Virtual : content'[p] = content[p] /\ p # s
    BY <1>1, MonitorAssumption DEF Downlink, WritePacket, TypeOK, Image
  <2>2. \A m \in Monitors : holds[m] \subseteq Virtual
    BY DEF TypeOK
  <2>3. UNCHANGED <<holds, cache>>
    BY <1>1 DEF Downlink, writer
  <2> QED
    BY <2>1, <2>2, <2>3, StillCurrent DEF CacheIsCurrent, OutputsOf
<1>2. ASSUME NEW m \in Monitors, LockPacket(m) PROVE CacheIsCurrent'
  <2>1. /\ next[m] \in Virtual /\ UNCHANGED content
        /\ holds' = [holds EXCEPT ![m] = @ \cup {next[m]}]
    BY <1>2 DEF LockPacket, TypeOK, shared
  <2>2. \A n \in Monitors \ {m} : holds'[n] = holds[n] /\ cache'[n] = cache[n]
    BY <1>2, <2>1 DEF LockPacket, TypeOK
  <2>3. holds'[m] = holds[m] \cup {next[m]}
    BY <2>1 DEF TypeOK
  <2>4. ASSUME NEW x \in Names \ OutputsOf(m), NEW p \in holds'[m]
        PROVE  cache'[m][p][x] = content[p][x]
    <3>1. p \in Packets
      BY <2>1, <2>3 DEF TypeOK
    <3>2. CASE cache' = [cache EXCEPT ![m][next[m]] = content[next[m]]]
      <4>1. cache'[m][p] = IF p = next[m] THEN content[p] ELSE cache[m][p]
        BY <3>1, <3>2 DEF TypeOK, Image
      <4> QED
        BY <2>3, <4>1 DEF CacheIsCurrent
    <3>3. CASE UNCHANGED cache /\ m \notin CheckUpdates
      <4>1. \A t \in Triggers : t.out # x
        BY <3>3 DEF Attentive, OutputsOf
      <4>2. p = next[m] => content[p][x] = 0 /\ cache[m][p][x] = 0
        BY <2>1, <4>1 DEF Blank
      <4> QED
        BY <2>3, <3>3, <4>2 DEF CacheIsCurrent
    <3> QED
      BY <1>2, <3>2, <3>3 DEF LockPacket
  <2>5. ASSUME NEW n \in Monitors, NEW p \in holds'[n], NEW x \in Names \ OutputsOf(n)
        PROVE  cache'[n][p][x] = content'[p][x]
    BY <2>1, <2>2, <2>4 DEF CacheIsCurrent
  <2> QED
    BY <2>5 DEF CacheIsCurrent, OutputsOf
<1>3. ASSUME NEW m \in Monitors, NEW t \in Triggers, RunTrigger(m, t) PROVE CacheIsCurrent'
  <2>1. UNCHANGED <<content, holds>> /\ t \in todo[m]
    BY <1>3 DEF RunTrigger, shared
  <2>2. CASE UNCHANGED writer
    BY <2>1, <2>2, UnchangedCurrent DEF writer
  <2>3. CASE WriteResult(m, t)
    <3>1. t.out \in OutputsOf(m)
      BY <2>1 DEF OwnTriggers, OutputsOf
    <3>2. ASSUME NEW n \in Monitors, NEW p \in holds'[n], NEW x \in Names \ OutputsOf(n)
          PROVE  cache'[n][p][x] = content'[p][x]
      <4>1. cache[n][p][x] = content[p][x] /\ p \in Packets
        BY <2>1 DEF CacheIsCurrent, TypeOK
      <4>2. cache'[n][p][x] = cache[n][p][x]
        BY <2>3, <3>1, <4>1, WriteResultTypes
      <4> QED
        BY <2>1, <4>1, <4>2
    <3> QED
      BY <3>2 DEF CacheIsCurrent, OutputsOf
  <2> QED
    BY <1>3, <2>2, <2>3 DEF RunTrigger
<1>4. ASSUME NEW m \in Monitors, At(m, "write"), UNCHANGED <<holds, cache>>,
             WritePacket(next[m], cache[m][next[m]])
      PROVE  CacheIsCurrent'
  <2>1. next[m] \in Packets /\ next[m] \in holds[m]
    BY <1>4 DEF Locks, Held, At
  <2>2. content'[next[m]] = cache[m][next[m]]
        /\ \A p \in Packets \ {next[m]} : content'[p] = content[p]
    BY <1>4, <2>1 DEF WritePacket, TypeOK, Image
  <2>3. ASSUME NEW n \in Monitors, NEW p \in holds'[n], NEW x \in Names \ OutputsOf(n)
        PROVE  cache'[n][p][x] = content'[p][x]
    <3>1. p \in holds[n] /\ p \in Packets /\ cache[n][p][x] = content[p][x]
      BY <1>4 DEF CacheIsCurrent, TypeOK
    <3>2. CASE p = next[m]
      <4>1. n = m
        BY <2>1, <3>1, <3>2 DEF Locks
      <4> QED
        BY <1>4, <2>2, <3>2, <4>1
    <3>3. CASE p # next[m]
      BY <1>4, <2>2, <3>1, <3>3
    <3> QED
      BY <3>2, <3>3
  <2> QED
    BY <2>3 DEF CacheIsCurrent, OutputsOf
<1>5. ASSUME NEW m \in Monitors, WriteNext(m) PROVE CacheIsCurrent'
  BY <1>4, <1>5 DEF WriteNext
<1>6. ASSUME NEW m \in Monitors, KillWriting(m) PROVE CacheIsCurrent'
  <2>1. UNCHANGED <<holds, cache>> /\ At(m, "write")
    BY <1>6 DEF KillWriting, writer
  <2>2. CASE UNCHANGED content
    BY <2>1, <2>2, UnchangedCurrent
  <2> QED
    BY <1>4, <1>6, <2>1, <2>2 DEF KillWriting
<1>7. ASSUME NEW m \in Monitors, UnlockPacket(m) PROVE CacheIsCurrent'
  <2>1. \A n \in Monitors : holds'[n] \subseteq holds[n]
    BY <1>7 DEF UnlockPacket, TypeOK
  <2> QED
    BY <1>7, <2>1, UnchangedCurrent DEF UnlockPacket, shared, writer
<1>8. ASSUME NEW m \in Monitors, Restart(m) PROVE CacheIsCurrent'
  <2>1. holds[m] = {} /\ UNCHANGED <<content, holds>>
    BY <1>8 DEF Restart, Locks, Held, At, shared
  <2>2. \A n \in Monitors \ {m} : cache'[n] = cache[n]
    BY <1>8 DEF Restart, TypeOK
  <2> QED
    BY <2>1, <2>2 DEF CacheIsCurrent, OutputsOf
<1>9. CASE UNCHANGED <<content, cache, holds>>
  BY <1>9, UnchangedCurrent
<1> QED
  BY <1>1, <1>2, <1>3, <1>5, <1>6, <1>7, <1>8, <1>9, NextActs DEF Acts, Pass, Ends, ReadAll,
     AllLocked, TriggersDone, StartWrite, SkipPacket, Flushed, Unlocked, shared, writer, Idle

\* "don't want anyone writing to our virtual packets at the same time"
\* (mmon's main.cpp:151): if every monitor locks with check_for_updates, or the
\* one that does not is the only one to compute anything, what it would write
\* back of the measurements of others is what shared memory holds.
THEOREM CachesCurrent ==
  ASSUME Attentive
  PROVE  Spec => []CacheIsCurrent
<1>1. Init => CacheIsCurrent
  BY DEF Init, CacheIsCurrent
<1>2. IInv /\ IInv' /\ Blank /\ CacheIsCurrent /\ [Next]_vars => CacheIsCurrent'
  BY StepCurrent
<1>3. IInv /\ Blank /\ [Next]_vars => Blank'
  BY BlankStep
<1> QED
  BY InitInv, StepInv, BlankInit, <1>1, <1>2, <1>3, PTL DEF Spec

-----------------------------------------------------------------------------
(***************************************************************************)
(* A measurement in several virtual packets has the same value in all of   *)
(* them, outside a flush.  Only its own monitor changes it, because every  *)
(* other writes back what it found.  The monitor's cache holds one value   *)
(* for all the copies when triggers have run, and differs from shared      *)
(* memory only in the packets that are marked as written to, which flush   *)
(* goes through in order.                                                  *)
(*                                                                         *)
(* What a trigger function that failed half-way has left in the cache must *)
(* not be overwritten in some packets only: lock(true) brings all of them  *)
(* up to date; lock(false) takes those that were written since, which then *)
(* are the monitor's own, and it has nothing left to write.                *)
(***************************************************************************)

\* No monitor has been stopped.
Intact == killed = {} /\ restarts = 0

\* Nobody but a monitor that locks without check_for_updates writes virtual
\* packets; it sees some of its own as changed only if it has flushed them all.
Alone ==
  \A m \in Monitors \ CheckUpdates :
    /\ \A n \in Monitors \ {m} : dirty[n] = {} /\ ~At(n, "write")
    /\ pc[m] \in {"lock", "trigger"} => unseen[m] \cap Virtual = {}
    /\ pc[m] \in {"update", "unlock", "exited"} /\ unseen[m] \cap Virtual # {} => dirty[m] = {}
    /\ At(m, "lock") /\ updated[m] \cap Virtual # {} => dirty[m] = {}
    /\ pc[m] \in {"flush", "write"} => \A p \in dirty[m] : next[m] <= p

\* The cache of t's monitor has the copy of t's result in p as it is shared.
Same(t, p) == cache[t.monitor][p][t.out] = content[p][t.out]

CacheAgrees(t) ==
  \A p, q \in Places[t.out] : cache[t.monitor][p][t.out] = cache[t.monitor][q][t.out]
SharedAgrees(t) ==
  \A p, q \in Places[t.out] : content[p][t.out] = content[q][t.out]

\* flush, or the copying of lock(true), is past p.
Passed(m, p) ==
  /\ p < next[m]
  /\ pc[m] \in {"flush", "write"} \/ (At(m, "lock") /\ m \in CheckUpdates)

ResultOf(t) ==
  LET m == t.monitor
  IN  /\ pc[m] \notin {"flush", "write"} => SharedAgrees(t)
      /\ m \notin CheckUpdates \/ pc[m] \in {"trigger", "flush", "write"} => CacheAgrees(t)
      /\ \A p \in Places[t.out] : p \notin dirty[m] \/ Passed(m, p) => Same(t, p)

Results == Intact => \A t \in Triggers : ResultOf(t)


LEMMA AloneInit == Init => Alone
  BY DEF Init, Alone, At

LEMMA AloneStep ==
  ASSUME Attentive, IInv, Alone, [Next]_vars
  PROVE  Alone'
<1> USE Numbers DEF IInv
<1> SUFFICES ASSUME NEW m \in Monitors \ CheckUpdates
             PROVE  /\ \A n \in Monitors \ {m} : dirty'[n] = {} /\ ~At(n, "write")'
                    /\ pc'[m] \in {"lock", "trigger"} => unseen'[m] \cap Virtual = {}
                    /\ pc'[m] \in {"update", "unlock", "exited"} /\ unseen'[m] \cap Virtual # {}
                         => dirty'[m] = {}
                    /\ At(m, "lock")' /\ updated'[m] \cap Virtual # {} => dirty'[m] = {}
                    /\ pc'[m] \in {"flush", "write"} => \A p \in dirty'[m] : next'[m] <= p
  BY DEF Alone
<1>a. /\ \A n \in Monitors \ {m} : dirty[n] = {} /\ ~At(n, "write")
      /\ pc[m] \in {"lock", "trigger"} => unseen[m] \cap Virtual = {}
      /\ pc[m] \in {"update", "unlock", "exited"} /\ unseen[m] \cap Virtual # {} => dirty[m] = {}
      /\ At(m, "lock") /\ updated[m] \cap Virtual # {} => dirty[m] = {}
      /\ pc[m] \in {"flush", "write"} => \A p \in dirty[m] : next[m] <= p
  BY DEF Alone
<1>b. /\ pc \in [Monitors -> {"update", "lock", "trigger", "flush", "write", "unlock",
                              "exited", "stuck", "hung"}]
      /\ next \in [Monitors -> 0 .. NumVirtual] /\ dirty \in [Monitors -> SUBSET Virtual]
      /\ unseen \in [Monitors -> SUBSET Packets] /\ updated \in [Monitors -> SUBSET Packets]
      /\ \A p \in Virtual : p \in Nat /\ p < NumVirtual
  BY DEF TypeOK, Virtual
<1>1. CASE \E s \in Downlinked : Downlink(s)
  <2>1. PICK s \in Downlinked : Downlink(s)
    BY <1>1
  <2>2. /\ unseen' = [n \in Monitors |-> unseen[n] \cup {s}] /\ s \notin Virtual
        /\ UNCHANGED <<pc, next, dirty, updated>>
    BY <2>1, MonitorAssumption DEF Downlink, WritePacket, control, writer
  <2> QED
    BY <1>a, <2>2 DEF At
<1>2. CASE \E n \in Monitors : ReadAll(n)
  <2>1. PICK n \in Monitors : ReadAll(n)
    BY <1>2
  <2>2. /\ unseen' = [unseen EXCEPT ![n] = {}] /\ updated' = [updated EXCEPT ![n] = unseen[n]]
        /\ pc' = [pc EXCEPT ![n] = "lock"] /\ pc[n] = "update" /\ UNCHANGED dirty
        /\ next' = [next EXCEPT ![n] = 0]
    BY <2>1 DEF ReadAll, At, Goto, From, writer
  <2> QED
    BY <1>a, <1>b, <2>2 DEF At
<1>3. CASE \E n \in Monitors : LockPacket(n)
  <2>1. PICK n \in Monitors : LockPacket(n)
    BY <1>3
  <2>2. next' = [next EXCEPT ![n] = next[n] + 1] /\ UNCHANGED <<pc, dirty, unseen, updated>>
        /\ pc[n] = "lock"
    BY <2>1 DEF LockPacket, At, From, viewer
  <2> QED
    BY <1>a, <1>b, <2>2 DEF At
<1>4. CASE \E n \in Monitors : AllLocked(n)
  <2>1. PICK n \in Monitors : AllLocked(n)
    BY <1>4
  <2>2. pc' = [pc EXCEPT ![n] = "trigger"] /\ UNCHANGED <<next, dirty, unseen, updated>>
        /\ pc[n] = "lock"
    BY <2>1 DEF AllLocked, At, Goto, viewer, writer
  <2> QED
    BY <1>a, <1>b, <2>2 DEF At
<1>5. CASE \E n \in Monitors, t \in Triggers : RunTrigger(n, t)
  <2>1. PICK n \in Monitors, t \in Triggers : RunTrigger(n, t)
    BY <1>5
  <2>2. n = m
    BY <2>1 DEF RunTrigger, OwnTriggers, Attentive
  <2>3. /\ UNCHANGED <<pc, next, unseen, updated>> /\ pc[m] = "trigger"
        /\ UNCHANGED dirty \/ WriteResult(m, t)
    BY <2>1, <2>2 DEF RunTrigger, At, control, viewer, writer
  <2>4. \A k \in Monitors \ {m} : dirty'[k] = dirty[k]
    BY <1>b, <2>3 DEF WriteResult
  <2> QED
    BY <1>a, <2>3, <2>4 DEF At
<1>6. CASE \E n \in Monitors : TriggersDone(n)
  <2>1. PICK n \in Monitors : TriggersDone(n)
    BY <1>6
  <2>2. /\ pc' = [pc EXCEPT ![n] = IF flush[n] THEN "flush" ELSE "unlock"]
        /\ next' = [next EXCEPT ![n] = 0] /\ UNCHANGED <<dirty, unseen, updated>>
        /\ pc[n] = "trigger"
    BY <2>1 DEF TriggersDone, At, Goto, From, viewer, writer
  <2> QED
    BY <1>a, <1>b, <2>2 DEF At
<1>7. CASE \E n \in Monitors : StartWrite(n)
  <2>1. PICK n \in Monitors : StartWrite(n)
    BY <1>7
  <2>2. /\ pc' = [pc EXCEPT ![n] = "write"] /\ UNCHANGED <<next, dirty, unseen, updated>>
        /\ pc[n] = "flush" /\ next[n] \in dirty[n]
    BY <2>1 DEF StartWrite, At, Goto, viewer, writer
  <2> QED
    BY <1>a, <1>b, <2>2 DEF At
<1>8. CASE \E n \in Monitors : WriteNext(n)
  <2>1. PICK n \in Monitors : WriteNext(n)
    BY <1>8
  <2>2. n = m
    BY <1>a, <2>1 DEF WriteNext
  <2>3. /\ pc' = [pc EXCEPT ![m] = "flush"] /\ next' = [next EXCEPT ![m] = next[m] + 1]
        /\ dirty' = [dirty EXCEPT ![m] = dirty[m] \ {next[m]}] /\ pc[m] = "write"
    BY <2>1, <2>2 DEF WriteNext, At, Goto, From
  <2> QED
    BY <1>a, <1>b, <2>3 DEF At
<1>9. CASE \E n \in Monitors : SkipPacket(n)
  <2>1. PICK n \in Monitors : SkipPacket(n)
    BY <1>9
  <2>2. /\ dirty' = [dirty EXCEPT ![n] = dirty[n] \ {next[n]}] /\ pc[n] = "flush"
        /\ next' = [next EXCEPT ![n] = next[n] + 1] /\ UNCHANGED <<pc, unseen, updated>>
    BY <2>1 DEF SkipPacket, At, From, viewer
  <2> QED
    BY <1>a, <1>b, <2>2 DEF At
<1>10. CASE \E n \in Monitors : Flushed(n)
  <2>1. PICK n \in Monitors : Flushed(n)
    BY <1>10
  <2>2. /\ pc' = [pc EXCEPT ![n] = "unlock"] /\ UNCHANGED <<dirty, unseen, updated>>
        /\ pc[n] = "flush" /\ next[n] = NumVirtual /\ next' = [next EXCEPT ![n] = 0]
    BY <2>1 DEF Flushed, At, Goto, From, viewer, writer
  <2>3. n = m => dirty[m] = {}
    <3>1. ASSUME n = m, NEW p \in dirty[m]
          PROVE  FALSE
      <4>1. p \in Virtual /\ next[m] <= p
        BY <1>a, <1>b, <2>2, <3>1
      <4> QED
        BY <1>b, <2>2, <3>1, <4>1
    <3> QED
      BY <3>1
  <2> QED
    BY <1>a, <1>b, <2>2, <2>3 DEF At
<1>11. CASE \E n \in Monitors : UnlockPacket(n) \/ Unlocked(n)
  <2>1. PICK n \in Monitors : UnlockPacket(n) \/ Unlocked(n)
    BY <1>11
  <2>2. /\ UNCHANGED pc \/ \E l \in {"update", "exited"} : pc' = [pc EXCEPT ![n] = l]
        /\ UNCHANGED <<dirty, unseen, updated>> /\ pc[n] = "unlock"
    BY <2>1 DEF UnlockPacket, Unlocked, At, Goto, viewer, writer
  <2>3. \A k \in Monitors : pc'[k] = pc[k] \/ (k = n /\ pc'[k] \in {"update", "exited"})
    BY <1>b, <2>2
  <2>4. pc[m] # "unlock" => next'[m] = next[m]
    BY <1>b, <2>1 DEF UnlockPacket, Unlocked, From, At
  <2> QED
    BY <1>a, <2>2, <2>3, <2>4 DEF At
<1>12. CASE \E n \in Monitors : Ends(n)
  <2>1. PICK n \in Monitors : Ends(n)
    BY <1>12
  <2>2. /\ \E l \in {"exited", "stuck"} : pc' = [pc EXCEPT ![n] = l]
        /\ pc[n] = "update" /\ UNCHANGED <<dirty, unseen, updated, next>>
    BY <2>1 DEF Ends, At, Goto, viewer, writer
  <2> QED
    BY <1>a, <1>b, <2>2 DEF At
<1>13. CASE \E n \in Monitors : KillWriting(n)
  <2>1. PICK n \in Monitors : KillWriting(n)
    BY <1>13
  <2>2. n = m
    BY <1>a, <2>1 DEF KillWriting
  <2>3. /\ pc' = [pc EXCEPT ![m] = "hung"] /\ UNCHANGED <<dirty, updated, next>>
    BY <2>1, <2>2 DEF KillWriting, Goto, writer
  <2> QED
    BY <1>a, <1>b, <2>3 DEF At
<1>14. CASE \E n \in Monitors : Restart(n)
  <2>1. PICK n \in Monitors : Restart(n)
    BY <1>14
  <2>2. /\ dirty' = [dirty EXCEPT ![n] = {}] /\ pc' = [pc EXCEPT ![n] = "update"]
        /\ updated' = [updated EXCEPT ![n] = {}] /\ UNCHANGED next
        /\ unseen' = [unseen EXCEPT ![n] = Written]
    BY <2>1 DEF Restart, Goto
  <2> QED
    BY <1>a, <1>b, <2>2 DEF At
<1>15. CASE Idle
  BY <1>a, <1>15 DEF Idle, control, viewer, writer, At
<1> QED
  BY <1>1, <1>2, <1>3, <1>4, <1>5, <1>6, <1>7, <1>8, <1>9, <1>10, <1>11, <1>12, <1>13,
     <1>14, <1>15, NextActs DEF Acts, Pass


\* A step of one monitor leaves what the others have in their own memory.
LEMMA Elsewhere ==
  ASSUME IInv, NEW m \in Monitors, NEW n \in Monitors, n # m,
         Acts(n)
  PROVE  pc'[m] = pc[m] /\ next'[m] = next[m] /\ dirty'[m] = dirty[m] /\ cache'[m] = cache[m]
<1> USE DEF IInv
<1>1. UNCHANGED pc \/ \E l : Goto(n, l)
  BY DEF Acts, Pass, Ends, ReadAll, LockPacket, AllLocked, RunTrigger, TriggersDone, StartWrite,
     WriteNext, SkipPacket, Flushed, UnlockPacket, Unlocked, KillWriting, Restart, control
<1>2. UNCHANGED next \/ \E i : From(n, i)
  BY DEF Acts, Pass, Ends, ReadAll, LockPacket, AllLocked, RunTrigger, TriggersDone, StartWrite,
     WriteNext, SkipPacket, Flushed, UnlockPacket, Unlocked, KillWriting, Restart, control
<1>3. UNCHANGED dirty \/ \E d : dirty' = [dirty EXCEPT ![n] = d]
  BY DEF Acts, Pass, Ends, ReadAll, LockPacket, AllLocked, RunTrigger, TriggersDone, StartWrite,
     WriteNext, SkipPacket, Flushed, UnlockPacket, Unlocked, KillWriting, Restart, WriteResult,
     writer
<1>4. UNCHANGED cache \/ \E c : cache' = [cache EXCEPT ![n] = c]
  <2>1. LockPacket(n) => UNCHANGED cache \/ \E c : cache' = [cache EXCEPT ![n] = c]
    BY DEF LockPacket
  <2>2. \A t \in Triggers :
          RunTrigger(n, t) => UNCHANGED cache \/ \E c : cache' = [cache EXCEPT ![n] = c]
    BY DEF RunTrigger, WriteResult, writer
  <2>3. Restart(n) => \E c : cache' = [cache EXCEPT ![n] = c]
    BY DEF Restart
  <2>4. \/ LockPacket(n) \/ (\E t \in Triggers : RunTrigger(n, t)) \/ Restart(n)
        \/ UNCHANGED cache
    BY DEF Acts, Pass, Ends, ReadAll, AllLocked, TriggersDone, StartWrite, WriteNext,
       SkipPacket, Flushed, UnlockPacket, Unlocked, KillWriting, writer
  <2> QED
    BY <2>1, <2>2, <2>3, <2>4
<1>5. pc'[m] = pc[m]
  BY <1>1 DEF Goto, TypeOK
<1>6. next'[m] = next[m]
  BY <1>2 DEF From, TypeOK
<1>7. dirty'[m] = dirty[m]
  BY <1>3 DEF TypeOK
<1>8. cache'[m] = cache[m]
  BY <1>4 DEF TypeOK
<1> QED
  BY <1>5, <1>6, <1>7, <1>8

\* What a write does to shared memory.
LEMMA Writes ==
  ASSUME IInv, NEW n \in Monitors, At(n, "write"), WritePacket(next[n], cache[n][next[n]])
  PROVE  /\ next[n] \in Virtual /\ next[n] \in holds[n]
         /\ content'[next[n]] = cache[n][next[n]]
         /\ \A p \in Packets \ {next[n]} : content'[p] = content[p]
<1>1. next[n] \in Virtual /\ next[n] \in Packets /\ next[n] \in holds[n]
  BY Numbers DEF IInv, Locks, Held, At
<1> QED
  BY <1>1 DEF WritePacket, IInv, TypeOK, Image

\* Only its own monitor changes a result in shared memory.
LEMMA OthersKeep ==
  ASSUME IInv, CacheIsCurrent, [Next]_vars, NEW t \in Triggers, ~WriteNext(t.monitor),
         ~KillWriting(t.monitor), NEW p \in Virtual
  PROVE  content'[p][t.out] = content[p][t.out]
<1> USE Numbers DEF IInv
<1>1. ASSUME NEW s \in Downlinked, Downlink(s) PROVE content'[p] = content[p]
  BY <1>1, MonitorAssumption DEF Downlink, WritePacket, TypeOK, Image
<1>2. ASSUME NEW n \in Monitors, WriteNext(n) \/ KillWriting(n)
      PROVE  content'[p][t.out] = content[p][t.out]
  <2>1. t.out \in Names \ OutputsOf(n)
    <3>1. n # t.monitor
      BY <1>2
    <3>2. \A u \in Triggers : u.out = t.out => u = t
      BY MonitorAssumption
    <3> QED
      BY <3>1, <3>2, ResultPlaces DEF OutputsOf
  <2>2. At(n, "write") /\ (UNCHANGED content \/ WritePacket(next[n], cache[n][next[n]]))
    BY <1>2 DEF WriteNext, KillWriting
  <2>3. CASE WritePacket(next[n], cache[n][next[n]])
    <3>1. p = next[n] => content'[p] = cache[n][p] /\ p \in holds[n]
      BY <2>2, <2>3, Writes
    <3>2. p # next[n] => content'[p] = content[p]
      BY <2>2, <2>3, Writes
    <3> QED
      BY <2>1, <3>1, <3>2 DEF CacheIsCurrent
  <2> QED
    BY <2>2, <2>3
<1> QED
  BY <1>1, <1>2, NextActs DEF Acts, Pass, Ends, ReadAll, LockPacket, AllLocked, RunTrigger,
     TriggersDone, StartWrite, SkipPacket, Flushed, UnlockPacket, Unlocked, Restart, shared,
     Idle

LEMMA ResultsInit == Init => Results
<1> SUFFICES ASSUME Init, NEW t \in Triggers PROVE ResultOf(t)
  BY DEF Results
<1>1. t.monitor \in Monitors /\ t.out \in Names /\ Places[t.out] \subseteq Packets
  BY MonitorAssumption, ResultPlaces, Numbers
<1> QED
  BY <1>1 DEF Init, ResultOf, Zero, SharedAgrees, CacheAgrees, Same

\* Where neither the result nor its copies in the cache change, what matters is
\* where the monitor goes and what it marks.
LEMMA ResultKept ==
  ASSUME IInv, NEW t \in Triggers, ResultOf(t),
         \A p \in Places[t.out] : /\ content'[p][t.out] = content[p][t.out]
                                  /\ cache'[t.monitor][p][t.out] = cache[t.monitor][p][t.out],
         \A p \in Places[t.out] :
           /\ (p \notin dirty[t.monitor])' => p \notin dirty[t.monitor] \/ Passed(t.monitor, p)
           /\ Passed(t.monitor, p)' => p \notin dirty[t.monitor] \/ Passed(t.monitor, p),
         \/ pc[t.monitor] \notin {"flush", "write"}
         \/ pc'[t.monitor] \in {"flush", "write"}
         \/ \A p \in Places[t.out] : Passed(t.monitor, p),
         \/ t.monitor \notin CheckUpdates
         \/ pc[t.monitor] \in {"trigger", "flush", "write"}
         \/ pc'[t.monitor] \notin {"trigger", "flush", "write"}
         \/ \A p \in Places[t.out] : Passed(t.monitor, p)
  PROVE  ResultOf(t)'
<1> DEFINE m == t.monitor
<1>1. \A p \in Places[t.out] : Same(t, p)' = Same(t, p)
  BY DEF Same
<1>2. SharedAgrees(t)' = SharedAgrees(t) /\ CacheAgrees(t)' = CacheAgrees(t)
  BY DEF SharedAgrees, CacheAgrees
<1>3. \A p \in Places[t.out] : Passed(m, p) => Same(t, p)
  BY DEF ResultOf
<1>4. (\A p \in Places[t.out] : Passed(m, p)) /\ (SharedAgrees(t) \/ CacheAgrees(t))
        => SharedAgrees(t) /\ CacheAgrees(t)
  BY <1>3 DEF Same, SharedAgrees, CacheAgrees
<1>5. SharedAgrees(t) \/ CacheAgrees(t)
  BY DEF ResultOf
<1>6. pc'[m] \notin {"flush", "write"} => SharedAgrees(t)'
  BY <1>2, <1>4, <1>5 DEF ResultOf
<1>7. m \notin CheckUpdates \/ pc'[m] \in {"trigger", "flush", "write"} => CacheAgrees(t)'
  BY <1>2, <1>4, <1>5 DEF ResultOf
<1>8. \A p \in Places[t.out] : (p \notin dirty[m])' \/ Passed(m, p)' => Same(t, p)'
  BY <1>1 DEF ResultOf
<1> QED
  BY <1>6, <1>7, <1>8 DEF ResultOf


\* A step of its own monitor keeps what is said of a result.
LEMMA OwnStep ==
  ASSUME Attentive, IInv, Alone, CacheIsCurrent, [Next]_vars, killed = {}, NEW t \in Triggers,
         ResultOf(t), Pass(t.monitor)
  PROVE  ResultOf(t)'
<1> DEFINE m == t.monitor
<1> USE DEF IInv
<1>a. m \in Monitors /\ Places[t.out] \subseteq Virtual /\ t.out \in Names
  BY MonitorAssumption, ResultPlaces
<1>b. /\ pc \in [Monitors -> {"update", "lock", "trigger", "flush", "write", "unlock",
                              "exited", "stuck", "hung"}]
      /\ next \in [Monitors -> 0 .. NumVirtual] /\ dirty \in [Monitors -> SUBSET Virtual]
      /\ next[m] \in Nat
      /\ \A p \in Virtual : p \in Nat /\ p < NumVirtual /\ p \in Packets
  BY <1>a, Numbers DEF TypeOK, Virtual
<1>c. ~WriteNext(m) => \A p \in Places[t.out] : content'[p][t.out] = content[p][t.out]
  BY <1>a, OthersKeep DEF KillWriting, Acts, Pass, ReadAll, LockPacket, AllLocked, RunTrigger,
     TriggersDone, StartWrite, SkipPacket, Flushed, UnlockPacket, Unlocked, At, shared
<1>1. CASE ReadAll(m)
  <2>1. /\ pc[m] = "update" /\ pc'[m] = "lock" /\ next'[m] = 0
        /\ UNCHANGED <<content, cache, dirty>>
    BY <1>a, <1>b, <1>1 DEF ReadAll, At, Goto, From, writer, shared
  <2>2. \A p \in Places[t.out] : ~Passed(m, p)'
    BY <1>a, <1>b, <2>1 DEF Passed
  <2> QED
    BY <2>1, <2>2, ResultKept
<1>2. CASE LockPacket(m)
  <2>1. /\ pc[m] = "lock" /\ pc'[m] = "lock" /\ next'[m] = next[m] + 1
        /\ UNCHANGED <<content, dirty>> /\ next[m] \in Virtual
    BY <1>a, <1>b, <1>2, Numbers DEF LockPacket, At, From, shared
  <2>2. \A p \in Places[t.out] : p # next[m] => cache'[m][p] = cache[m][p]
    BY <1>a, <1>b, <1>2 DEF LockPacket, TypeOK, Image
  <2>3. CASE m \in CheckUpdates
    <3>1. cache'[m][next[m]] = content[next[m]]
      BY <1>a, <1>b, <1>2, <2>1, <2>3 DEF LockPacket, TypeOK, Image
    <3>2. SharedAgrees(t)'
      BY <2>1 DEF ResultOf, SharedAgrees
    <3>3. ASSUME NEW p \in Places[t.out], (p \notin dirty[m])' \/ Passed(m, p)'
          PROVE  Same(t, p)'
      <4>1. CASE p = next[m]
        BY <2>1, <3>1, <4>1 DEF Same
      <4>2. CASE p # next[m]
        <5>1. p \notin dirty[m] \/ Passed(m, p)
          BY <1>a, <1>b, <2>1, <2>3, <3>3, <4>2 DEF Passed, At
        <5>2. Same(t, p)
          BY <5>1 DEF ResultOf
        <5> QED
          BY <2>1, <2>2, <4>2, <5>2 DEF Same
      <4> QED
        BY <4>1, <4>2
    <3> QED
      BY <2>1, <2>3, <3>2, <3>3 DEF ResultOf
  <2>4. CASE m \notin CheckUpdates
    <3>1. next[m] \in Places[t.out] => cache'[m][next[m]][t.out] = cache[m][next[m]][t.out]
      <4>1. CASE next[m] \in updated[m]
        <5>1. dirty[m] = {}
          BY <1>a, <2>1, <2>4, <4>1 DEF Alone, At
        <5>2. cache'[m][next[m]] = content[next[m]]
          BY <1>a, <1>b, <1>2, <2>1, <4>1 DEF LockPacket, TypeOK, Image
        <5>3. next[m] \in Places[t.out] => Same(t, next[m])
          BY <5>1 DEF ResultOf
        <5> QED
          BY <5>2, <5>3 DEF Same
      <4>2. CASE next[m] \notin updated[m]
        BY <1>2, <2>4, <4>2 DEF LockPacket
      <4> QED
        BY <4>1, <4>2
    <3>2. \A p \in Places[t.out] : cache'[m][p][t.out] = cache[m][p][t.out]
      BY <2>2, <3>1
    <3>3. \A p \in Places[t.out] : ~Passed(m, p)'
      BY <2>1, <2>4 DEF Passed
    <3> QED
      BY <2>1, <2>4, <3>2, <3>3, ResultKept
  <2> QED
    BY <2>3, <2>4
<1>3. CASE AllLocked(m)
  <2>1. /\ pc[m] = "lock" /\ next[m] = NumVirtual /\ pc'[m] = "trigger"
        /\ UNCHANGED <<content, cache, dirty, next>>
    BY <1>a, <1>b, <1>3 DEF AllLocked, At, Goto, writer, shared
  <2>2. \A p \in Places[t.out] : ~Passed(m, p)' /\ (m \in CheckUpdates => Passed(m, p))
    BY <1>a, <1>b, <2>1 DEF Passed, At
  <2> QED
    BY <2>1, <2>2, ResultKept
<1>4. CASE \E u \in Triggers : RunTrigger(m, u)
  <2>1. PICK u \in Triggers : RunTrigger(m, u)
    BY <1>4
  <2>2. pc[m] = "trigger" /\ UNCHANGED <<pc, next, content>>
    BY <2>1 DEF RunTrigger, At, control, shared
  <2>3. \A p \in Places[t.out] : ~Passed(m, p)'
    BY <2>2 DEF Passed, At
  <2>4. CASE UNCHANGED <<cache, dirty>>
    BY <2>2, <2>3, <2>4, ResultKept
  <2>5. CASE WriteResult(m, u) /\ u # t
    <3>1. u.out # t.out
      BY <2>5, MonitorAssumption
    <3>2. \A p \in Places[t.out] : cache'[m][p][t.out] = cache[m][p][t.out]
      BY <1>a, <1>b, <2>5, <3>1, WriteResultTypes
    <3>3. dirty[m] \subseteq dirty'[m]
      BY <1>a, <1>b, <2>5 DEF WriteResult
    <3> QED
      BY <2>2, <2>3, <3>2, <3>3, ResultKept
  <2>6. CASE WriteResult(m, t)
    <3>1. \A p \in Places[t.out] : cache'[m][p][t.out] = LatestData(m, t.on)
      BY <1>a, <2>6, WriteResultTypes
    <3>2. Places[t.out] \subseteq dirty'[m]
      BY <1>a, <1>b, <2>6 DEF WriteResult
    <3>3. SharedAgrees(t)'
      BY <2>2 DEF ResultOf, SharedAgrees
    <3>4. CacheAgrees(t)'
      BY <3>1 DEF CacheAgrees
    <3> QED
      BY <2>3, <3>2, <3>3, <3>4 DEF ResultOf
  <2> QED
    BY <2>1, <2>4, <2>5, <2>6 DEF RunTrigger, writer
<1>5. CASE TriggersDone(m)
  <2>1. /\ pc[m] = "trigger" /\ pc'[m] \in {"flush", "unlock"} /\ next'[m] = 0
        /\ UNCHANGED <<content, cache, dirty>>
    BY <1>a, <1>b, <1>5 DEF TriggersDone, At, Goto, From, writer, shared
  <2>2. \A p \in Places[t.out] : ~Passed(m, p)'
    BY <1>a, <1>b, <2>1 DEF Passed
  <2> QED
    BY <2>1, <2>2, ResultKept
<1>6. CASE StartWrite(m)
  <2>1. /\ pc[m] = "flush" /\ pc'[m] = "write" /\ UNCHANGED <<content, cache, dirty, next>>
    BY <1>a, <1>b, <1>6 DEF StartWrite, At, Goto, writer, shared
  <2>2. \A p \in Places[t.out] : Passed(m, p)' => Passed(m, p)
    BY <2>1 DEF Passed
  <2> QED
    BY <2>1, <2>2, ResultKept
<1>7. CASE WriteNext(m)
  <2>1. /\ pc[m] = "write" /\ pc'[m] = "flush" /\ next'[m] = next[m] + 1
        /\ UNCHANGED cache /\ dirty'[m] = dirty[m] \ {next[m]}
    BY <1>a, <1>b, <1>7 DEF WriteNext, At, Goto, From
  <2>2. /\ content'[next[m]] = cache[m][next[m]]
        /\ \A p \in Packets \ {next[m]} : content'[p] = content[p]
    BY <1>a, <1>7, Writes DEF WriteNext
  <2>3. CacheAgrees(t)'
    BY <2>1 DEF ResultOf, CacheAgrees
  <2>4. ASSUME NEW p \in Places[t.out], (p \notin dirty[m])' \/ Passed(m, p)'
        PROVE  Same(t, p)'
    <3>1. CASE p = next[m]
      BY <2>1, <2>2, <3>1 DEF Same
    <3>2. CASE p # next[m]
      <4>1. p \notin dirty[m] \/ Passed(m, p)
        BY <1>a, <1>b, <2>1, <2>4, <3>2 DEF Passed
      <4>2. Same(t, p)
        BY <4>1 DEF ResultOf
      <4> QED
        BY <1>a, <1>b, <2>1, <2>2, <3>2, <4>2 DEF Same
    <3> QED
      BY <3>1, <3>2
  <2> QED
    BY <2>1, <2>3, <2>4 DEF ResultOf
<1>8. CASE SkipPacket(m)
  <2>1. /\ pc[m] = "flush" /\ pc'[m] = "flush" /\ next'[m] = next[m] + 1
        /\ next[m] \notin dirty[m] /\ dirty'[m] = dirty[m]
        /\ UNCHANGED <<content, cache>>
    BY <1>a, <1>b, <1>8 DEF SkipPacket, At, From, shared
  <2>2. \A p \in Places[t.out] : Passed(m, p)' => p \notin dirty[m] \/ Passed(m, p)
    BY <1>a, <1>b, <2>1 DEF Passed
  <2> QED
    BY <2>1, <2>2, ResultKept
<1>9. CASE Flushed(m)
  <2>1. /\ pc[m] = "flush" /\ next[m] = NumVirtual /\ pc'[m] = "unlock"
        /\ UNCHANGED <<content, cache, dirty>>
    BY <1>a, <1>b, <1>9 DEF Flushed, At, Goto, writer, shared
  <2>2. \A p \in Places[t.out] : Passed(m, p) /\ ~Passed(m, p)'
    BY <1>a, <1>b, <2>1 DEF Passed, At
  <2> QED
    BY <2>1, <2>2, ResultKept
<1>10. CASE UnlockPacket(m) \/ Unlocked(m)
  <2>1. /\ pc[m] = "unlock" /\ pc'[m] \in {"unlock", "update"}
        /\ UNCHANGED <<content, cache, dirty>>
    BY <1>a, <1>b, <1>10 DEF UnlockPacket, Unlocked, At, Goto, writer, shared
  <2>2. \A p \in Places[t.out] : ~Passed(m, p)'
    BY <2>1 DEF Passed, At
  <2> QED
    BY <2>1, <2>2, ResultKept
<1> QED
  BY <1>1, <1>2, <1>3, <1>4, <1>5, <1>6, <1>7, <1>8, <1>9, <1>10 DEF Acts, Pass

\* Until somebody is stopped, what changes is done by passes.
LEMMA IntactSteps ==
  ASSUME TypeOK, Intact', [Next]_vars
  PROVE  /\ Intact /\ \A n \in Monitors : ~KillWriting(n)
         /\ (\E s \in Downlinked : Downlink(s)) \/ (\E n \in Monitors : Pass(n)) \/ Idle
<1>1. \A n \in Monitors : ~Signal(n)
  BY DEF Intact, Signal, Signalled, Kill, KillReading, KillWriting, KillLeaving
<1>2. \A n \in Monitors : ~KillWriting(n)
  BY <1>1 DEF Signal
<1>3. \A n \in Monitors : ~Restart(n)
  BY DEF Intact, Restart, TypeOK
<1>4. UNCHANGED <<killed, restarts>>
  BY <1>1, <1>3 DEF Next, Step, Update, LockPacket, AllLocked, RunTrigger, TriggersDone, StartWrite,
     FinishWrite, SkipPacket, Flushed, UnlockPacket, Unlocked, BlockedRead, BlockedWrite, Stop,
     Downlink, vars, process
<1>5. ASSUME NEW m \in Monitors, Step(m) PROVE Pass(m)
  BY <1>5 DEF Step, Pass, Update, FinishWrite
<1>6. BlockedWrite \/ (\E m \in Monitors : BlockedRead(m)) \/ Stop \/ UNCHANGED vars => Idle
  BY DEF BlockedWrite, BlockedRead, Stop, vars, Idle
<1> QED
  BY <1>1, <1>2, <1>3, <1>4, <1>5, <1>6 DEF Next, Intact

LEMMA ResultsStep ==
  ASSUME Attentive, IInv, Alone, CacheIsCurrent, Results, [Next]_vars
  PROVE  Results'
<1> SUFFICES ASSUME Intact', NEW t \in Triggers
             PROVE  ResultOf(t)'
  BY DEF Results
<1> DEFINE m == t.monitor
<1>a. m \in Monitors /\ Places[t.out] \subseteq Virtual
  BY MonitorAssumption, ResultPlaces
<1>b. /\ \A n \in Monitors : ~KillWriting(n)
      /\ killed = {} /\ restarts = 0
      /\ (\E s \in Downlinked : Downlink(s)) \/ (\E n \in Monitors : Pass(n)) \/ Idle
  BY IntactSteps DEF IInv, Intact
<1>1. ResultOf(t)
  BY <1>b DEF Results, Intact
<1>2. CASE Pass(m)
  BY <1>b, <1>1, <1>2, OwnStep
<1>3. CASE ~Pass(m)
  <2>1. pc'[m] = pc[m] /\ next'[m] = next[m] /\ dirty'[m] = dirty[m] /\ cache'[m] = cache[m]
    <3>1. ASSUME NEW n \in Monitors, Pass(n)
          PROVE  /\ pc'[m] = pc[m] /\ next'[m] = next[m]
                 /\ dirty'[m] = dirty[m] /\ cache'[m] = cache[m]
      <4>1. n # m
        BY <1>3, <3>1
      <4> QED
        BY <1>a, <3>1, <4>1, Elsewhere DEF Acts
    <3>2. (\E s \in Downlinked : Downlink(s)) \/ Idle
            => UNCHANGED <<pc, next, dirty, cache>>
      BY DEF Downlink, Idle, control, writer
    <3> QED
      BY <1>b, <3>1, <3>2, NextActs
  <2>2. \A p \in Places[t.out] : content'[p][t.out] = content[p][t.out]
    BY <1>a, <1>b, <1>3, OthersKeep DEF Acts, Pass
  <2>3. \A p \in Places[t.out] : Passed(m, p)' = Passed(m, p)
    BY <2>1 DEF Passed, At
  <2> QED
    BY <1>1, <2>1, <2>2, <2>3, ResultKept
<1> QED
  BY <1>2, <1>3

\* Who reads a measurement that is in several virtual packets finds the same
\* value in all of them: TelemetryWriter::write puts a result into every packet
\* it is in, flush writes them all before the locks are given back, and neither
\* another monitor nor what a failed trigger function left in the cache undoes
\* that.
THEOREM CopiesStayEqual ==
  ASSUME Attentive
  PROVE  Spec => []CopiesAgree
<1> DEFINE Inv == IInv /\ Blank /\ CacheIsCurrent /\ Alone /\ Results
<1>1. Init => Inv
  BY InitInv, BlankInit, AloneInit, ResultsInit DEF Init, CacheIsCurrent
<1>2. Inv /\ [Next]_vars => Inv'
  BY StepInv, BlankStep, StepCurrent, AloneStep, ResultsStep
<1>3. Inv => CopiesAgree
  <2> SUFFICES ASSUME Inv, Intact, \A m \in Monitors : pc[m] \notin {"flush", "write"},
                      NEW x \in Computed, NEW p \in Places[x], NEW q \in Places[x]
               PROVE  content[p][x] = content[q][x]
    BY DEF CopiesAgree, Intact
  <2>1. x \in Names /\ p \in Virtual /\ q \in Virtual
    BY MonitorAssumption DEF Names
  <2>2. CASE \A t \in Triggers : t.out # x
    BY <2>1, <2>2 DEF Blank
  <2>3. CASE \E t \in Triggers : t.out = x
    <3>1. PICK t \in Triggers : t.out = x
      BY <2>3
    <3>2. t.monitor \in Monitors
      BY MonitorAssumption
    <3>3. SharedAgrees(t)
      BY <3>2 DEF Results, ResultOf
    <3> QED
      BY <3>1, <3>3 DEF SharedAgrees
  <2> QED
    BY <2>2, <2>3
<1> HIDE DEF Inv
<1> QED
  BY <1>1, <1>2, <1>3, PTL DEF Spec

-----------------------------------------------------------------------------
(***************************************************************************)
(* No measurement goes back.  What a monitor computes comes from the       *)
(* newest copy of its input as of its last update, so that the results in  *)
(* shared memory and in its cache are never newer than that copy (Derived) *)
(* and the next ones never older.  This takes that the newest copy itself  *)
(* does not go back: where a measurement is in several packets, a signal   *)
(* that cuts a flush short leaves an old copy behind, which another        *)
(* monitor may then write again, as the newest.                            *)
(***************************************************************************)

\* No signal cuts a flush short, or else no trigger function reads a measurement
\* that is in several packets.
Uncut == Killable = {} \/ \A t \in Triggers : \E p \in Packets : PacketsOf(t.on) = {p}

\* The copy of x in the packet written last.
Newest(x) == content[Latest(recency, PacketsOf(x))][x]

\* Every value is the number of a sample.
Valued ==
  \A p \in Packets : \A x \in Names :
    /\ content[p][x] \in 0 .. samples
    /\ \A m \in Monitors : cache[m][p][x] \in 0 .. samples /\ view[m][p][x] \in 0 .. samples

\* A viewer has all but the packets it has not seen, and of those never written
\* there is nothing to see.
Seen(m, p, x) == p \notin unseen[m] => view[m][p][x] = content[p][x]
Fresh ==
  \A p \in Packets : \A x \in Names :
    /\ p \notin Written => content[p][x] = 0
    /\ \A m \in Monitors : Seen(m, p, x)

\* The newest copy of what triggers read is no older than the others and than
\* what latest_data finds.
SourceOf(t) ==
  /\ Lasts(recency, PacketsOf(t.on)) # {}
  /\ \A q \in PacketsOf(t.on) : content[q][t.on] <= Newest(t.on)
  /\ \A m \in Monitors : /\ Lasts(age[m], PacketsOf(t.on)) # {}
                         /\ LatestData(m, t.on) <= Newest(t.on)

\* A result is no newer than what it is computed from.
DerivedOf(t) ==
  \A p \in Places[t.out] :
    /\ content[p][t.out] <= Newest(t.on) /\ cache[t.monitor][p][t.out] <= Newest(t.on)
    /\ pc[t.monitor] \notin {"update", "exited", "stuck"} =>
         /\ content[p][t.out] <= LatestData(t.monitor, t.on)
         /\ cache[t.monitor][p][t.out] <= LatestData(t.monitor, t.on)

\* A monitor's cache is not behind with its own results, except for packets it
\* is to bring up to date before it uses them.
Behind(m, p) ==
  \/ m \in CheckUpdates /\ p \notin holds[m]
  \/ At(m, "update") /\ p \in unseen[m]
  \/ At(m, "lock") /\ p \in updated[m] /\ next[m] <= p
  \/ pc[m] \in {"exited", "stuck"}
Ahead ==
  \A m \in Monitors : \A p \in Virtual : \A x \in OutputsOf(m) :
    content[p][x] <= cache[m][p][x] \/ Behind(m, p)

\* Without signals nobody ends.
Going == Killable = {} => Intact /\ \A m \in Monitors : pc[m] \notin {"exited", "stuck"}

-----------------------------------------------------------------------------
LEMMA Inputs ==
  ASSUME NEW t \in Triggers
  PROVE  /\ t.monitor \in Monitors /\ t.on \in Names
         /\ PacketsOf(t.on) \subseteq Packets /\ PacketsOf(t.on) # {}
         /\ \A s \in Downlinked : s \in PacketsOf(t.on) => PacketsOf(t.on) = {s}
         /\ \A v \in Virtual : v \in PacketsOf(t.on) => PacketsOf(t.on) \subseteq Virtual
<1>1. t.monitor \in Monitors /\ t.on \in Names
  BY MonitorAssumption
<1>2. CASE t.on \in Downlinked
  BY <1>1, <1>2, MonitorAssumption DEF PacketsOf, Packets
<1>3. CASE t.on \notin Downlinked
  <2>1. Places[t.on] \in (SUBSET Virtual) \ {{}} /\ PacketsOf(t.on) = Places[t.on]
    BY <1>1, <1>3, MonitorAssumption DEF Names, PacketsOf
  <2>2. PacketsOf(t.on) \subseteq Virtual /\ PacketsOf(t.on) # {}
    BY <2>1
  <2>3. \A s \in Downlinked : s \notin Virtual
    BY MonitorAssumption
  <2> QED
    BY <1>1, <2>2, <2>3, Numbers
<1> QED
  BY <1>2, <1>3

\* A written packet is the last of all it is among.
LEMMA WriteRecency ==
  ASSUME TypeOK, NEW p \in Packets, NEW d, WritePacket(p, d)
  PROVE  /\ Written' = Written \cup {p}
         /\ \A S \in SUBSET Packets :
              /\ p \in S => Lasts(recency', S) = {p}
              /\ p \notin S => Lasts(recency', S) = Lasts(recency, S)
<1>1. \A q \in Packets : recency'[q] = IF q = p THEN {p} ELSE recency[q] \cup {p}
  BY DEF WritePacket
<1>2. Written' = Written \cup {p}
  BY <1>1 DEF Written
<1>3. ASSUME NEW S \in SUBSET Packets, p \in S PROVE Lasts(recency', S) = {p}
  BY <1>1, <1>3 DEF Lasts
<1>4. ASSUME NEW S \in SUBSET Packets, p \notin S PROVE Lasts(recency', S) = Lasts(recency, S)
  <2>1. \A q \in S : recency'[q] \cap S = recency[q] \cap S
    BY <1>1, <1>4
  <2> QED
    BY <2>1 DEF Lasts
<1> QED
  BY <1>2, <1>3, <1>4

LEMMA LatestIn ==
  ASSUME NEW since, NEW S, Lasts(since, S) # {}
  PROVE  Latest(since, S) \in S
<1>1. \E p : p \in Lasts(since, S)
  OBVIOUS
<1>2. Latest(since, S) \in Lasts(since, S)
  BY <1>1 DEF Latest
<1> QED
  BY <1>2 DEF Lasts

\* Shared memory changes when a sample comes in, and when a monitor writes.
LEMMA SharedSteps ==
  ASSUME [Next]_vars
  PROVE  \/ \E s \in Downlinked : Downlink(s)
         \/ \E n \in Monitors : /\ WriteNext(n) \/ KillWriting(n)
                                /\ At(n, "write") /\ WritePacket(next[n], cache[n][next[n]])
                                /\ UNCHANGED <<samples, holds, updated, view, age, cache>>
         \/ UNCHANGED shared
  BY NextActs DEF Acts, Pass, Ends, ReadAll, LockPacket, AllLocked, RunTrigger, TriggersDone,
     StartWrite, WriteNext, SkipPacket, Flushed, UnlockPacket, Unlocked, KillWriting, Restart,
     shared, writer, Idle

\* A step of one monitor leaves the others their views and their locks.
LEMMA ElsewhereSeen ==
  ASSUME IInv, NEW m \in Monitors, NEW n \in Monitors, n # m,
         Acts(n)
  PROVE  /\ view'[m] = view[m] /\ age'[m] = age[m] /\ updated'[m] = updated[m]
         /\ holds'[m] = holds[m] /\ unseen[m] \subseteq unseen'[m]
<1> USE DEF IInv
<1>1. UNCHANGED view \/ \E v : view' = [view EXCEPT ![n] = v]
  BY DEF Acts, Pass, Ends, ReadAll, LockPacket, AllLocked, RunTrigger, TriggersDone, StartWrite,
     WriteNext, SkipPacket, Flushed, UnlockPacket, Unlocked, KillWriting, Restart, viewer
<1>2. UNCHANGED age \/ \E v : age' = [age EXCEPT ![n] = v]
  BY DEF Acts, Pass, Ends, ReadAll, LockPacket, AllLocked, RunTrigger, TriggersDone, StartWrite,
     WriteNext, SkipPacket, Flushed, UnlockPacket, Unlocked, KillWriting, Restart, viewer
<1>3. UNCHANGED updated \/ \E v : updated' = [updated EXCEPT ![n] = v]
  BY DEF Acts, Pass, Ends, ReadAll, LockPacket, AllLocked, RunTrigger, TriggersDone, StartWrite,
     WriteNext, SkipPacket, Flushed, UnlockPacket, Unlocked, KillWriting, Restart, viewer
<1>4. UNCHANGED holds \/ \E v : holds' = [holds EXCEPT ![n] = v]
  BY DEF Acts, Pass, Ends, ReadAll, LockPacket, AllLocked, RunTrigger, TriggersDone, StartWrite,
     WriteNext, SkipPacket, Flushed, UnlockPacket, Unlocked, KillWriting, Restart
<1>5. \/ UNCHANGED unseen \/ \E v : unseen' = [unseen EXCEPT ![n] = v]
      \/ \E p : unseen' = [k \in Monitors |-> unseen[k] \cup {p}]
  BY DEF Acts, Pass, Ends, ReadAll, LockPacket, AllLocked, RunTrigger, TriggersDone, StartWrite,
     WriteNext, SkipPacket, Flushed, UnlockPacket, Unlocked, KillWriting, Restart, viewer,
     WritePacket
<1>6. view'[m] = view[m]
  BY <1>1 DEF TypeOK
<1>7. age'[m] = age[m] /\ updated'[m] = updated[m] /\ holds'[m] = holds[m]
  BY <1>2, <1>3, <1>4 DEF TypeOK
<1>8. unseen[m] \subseteq unseen'[m]
  BY <1>5 DEF TypeOK
<1> QED
  BY <1>6, <1>7, <1>8

\* What a monitor writes is not older than what it overwrites.
LEMMA WriteForward ==
  ASSUME IInv, CacheIsCurrent, Ahead, Valued, NEW n \in Monitors, At(n, "write"), NEW x \in Names
  PROVE  cache[n][next[n]][x] >= content[next[n]][x]
<1>1. next[n] \in Virtual /\ next[n] \in Packets /\ next[n] \in holds[n]
  BY Numbers DEF IInv, Locks, Held, At
<1>2. content[next[n]][x] \in Nat /\ cache[n][next[n]][x] \in Nat
  BY <1>1 DEF Valued, IInv, TypeOK
<1>3. CASE x \in OutputsOf(n)
  <2>1. ~Behind(n, next[n])
    BY <1>1 DEF Behind, At
  <2> QED
    BY <1>1, <1>2, <1>3, <2>1 DEF Ahead
<1>4. CASE x \notin OutputsOf(n)
  BY <1>1, <1>2, <1>4 DEF CacheIsCurrent
<1> QED
  BY <1>3, <1>4

LEMMA Forward ==
  ASSUME IInv, CacheIsCurrent, Ahead, Valued, [Next]_vars, NEW p \in Packets, NEW x \in Names
  PROVE  content'[p][x] >= content[p][x]
<1> USE DEF IInv
<1>0. content[p][x] \in Nat /\ content[p][x] <= samples /\ samples \in Nat
  BY DEF Valued, TypeOK
<1>1. ASSUME NEW s \in Downlinked, Downlink(s) PROVE content'[p][x] >= content[p][x]
  <2>1. s \in Packets /\ content' = [content EXCEPT ![s] = [content[s] EXCEPT ![s] = samples + 1]]
    BY <1>1 DEF Downlink, WritePacket, Packets
  <2>2. content'[p][x] = IF p = s /\ x = s THEN samples + 1 ELSE content[p][x]
    BY <2>1 DEF TypeOK, Image
  <2> QED
    BY <1>0, <2>2
<1>2. ASSUME NEW n \in Monitors, At(n, "write"), WritePacket(next[n], cache[n][next[n]])
      PROVE  content'[p][x] >= content[p][x]
  <2>1. IF p = next[n] THEN content'[p] = cache[n][next[n]] ELSE content'[p] = content[p]
    BY <1>2, Writes
  <2>2. cache[n][next[n]][x] >= content[next[n]][x]
    BY <1>2, WriteForward
  <2> QED
    BY <1>0, <2>1, <2>2
<1>3. CASE UNCHANGED shared
  BY <1>0, <1>3 DEF shared
<1> QED
  BY <1>1, <1>2, <1>3, SharedSteps

-----------------------------------------------------------------------------
LEMMA ValuedStep ==
  ASSUME IInv, Valued, [Next]_vars, \A t \in Triggers : SourceOf(t)
  PROVE  Valued'
<1> USE DEF IInv
<1>0. /\ samples \in Nat /\ samples' \in Nat /\ samples <= samples'
      /\ \A i \in 0 .. samples : i \in 0 .. samples'
  <2>1. samples' = samples \/ samples' = samples + 1
    BY NextActs DEF Acts, Pass, Ends, ReadAll, LockPacket, AllLocked, RunTrigger, TriggersDone,
       StartWrite, WriteNext, SkipPacket, Flushed, UnlockPacket, Unlocked, KillWriting, Restart,
       shared, Downlink, Idle
  <2> QED
    BY <2>1 DEF TypeOK
<1> SUFFICES ASSUME NEW p \in Packets, NEW x \in Names
             PROVE  /\ content'[p][x] \in 0 .. samples'
                    /\ \A m \in Monitors : /\ cache'[m][p][x] \in 0 .. samples'
                                           /\ view'[m][p][x] \in 0 .. samples'
  BY DEF Valued
<1>a. /\ content[p][x] \in 0 .. samples
      /\ \A m \in Monitors : cache[m][p][x] \in 0 .. samples /\ view[m][p][x] \in 0 .. samples
  BY DEF Valued
<1>1. content'[p][x] \in 0 .. samples'
  <2>1. ASSUME NEW s \in Downlinked, Downlink(s) PROVE content'[p][x] \in 0 .. samples'
    <3>1. s \in Packets /\ content' = [content EXCEPT ![s] = [content[s] EXCEPT ![s] = samples + 1]]
          /\ samples' = samples + 1
      BY <2>1 DEF Downlink, WritePacket, Packets
    <3>2. content'[p][x] = IF p = s /\ x = s THEN samples + 1 ELSE content[p][x]
      BY <3>1 DEF TypeOK, Image
    <3> QED
      BY <1>0, <1>a, <3>1, <3>2
  <2>2. ASSUME NEW n \in Monitors, At(n, "write"), WritePacket(next[n], cache[n][next[n]])
        PROVE  content'[p][x] \in 0 .. samples'
    <3>1. IF p = next[n] THEN content'[p] = cache[n][p] ELSE content'[p] = content[p]
      BY <2>2, Writes
    <3>2. cache[n][p][x] \in 0 .. samples
      BY DEF Valued
    <3> QED
      BY <1>0, <1>a, <3>1, <3>2
  <2> QED
    BY <1>0, <1>a, <2>1, <2>2, SharedSteps DEF shared
<1>2. ASSUME NEW m \in Monitors PROVE cache'[m][p][x] \in 0 .. samples'
  <2>1. ASSUME NEW n \in Monitors, LockPacket(n) PROVE cache'[m][p][x] \in 0 .. samples'
    <3>1. UNCHANGED cache \/ cache' = [cache EXCEPT ![n][next[n]] = content[next[n]]]
      BY <2>1 DEF LockPacket
    <3>2. cache'[m][p] = cache[m][p] \/ cache'[m][p] = content[p]
      <4>1. cache = [k \in Monitors |-> cache[k]] /\ cache[m] = [q \in Packets |-> cache[m][q]]
        BY DEF TypeOK, Image
      <4>2. n # m => cache'[m] = cache[m]
        BY <3>1, <4>1
      <4>3. n = m => cache'[m][p] = cache[m][p] \/ cache'[m][p] = content[p]
        BY <3>1, <4>1
      <4> QED
        BY <4>2, <4>3
    <3> QED
      BY <1>0, <1>a, <3>2
  <2>2. ASSUME NEW n \in Monitors, NEW t \in Triggers, WriteResult(n, t)
        PROVE  cache'[m][p][x] \in 0 .. samples'
    <3>1. cache'[m][p][x] = cache[m][p][x] \/ cache'[m][p][x] = LatestData(n, t.on)
      <4>1. n # m => cache'[m][p][x] = cache[m][p][x]
        BY <2>2, WriteResultTypes
      <4>2. x # t.out => cache'[m][p][x] = cache[m][p][x]
        BY <2>2, WriteResultTypes
      <4>3. n = m /\ p \in Places[t.out] /\ x = t.out => cache'[m][p][x] = LatestData(n, t.on)
        BY <2>2, WriteResultTypes
      <4>4. n = m /\ p \notin Places[t.out] => cache'[m][p] = cache[m][p]
        BY <2>2 DEF WriteResult, TypeOK
      <4> QED
        BY <4>1, <4>2, <4>3, <4>4
    <3>2. LatestData(n, t.on) \in 0 .. samples
      <4>1. Latest(age[n], PacketsOf(t.on)) \in Packets /\ t.on \in Names
        BY LatestIn, Inputs DEF SourceOf
      <4> QED
        BY <4>1 DEF LatestData, Valued
    <3> QED
      BY <1>0, <1>a, <3>1, <3>2
  <2>3. ASSUME NEW n \in Monitors, Restart(n) PROVE cache'[m][p][x] \in 0 .. samples'
    <3>1. cache'[m] = cache[m] \/ cache'[m] = Zero
      BY <2>3 DEF Restart, TypeOK
    <3>2. Zero[p][x] = 0
      BY DEF Zero
    <3> QED
      BY <1>0, <1>a, <3>1, <3>2
  <2>4. CASE UNCHANGED cache
    BY <1>0, <1>a, <2>4
  <2> QED
    BY <2>1, <2>2, <2>3, <2>4, NextActs DEF Acts, Pass, Ends, ReadAll, AllLocked, RunTrigger,
       TriggersDone, StartWrite, WriteNext, SkipPacket, Flushed, UnlockPacket, Unlocked,
       KillWriting, writer, Downlink, Idle
<1>3. ASSUME NEW m \in Monitors PROVE view'[m][p][x] \in 0 .. samples'
  <2>1. ASSUME NEW n \in Monitors, ReadAll(n) PROVE view'[m][p][x] \in 0 .. samples'
    <3>1. view'[m][p] = view[m][p] \/ view'[m][p] = content[p]
      BY <2>1 DEF ReadAll, TypeOK
    <3> QED
      BY <1>0, <1>a, <3>1
  <2>2. ASSUME NEW n \in Monitors, Restart(n) PROVE view'[m][p][x] \in 0 .. samples'
    <3>1. view'[m] = view[m] \/ view'[m] = Zero
      BY <2>2 DEF Restart, TypeOK
    <3>2. Zero[p][x] = 0
      BY DEF Zero
    <3> QED
      BY <1>0, <1>a, <3>1, <3>2
  <2>3. CASE UNCHANGED view
    BY <1>0, <1>a, <2>3
  <2> QED
    BY <2>1, <2>2, <2>3, NextActs DEF Acts, Pass, Ends, LockPacket, AllLocked, RunTrigger,
       TriggersDone, StartWrite, WriteNext, SkipPacket, Flushed, UnlockPacket, Unlocked,
       KillWriting, viewer, Downlink, Idle
<1> QED
  BY <1>1, <1>2, <1>3

LEMMA FreshStep ==
  ASSUME IInv, Fresh, [Next]_vars
  PROVE  Fresh'
<1> USE DEF IInv
<1> SUFFICES ASSUME NEW p \in Packets, NEW x \in Names
             PROVE  /\ (p \notin Written => content[p][x] = 0)'
                    /\ \A m \in Monitors : Seen(m, p, x)'
  BY DEF Fresh
<1>a. /\ p \notin Written => content[p][x] = 0
      /\ \A m \in Monitors : Seen(m, p, x)
  BY DEF Fresh
<1>1. ASSUME NEW q \in Packets, NEW d, WritePacket(q, d), UNCHANGED view
      PROVE  /\ (p \notin Written => content[p][x] = 0)'
             /\ \A m \in Monitors : Seen(m, p, x)'
  <2>1. p # q => content'[p] = content[p]
    BY <1>1 DEF WritePacket, TypeOK, Image
  <2>2. (\A m \in Monitors : unseen'[m] = unseen[m] \cup {q}) /\ Written' = Written \cup {q}
    BY <1>1, WriteRecency DEF WritePacket
  <2> QED
    BY <1>1, <1>a, <2>1, <2>2 DEF Seen
<1>2. ASSUME NEW s \in Downlinked, Downlink(s)
      PROVE  /\ (p \notin Written => content[p][x] = 0)'
             /\ \A m \in Monitors : Seen(m, p, x)'
  <2>1. s \in Packets /\ UNCHANGED view
    BY <1>2 DEF Downlink, Packets
  <2> QED
    BY <1>1, <1>2, <2>1 DEF Downlink
<1>3. ASSUME NEW n \in Monitors, At(n, "write"), WritePacket(next[n], cache[n][next[n]]),
             UNCHANGED view
      PROVE  /\ (p \notin Written => content[p][x] = 0)'
             /\ \A m \in Monitors : Seen(m, p, x)'
  <2>1. next[n] \in Packets
    BY <1>3, Writes, Numbers
  <2> QED
    BY <1>1, <1>3, <2>1
<1>4. ASSUME UNCHANGED shared
      PROVE  /\ (p \notin Written => content[p][x] = 0)'
             /\ \A m \in Monitors : Seen(m, p, x)'
  <2>1. content'[p][x] = content[p][x] /\ Written' = Written
    BY <1>4 DEF shared, Written
  <2>2. ASSUME NEW m \in Monitors, NEW n \in Monitors, ReadAll(n) PROVE Seen(m, p, x)'
    <3>1. CASE n = m
      <4>1. view'[m][p] = IF p \in unseen[m] THEN content[p] ELSE view[m][p]
        BY <2>2, <3>1 DEF ReadAll, TypeOK
      <4> QED
        BY <1>a, <2>1, <4>1 DEF Seen
    <3>2. CASE n # m
      BY <1>a, <2>1, <2>2, <3>2, ElsewhereSeen DEF Acts, Pass, Seen
    <3> QED
      BY <3>1, <3>2
  <2>3. ASSUME NEW m \in Monitors, NEW n \in Monitors, Restart(n) PROVE Seen(m, p, x)'
    <3>1. CASE n = m
      <4>1. view'[m] = Zero /\ unseen'[m] = Written /\ Zero[p][x] = 0
        BY <2>3, <3>1 DEF Restart, TypeOK, Zero
      <4> QED
        BY <1>a, <2>1, <4>1 DEF Seen
    <3>2. CASE n # m
      BY <1>a, <2>1, <2>3, <3>2, ElsewhereSeen DEF Acts, Seen
    <3> QED
      BY <3>1, <3>2
  <2>4. ASSUME UNCHANGED view, \A n \in Monitors : unseen[n] \subseteq unseen'[n],
               NEW m \in Monitors
        PROVE  Seen(m, p, x)'
    BY <1>a, <2>1, <2>4 DEF Seen
  <2>5. \/ (\E n \in Monitors : ReadAll(n) \/ Restart(n))
        \/ UNCHANGED view /\ \A m \in Monitors : unseen[m] \subseteq unseen'[m]
    BY NextActs DEF Acts, Pass, Ends, LockPacket, AllLocked, RunTrigger, TriggersDone,
       StartWrite, WriteNext, SkipPacket, Flushed, UnlockPacket, Unlocked, KillWriting, viewer,
       Downlink, WritePacket, Idle
  <2> QED
    BY <1>a, <2>1, <2>2, <2>3, <2>4, <2>5
<1> QED
  BY <1>2, <1>3, <1>4, SharedSteps

-----------------------------------------------------------------------------
\* Who does not write a packet leaves it as it is.
LEMMA ContentKept ==
  ASSUME IInv, [Next]_vars, NEW p \in Virtual,
         \A n \in Monitors : WriteNext(n) \/ KillWriting(n) => p \notin holds[n]
  PROVE  content'[p] = content[p]
<1> USE DEF IInv
<1>1. ASSUME NEW s \in Downlinked, Downlink(s) PROVE content'[p] = content[p]
  BY <1>1, Numbers, MonitorAssumption DEF Downlink, WritePacket, TypeOK, Image
<1>2. ASSUME NEW n \in Monitors, WriteNext(n) \/ KillWriting(n), At(n, "write"),
             WritePacket(next[n], cache[n][next[n]])
      PROVE  content'[p] = content[p]
  BY <1>2, Writes, Numbers
<1> QED
  BY <1>1, <1>2, SharedSteps DEF shared

\* A step of its own leaves a monitor's cache as it should be.
LEMMA AheadOwn ==
  ASSUME IInv, Ahead, Valued, Fresh, \A t \in Triggers : DerivedOf(t), [Next]_vars,
         NEW m \in Monitors, Acts(m), NEW p \in Virtual,
         NEW x \in OutputsOf(m)
  PROVE  content'[p][x] <= cache'[m][p][x] \/ Behind(m, p)'
<1> USE DEF IInv
<1>a. content[p][x] <= cache[m][p][x] \/ Behind(m, p)
  BY DEF Ahead
<1>b. p \in Packets /\ p \in Nat /\ p < NumVirtual /\ x \in Names
  BY Numbers, ResultPlaces DEF OutputsOf, Virtual
<1>v. content[p][x] <= content[p][x] /\ cache[m][p][x] <= cache[m][p][x]
  BY <1>b DEF Valued, TypeOK
<1>c. /\ pc \in [Monitors -> {"update", "lock", "trigger", "flush", "write", "unlock",
                              "exited", "stuck", "hung"}]
      /\ next \in [Monitors -> 0 .. NumVirtual] /\ next[m] \in Nat
      /\ holds \in [Monitors -> SUBSET Virtual] /\ NumVirtual \in Nat
  BY Numbers DEF TypeOK
<1>d. cache = [n \in Monitors |-> cache[n]] /\ cache[m] = [q \in Packets |-> cache[m][q]]
  BY DEF TypeOK, Image
<1>1. CASE ReadAll(m)
  <2>1. /\ UNCHANGED <<content, cache, holds>> /\ pc[m] = "update" /\ pc'[m] = "lock"
        /\ next'[m] = 0 /\ updated'[m] = unseen[m]
    BY <1>1, <1>c DEF ReadAll, At, Goto, From, writer, shared, TypeOK
  <2> QED
    BY <1>a, <1>b, <2>1 DEF Behind, At
<1>2. CASE LockPacket(m)
  <2>1. /\ UNCHANGED <<content, updated>> /\ pc[m] = "lock" /\ pc'[m] = "lock"
        /\ next'[m] = next[m] + 1 /\ holds'[m] = holds[m] \cup {next[m]} /\ next[m] \in Virtual
    BY <1>2, <1>c DEF LockPacket, At, From, viewer, shared, Virtual
  <2>2. CASE cache' = [cache EXCEPT ![m][next[m]] = content[next[m]]]
    <3>1. p = next[m] => cache'[m][p] = content[p]
      BY <1>b, <1>d, <2>2
    <3>2. p # next[m] => cache'[m][p] = cache[m][p]
      BY <1>b, <1>d, <2>2
    <3>3. CASE p = next[m]
      BY <1>v, <2>1, <3>1, <3>3
    <3>4. CASE p # next[m]
      BY <1>a, <1>b, <1>c, <2>1, <3>2, <3>4 DEF Behind, At
    <3> QED
      BY <3>3, <3>4
  <2>3. CASE UNCHANGED cache /\ m \notin CheckUpdates /\ next[m] \notin updated[m]
    <3>1. Behind(m, p) => Behind(m, p)'
      BY <1>b, <1>c, <2>1, <2>3 DEF Behind, At
    <3> QED
      BY <1>a, <2>1, <2>3, <3>1
  <2> QED
    BY <1>2, <2>2, <2>3 DEF LockPacket
<1>3. CASE AllLocked(m)
  <2>1. /\ UNCHANGED <<content, cache, holds>> /\ pc[m] = "lock" /\ pc'[m] = "trigger"
        /\ next[m] = NumVirtual
    BY <1>3, <1>c DEF AllLocked, At, Goto, writer, shared
  <2>2. ~(next[m] <= p)
    BY <1>b, <1>c, <2>1
  <2> QED
    BY <1>a, <2>1, <2>2 DEF Behind, At
<1>4. CASE \E t \in Triggers : RunTrigger(m, t)
  <2>1. PICK t \in Triggers : RunTrigger(m, t)
    BY <1>4
  <2>2. /\ UNCHANGED <<content, holds, pc>> /\ pc[m] = "trigger" /\ t \in todo[m]
    BY <2>1 DEF RunTrigger, At, control, shared
  <2>3. Behind(m, p) => Behind(m, p)'
    BY <2>2 DEF Behind, At
  <2>4. CASE UNCHANGED cache
    BY <1>a, <2>2, <2>3, <2>4
  <2>5. CASE WriteResult(m, t)
    <3>1. CASE x = t.out /\ p \in Places[t.out]
      <4>1. t.monitor = m
        BY <2>2 DEF OwnTriggers
      <4>2. content[p][x] <= LatestData(m, t.on)
        BY <2>2, <3>1, <4>1 DEF DerivedOf
      <4>3. cache'[m][p][x] = LatestData(m, t.on)
        BY <2>5, <3>1, WriteResultTypes
      <4> QED
        BY <2>2, <4>2, <4>3
    <3>2. CASE x # t.out
      <4>1. cache'[m][p][x] = cache[m][p][x]
        BY <1>b, <2>5, <3>2, WriteResultTypes
      <4> QED
        BY <1>a, <2>2, <2>3, <4>1
    <3>3. CASE p \notin Places[t.out]
      <4>1. cache'[m][p] = cache[m][p]
        BY <1>b, <1>d, <2>5, <3>3 DEF WriteResult
      <4> QED
        BY <1>a, <2>2, <2>3, <4>1
    <3> QED
      BY <3>1, <3>2, <3>3
  <2> QED
    BY <2>1, <2>4, <2>5 DEF RunTrigger, writer
<1>5. CASE TriggersDone(m) \/ StartWrite(m) \/ SkipPacket(m) \/ Flushed(m)
  <2>1. /\ UNCHANGED <<content, cache, holds>> /\ pc[m] \in {"trigger", "flush"}
    BY <1>5 DEF TriggersDone, StartWrite, SkipPacket, Flushed, At, writer, shared
  <2>2. Behind(m, p) => Behind(m, p)'
    BY <2>1 DEF Behind, At
  <2> QED
    BY <1>a, <2>1, <2>2
<1>6. CASE WriteNext(m) \/ KillWriting(m)
  <2>1. /\ UNCHANGED <<cache, holds>> /\ pc[m] = "write"
    BY <1>6 DEF WriteNext, KillWriting, At, writer
  <2>2. Behind(m, p) => Behind(m, p)'
    BY <2>1 DEF Behind, At
  <2>3. CASE WritePacket(next[m], cache[m][next[m]])
    <3>1. IF p = next[m] THEN content'[p] = cache[m][p] ELSE content'[p] = content[p]
      BY <1>b, <2>1, <2>3, Writes DEF At
    <3>2. ~Behind(m, p)
      BY <1>b, <2>1 DEF Behind, At, Locks, Held
    <3>3. CASE p = next[m]
      BY <1>v, <2>1, <3>1, <3>3
    <3>4. CASE p # next[m]
      BY <1>a, <2>1, <3>1, <3>2, <3>4
    <3> QED
      BY <3>3, <3>4
  <2>4. CASE UNCHANGED content
    BY <1>a, <2>1, <2>2, <2>4
  <2> QED
    BY <1>6, <2>3, <2>4 DEF WriteNext, KillWriting
<1>7. CASE UnlockPacket(m) \/ Unlocked(m)
  <2>1. UNCHANGED <<content, cache>> /\ pc[m] = "unlock" /\ holds'[m] \subseteq holds[m]
    BY <1>7, <1>c DEF UnlockPacket, Unlocked, At, writer, shared
  <2>2. Behind(m, p) => Behind(m, p)'
    BY <2>1 DEF Behind, At
  <2> QED
    BY <1>a, <2>1, <2>2
<1>8. CASE Ends(m)
  <2>1. /\ UNCHANGED <<content, cache>> /\ pc'[m] \in {"exited", "stuck"}
    BY <1>8, <1>c DEF Ends, Goto, writer, shared
  <2> QED
    BY <2>1 DEF Behind
<1>9. CASE Restart(m)
  <2>1. /\ UNCHANGED content /\ cache'[m] = Zero /\ pc'[m] = "update" /\ unseen'[m] = Written
    BY <1>9, <1>c, <1>d DEF Restart, Goto, shared, TypeOK
  <2>2. Zero[p][x] = 0 /\ (p \notin Written => content[p][x] = 0)
    BY <1>b DEF Zero, Fresh
  <2> QED
    BY <2>1, <2>2 DEF Behind, At
<1> QED
  BY <1>1, <1>2, <1>3, <1>4, <1>5, <1>6, <1>7, <1>8, <1>9 DEF Acts, Pass

LEMMA AheadStep ==
  ASSUME IInv, Alone, Ahead, Valued, Fresh, \A t \in Triggers : DerivedOf(t), [Next]_vars
  PROVE  Ahead'
<1> USE DEF IInv
<1> SUFFICES ASSUME NEW m \in Monitors, NEW p \in Virtual, NEW x \in OutputsOf(m)
             PROVE  content'[p][x] <= cache'[m][p][x] \/ Behind(m, p)'
  BY DEF Ahead, OutputsOf
<1>a. content[p][x] <= cache[m][p][x] \/ Behind(m, p)
  BY DEF Ahead
<1>1. CASE Acts(m)
  BY <1>1, AheadOwn
<1>2. ASSUME NEW n \in Monitors, n # m, Acts(n)
      PROVE  content'[p][x] <= cache'[m][p][x] \/ Behind(m, p)'
  <2>1. /\ pc'[m] = pc[m] /\ next'[m] = next[m] /\ cache'[m] = cache[m]
        /\ updated'[m] = updated[m] /\ holds'[m] = holds[m] /\ unseen[m] \subseteq unseen'[m]
    BY <1>2, Elsewhere, ElsewhereSeen
  <2>2. Behind(m, p) => Behind(m, p)'
    BY <2>1 DEF Behind, At
  <2>3. CASE content'[p] = content[p]
    BY <1>a, <2>1, <2>2, <2>3
  <2>4. CASE content'[p] # content[p]
    <3>1. PICK k \in Monitors : (WriteNext(k) \/ KillWriting(k)) /\ p \in holds[k]
      BY <2>4, ContentKept
    <3>2. At(k, "write")
      BY <3>1 DEF WriteNext, KillWriting
    <3>3. CASE k = m
      BY <1>1, <3>1, <3>3 DEF Acts, Pass
    <3>4. CASE k # m
      <4>1. p \notin holds[m]
        BY <3>1, <3>4 DEF Locks
      <4>2. m \in CheckUpdates
        BY <3>2, <3>4 DEF Alone
      <4> QED
        BY <2>1, <4>1, <4>2 DEF Behind
    <3> QED
      BY <3>3, <3>4
  <2> QED
    BY <2>3, <2>4
<1>3. CASE (\E s \in Downlinked : Downlink(s)) \/ Idle
  <2>1. UNCHANGED <<pc, next, cache, updated, holds>> /\ unseen[m] \subseteq unseen'[m]
    BY <1>3 DEF Downlink, WritePacket, Idle, control, writer, viewer
  <2>2. content'[p] = content[p]
    <3>1. CASE \E s \in Downlinked : Downlink(s)
      BY <3>1, Numbers, MonitorAssumption DEF Downlink, WritePacket, TypeOK, Image
    <3>2. CASE Idle
      BY <3>2 DEF Idle, shared
    <3> QED
      BY <1>3, <3>1, <3>2
  <2>3. Behind(m, p) => Behind(m, p)'
    BY <2>1 DEF Behind, At
  <2> QED
    BY <1>a, <2>1, <2>2, <2>3
<1> QED
  BY <1>1, <1>2, <1>3, NextActs

LEMMA GoingStep ==
  ASSUME IInv, Going, [Next]_vars
  PROVE  Going'
<1> SUFFICES ASSUME Killable = {}
             PROVE  Intact' /\ \A m \in Monitors : pc'[m] \notin {"exited", "stuck"}
  BY DEF Going
<1>1. killed = {} /\ restarts = 0 /\ \A m \in Monitors : pc[m] \notin {"exited", "stuck"}
  BY DEF Going, Intact
<1>2. \A n \in Monitors : ~Signal(n) /\ ~Restart(n)
  BY <1>1 DEF Signal, Signalled, Kill, KillReading, KillWriting, KillLeaving, Restart, At
<1>3. Intact'
  BY <1>1, <1>2 DEF Next, Step, Update, LockPacket, AllLocked, RunTrigger, TriggersDone, StartWrite,
     FinishWrite, SkipPacket, Flushed, UnlockPacket, Unlocked, BlockedRead, BlockedWrite, Stop,
     Downlink, vars, process, Intact
<1>4. ASSUME NEW n \in Monitors, Pass(n)
      PROVE  \A m \in Monitors : pc'[m] \notin {"exited", "stuck"}
  <2>1. \/ UNCHANGED pc \/ Goto(n, "update") \/ Goto(n, "lock") \/ Goto(n, "trigger")
        \/ Goto(n, "flush") \/ Goto(n, "write") \/ Goto(n, "unlock")
    BY <1>1, <1>4 DEF Pass, ReadAll, LockPacket, AllLocked, RunTrigger, TriggersDone, StartWrite,
       WriteNext, SkipPacket, Flushed, UnlockPacket, Unlocked, control
  <2> QED
    BY <1>1, <2>1 DEF Goto, IInv, TypeOK
<1>5. (\E s \in Downlinked : Downlink(s)) \/ Idle => UNCHANGED pc
  BY DEF Downlink, Idle, control
<1> QED
  BY <1>1, <1>3, <1>4, <1>5, IntactSteps DEF IInv

-----------------------------------------------------------------------------
\* A packet that is written has copies as new as those in other packets.
LEMMA WrittenNewest ==
  ASSUME Uncut, IInv, Blank, CacheIsCurrent, Results, Going, Ahead, Valued,
         NEW n \in Monitors, At(n, "write"), WritePacket(next[n], cache[n][next[n]]),
         NEW u \in Triggers, next[n] \in PacketsOf(u.on), NEW q \in PacketsOf(u.on)
  PROVE  content'[q][u.on] <= content'[next[n]][u.on]
<1> DEFINE p == next[n]
           x == u.on
<1> USE DEF IInv
<1>1. /\ p \in Virtual /\ p \in holds[n] /\ content'[p] = cache[n][p]
      /\ \A r \in Packets \ {p} : content'[r] = content[r]
  BY Writes
<1>2. x \in Names /\ q \in Virtual /\ q \in Packets /\ p \in Packets
  BY <1>1, Inputs, Numbers
<1>3. /\ content[q][x] \in Nat /\ cache[n][p][x] \in Nat /\ cache[n][q][x] \in Nat
      /\ holds[n] = Virtual
  <2>1. content[q][x] \in Nat /\ cache[n][p][x] \in Nat /\ cache[n][q][x] \in Nat
    BY <1>2 DEF Valued, TypeOK
  <2>2. holds[n] = Virtual
    BY DEF Locks, Held, At
  <2> QED
    BY <2>1, <2>2
<1>4. CASE q = p
  BY <1>1, <1>3, <1>4
<1>5. CASE q # p /\ Killable = {}
  <2>1. Intact /\ content'[q] = content[q]
    BY <1>1, <1>2, <1>5 DEF Going
  <2>2. CASE \A t \in Triggers : t.out # x
    BY <1>1, <1>2, <1>3, <2>1, <2>2 DEF Blank
  <2>3. ASSUME NEW t \in Triggers, t.out = x, t.monitor = n PROVE content'[q][x] <= content'[p][x]
    <3>1. q \in Places[x] /\ p \in Places[x]
      BY <1>1, <2>3, MonitorAssumption DEF PacketsOf
    <3>2. cache[n][q][x] = cache[n][p][x]
      BY <2>1, <2>3, <3>1 DEF Results, ResultOf, CacheAgrees, At
    <3>3. ~Behind(n, q) /\ x \in OutputsOf(n)
      BY <1>2, <1>3, <2>3 DEF Behind, At, OutputsOf
    <3>4. content[q][x] <= cache[n][q][x]
      BY <1>2, <3>3 DEF Ahead
    <3> QED
      BY <1>1, <2>1, <3>2, <3>4
  <2>4. ASSUME NEW t \in Triggers, t.out = x, t.monitor # n PROVE content'[q][x] <= content'[p][x]
    <3>1. q \in Places[x] /\ p \in Places[x] /\ t.monitor \in Monitors
      BY <1>1, <2>4, MonitorAssumption DEF PacketsOf
    <3>2. pc[t.monitor] \notin {"flush", "write"}
      BY <1>1, <2>4, <3>1 DEF Locks, Held
    <3>3. content[q][x] = content[p][x]
      BY <2>1, <2>4, <3>1, <3>2 DEF Results, ResultOf, SharedAgrees
    <3>4. x \notin OutputsOf(n)
      BY <2>4, MonitorAssumption DEF OutputsOf
    <3>5. cache[n][p][x] = content[p][x]
      BY <1>1, <1>2, <3>4 DEF CacheIsCurrent
    <3> QED
      BY <1>1, <1>3, <2>1, <3>3, <3>5
  <2> QED
    BY <2>2, <2>3, <2>4
<1> QED
  BY <1>4, <1>5 DEF Uncut

\* A write leaves the newest copy the newest, and it does not go back.
LEMMA SourceWritten ==
  ASSUME TypeOK, TypeOK', Valued, Valued', NEW t \in Triggers, SourceOf(t),
         NEW p \in Packets, NEW d, WritePacket(p, d),
         \A r \in Packets : content'[r][t.on] >= content[r][t.on],
         p \in PacketsOf(t.on) => \A r \in PacketsOf(t.on) : content'[r][t.on] <= content'[p][t.on]
  PROVE  /\ Lasts(recency, PacketsOf(t.on))' # {}
         /\ \A q \in PacketsOf(t.on) : content'[q][t.on] <= Newest(t.on)'
         /\ Newest(t.on) <= Newest(t.on)' /\ Newest(t.on)' \in Nat
<1> DEFINE S == PacketsOf(t.on)
           L == Latest(recency, S)
<1>1. S \subseteq Packets /\ L \in S /\ t.on \in Names
  BY Inputs, LatestIn DEF SourceOf
<1>2. \A r \in Packets : content[r][t.on] \in Nat /\ content'[r][t.on] \in Nat
  BY <1>1 DEF Valued, TypeOK
<1>3. \A r \in Packets : r # p => content'[r] = content[r]
  BY DEF WritePacket, TypeOK, Image
<1>4. Newest(t.on)' = content'[Latest(recency', S)][t.on]
  BY DEF Newest, PacketsOf
<1>5. CASE p \in S
  <2>1. Lasts(recency', S) = {p}
    BY <1>1, <1>5, WriteRecency
  <2>2. Latest(recency', S) = p
    BY <2>1 DEF Latest
  <2>3. content[L][t.on] <= content'[p][t.on]
    BY <1>1, <1>2, <1>5
  <2> QED
    BY <1>2, <1>4, <1>5, <2>1, <2>2, <2>3 DEF Newest, PacketsOf
<1>6. CASE p \notin S
  <2>1. Lasts(recency', S) = Lasts(recency, S)
    BY <1>1, <1>6, WriteRecency
  <2>2. Latest(recency', S) = L
    BY <2>1 DEF Latest
  <2>3. \A r \in S : content'[r][t.on] = content[r][t.on]
    BY <1>1, <1>3, <1>6
  <2>4. Newest(t.on)' = Newest(t.on) /\ Newest(t.on) \in Nat
    BY <1>1, <1>2, <1>4, <2>2, <2>3 DEF Newest
  <2>5. Lasts(recency, PacketsOf(t.on))' # {}
    BY <2>1 DEF SourceOf, PacketsOf
  <2>6. \A q \in S : content'[q][t.on] <= Newest(t.on)'
    BY <2>3, <2>4 DEF SourceOf
  <2> QED
    BY <2>4, <2>5, <2>6
<1> QED
  BY <1>5, <1>6

LEMMA SourceKept ==
  ASSUME Uncut, IInv, IInv', Blank, CacheIsCurrent, Results, Going, Ahead, Valued, Valued',
         [Next]_vars, NEW t \in Triggers, SourceOf(t)
  PROVE  /\ Lasts(recency, PacketsOf(t.on))' # {}
         /\ \A q \in PacketsOf(t.on) : content'[q][t.on] <= Newest(t.on)'
         /\ Newest(t.on) <= Newest(t.on)' /\ Newest(t.on)' \in Nat
<1> USE DEF IInv
<1>0. \A r \in Packets : content'[r][t.on] >= content[r][t.on]
  BY Inputs, Forward
<1>1. ASSUME NEW s \in Downlinked, Downlink(s)
      PROVE  /\ Lasts(recency, PacketsOf(t.on))' # {}
             /\ \A q \in PacketsOf(t.on) : content'[q][t.on] <= Newest(t.on)'
             /\ Newest(t.on) <= Newest(t.on)' /\ Newest(t.on)' \in Nat
  <2>1. s \in Packets /\ WritePacket(s, [content[s] EXCEPT ![s] = samples + 1])
    BY <1>1 DEF Downlink, Packets
  <2>2. s \in PacketsOf(t.on) => \A r \in PacketsOf(t.on) : content'[r][t.on] <= content'[s][t.on]
    <3>1. content'[s][t.on] \in Nat
      BY <2>1, Inputs DEF Valued, TypeOK
    <3> QED
      BY <3>1, Inputs
  <2> QED
    BY <1>0, <2>1, <2>2, SourceWritten
<1>2. ASSUME NEW n \in Monitors, At(n, "write"), WritePacket(next[n], cache[n][next[n]])
      PROVE  /\ Lasts(recency, PacketsOf(t.on))' # {}
             /\ \A q \in PacketsOf(t.on) : content'[q][t.on] <= Newest(t.on)'
             /\ Newest(t.on) <= Newest(t.on)' /\ Newest(t.on)' \in Nat
  <2>1. next[n] \in Packets
    BY <1>2, Writes, Numbers
  <2>2. next[n] \in PacketsOf(t.on)
          => \A r \in PacketsOf(t.on) : content'[r][t.on] <= content'[next[n]][t.on]
    BY <1>2, WrittenNewest
  <2> QED
    BY <1>0, <1>2, <2>1, <2>2, SourceWritten
<1>3. CASE UNCHANGED shared
  <2>1. Latest(recency, PacketsOf(t.on)) \in Packets /\ t.on \in Names
    BY Inputs, LatestIn DEF SourceOf
  <2>2. content' = content /\ recency' = recency
    BY <1>3 DEF shared
  <2>3. Newest(t.on)' = Newest(t.on)
    BY <2>2 DEF Newest, PacketsOf
  <2>4. Newest(t.on) \in Nat
    BY <2>1 DEF Newest, Valued, TypeOK
  <2>5. Lasts(recency, PacketsOf(t.on))' # {}
    BY <2>2 DEF SourceOf, PacketsOf
  <2>6. \A q \in PacketsOf(t.on) : content'[q][t.on] <= Newest(t.on)'
    BY <2>2, <2>3 DEF SourceOf
  <2> QED
    BY <2>3, <2>4, <2>5, <2>6
<1> QED
  BY <1>1, <1>2, <1>3, SharedSteps

LEMMA SourceTyped ==
  ASSUME TypeOK, Valued, NEW t \in Triggers, SourceOf(t)
  PROVE  /\ Newest(t.on) \in Nat
         /\ \A m \in Monitors : LatestData(m, t.on) \in Nat
<1>1. t.on \in Names /\ Latest(recency, PacketsOf(t.on)) \in Packets
      /\ \A m \in Monitors : Latest(age[m], PacketsOf(t.on)) \in Packets
  BY Inputs, LatestIn DEF SourceOf
<1>2. Newest(t.on) \in Nat
  BY <1>1 DEF Newest, Valued, TypeOK
<1>3. \A m \in Monitors : LatestData(m, t.on) \in Nat
  BY <1>1 DEF LatestData, Valued, TypeOK
<1> QED
  BY <1>2, <1>3

\* What a monitor that has just seen everything reads is the newest copy.
LEMMA UpdateReads ==
  ASSUME IInv, Fresh, NEW m \in Monitors, ReadAll(m), NEW t \in Triggers, SourceOf(t)
  PROVE  /\ LatestData(m, t.on)' = Newest(t.on) /\ Lasts(age'[m], PacketsOf(t.on)) # {}
         /\ UNCHANGED <<content, recency, cache>>
<1>1. age'[m] = recency /\ UNCHANGED <<content, recency, cache>>
  BY DEF ReadAll, shared, writer, IInv, TypeOK
<1>2. Latest(recency, PacketsOf(t.on)) \in Packets /\ t.on \in Names
  BY Inputs, LatestIn DEF SourceOf
<1>3. \A p \in Packets : view'[m][p] = IF p \in unseen[m] THEN content[p] ELSE view[m][p]
  BY DEF ReadAll, IInv, TypeOK
<1>4. \A p \in Packets : view'[m][p][t.on] = content[p][t.on]
  BY <1>2, <1>3 DEF Fresh, Seen
<1>5. LatestData(m, t.on)' = view'[m][Latest(recency, PacketsOf(t.on))][t.on]
  BY <1>1 DEF LatestData, PacketsOf
<1> QED
  BY <1>1, <1>2, <1>4, <1>5 DEF Newest, SourceOf

\* A monitor that has just started reads zeros.
LEMMA RestartReads ==
  ASSUME IInv, NEW m \in Monitors, Restart(m), NEW t \in Triggers
  PROVE  /\ LatestData(m, t.on)' = 0 /\ Lasts(age'[m], PacketsOf(t.on)) # {}
         /\ cache'[m] = Zero /\ pc'[m] = "update" /\ UNCHANGED content
<1>1. /\ age'[m] = Unwritten /\ view'[m] = Zero /\ cache'[m] = Zero /\ pc'[m] = "update"
      /\ UNCHANGED content
  BY DEF Restart, Goto, shared, IInv, TypeOK
<1>2. Lasts(Unwritten, PacketsOf(t.on)) = PacketsOf(t.on)
  BY Inputs DEF Lasts, Unwritten
<1>3. Latest(Unwritten, PacketsOf(t.on)) \in Packets /\ t.on \in Names
  BY <1>2, Inputs, LatestIn
<1>4. LatestData(m, t.on)' = Zero[Latest(Unwritten, PacketsOf(t.on))][t.on]
  BY <1>1 DEF LatestData, PacketsOf
<1> QED
  BY <1>1, <1>2, <1>3, <1>4, Inputs DEF Zero

LEMMA SourceStep ==
  ASSUME Uncut, IInv, IInv', Blank, CacheIsCurrent, Results, Going, Ahead, Fresh, Valued, Valued',
         [Next]_vars, NEW t \in Triggers, SourceOf(t)
  PROVE  SourceOf(t)'
<1> USE DEF IInv
<1>1. /\ Lasts(recency, PacketsOf(t.on))' # {}
      /\ \A q \in PacketsOf(t.on) : content'[q][t.on] <= Newest(t.on)'
      /\ Newest(t.on) <= Newest(t.on)' /\ Newest(t.on)' \in Nat
  BY SourceKept
<1>2. ASSUME NEW m \in Monitors
      PROVE  Lasts(age'[m], PacketsOf(t.on)) # {} /\ LatestData(m, t.on)' <= Newest(t.on)'
  <2>a. /\ Lasts(age[m], PacketsOf(t.on)) # {} /\ LatestData(m, t.on) <= Newest(t.on)
        /\ LatestData(m, t.on) \in Nat /\ Newest(t.on) \in Nat
    BY SourceTyped DEF SourceOf
  <2>1. CASE age'[m] = age[m] /\ view'[m] = view[m]
    <3>1. LatestData(m, t.on)' = LatestData(m, t.on)
      BY <2>1 DEF LatestData, PacketsOf
    <3> QED
      BY <1>1, <2>1, <2>a, <3>1
  <2>2. CASE ReadAll(m)
    BY <1>1, <2>2, <2>a, UpdateReads
  <2>3. CASE Restart(m)
    BY <1>1, <2>3, RestartReads
  <2>4. \/ age'[m] = age[m] /\ view'[m] = view[m]
        \/ ReadAll(m) \/ Restart(m)
    <3>1. ASSUME NEW n \in Monitors, n # m, Acts(n)
          PROVE  age'[m] = age[m] /\ view'[m] = view[m]
      BY <3>1, ElsewhereSeen
    <3>2. Pass(m) \/ Ends(m) \/ KillWriting(m) => ReadAll(m) \/ UNCHANGED <<view, age>>
      BY DEF Pass, Ends, LockPacket, AllLocked, RunTrigger, TriggersDone, StartWrite,
         WriteNext, SkipPacket, Flushed, UnlockPacket, Unlocked, KillWriting, viewer
    <3>3. (\E s \in Downlinked : Downlink(s)) \/ Idle => UNCHANGED <<view, age>>
      BY DEF Downlink, Idle, viewer
    <3> QED
      BY <3>1, <3>2, <3>3, NextActs DEF Acts
  <2> QED
    BY <2>1, <2>2, <2>3, <2>4
<1>3. PacketsOf(t.on)' = PacketsOf(t.on)
  BY DEF PacketsOf
<1> QED
  BY <1>1, <1>2, <1>3 DEF SourceOf

\* Copying a result between cache and shared memory makes it no newer.
LEMMA DerivedKept ==
  ASSUME IInv, Valued, NEW t \in Triggers, SourceOf(t), DerivedOf(t),
         Newest(t.on) <= Newest(t.on)', Newest(t.on)' \in Nat,
         \A p \in Places[t.out] :
           /\ content'[p][t.out] \in {content[p][t.out], cache[t.monitor][p][t.out]}
           /\ cache'[t.monitor][p][t.out] \in {content[p][t.out], cache[t.monitor][p][t.out]},
         view'[t.monitor] = view[t.monitor], age'[t.monitor] = age[t.monitor],
         \/ pc'[t.monitor] \in {"update", "exited", "stuck"}
         \/ pc[t.monitor] \notin {"update", "exited", "stuck"}
  PROVE  DerivedOf(t)'
<1>1. LatestData(t.monitor, t.on)' = LatestData(t.monitor, t.on)
  BY DEF LatestData, PacketsOf
<1>2. SUFFICES ASSUME NEW p \in Places[t.out]
               PROVE  /\ content'[p][t.out] <= Newest(t.on)'
                      /\ cache'[t.monitor][p][t.out] <= Newest(t.on)'
                      /\ pc'[t.monitor] \notin {"update", "exited", "stuck"} =>
                           /\ content'[p][t.out] <= LatestData(t.monitor, t.on)
                           /\ cache'[t.monitor][p][t.out] <= LatestData(t.monitor, t.on)
  BY <1>1 DEF DerivedOf
<1>3. content[p][t.out] \in Nat /\ cache[t.monitor][p][t.out] \in Nat /\ Newest(t.on) \in Nat
  <2>1. t.monitor \in Monitors /\ t.out \in Names /\ p \in Packets
    BY Inputs, ResultPlaces, Numbers
  <2>2. Newest(t.on) \in Nat
    BY SourceTyped DEF IInv
  <2> QED
    BY <2>1, <2>2 DEF Valued, IInv, TypeOK
<1>4. content[p][t.out] <= Newest(t.on)' /\ cache[t.monitor][p][t.out] <= Newest(t.on)'
  BY <1>3 DEF DerivedOf
<1> QED
  BY <1>4 DEF DerivedOf

LEMMA DerivedOwn ==
  ASSUME IInv, CacheIsCurrent, Valued, Fresh, [Next]_vars, NEW t \in Triggers, SourceOf(t),
         DerivedOf(t), Newest(t.on) <= Newest(t.on)', Newest(t.on)' \in Nat, NEW m, m = t.monitor,
         Acts(m)
  PROVE  DerivedOf(t)'
<1> USE DEF IInv
<1>a. /\ m \in Monitors /\ t.out \in Names /\ Places[t.out] \subseteq Virtual
      /\ Places[t.out] \subseteq Packets
  BY Inputs, ResultPlaces, Numbers
<1>b. /\ pc \in [Monitors -> {"update", "lock", "trigger", "flush", "write", "unlock",
                              "exited", "stuck", "hung"}]
      /\ cache = [n \in Monitors |-> cache[n]] /\ cache[m] = [q \in Packets |-> cache[m][q]]
  BY <1>a DEF TypeOK, Image
<1>c. Newest(t.on) \in Nat /\ LatestData(m, t.on) \in Nat
  BY <1>a, SourceTyped
<1>1. CASE ReadAll(m)
  <2>1. LatestData(m, t.on)' = Newest(t.on) /\ UNCHANGED <<content, recency, cache>>
    BY <1>a, <1>1, UpdateReads
  <2>2. Newest(t.on)' = Newest(t.on)
    BY <2>1 DEF Newest, PacketsOf
  <2> QED
    BY <2>1, <2>2 DEF DerivedOf
<1>2. CASE LockPacket(m)
  <2>1. UNCHANGED <<content, pc, view, age>>
    BY <1>2 DEF LockPacket, shared, viewer
  <2>2. UNCHANGED cache \/ cache' = [cache EXCEPT ![m][next[m]] = content[next[m]]]
    BY <1>2 DEF LockPacket
  <2>3. \A p \in Packets : cache'[m][p] = cache[m][p] \/ cache'[m][p] = content[p]
    BY <1>a, <1>b, <2>2
  <2>4. /\ view'[t.monitor] = view[t.monitor] /\ age'[t.monitor] = age[t.monitor]
        /\ pc'[t.monitor] = pc[t.monitor]
        /\ \A p \in Places[t.out] :
             /\ content'[p][t.out] \in {content[p][t.out], cache[t.monitor][p][t.out]}
             /\ cache'[t.monitor][p][t.out] \in {content[p][t.out], cache[t.monitor][p][t.out]}
    BY <1>a, <2>1, <2>3
  <2> QED
    BY <2>4, DerivedKept
<1>3. CASE \E u \in Triggers : RunTrigger(m, u)
  <2>1. PICK u \in Triggers : RunTrigger(m, u)
    BY <1>3
  <2>2. UNCHANGED <<content, pc, view, age, recency>> /\ pc[m] = "trigger"
    BY <2>1 DEF RunTrigger, shared, viewer, control, At
  <2>3. CASE WriteResult(m, t)
    <3>1. \A p \in Places[t.out] : cache'[m][p][t.out] = LatestData(m, t.on)
      BY <1>a, <2>3, WriteResultTypes
    <3>2. LatestData(m, t.on) <= Newest(t.on) /\ LatestData(m, t.on) <= LatestData(m, t.on)
      BY <1>a, <1>c DEF SourceOf
    <3>3. LatestData(m, t.on)' = LatestData(m, t.on) /\ Newest(t.on)' = Newest(t.on)
      BY <2>2 DEF LatestData, Newest, PacketsOf
    <3> QED
      BY <2>2, <3>1, <3>2, <3>3 DEF DerivedOf
  <2>4. CASE UNCHANGED cache \/ (WriteResult(m, u) /\ u # t)
    <3>1. ASSUME NEW p \in Places[t.out]
          PROVE  cache'[m][p][t.out] = cache[m][p][t.out]
      <4>1. WriteResult(m, u) /\ u # t => u.out # t.out
        BY MonitorAssumption
      <4> QED
        BY <1>a, <2>4, <4>1, WriteResultTypes
    <3> QED
      BY <2>2, <3>1, DerivedKept
  <2> QED
    BY <2>1, <2>3, <2>4 DEF RunTrigger, writer
<1>4. CASE WriteNext(m) \/ KillWriting(m)
  <2>1. UNCHANGED <<cache, view, age>> /\ pc[m] = "write"
    BY <1>4 DEF WriteNext, KillWriting, At, writer
  <2>2. WritePacket(next[m], cache[m][next[m]]) \/ UNCHANGED content
    BY <1>4 DEF WriteNext, KillWriting
  <2>3. \A p \in Packets : content'[p] = content[p] \/ content'[p] = cache[m][p]
    BY <1>a, <2>1, <2>2, Writes DEF At
  <2>4. /\ view'[t.monitor] = view[t.monitor] /\ age'[t.monitor] = age[t.monitor]
        /\ pc[t.monitor] = "write"
        /\ \A p \in Places[t.out] :
             /\ content'[p][t.out] \in {content[p][t.out], cache[t.monitor][p][t.out]}
             /\ cache'[t.monitor][p][t.out] \in {content[p][t.out], cache[t.monitor][p][t.out]}
    BY <1>a, <2>1, <2>3
  <2> QED
    BY <2>4, DerivedKept
<1>5. CASE Restart(m)
  <2>1. cache'[m] = Zero /\ pc'[m] = "update" /\ UNCHANGED content
    BY <1>a, <1>5, RestartReads
  <2>2. \A p \in Places[t.out] : Zero[p][t.out] = 0
    BY <1>a DEF Zero
  <2>3. \A p \in Places[t.out] : content[p][t.out] \in Nat
    BY <1>a DEF Valued, TypeOK
  <2>4. \A p \in Places[t.out] :
          content'[p][t.out] <= Newest(t.on)' /\ cache'[m][p][t.out] <= Newest(t.on)'
    BY <1>c, <2>1, <2>2, <2>3 DEF DerivedOf
  <2> QED
    BY <2>1, <2>4 DEF DerivedOf
<1>6. CASE AllLocked(m) \/ TriggersDone(m) \/ StartWrite(m) \/ SkipPacket(m) \/ Flushed(m)
           \/ UnlockPacket(m) \/ Unlocked(m) \/ Ends(m)
  <2>1. UNCHANGED <<content, cache, view, age>>
    BY <1>6 DEF AllLocked, TriggersDone, StartWrite, SkipPacket, Flushed, UnlockPacket,
       Unlocked, Ends, shared, writer, viewer
  <2>2. pc'[m] \in {"update", "exited", "stuck"} \/ pc[m] \notin {"update", "exited", "stuck"}
    BY <1>a, <1>b, <1>6 DEF AllLocked, TriggersDone, StartWrite, SkipPacket, Flushed,
       UnlockPacket, Unlocked, Ends, At, Goto
  <2> QED
    BY <2>1, <2>2, DerivedKept
<1> QED
  BY <1>1, <1>2, <1>3, <1>4, <1>5, <1>6 DEF Acts, Pass

LEMMA DerivedStep ==
  ASSUME IInv, CacheIsCurrent, Valued, Fresh, [Next]_vars, NEW t \in Triggers, SourceOf(t),
         DerivedOf(t), Newest(t.on) <= Newest(t.on)', Newest(t.on)' \in Nat
  PROVE  DerivedOf(t)'
<1> DEFINE m == t.monitor
<1>a. m \in Monitors /\ Places[t.out] \subseteq Virtual
  BY Inputs, ResultPlaces
<1>1. CASE Acts(m)
  BY <1>1, DerivedOwn
<1>2. CASE ~(Acts(m))
  <2>1. \A p \in Places[t.out] : content'[p][t.out] = content[p][t.out]
    BY <1>a, <1>2, OthersKeep DEF Acts, Pass
  <2>2. pc'[m] = pc[m] /\ cache'[m] = cache[m] /\ view'[m] = view[m] /\ age'[m] = age[m]
    <3>1. ASSUME NEW n \in Monitors, n # m, Acts(n)
          PROVE  pc'[m] = pc[m] /\ cache'[m] = cache[m] /\ view'[m] = view[m] /\ age'[m] = age[m]
      BY <1>a, <3>1, Elsewhere, ElsewhereSeen
    <3>2. (\E s \in Downlinked : Downlink(s)) \/ Idle
            => UNCHANGED <<pc, cache, view, age>>
      BY DEF Downlink, Idle, viewer, writer, control
    <3> QED
      BY <1>2, <3>1, <3>2, NextActs
  <2> QED
    BY <2>1, <2>2, DerivedKept
<1> QED
  BY <1>1, <1>2

-----------------------------------------------------------------------------
NInv ==
  /\ IInv /\ Blank /\ CacheIsCurrent /\ Alone /\ Results
  /\ Going /\ Valued /\ Fresh /\ Ahead
  /\ \A t \in Triggers : SourceOf(t) /\ DerivedOf(t)

LEMMA NInvInit == Init => NInv
<1> SUFFICES ASSUME Init PROVE NInv
  OBVIOUS
<1>1. IInv /\ Blank /\ CacheIsCurrent /\ Alone /\ Results
  BY InitInv, BlankInit, AloneInit, ResultsInit DEF Init, CacheIsCurrent
<1>2. \A p \in Packets : \A x \in Names : Zero[p][x] = 0
  BY DEF Zero
<1>3. content = Zero /\ samples = 0 /\ \A m \in Monitors : cache[m] = Zero /\ view[m] = Zero
  BY DEF Init
<1>4. Valued /\ Fresh
  BY <1>2, <1>3 DEF Valued, Fresh, Seen
<1>5. Going
  BY DEF Init, Going, Intact, At
<1>6. Ahead
  <2>1. \A m \in Monitors : \A x \in OutputsOf(m) : x \in Names
    BY ResultPlaces DEF OutputsOf
  <2> QED
    BY <1>2, <1>3, <2>1, Numbers DEF Ahead
<1>7. ASSUME NEW t \in Triggers PROVE SourceOf(t) /\ DerivedOf(t)
  <2>1. Lasts(Unwritten, PacketsOf(t.on)) = PacketsOf(t.on)
    BY Inputs DEF Lasts, Unwritten
  <2>2. Latest(Unwritten, PacketsOf(t.on)) \in Packets /\ t.on \in Names
    BY <2>1, Inputs, LatestIn
  <2>3. recency = Unwritten /\ \A m \in Monitors : age[m] = Unwritten /\ pc[m] = "update"
    BY DEF Init
  <2>4. Newest(t.on) = 0 /\ \A m \in Monitors : LatestData(m, t.on) = 0
    BY <1>2, <1>3, <2>2, <2>3 DEF Newest, LatestData
  <2>5. SourceOf(t)
    BY <1>2, <1>3, <2>1, <2>2, <2>3, <2>4, Inputs DEF SourceOf
  <2>6. DerivedOf(t)
    <3>1. \A p \in Places[t.out] : p \in Packets /\ t.out \in Names /\ t.monitor \in Monitors
      BY Inputs, ResultPlaces, Numbers
    <3>2. \A p \in Places[t.out] : content[p][t.out] = 0 /\ cache[t.monitor][p][t.out] = 0
      BY <1>2, <1>3, <3>1
    <3>3. t.monitor \in Monitors => pc[t.monitor] = "update"
      BY <2>3
    <3> QED
      BY <2>4, <3>2, <3>3, Inputs DEF DerivedOf
  <2> QED
    BY <2>5, <2>6
<1> QED
  BY <1>1, <1>4, <1>5, <1>6, <1>7 DEF NInv

LEMMA NInvStep ==
  ASSUME Attentive, Uncut, NInv, [Next]_vars
  PROVE  NInv'
<1> USE DEF NInv
<1>1. IInv' /\ Blank' /\ CacheIsCurrent' /\ Alone' /\ Results'
  BY StepInv, BlankStep, StepCurrent, AloneStep, ResultsStep
<1>2. Valued' /\ Fresh' /\ Going' /\ Ahead'
  BY ValuedStep, FreshStep, GoingStep, AheadStep
<1>3. ASSUME NEW t \in Triggers PROVE SourceOf(t)' /\ DerivedOf(t)'
  <2>1. SourceOf(t)'
    BY <1>1, <1>2, SourceStep
  <2>2. Newest(t.on) <= Newest(t.on)' /\ Newest(t.on)' \in Nat
    BY <1>1, <1>2, SourceKept
  <2> QED
    BY <2>1, <2>2, DerivedStep
<1> QED
  BY <1>1, <1>2, <1>3

\* "we want to not overwrite someone else's write with what's in our cache"
\* (TelemetryWriter.cpp:229): no measurement in shared memory goes back to an older
\* sample, by whatever path it got there; samples may be computed from results of
\* other monitors, in any number of steps.  Signals and restarts are among the
\* steps if every trigger function reads measurements that are in one packet.
THEOREM NothingReverts ==
  ASSUME Attentive, Uncut
  PROVE  Spec => NeverReverts
<1>1. NInv /\ [Next]_vars => NInv'
  BY NInvStep
<1>2. NInv /\ [Next]_vars =>
        [\A p \in Packets : \A x \in Names : content'[p][x] >= content[p][x]]_vars
  BY Forward DEF NInv
<1> QED
  BY NInvInit, <1>1, <1>2, PTL DEF Spec, NeverReverts
=============================================================================
