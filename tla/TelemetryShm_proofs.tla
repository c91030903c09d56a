------------------------ MODULE TelemetryShm_proofs ------------------------
(***************************************************************************)
(* Proofs about TelemetryShm, for any number of writers, readers, packets  *)
(* and writes.                                                             *)
(*                                                                         *)
(* The inductive invariant is TypeOK /\ SemaphoresExact: who holds each    *)
(* semaphore, and that the two counters count.  Mutual exclusion does not  *)
(* carry itself over a step: that a writer finds resource at 1 says        *)
(* something about the readers only if resource is 0 whenever a reader is  *)
(* counted, and that a reader leaving last finds the counter at 1 only if  *)
(* the counter is the number of readers inside.                            *)
(*                                                                         *)
(* Wake-ups need that a reader on its way to the futex has seen all there  *)
(* is, unless the nonce has moved on since (Watchful).  The refinement of  *)
(* the store needs that a write is counted from its copy on and that what  *)
(* a reader has still to copy cannot change before it does (Counted).      *)
(* Both hold while no nonce wraps: 0 is taken for a signal, and a nonce of *)
(* 2^32 writes ago for the present one.                                    *)
(***************************************************************************)
EXTENDS TelemetryShm, FiniteSetTheorems, TLAPS

Inv == TypeOK /\ SemaphoresExact

(***************************************************************************)
(* Where a step moves the program counters.                                *)
(***************************************************************************)

\* Only w's program counter changes, to l.
WriterMoved(w, l) ==
  /\ pc[w] \in WriterLocations
  /\ pc'[w] = l
  /\ \A x \in Writers \ {w} : pc'[x] = pc[x]
  /\ \A r \in Readers : pc'[r] = pc[r]

ReaderMoved(r, l) ==
  /\ pc[r] \in ReaderLocations
  /\ pc'[r] = l
  /\ \A x \in Readers \ {r} : pc'[x] = pc[x]
  /\ \A w \in Writers : pc'[w] = pc[w]

\* A step of a writer (EnterWriter .. LeaveExit, but for Wake) moves that
\* writer's program counter and no other.
LEMMA WriterMove ==
  ASSUME TypeOK, NEW w \in Writers, NEW l, Goto(w, l)
  PROVE  WriterMoved(w, l)
  BY ProcessAssumption DEF TypeOK, Goto, WriterMoved

\* A step of a reader (TryRead .. LeaveReader) moves that reader's program
\* counter and no other.
LEMMA ReaderMove ==
  ASSUME TypeOK, NEW r \in Readers, NEW l, Goto(r, l)
  PROVE  ReaderMoved(r, l)
  BY ProcessAssumption DEF TypeOK, Goto, ReaderMoved

\* The roles the lock gives a process; a step within one role does not
\* concern the lock.
SameRole(p) ==
  \/ pc'[p] = pc[p]
  \/ {pc[p], pc'[p]} \subseteq {"idle", "enter"}
  \/ {pc[p], pc'[p]} \subseteq {"copy", "bumpNonce", "setPacketNonce", "wake", "unlockData"}
  \/ {pc[p], pc'[p]} \subseteq {"idle", "tryRead", "wait", "asleep", "awake"}
  \/ {pc[p], pc'[p]} \subseteq {"check", "fetch", "unlock"}

\* The processes counted in info->writers and info->readers are finitely many.
LEMMA CountedFinite ==
  /\ IsFiniteSet(CountedWriters)
  /\ IsFiniteSet(CountedReaders)
  BY ProcessAssumption, FS_Subset DEF CountedWriters, CountedReaders

\* A step in which every process keeps its role and no semaphore and no
\* counter changes keeps the lock's invariant.
LEMMA InertStep ==
  ASSUME SemaphoresExact, UNCHANGED <<sem, counters, leaked>>,
         \A p \in Writers \cup Readers : SameRole(p)
  PROVE  SemaphoresExact'
<1>1. \A w \in Writers : /\ HoldsWmutex(w)' = HoldsWmutex(w)
                         /\ Writing(w)' = Writing(w)
                         /\ (w \in CountedWriters)' = (w \in CountedWriters)
                         /\ At(w, "lockReaders")' = At(w, "lockReaders")
                         /\ At(w, "unlockReaders")' = At(w, "unlockReaders")
  BY DEF SameRole, HoldsWmutex, Writing, CountedWriters, At
<1>2. \A r \in Readers : /\ HoldsRmutex(r)' = HoldsRmutex(r)
                         /\ HoldsReadTry(r)' = HoldsReadTry(r)
                         /\ Reading(r)' = Reading(r)
                         /\ At(r, "lockRead")' = At(r, "lockRead")
                         /\ At(r, "unlockRead")' = At(r, "unlockRead")
  BY DEF SameRole, HoldsRmutex, HoldsReadTry, Reading, At
<1>3. CountedWriters' = CountedWriters /\ CountedReaders' = CountedReaders
  BY <1>1, <1>2 DEF CountedWriters, CountedReaders
<1>4. /\ WritersHoldReadTry' = WritersHoldReadTry
      /\ ReadersHoldResource' = ReadersHoldResource
  BY <1>1, <1>2 DEF WritersHoldReadTry, ReadersHoldResource
<1> QED
  BY <1>1, <1>2, <1>3, <1>4
  DEF SemaphoresExact, CountersExact, WmutexExact, RmutexExact, ReadTryExact, ResourceExact, counters

\* The writers that share readTry, the readers that share resource.
SharesReadTry(w) ==
  (w \in CountedWriters /\ ~At(w, "lockReaders")) \/ At(w, "unlockReaders")
SharesResource(r) == Reading(r) \/ At(r, "unlockRead")

\* What the step of one writer leaves alone.
LEMMA WriterFrame ==
  ASSUME NEW w \in Writers, NEW l, WriterMoved(w, l)
  PROVE  /\ \A x \in Writers \ {w} :
              /\ HoldsWmutex(x)' = HoldsWmutex(x)
              /\ Writing(x)' = Writing(x)
              /\ (x \in CountedWriters)' = (x \in CountedWriters)
              /\ SharesReadTry(x)' = SharesReadTry(x)
              /\ At(x, "lockReaders")' = At(x, "lockReaders")
              /\ At(x, "unlockReaders")' = At(x, "unlockReaders")
         /\ \A r \in Readers :
              /\ HoldsRmutex(r)' = HoldsRmutex(r)
              /\ HoldsReadTry(r)' = HoldsReadTry(r)
              /\ SharesResource(r)' = SharesResource(r)
              /\ At(r, "lockRead")' = At(r, "lockRead")
              /\ At(r, "unlockRead")' = At(r, "unlockRead")
         /\ CountedReaders' = CountedReaders
<1>1. \A x \in Writers \ {w} : pc'[x] = pc[x]
  BY DEF WriterMoved
<1>2. \A r \in Readers : pc'[r] = pc[r]
  BY DEF WriterMoved
<1> QED
  BY <1>1, <1>2 DEF HoldsWmutex, Writing, CountedWriters, SharesReadTry, At,
     HoldsRmutex, HoldsReadTry, SharesResource, Reading, CountedReaders

\* What the step of one reader leaves alone.
LEMMA ReaderFrame ==
  ASSUME NEW r \in Readers, NEW l, ReaderMoved(r, l)
  PROVE  /\ \A x \in Readers \ {r} :
              /\ HoldsRmutex(x)' = HoldsRmutex(x)
              /\ HoldsReadTry(x)' = HoldsReadTry(x)
              /\ (x \in CountedReaders)' = (x \in CountedReaders)
              /\ SharesResource(x)' = SharesResource(x)
              /\ At(x, "lockRead")' = At(x, "lockRead")
              /\ At(x, "unlockRead")' = At(x, "unlockRead")
         /\ \A w \in Writers :
              /\ HoldsWmutex(w)' = HoldsWmutex(w)
              /\ Writing(w)' = Writing(w)
              /\ SharesReadTry(w)' = SharesReadTry(w)
              /\ At(w, "lockReaders")' = At(w, "lockReaders")
              /\ At(w, "unlockReaders")' = At(w, "unlockReaders")
         /\ CountedWriters' = CountedWriters
<1>1. \A x \in Readers \ {r} : pc'[x] = pc[x]
  BY DEF ReaderMoved
<1>2. \A w \in Writers : pc'[w] = pc[w]
  BY DEF ReaderMoved
<1> QED
  BY <1>1, <1>2 DEF HoldsWmutex, Writing, CountedWriters, SharesReadTry, At,
     HoldsRmutex, HoldsReadTry, SharesResource, Reading, CountedReaders

\* The writers hold readTry, the readers resource, when one of them does (or,
\* for resource, when a read lock was leaked); now and after a step.
LEMMA GroupHolds ==
  /\ WritersHoldReadTry <=> \E w \in Writers : SharesReadTry(w)
  /\ ReadersHoldResource <=> (\E r \in Readers : SharesResource(r)) \/ leaked > 0
  /\ WritersHoldReadTry' <=> \E w \in Writers : SharesReadTry(w)'
  /\ ReadersHoldResource' <=> (\E r \in Readers : SharesResource(r)') \/ leaked' > 0
  BY DEF WritersHoldReadTry, ReadersHoldResource, SharesReadTry, SharesResource

\* The counters at the values the code tests for.  Only the holder of wmutex
\* is at lockReaders or unlockReaders, so every other counted writer shares
\* readTry; the readers likewise.
LEMMA CounterTests ==
  ASSUME Inv
  PROVE  /\ writers = 0 <=> CountedWriters = {}
         /\ writers = 1 <=> \E w : CountedWriters = {w}
         /\ \A w \in CountedWriters : ~HoldsWmutex(w) => SharesReadTry(w)
         /\ \A w \in Writers : SharesReadTry(w) /\ ~HoldsWmutex(w) => w \in CountedWriters
         /\ \A w \in Writers : At(w, "lockReaders") \/ At(w, "unlockReaders") => HoldsWmutex(w)
         /\ readers = 0 <=> CountedReaders = {} /\ leaked = 0
         /\ readers = 1 <=> \/ leaked = 0 /\ \E r : CountedReaders = {r}
                            \/ leaked = 1 /\ CountedReaders = {}
         /\ \A r \in CountedReaders : ~HoldsRmutex(r) => SharesResource(r)
         /\ \A r \in Readers : SharesResource(r) /\ ~HoldsRmutex(r) => r \in CountedReaders
         /\ \A r \in Readers : At(r, "lockRead") \/ At(r, "unlockRead") => HoldsRmutex(r)
<1>1. /\ writers = Cardinality(CountedWriters)
      /\ readers = Cardinality(CountedReaders) + leaked
      /\ leaked \in Nat
  BY DEF Inv, TypeOK, SemaphoresExact, CountersExact
<1>2. /\ Cardinality(CountedWriters) \in Nat
      /\ Cardinality(CountedReaders) \in Nat
      /\ Cardinality(CountedWriters) = 0 <=> CountedWriters = {}
      /\ Cardinality(CountedReaders) = 0 <=> CountedReaders = {}
      /\ Cardinality(CountedWriters) = 1 <=> \E w : CountedWriters = {w}
      /\ Cardinality(CountedReaders) = 1 <=> \E r : CountedReaders = {r}
  BY CountedFinite, FS_CardinalityType, FS_EmptySet, FS_Singleton
<1>3. /\ \A w \in CountedWriters : ~HoldsWmutex(w) => SharesReadTry(w)
      /\ \A w \in Writers : SharesReadTry(w) /\ ~HoldsWmutex(w) => w \in CountedWriters
      /\ \A w \in Writers : At(w, "lockReaders") \/ At(w, "unlockReaders") => HoldsWmutex(w)
  BY DEF CountedWriters, HoldsWmutex, SharesReadTry, At
<1>4. /\ \A r \in CountedReaders : ~HoldsRmutex(r) => SharesResource(r)
      /\ \A r \in Readers : SharesResource(r) /\ ~HoldsRmutex(r) => r \in CountedReaders
      /\ \A r \in Readers : At(r, "lockRead") \/ At(r, "unlockRead") => HoldsRmutex(r)
  BY DEF CountedReaders, HoldsRmutex, SharesResource, Reading, At
<1>5. readers = 0 <=> CountedReaders = {} /\ leaked = 0
  BY <1>1, <1>2
<1>6. readers = 1 <=> \/ leaked = 0 /\ Cardinality(CountedReaders) = 1
                      \/ leaked = 1 /\ Cardinality(CountedReaders) = 0
  BY <1>1, <1>2
<1>7. readers = 1 <=> \/ leaked = 0 /\ \E r : CountedReaders = {r}
                      \/ leaked = 1 /\ CountedReaders = {}
  BY <1>2, <1>6
<1> QED
  BY <1>1, <1>2, <1>3, <1>4, <1>5, <1>7

\* write_lock, P(wmutex) on the way in: the lock stays exact.
LEMMA EnterWriterStep ==
  ASSUME Inv, NEW w \in Writers, EnterWriter(w)
  PROVE  SemaphoresExact'
<1>1. WriterMoved(w, "count")
  BY WriterMove DEF Inv, EnterWriter
<1>2. /\ ~HoldsWmutex(w) /\ ~Writing(w) /\ w \notin CountedWriters
      /\ ~SharesReadTry(w) /\ ~At(w, "lockReaders") /\ ~At(w, "unlockReaders")
      /\ HoldsWmutex(w)' /\ ~Writing(w)' /\ ~(w \in CountedWriters)'
      /\ ~SharesReadTry(w)' /\ ~At(w, "lockReaders")'
      /\ ~At(w, "unlockReaders")'
  BY <1>1
  DEF EnterWriter, WriterMoved, At, HoldsWmutex, Writing, CountedWriters,
      SharesReadTry
<1>3. /\ sem \in [Semaphores -> {0, 1}]
      /\ readers \in Nat /\ writers \in Nat /\ leaked \in Nat
  BY DEF Inv, TypeOK
<1>4. CountedWriters' = CountedWriters /\ CountedReaders' = CountedReaders
  BY <1>1, <1>2, WriterFrame DEF CountedWriters
<1>5. CountersExact'
  BY <1>3, <1>4, CountedFinite
  DEF Inv, SemaphoresExact, CountersExact, EnterWriter, counters, other
<1>6. WmutexExact'
  BY <1>1, <1>2, <1>3, WriterFrame
  DEF Inv, SemaphoresExact, WmutexExact, EnterWriter, P, V, Semaphores, counters
<1>7. RmutexExact'
  BY <1>1, <1>2, <1>3, WriterFrame
  DEF Inv, SemaphoresExact, RmutexExact, EnterWriter, P, V, Semaphores, counters
<1>8. ReadTryExact'
  BY <1>1, <1>2, <1>3, WriterFrame, GroupHolds
  DEF Inv, SemaphoresExact, WmutexExact, ReadTryExact, EnterWriter, P, V, Semaphores
<1>9. ResourceExact'
  BY <1>1, <1>2, <1>3, WriterFrame, GroupHolds
  DEF Inv, SemaphoresExact, RmutexExact, ResourceExact, EnterWriter, P, V,
      Semaphores, other
<1> QED
  BY <1>5, <1>6, <1>7, <1>8, <1>9 DEF SemaphoresExact

\* write_lock, writers++: the first writer in goes on to shut readTry.
LEMMA CountWriterStep ==
  ASSUME Inv, NEW w \in Writers, CountWriter(w)
  PROVE  SemaphoresExact'
<1>1. WriterMoved(w, IF writers = 0 THEN "lockReaders" ELSE "leaveEntry")
  BY WriterMove DEF Inv, CountWriter
<1>2. /\ HoldsWmutex(w) /\ ~Writing(w) /\ w \notin CountedWriters
      /\ ~SharesReadTry(w) /\ ~At(w, "lockReaders") /\ ~At(w, "unlockReaders")
      /\ HoldsWmutex(w)' /\ ~Writing(w)' /\ (w \in CountedWriters)'
      /\ ~At(w, "unlockReaders")' /\ (At(w, "lockReaders")' <=> writers = 0)
      /\ (SharesReadTry(w)' <=> writers # 0)
  BY <1>1
  DEF CountWriter, WriterMoved, At, HoldsWmutex, Writing, CountedWriters,
      SharesReadTry, Inv, TypeOK
<1>3. /\ sem \in [Semaphores -> {0, 1}]
      /\ readers \in Nat /\ writers \in Nat /\ leaked \in Nat
  BY DEF Inv, TypeOK
<1>4. CountedWriters' = CountedWriters \cup {w} /\ CountedReaders' = CountedReaders
  BY <1>1, <1>2, WriterFrame DEF CountedWriters
<1>c. /\ Cardinality(CountedWriters \cup {w}) = Cardinality(CountedWriters) + 1
      /\ Cardinality(CountedWriters) \in Nat
  BY <1>2, CountedFinite, FS_AddElement, FS_CardinalityType
<1>5. CountersExact'
  BY <1>3, <1>4, <1>c, CountedFinite
  DEF Inv, SemaphoresExact, CountersExact, CountWriter, counters, other
<1>6. WmutexExact'
  BY <1>1, <1>2, <1>3, WriterFrame, CounterTests
  DEF Inv, SemaphoresExact, WmutexExact, CountWriter, P, V, Semaphores, counters
<1>7. RmutexExact'
  BY <1>1, <1>2, <1>3, WriterFrame, CounterTests
  DEF Inv, SemaphoresExact, RmutexExact, CountWriter, P, V, Semaphores, counters
<1>g. WritersHoldReadTry' <=> WritersHoldReadTry
  <2>1. \A x \in Writers \ {w} : ~HoldsWmutex(x)
    BY <1>2 DEF Inv, SemaphoresExact, WmutexExact
  <2>2. ASSUME writers = 0
        PROVE  CountedWriters = {}
    BY <2>2, <1>2, CounterTests
  <2>3. CASE writers = 0
    BY <2>1, <2>2, <2>3, <1>1, <1>2, WriterFrame, GroupHolds, CounterTests
    DEF CountWriter, other
  <2>4. CASE writers # 0
    <3>1. \E x \in CountedWriters : x # w
      BY <2>4, <1>2, <1>3, CounterTests
    <3>2. \E x \in Writers \ {w} : SharesReadTry(x)
      BY <3>1, <2>1, CounterTests DEF CountedWriters
    <3> QED
      BY <3>2, <1>1, <1>2, WriterFrame, GroupHolds DEF CountWriter, other
  <2> QED
    BY <2>3, <2>4
<1>8. ReadTryExact'
  BY <1>g, <1>1, <1>2, <1>3, WriterFrame, GroupHolds, CounterTests
  DEF Inv, SemaphoresExact, WmutexExact, ReadTryExact, CountWriter, P, V, Semaphores
<1>9. ResourceExact'
  BY <1>1, <1>2, <1>3, WriterFrame, GroupHolds, CounterTests
  DEF Inv, SemaphoresExact, RmutexExact, ResourceExact, CountWriter, P, V,
      Semaphores, other
<1> QED
  BY <1>5, <1>6, <1>7, <1>8, <1>9 DEF SemaphoresExact

\* write_lock, P(readTry) by the first writer: no reader was between its own
\* P(readTry) and V(readTry).
LEMMA LockOutReadersStep ==
  ASSUME Inv, NEW w \in Writers, LockOutReaders(w)
  PROVE  SemaphoresExact'
<1>1. WriterMoved(w, "leaveEntry")
  BY WriterMove DEF Inv, LockOutReaders
<1>2. /\ HoldsWmutex(w) /\ ~Writing(w) /\ w \in CountedWriters
      /\ ~SharesReadTry(w) /\ At(w, "lockReaders") /\ ~At(w, "unlockReaders")
      /\ HoldsWmutex(w)' /\ ~Writing(w)' /\ (w \in CountedWriters)'
      /\ SharesReadTry(w)' /\ ~At(w, "lockReaders")'
      /\ ~At(w, "unlockReaders")'
  BY <1>1
  DEF LockOutReaders, WriterMoved, At, HoldsWmutex, Writing, CountedWriters,
      SharesReadTry
<1>3. /\ sem \in [Semaphores -> {0, 1}]
      /\ readers \in Nat /\ writers \in Nat /\ leaked \in Nat
  BY DEF Inv, TypeOK
<1>4. CountedWriters' = CountedWriters /\ CountedReaders' = CountedReaders
  BY <1>1, <1>2, WriterFrame DEF CountedWriters
<1>5. CountersExact'
  BY <1>3, <1>4, CountedFinite
  DEF Inv, SemaphoresExact, CountersExact, LockOutReaders, counters, other
<1>6. WmutexExact'
  BY <1>1, <1>2, <1>3, WriterFrame
  DEF Inv, SemaphoresExact, WmutexExact, LockOutReaders, P, V, Semaphores, counters
<1>7. RmutexExact'
  BY <1>1, <1>2, <1>3, WriterFrame
  DEF Inv, SemaphoresExact, RmutexExact, LockOutReaders, P, V, Semaphores, counters
<1>8. ReadTryExact'
  BY <1>1, <1>2, <1>3, WriterFrame, GroupHolds
  DEF Inv, SemaphoresExact, WmutexExact, ReadTryExact, LockOutReaders, P, V,
      Semaphores
<1>9. ResourceExact'
  BY <1>1, <1>2, <1>3, WriterFrame, GroupHolds
  DEF Inv, SemaphoresExact, RmutexExact, ResourceExact, LockOutReaders, P, V,
      Semaphores, other
<1> QED
  BY <1>5, <1>6, <1>7, <1>8, <1>9 DEF SemaphoresExact

\* write_lock, V(wmutex) on the way in, by the process that holds it.
LEMMA LeaveEntryStep ==
  ASSUME Inv, NEW w \in Writers, LeaveEntry(w)
  PROVE  SemaphoresExact'
<1>1. WriterMoved(w, "lockData")
  BY WriterMove DEF Inv, LeaveEntry
<1>2. /\ HoldsWmutex(w) /\ ~Writing(w) /\ w \in CountedWriters
      /\ SharesReadTry(w) /\ ~At(w, "lockReaders") /\ ~At(w, "unlockReaders")
      /\ ~HoldsWmutex(w)' /\ ~Writing(w)' /\ (w \in CountedWriters)'
      /\ SharesReadTry(w)' /\ ~At(w, "lockReaders")'
      /\ ~At(w, "unlockReaders")'
  BY <1>1
  DEF LeaveEntry, WriterMoved, At, HoldsWmutex, Writing, CountedWriters,
      SharesReadTry
<1>3. /\ sem \in [Semaphores -> {0, 1}]
      /\ readers \in Nat /\ writers \in Nat /\ leaked \in Nat
  BY DEF Inv, TypeOK
<1>4. CountedWriters' = CountedWriters /\ CountedReaders' = CountedReaders
  BY <1>1, <1>2, WriterFrame DEF CountedWriters
<1>5. CountersExact'
  BY <1>3, <1>4, CountedFinite
  DEF Inv, SemaphoresExact, CountersExact, LeaveEntry, counters, other
<1>6. WmutexExact'
  BY <1>1, <1>2, <1>3, WriterFrame
  DEF Inv, SemaphoresExact, WmutexExact, LeaveEntry, P, V, Semaphores, counters
<1>7. RmutexExact'
  BY <1>1, <1>2, <1>3, WriterFrame
  DEF Inv, SemaphoresExact, RmutexExact, LeaveEntry, P, V, Semaphores, counters
<1>8. ReadTryExact'
  BY <1>1, <1>2, <1>3, WriterFrame, GroupHolds
  DEF Inv, SemaphoresExact, WmutexExact, ReadTryExact, LeaveEntry, P, V, Semaphores
<1>9. ResourceExact'
  BY <1>1, <1>2, <1>3, WriterFrame, GroupHolds
  DEF Inv, SemaphoresExact, RmutexExact, ResourceExact, LeaveEntry, P, V,
      Semaphores, other
<1> QED
  BY <1>5, <1>6, <1>7, <1>8, <1>9 DEF SemaphoresExact

\* write_lock, P(resource): no reader is inside and no other writer writes.
LEMMA LockDataStep ==
  ASSUME Inv, NEW w \in Writers, LockData(w)
  PROVE  SemaphoresExact'
<1>1. WriterMoved(w, "copy")
  BY WriterMove DEF Inv, LockData
<1>2. /\ ~HoldsWmutex(w) /\ ~Writing(w) /\ w \in CountedWriters
      /\ SharesReadTry(w) /\ ~At(w, "lockReaders") /\ ~At(w, "unlockReaders")
      /\ ~HoldsWmutex(w)' /\ Writing(w)' /\ (w \in CountedWriters)'
      /\ SharesReadTry(w)' /\ ~At(w, "lockReaders")'
      /\ ~At(w, "unlockReaders")'
  BY <1>1
  DEF LockData, WriterMoved, At, HoldsWmutex, Writing, CountedWriters, SharesReadTry
<1>3. /\ sem \in [Semaphores -> {0, 1}]
      /\ readers \in Nat /\ writers \in Nat /\ leaked \in Nat
  BY DEF Inv, TypeOK
<1>4. CountedWriters' = CountedWriters /\ CountedReaders' = CountedReaders
  BY <1>1, <1>2, WriterFrame DEF CountedWriters
<1>5. CountersExact'
  BY <1>3, <1>4, CountedFinite
  DEF Inv, SemaphoresExact, CountersExact, LockData, counters, other
<1>6. WmutexExact'
  BY <1>1, <1>2, <1>3, WriterFrame
  DEF Inv, SemaphoresExact, WmutexExact, LockData, P, V, Semaphores, counters
<1>7. RmutexExact'
  BY <1>1, <1>2, <1>3, WriterFrame
  DEF Inv, SemaphoresExact, RmutexExact, LockData, P, V, Semaphores, counters
<1>8. ReadTryExact'
  BY <1>1, <1>2, <1>3, WriterFrame, GroupHolds
  DEF Inv, SemaphoresExact, WmutexExact, ReadTryExact, LockData, P, V, Semaphores
<1>9. ResourceExact'
  BY <1>1, <1>2, <1>3, WriterFrame, GroupHolds
  DEF Inv, SemaphoresExact, RmutexExact, ResourceExact, LockData, P, V, Semaphores,
      other
<1> QED
  BY <1>5, <1>6, <1>7, <1>8, <1>9 DEF SemaphoresExact

\* write_unlock, V(resource), by the writer that holds it.
LEMMA UnlockDataStep ==
  ASSUME Inv, NEW w \in Writers, UnlockData(w)
  PROVE  SemaphoresExact'
<1>1. WriterMoved(w, "exit")
  BY WriterMove DEF Inv, UnlockData
<1>2. /\ ~HoldsWmutex(w) /\ Writing(w) /\ w \in CountedWriters
      /\ SharesReadTry(w) /\ ~At(w, "lockReaders") /\ ~At(w, "unlockReaders")
      /\ ~HoldsWmutex(w)' /\ ~Writing(w)' /\ (w \in CountedWriters)'
      /\ SharesReadTry(w)' /\ ~At(w, "lockReaders")'
      /\ ~At(w, "unlockReaders")'
  BY <1>1
  DEF UnlockData, WriterMoved, At, HoldsWmutex, Writing, CountedWriters,
      SharesReadTry
<1>3. /\ sem \in [Semaphores -> {0, 1}]
      /\ readers \in Nat /\ writers \in Nat /\ leaked \in Nat
  BY DEF Inv, TypeOK
<1>4. CountedWriters' = CountedWriters /\ CountedReaders' = CountedReaders
  BY <1>1, <1>2, WriterFrame DEF CountedWriters
<1>5. CountersExact'
  BY <1>3, <1>4, CountedFinite
  DEF Inv, SemaphoresExact, CountersExact, UnlockData, counters, other
<1>6. WmutexExact'
  BY <1>1, <1>2, <1>3, WriterFrame
  DEF Inv, SemaphoresExact, WmutexExact, UnlockData, P, V, Semaphores, counters
<1>7. RmutexExact'
  BY <1>1, <1>2, <1>3, WriterFrame
  DEF Inv, SemaphoresExact, RmutexExact, UnlockData, P, V, Semaphores, counters
<1>8. ReadTryExact'
  BY <1>1, <1>2, <1>3, WriterFrame, GroupHolds
  DEF Inv, SemaphoresExact, WmutexExact, ReadTryExact, UnlockData, P, V, Semaphores
<1>9. ResourceExact'
  BY <1>1, <1>2, <1>3, WriterFrame, GroupHolds
  DEF Inv, SemaphoresExact, RmutexExact, ResourceExact, UnlockData, P, V,
      Semaphores, other
<1> QED
  BY <1>5, <1>6, <1>7, <1>8, <1>9 DEF SemaphoresExact

\* write_unlock, P(wmutex) on the way out.
LEMMA ExitWriterStep ==
  ASSUME Inv, NEW w \in Writers, ExitWriter(w)
  PROVE  SemaphoresExact'
<1>1. WriterMoved(w, "uncount")
  BY WriterMove DEF Inv, ExitWriter
<1>2. /\ ~HoldsWmutex(w) /\ ~Writing(w) /\ w \in CountedWriters
      /\ SharesReadTry(w) /\ ~At(w, "lockReaders") /\ ~At(w, "unlockReaders")
      /\ HoldsWmutex(w)' /\ ~Writing(w)' /\ (w \in CountedWriters)'
      /\ SharesReadTry(w)' /\ ~At(w, "lockReaders")'
      /\ ~At(w, "unlockReaders")'
  BY <1>1
  DEF ExitWriter, WriterMoved, At, HoldsWmutex, Writing, CountedWriters,
      SharesReadTry
<1>3. /\ sem \in [Semaphores -> {0, 1}]
      /\ readers \in Nat /\ writers \in Nat /\ leaked \in Nat
  BY DEF Inv, TypeOK
<1>4. CountedWriters' = CountedWriters /\ CountedReaders' = CountedReaders
  BY <1>1, <1>2, WriterFrame DEF CountedWriters
<1>5. CountersExact'
  BY <1>3, <1>4, CountedFinite
  DEF Inv, SemaphoresExact, CountersExact, ExitWriter, counters, other
<1>6. WmutexExact'
  BY <1>1, <1>2, <1>3, WriterFrame
  DEF Inv, SemaphoresExact, WmutexExact, ExitWriter, P, V, Semaphores, counters
<1>7. RmutexExact'
  BY <1>1, <1>2, <1>3, WriterFrame
  DEF Inv, SemaphoresExact, RmutexExact, ExitWriter, P, V, Semaphores, counters
<1>8. ReadTryExact'
  BY <1>1, <1>2, <1>3, WriterFrame, GroupHolds
  DEF Inv, SemaphoresExact, WmutexExact, ReadTryExact, ExitWriter, P, V, Semaphores
<1>9. ResourceExact'
  BY <1>1, <1>2, <1>3, WriterFrame, GroupHolds
  DEF Inv, SemaphoresExact, RmutexExact, ResourceExact, ExitWriter, P, V,
      Semaphores, other
<1> QED
  BY <1>5, <1>6, <1>7, <1>8, <1>9 DEF SemaphoresExact

\* write_unlock, writers--: exactly the last writer out goes on to open readTry.
LEMMA UncountWriterStep ==
  ASSUME Inv, NEW w \in Writers, UncountWriter(w)
  PROVE  SemaphoresExact'
<1>1. WriterMoved(w, IF writers = 1 THEN "unlockReaders" ELSE "leaveExit")
  BY WriterMove DEF Inv, UncountWriter
<1>2. /\ HoldsWmutex(w) /\ ~Writing(w) /\ w \in CountedWriters
      /\ SharesReadTry(w) /\ ~At(w, "lockReaders") /\ ~At(w, "unlockReaders")
      /\ HoldsWmutex(w)' /\ ~Writing(w)' /\ ~(w \in CountedWriters)'
      /\ ~At(w, "lockReaders")' /\ (At(w, "unlockReaders")' <=> writers = 1)
      /\ (SharesReadTry(w)' <=> writers = 1)
  BY <1>1
  DEF UncountWriter, WriterMoved, At, HoldsWmutex, Writing, CountedWriters,
      SharesReadTry, Inv, TypeOK
<1>3. /\ sem \in [Semaphores -> {0, 1}]
      /\ readers \in Nat /\ writers \in Nat /\ leaked \in Nat
  BY DEF Inv, TypeOK
<1>4. CountedWriters' = CountedWriters \ {w} /\ CountedReaders' = CountedReaders
  BY <1>1, <1>2, WriterFrame DEF CountedWriters
<1>c. /\ Cardinality(CountedWriters \ {w}) = Cardinality(CountedWriters) - 1
      /\ Cardinality(CountedWriters) \in Nat
  BY <1>2, CountedFinite, FS_RemoveElement, FS_CardinalityType
<1>5. CountersExact'
  BY <1>3, <1>4, <1>c, CountedFinite
  DEF Inv, SemaphoresExact, CountersExact, UncountWriter, counters, other
<1>6. WmutexExact'
  BY <1>1, <1>2, <1>3, WriterFrame, CounterTests
  DEF Inv, SemaphoresExact, WmutexExact, UncountWriter, P, V, Semaphores, counters
<1>7. RmutexExact'
  BY <1>1, <1>2, <1>3, WriterFrame, CounterTests
  DEF Inv, SemaphoresExact, RmutexExact, UncountWriter, P, V, Semaphores, counters
<1>g. WritersHoldReadTry' <=> WritersHoldReadTry
  <2>1. \A x \in Writers \ {w} : ~HoldsWmutex(x)
    BY <1>2 DEF Inv, SemaphoresExact, WmutexExact
  <2>2. ASSUME writers = 1
        PROVE  CountedWriters = {w}
    BY <2>2, <1>2, CounterTests
  <2>3. CASE writers = 1
    BY <2>1, <2>2, <2>3, <1>1, <1>2, WriterFrame, GroupHolds, CounterTests
    DEF UncountWriter, other
  <2>4. CASE writers # 1
    <3>1. \E x \in CountedWriters : x # w
      BY <2>4, <1>2, <1>3, CounterTests
    <3>2. \E x \in Writers \ {w} : SharesReadTry(x)
      BY <3>1, <2>1, CounterTests DEF CountedWriters
    <3> QED
      BY <3>2, <1>1, <1>2, WriterFrame, GroupHolds DEF UncountWriter, other
  <2> QED
    BY <2>3, <2>4
<1>8. ReadTryExact'
  BY <1>g, <1>1, <1>2, <1>3, WriterFrame, GroupHolds, CounterTests
  DEF Inv, SemaphoresExact, WmutexExact, ReadTryExact, UncountWriter, P, V,
      Semaphores
<1>9. ResourceExact'
  BY <1>1, <1>2, <1>3, WriterFrame, GroupHolds, CounterTests
  DEF Inv, SemaphoresExact, RmutexExact, ResourceExact, UncountWriter, P, V,
      Semaphores, other
<1> QED
  BY <1>5, <1>6, <1>7, <1>8, <1>9 DEF SemaphoresExact

\* write_unlock, V(readTry) by the last writer: nobody else holds it.
LEMMA LetReadersInStep ==
  ASSUME Inv, NEW w \in Writers, LetReadersIn(w)
  PROVE  SemaphoresExact'
<1>1. WriterMoved(w, "leaveExit")
  BY WriterMove DEF Inv, LetReadersIn
<1>2. /\ HoldsWmutex(w) /\ ~Writing(w) /\ w \notin CountedWriters
      /\ SharesReadTry(w) /\ ~At(w, "lockReaders") /\ At(w, "unlockReaders")
      /\ HoldsWmutex(w)' /\ ~Writing(w)' /\ ~(w \in CountedWriters)'
      /\ ~SharesReadTry(w)' /\ ~At(w, "lockReaders")'
      /\ ~At(w, "unlockReaders")'
  BY <1>1
  DEF LetReadersIn, WriterMoved, At, HoldsWmutex, Writing, CountedWriters,
      SharesReadTry
<1>3. /\ sem \in [Semaphores -> {0, 1}]
      /\ readers \in Nat /\ writers \in Nat /\ leaked \in Nat
  BY DEF Inv, TypeOK
<1>4. CountedWriters' = CountedWriters /\ CountedReaders' = CountedReaders
  BY <1>1, <1>2, WriterFrame DEF CountedWriters
<1>5. CountersExact'
  BY <1>3, <1>4, CountedFinite
  DEF Inv, SemaphoresExact, CountersExact, LetReadersIn, counters, other
<1>6. WmutexExact'
  BY <1>1, <1>2, <1>3, WriterFrame, CounterTests
  DEF Inv, SemaphoresExact, WmutexExact, LetReadersIn, P, V, Semaphores, counters
<1>7. RmutexExact'
  BY <1>1, <1>2, <1>3, WriterFrame, CounterTests
  DEF Inv, SemaphoresExact, RmutexExact, LetReadersIn, P, V, Semaphores, counters
<1>8. ReadTryExact'
  BY <1>1, <1>2, <1>3, WriterFrame, GroupHolds, CounterTests
  DEF Inv, SemaphoresExact, WmutexExact, ReadTryExact, LetReadersIn, P, V,
      Semaphores
<1>9. ResourceExact'
  BY <1>1, <1>2, <1>3, WriterFrame, GroupHolds, CounterTests
  DEF Inv, SemaphoresExact, RmutexExact, ResourceExact, LetReadersIn, P, V,
      Semaphores, other
<1> QED
  BY <1>5, <1>6, <1>7, <1>8, <1>9 DEF SemaphoresExact

\* write_unlock, V(wmutex) on the way out.
LEMMA LeaveExitStep ==
  ASSUME Inv, NEW w \in Writers, LeaveExit(w)
  PROVE  SemaphoresExact'
<1>1. WriterMoved(w, "idle")
  BY WriterMove DEF Inv, LeaveExit
<1>2. /\ HoldsWmutex(w) /\ ~Writing(w) /\ w \notin CountedWriters
      /\ ~SharesReadTry(w) /\ ~At(w, "lockReaders") /\ ~At(w, "unlockReaders")
      /\ ~HoldsWmutex(w)' /\ ~Writing(w)' /\ ~(w \in CountedWriters)'
      /\ ~SharesReadTry(w)' /\ ~At(w, "lockReaders")'
      /\ ~At(w, "unlockReaders")'
  BY <1>1
  DEF LeaveExit, WriterMoved, At, HoldsWmutex, Writing, CountedWriters,
      SharesReadTry
<1>3. /\ sem \in [Semaphores -> {0, 1}]
      /\ readers \in Nat /\ writers \in Nat /\ leaked \in Nat
  BY DEF Inv, TypeOK
<1>4. CountedWriters' = CountedWriters /\ CountedReaders' = CountedReaders
  BY <1>1, <1>2, WriterFrame DEF CountedWriters
<1>5. CountersExact'
  BY <1>3, <1>4, CountedFinite
  DEF Inv, SemaphoresExact, CountersExact, LeaveExit, counters, other
<1>6. WmutexExact'
  BY <1>1, <1>2, <1>3, WriterFrame
  DEF Inv, SemaphoresExact, WmutexExact, LeaveExit, P, V, Semaphores, counters
<1>7. RmutexExact'
  BY <1>1, <1>2, <1>3, WriterFrame
  DEF Inv, SemaphoresExact, RmutexExact, LeaveExit, P, V, Semaphores, counters
<1>8. ReadTryExact'
  BY <1>1, <1>2, <1>3, WriterFrame, GroupHolds
  DEF Inv, SemaphoresExact, WmutexExact, ReadTryExact, LeaveExit, P, V, Semaphores
<1>9. ResourceExact'
  BY <1>1, <1>2, <1>3, WriterFrame, GroupHolds
  DEF Inv, SemaphoresExact, RmutexExact, ResourceExact, LeaveExit, P, V, Semaphores,
      other
<1> QED
  BY <1>5, <1>6, <1>7, <1>8, <1>9 DEF SemaphoresExact

\* read_lock, P(readTry): no writer holds it as part of the group.
LEMMA TryReadStep ==
  ASSUME Inv, NEW r \in Readers, TryRead(r)
  PROVE  SemaphoresExact'
<1>1. ReaderMoved(r, "enterRead")
  BY ReaderMove DEF Inv, TryRead
<1>2. /\ ~HoldsReadTry(r) /\ ~HoldsRmutex(r) /\ r \notin CountedReaders
      /\ ~SharesResource(r) /\ ~At(r, "lockRead") /\ ~At(r, "unlockRead")
      /\ HoldsReadTry(r)' /\ ~HoldsRmutex(r)' /\ ~(r \in CountedReaders)'
      /\ ~SharesResource(r)' /\ ~At(r, "lockRead")' /\ ~At(r, "unlockRead")'
  BY <1>1
  DEF TryRead, ReaderMoved, At, HoldsRmutex, HoldsReadTry, Reading, CountedReaders,
      SharesResource, ReaderAt
<1>3. /\ sem \in [Semaphores -> {0, 1}]
      /\ readers \in Nat /\ writers \in Nat /\ leaked \in Nat
  BY DEF Inv, TypeOK
<1>4. CountedReaders' = CountedReaders /\ CountedWriters' = CountedWriters
  BY <1>1, <1>2, ReaderFrame DEF CountedReaders
<1>5. CountersExact'
  BY <1>3, <1>4, CountedFinite
  DEF Inv, SemaphoresExact, CountersExact, TryRead, counters, other
<1>6. WmutexExact'
  BY <1>1, <1>2, <1>3, ReaderFrame
  DEF Inv, SemaphoresExact, WmutexExact, TryRead, P, V, Semaphores, counters
<1>7. RmutexExact'
  BY <1>1, <1>2, <1>3, ReaderFrame
  DEF Inv, SemaphoresExact, RmutexExact, TryRead, P, V, Semaphores, counters
<1>8. ReadTryExact'
  BY <1>1, <1>2, <1>3, ReaderFrame, GroupHolds
  DEF Inv, SemaphoresExact, WmutexExact, ReadTryExact, TryRead, P, V, Semaphores
<1>9. ResourceExact'
  BY <1>1, <1>2, <1>3, ReaderFrame, GroupHolds
  DEF Inv, SemaphoresExact, RmutexExact, ResourceExact, TryRead, P, V, Semaphores,
      other
<1> QED
  BY <1>5, <1>6, <1>7, <1>8, <1>9 DEF SemaphoresExact

\* read_lock, P(rmutex) on the way in.
LEMMA EnterReaderStep ==
  ASSUME Inv, NEW r \in Readers, EnterReader(r)
  PROVE  SemaphoresExact'
<1>1. ReaderMoved(r, "countRead")
  BY ReaderMove DEF Inv, EnterReader
<1>2. /\ HoldsReadTry(r) /\ ~HoldsRmutex(r) /\ r \notin CountedReaders
      /\ ~SharesResource(r) /\ ~At(r, "lockRead") /\ ~At(r, "unlockRead")
      /\ HoldsReadTry(r)' /\ HoldsRmutex(r)' /\ ~(r \in CountedReaders)'
      /\ ~SharesResource(r)' /\ ~At(r, "lockRead")' /\ ~At(r, "unlockRead")'
  BY <1>1
  DEF EnterReader, ReaderMoved, At, HoldsRmutex, HoldsReadTry, Reading,
      CountedReaders, SharesResource, ReaderAt
<1>3. /\ sem \in [Semaphores -> {0, 1}]
      /\ readers \in Nat /\ writers \in Nat /\ leaked \in Nat
  BY DEF Inv, TypeOK
<1>4. CountedReaders' = CountedReaders /\ CountedWriters' = CountedWriters
  BY <1>1, <1>2, ReaderFrame DEF CountedReaders
<1>5. CountersExact'
  BY <1>3, <1>4, CountedFinite
  DEF Inv, SemaphoresExact, CountersExact, EnterReader, counters, other
<1>6. WmutexExact'
  BY <1>1, <1>2, <1>3, ReaderFrame
  DEF Inv, SemaphoresExact, WmutexExact, EnterReader, P, V, Semaphores, counters
<1>7. RmutexExact'
  BY <1>1, <1>2, <1>3, ReaderFrame
  DEF Inv, SemaphoresExact, RmutexExact, EnterReader, P, V, Semaphores, counters
<1>8. ReadTryExact'
  BY <1>1, <1>2, <1>3, ReaderFrame, GroupHolds
  DEF Inv, SemaphoresExact, WmutexExact, ReadTryExact, EnterReader, P, V, Semaphores
<1>9. ResourceExact'
  BY <1>1, <1>2, <1>3, ReaderFrame, GroupHolds
  DEF Inv, SemaphoresExact, RmutexExact, ResourceExact, EnterReader, P, V,
      Semaphores, other
<1> QED
  BY <1>5, <1>6, <1>7, <1>8, <1>9 DEF SemaphoresExact

\* read_lock, readers++: the first reader in goes on to take resource, and after
\* a leaked read lock nobody is the first.
LEMMA CountReaderStep ==
  ASSUME Inv, NEW r \in Readers, CountReader(r)
  PROVE  SemaphoresExact'
<1>1. ReaderMoved(r, IF readers = 0 THEN "lockRead" ELSE "leaveEnter")
  BY ReaderMove DEF Inv, CountReader
<1>2. /\ HoldsReadTry(r) /\ HoldsRmutex(r) /\ r \notin CountedReaders
      /\ ~SharesResource(r) /\ ~At(r, "lockRead") /\ ~At(r, "unlockRead")
      /\ HoldsReadTry(r)' /\ HoldsRmutex(r)' /\ (r \in CountedReaders)'
      /\ ~At(r, "unlockRead")' /\ (At(r, "lockRead")' <=> readers = 0)
      /\ (SharesResource(r)' <=> readers # 0)
  BY <1>1
  DEF CountReader, ReaderMoved, At, HoldsRmutex, HoldsReadTry, Reading,
      CountedReaders, SharesResource, ReaderAt, Inv, TypeOK
<1>3. /\ sem \in [Semaphores -> {0, 1}]
      /\ readers \in Nat /\ writers \in Nat /\ leaked \in Nat
  BY DEF Inv, TypeOK
<1>4. CountedReaders' = CountedReaders \cup {r} /\ CountedWriters' = CountedWriters
  BY <1>1, <1>2, ReaderFrame DEF CountedReaders
<1>c. /\ Cardinality(CountedReaders \cup {r}) = Cardinality(CountedReaders) + 1
      /\ Cardinality(CountedReaders) \in Nat
  BY <1>2, CountedFinite, FS_AddElement, FS_CardinalityType
<1>5. CountersExact'
  BY <1>3, <1>4, <1>c, CountedFinite
  DEF Inv, SemaphoresExact, CountersExact, CountReader, counters, other
<1>6. WmutexExact'
  BY <1>1, <1>2, <1>3, ReaderFrame, CounterTests
  DEF Inv, SemaphoresExact, WmutexExact, CountReader, P, V, Semaphores, counters
<1>7. RmutexExact'
  BY <1>1, <1>2, <1>3, ReaderFrame, CounterTests
  DEF Inv, SemaphoresExact, RmutexExact, CountReader, P, V, Semaphores, counters
<1>g. ReadersHoldResource' <=> ReadersHoldResource
  <2>1. \A x \in Readers \ {r} : ~HoldsRmutex(x)
    BY <1>2 DEF Inv, SemaphoresExact, RmutexExact
  <2>2. ASSUME readers = 0
        PROVE  CountedReaders = {} /\ leaked = 0
    BY <2>2, <1>2, CounterTests
  <2>3. CASE readers = 0
    BY <2>1, <2>2, <2>3, <1>1, <1>2, ReaderFrame, GroupHolds, CounterTests
    DEF CountReader, other
  <2>4. CASE readers # 0
    <3>1. leaked > 0 \/ \E x \in CountedReaders : x # r
      BY <2>4, <1>2, <1>3, CounterTests
    <3>2. leaked > 0 \/ \E x \in Readers \ {r} : SharesResource(x)
      BY <3>1, <2>1, CounterTests DEF CountedReaders
    <3> QED
      BY <3>2, <1>1, <1>2, ReaderFrame, GroupHolds DEF CountReader, other
  <2> QED
    BY <2>3, <2>4
<1>8. ReadTryExact'
  BY <1>1, <1>2, <1>3, ReaderFrame, GroupHolds, CounterTests
  DEF Inv, SemaphoresExact, WmutexExact, ReadTryExact, CountReader, P, V, Semaphores
<1>9. ResourceExact'
  BY <1>g, <1>1, <1>2, <1>3, ReaderFrame, GroupHolds, CounterTests
  DEF Inv, SemaphoresExact, RmutexExact, ResourceExact, CountReader, P, V,
      Semaphores, other
<1> QED
  BY <1>5, <1>6, <1>7, <1>8, <1>9 DEF SemaphoresExact

\* read_lock, P(resource) by the first reader: no writer writes.
LEMMA LockForReadersStep ==
  ASSUME Inv, NEW r \in Readers, LockForReaders(r)
  PROVE  SemaphoresExact'
<1>1. ReaderMoved(r, "leaveEnter")
  BY ReaderMove DEF Inv, LockForReaders
<1>2. /\ HoldsReadTry(r) /\ HoldsRmutex(r) /\ r \in CountedReaders
      /\ ~SharesResource(r) /\ At(r, "lockRead") /\ ~At(r, "unlockRead")
      /\ HoldsReadTry(r)' /\ HoldsRmutex(r)' /\ (r \in CountedReaders)'
      /\ SharesResource(r)' /\ ~At(r, "lockRead")' /\ ~At(r, "unlockRead")'
  BY <1>1
  DEF LockForReaders, ReaderMoved, At, HoldsRmutex, HoldsReadTry, Reading,
      CountedReaders, SharesResource, ReaderAt
<1>3. /\ sem \in [Semaphores -> {0, 1}]
      /\ readers \in Nat /\ writers \in Nat /\ leaked \in Nat
  BY DEF Inv, TypeOK
<1>4. CountedReaders' = CountedReaders /\ CountedWriters' = CountedWriters
  BY <1>1, <1>2, ReaderFrame DEF CountedReaders
<1>5. CountersExact'
  BY <1>3, <1>4, CountedFinite
  DEF Inv, SemaphoresExact, CountersExact, LockForReaders, counters, other
<1>6. WmutexExact'
  BY <1>1, <1>2, <1>3, ReaderFrame
  DEF Inv, SemaphoresExact, WmutexExact, LockForReaders, P, V, Semaphores, counters
<1>7. RmutexExact'
  BY <1>1, <1>2, <1>3, ReaderFrame
  DEF Inv, SemaphoresExact, RmutexExact, LockForReaders, P, V, Semaphores, counters
<1>8. ReadTryExact'
  BY <1>1, <1>2, <1>3, ReaderFrame, GroupHolds
  DEF Inv, SemaphoresExact, WmutexExact, ReadTryExact, LockForReaders, P, V,
      Semaphores
<1>9. ResourceExact'
  BY <1>1, <1>2, <1>3, ReaderFrame, GroupHolds
  DEF Inv, SemaphoresExact, RmutexExact, ResourceExact, LockForReaders, P, V,
      Semaphores, other
<1> QED
  BY <1>5, <1>6, <1>7, <1>8, <1>9 DEF SemaphoresExact

\* read_lock, V(rmutex) on the way in.
LEMMA LeaveReaderEntryStep ==
  ASSUME Inv, NEW r \in Readers, LeaveReaderEntry(r)
  PROVE  SemaphoresExact'
<1>1. ReaderMoved(r, "leaveTry")
  BY ReaderMove DEF Inv, LeaveReaderEntry
<1>2. /\ HoldsReadTry(r) /\ HoldsRmutex(r) /\ r \in CountedReaders
      /\ SharesResource(r) /\ ~At(r, "lockRead") /\ ~At(r, "unlockRead")
      /\ HoldsReadTry(r)' /\ ~HoldsRmutex(r)' /\ (r \in CountedReaders)'
      /\ SharesResource(r)' /\ ~At(r, "lockRead")' /\ ~At(r, "unlockRead")'
  BY <1>1
  DEF LeaveReaderEntry, ReaderMoved, At, HoldsRmutex, HoldsReadTry, Reading,
      CountedReaders, SharesResource, ReaderAt
<1>3. /\ sem \in [Semaphores -> {0, 1}]
      /\ readers \in Nat /\ writers \in Nat /\ leaked \in Nat
  BY DEF Inv, TypeOK
<1>4. CountedReaders' = CountedReaders /\ CountedWriters' = CountedWriters
  BY <1>1, <1>2, ReaderFrame DEF CountedReaders
<1>5. CountersExact'
  BY <1>3, <1>4, CountedFinite
  DEF Inv, SemaphoresExact, CountersExact, LeaveReaderEntry, counters, other
<1>6. WmutexExact'
  BY <1>1, <1>2, <1>3, ReaderFrame
  DEF Inv, SemaphoresExact, WmutexExact, LeaveReaderEntry, P, V, Semaphores,
      counters
<1>7. RmutexExact'
  BY <1>1, <1>2, <1>3, ReaderFrame
  DEF Inv, SemaphoresExact, RmutexExact, LeaveReaderEntry, P, V, Semaphores,
      counters
<1>8. ReadTryExact'
  BY <1>1, <1>2, <1>3, ReaderFrame, GroupHolds
  DEF Inv, SemaphoresExact, WmutexExact, ReadTryExact, LeaveReaderEntry, P, V,
      Semaphores
<1>9. ResourceExact'
  BY <1>1, <1>2, <1>3, ReaderFrame, GroupHolds
  DEF Inv, SemaphoresExact, RmutexExact, ResourceExact, LeaveReaderEntry, P, V,
      Semaphores, other
<1> QED
  BY <1>5, <1>6, <1>7, <1>8, <1>9 DEF SemaphoresExact

\* read_lock, V(readTry): no writer took it in between.
LEMMA LeaveReadTryStep ==
  ASSUME Inv, NEW r \in Readers, LeaveReadTry(r)
  PROVE  SemaphoresExact'
<1>1. ReaderMoved(r, "check")
  BY ReaderMove DEF Inv, LeaveReadTry
<1>2. /\ HoldsReadTry(r) /\ ~HoldsRmutex(r) /\ r \in CountedReaders
      /\ SharesResource(r) /\ ~At(r, "lockRead") /\ ~At(r, "unlockRead")
      /\ ~HoldsReadTry(r)' /\ ~HoldsRmutex(r)' /\ (r \in CountedReaders)'
      /\ SharesResource(r)' /\ ~At(r, "lockRead")' /\ ~At(r, "unlockRead")'
  BY <1>1
  DEF LeaveReadTry, ReaderMoved, At, HoldsRmutex, HoldsReadTry, Reading,
      CountedReaders, SharesResource, ReaderAt
<1>3. /\ sem \in [Semaphores -> {0, 1}]
      /\ readers \in Nat /\ writers \in Nat /\ leaked \in Nat
  BY DEF Inv, TypeOK
<1>4. CountedReaders' = CountedReaders /\ CountedWriters' = CountedWriters
  BY <1>1, <1>2, ReaderFrame DEF CountedReaders
<1>5. CountersExact'
  BY <1>3, <1>4, CountedFinite
  DEF Inv, SemaphoresExact, CountersExact, LeaveReadTry, counters, other
<1>6. WmutexExact'
  BY <1>1, <1>2, <1>3, ReaderFrame
  DEF Inv, SemaphoresExact, WmutexExact, LeaveReadTry, P, V, Semaphores, counters
<1>7. RmutexExact'
  BY <1>1, <1>2, <1>3, ReaderFrame
  DEF Inv, SemaphoresExact, RmutexExact, LeaveReadTry, P, V, Semaphores, counters
<1>8. ReadTryExact'
  BY <1>1, <1>2, <1>3, ReaderFrame, GroupHolds
  DEF Inv, SemaphoresExact, WmutexExact, ReadTryExact, LeaveReadTry, P, V,
      Semaphores
<1>9. ResourceExact'
  BY <1>1, <1>2, <1>3, ReaderFrame, GroupHolds
  DEF Inv, SemaphoresExact, RmutexExact, ResourceExact, LeaveReadTry, P, V,
      Semaphores, other
<1> QED
  BY <1>5, <1>6, <1>7, <1>8, <1>9 DEF SemaphoresExact

\* read_lock returning INTERRUPTED inside the lock: the reader stays counted, as
\* a leaked lock.
LEMMA ReadInterruptedStep ==
  ASSUME Inv, NEW r \in Readers, ReadInterrupted(r)
  PROVE  SemaphoresExact'
<1>1. ReaderMoved(r, "idle")
  BY ReaderMove DEF Inv, ReadInterrupted
<1>2. /\ ~HoldsReadTry(r) /\ ~HoldsRmutex(r) /\ r \in CountedReaders
      /\ SharesResource(r) /\ ~At(r, "lockRead") /\ ~At(r, "unlockRead")
      /\ ~HoldsReadTry(r)' /\ ~HoldsRmutex(r)' /\ ~(r \in CountedReaders)'
      /\ ~SharesResource(r)' /\ ~At(r, "lockRead")' /\ ~At(r, "unlockRead")'
  BY <1>1
  DEF ReadInterrupted, ReaderMoved, At, HoldsRmutex, HoldsReadTry, Reading,
      CountedReaders, SharesResource, ReaderAt
<1>3. /\ sem \in [Semaphores -> {0, 1}]
      /\ readers \in Nat /\ writers \in Nat /\ leaked \in Nat
  BY DEF Inv, TypeOK
<1>4. CountedReaders' = CountedReaders \ {r} /\ CountedWriters' = CountedWriters
  BY <1>1, <1>2, ReaderFrame DEF CountedReaders
<1>c. /\ Cardinality(CountedReaders \ {r}) = Cardinality(CountedReaders) - 1
      /\ Cardinality(CountedReaders) \in Nat
  BY <1>2, CountedFinite, FS_RemoveElement, FS_CardinalityType
<1>5. CountersExact'
  BY <1>3, <1>4, <1>c, CountedFinite
  DEF Inv, SemaphoresExact, CountersExact, ReadInterrupted, counters, other
<1>6. WmutexExact'
  BY <1>1, <1>2, <1>3, ReaderFrame, CounterTests
  DEF Inv, SemaphoresExact, WmutexExact, ReadInterrupted, P, V, Semaphores, counters
<1>7. RmutexExact'
  BY <1>1, <1>2, <1>3, ReaderFrame, CounterTests
  DEF Inv, SemaphoresExact, RmutexExact, ReadInterrupted, P, V, Semaphores, counters
<1>8. ReadTryExact'
  BY <1>1, <1>2, <1>3, ReaderFrame, GroupHolds, CounterTests
  DEF Inv, SemaphoresExact, WmutexExact, ReadTryExact, ReadInterrupted, P, V,
      Semaphores
<1>9. ResourceExact'
  BY <1>1, <1>2, <1>3, ReaderFrame, GroupHolds, CounterTests
  DEF Inv, SemaphoresExact, RmutexExact, ResourceExact, ReadInterrupted, P, V,
      Semaphores, other
<1> QED
  BY <1>5, <1>6, <1>7, <1>8, <1>9 DEF SemaphoresExact

\* read_unlock, P(rmutex) on the way out.
LEMMA ExitReaderStep ==
  ASSUME Inv, NEW r \in Readers, ExitReader(r)
  PROVE  SemaphoresExact'
<1>1. ReaderMoved(r, "uncountRead")
  BY ReaderMove DEF Inv, ExitReader
<1>2. /\ ~HoldsReadTry(r) /\ ~HoldsRmutex(r) /\ r \in CountedReaders
      /\ SharesResource(r) /\ ~At(r, "lockRead") /\ ~At(r, "unlockRead")
      /\ ~HoldsReadTry(r)' /\ HoldsRmutex(r)' /\ (r \in CountedReaders)'
      /\ SharesResource(r)' /\ ~At(r, "lockRead")' /\ ~At(r, "unlockRead")'
  BY <1>1
  DEF ExitReader, ReaderMoved, At, HoldsRmutex, HoldsReadTry, Reading,
      CountedReaders, SharesResource, ReaderAt
<1>3. /\ sem \in [Semaphores -> {0, 1}]
      /\ readers \in Nat /\ writers \in Nat /\ leaked \in Nat
  BY DEF Inv, TypeOK
<1>4. CountedReaders' = CountedReaders /\ CountedWriters' = CountedWriters
  BY <1>1, <1>2, ReaderFrame DEF CountedReaders
<1>5. CountersExact'
  BY <1>3, <1>4, CountedFinite
  DEF Inv, SemaphoresExact, CountersExact, ExitReader, counters, other
<1>6. WmutexExact'
  BY <1>1, <1>2, <1>3, ReaderFrame
  DEF Inv, SemaphoresExact, WmutexExact, ExitReader, P, V, Semaphores, counters
<1>7. RmutexExact'
  BY <1>1, <1>2, <1>3, ReaderFrame
  DEF Inv, SemaphoresExact, RmutexExact, ExitReader, P, V, Semaphores, counters
<1>8. ReadTryExact'
  BY <1>1, <1>2, <1>3, ReaderFrame, GroupHolds
  DEF Inv, SemaphoresExact, WmutexExact, ReadTryExact, ExitReader, P, V, Semaphores
<1>9. ResourceExact'
  BY <1>1, <1>2, <1>3, ReaderFrame, GroupHolds
  DEF Inv, SemaphoresExact, RmutexExact, ResourceExact, ExitReader, P, V,
      Semaphores, other
<1> QED
  BY <1>5, <1>6, <1>7, <1>8, <1>9 DEF SemaphoresExact

\* read_unlock, readers--: exactly the last reader out goes on to post resource,
\* and nobody does once a lock is leaked.
LEMMA UncountReaderStep ==
  ASSUME Inv, NEW r \in Readers, UncountReader(r)
  PROVE  SemaphoresExact'
<1>1. ReaderMoved(r, IF readers = 1 THEN "unlockRead" ELSE "leaveUnlock")
  BY ReaderMove DEF Inv, UncountReader
<1>2. /\ ~HoldsReadTry(r) /\ HoldsRmutex(r) /\ r \in CountedReaders
      /\ SharesResource(r) /\ ~At(r, "lockRead") /\ ~At(r, "unlockRead")
      /\ ~HoldsReadTry(r)' /\ HoldsRmutex(r)' /\ ~(r \in CountedReaders)'
      /\ ~At(r, "lockRead")' /\ (At(r, "unlockRead")' <=> readers = 1)
      /\ (SharesResource(r)' <=> readers = 1)
  BY <1>1
  DEF UncountReader, ReaderMoved, At, HoldsRmutex, HoldsReadTry, Reading,
      CountedReaders, SharesResource, ReaderAt, Inv, TypeOK
<1>3. /\ sem \in [Semaphores -> {0, 1}]
      /\ readers \in Nat /\ writers \in Nat /\ leaked \in Nat
  BY DEF Inv, TypeOK
<1>4. CountedReaders' = CountedReaders \ {r} /\ CountedWriters' = CountedWriters
  BY <1>1, <1>2, ReaderFrame DEF CountedReaders
<1>c. /\ Cardinality(CountedReaders \ {r}) = Cardinality(CountedReaders) - 1
      /\ Cardinality(CountedReaders) \in Nat
  BY <1>2, CountedFinite, FS_RemoveElement, FS_CardinalityType
<1>5. CountersExact'
  BY <1>3, <1>4, <1>c, CountedFinite
  DEF Inv, SemaphoresExact, CountersExact, UncountReader, counters, other
<1>6. WmutexExact'
  BY <1>1, <1>2, <1>3, ReaderFrame, CounterTests
  DEF Inv, SemaphoresExact, WmutexExact, UncountReader, P, V, Semaphores, counters
<1>7. RmutexExact'
  BY <1>1, <1>2, <1>3, ReaderFrame, CounterTests
  DEF Inv, SemaphoresExact, RmutexExact, UncountReader, P, V, Semaphores, counters
<1>g. ReadersHoldResource' <=> ReadersHoldResource
  <2>1. \A x \in Readers \ {r} : ~HoldsRmutex(x)
    BY <1>2 DEF Inv, SemaphoresExact, RmutexExact
  <2>2. ASSUME readers = 1
        PROVE  CountedReaders = {r} /\ leaked = 0
    BY <2>2, <1>2, CounterTests
  <2>3. CASE readers = 1
    BY <2>1, <2>2, <2>3, <1>1, <1>2, ReaderFrame, GroupHolds, CounterTests
    DEF UncountReader, other
  <2>4. CASE readers # 1
    <3>1. leaked > 0 \/ \E x \in CountedReaders : x # r
      <4>1. CASE leaked = 0
        <5>1. CountedReaders # {r}
          BY <2>4, <4>1, CounterTests
        <5> QED
          BY <5>1, <1>2
      <4>2. CASE leaked # 0
        BY <4>2, <1>3
      <4> QED
        BY <4>1, <4>2
    <3>2. leaked > 0 \/ \E x \in Readers \ {r} : SharesResource(x)
      BY <3>1, <2>1, CounterTests DEF CountedReaders
    <3> QED
      BY <3>2, <1>1, <1>2, ReaderFrame, GroupHolds DEF UncountReader, other
  <2> QED
    BY <2>3, <2>4
<1>8. ReadTryExact'
  BY <1>1, <1>2, <1>3, ReaderFrame, GroupHolds, CounterTests
  DEF Inv, SemaphoresExact, WmutexExact, ReadTryExact, UncountReader, P, V,
      Semaphores
<1>9. ResourceExact'
  BY <1>g, <1>1, <1>2, <1>3, ReaderFrame, GroupHolds, CounterTests
  DEF Inv, SemaphoresExact, RmutexExact, ResourceExact, UncountReader, P, V,
      Semaphores, other
<1> QED
  BY <1>5, <1>6, <1>7, <1>8, <1>9 DEF SemaphoresExact

\* read_unlock, V(resource) by the last reader: no writer got in between.
LEMMA UnlockForReadersStep ==
  ASSUME Inv, NEW r \in Readers, UnlockForReaders(r)
  PROVE  SemaphoresExact'
<1>1. ReaderMoved(r, "leaveUnlock")
  BY ReaderMove DEF Inv, UnlockForReaders
<1>2. /\ ~HoldsReadTry(r) /\ HoldsRmutex(r) /\ r \notin CountedReaders
      /\ SharesResource(r) /\ ~At(r, "lockRead") /\ At(r, "unlockRead")
      /\ ~HoldsReadTry(r)' /\ HoldsRmutex(r)' /\ ~(r \in CountedReaders)'
      /\ ~SharesResource(r)' /\ ~At(r, "lockRead")' /\ ~At(r, "unlockRead")'
  BY <1>1
  DEF UnlockForReaders, ReaderMoved, At, HoldsRmutex, HoldsReadTry, Reading,
      CountedReaders, SharesResource, ReaderAt
<1>3. /\ sem \in [Semaphores -> {0, 1}]
      /\ readers \in Nat /\ writers \in Nat /\ leaked \in Nat
  BY DEF Inv, TypeOK
<1>4. CountedReaders' = CountedReaders /\ CountedWriters' = CountedWriters
  BY <1>1, <1>2, ReaderFrame DEF CountedReaders
<1>5. CountersExact'
  BY <1>3, <1>4, CountedFinite
  DEF Inv, SemaphoresExact, CountersExact, UnlockForReaders, counters, other
<1>6. WmutexExact'
  BY <1>1, <1>2, <1>3, ReaderFrame, CounterTests
  DEF Inv, SemaphoresExact, WmutexExact, UnlockForReaders, P, V, Semaphores,
      counters
<1>7. RmutexExact'
  BY <1>1, <1>2, <1>3, ReaderFrame, CounterTests
  DEF Inv, SemaphoresExact, RmutexExact, UnlockForReaders, P, V, Semaphores,
      counters
<1>8. ReadTryExact'
  BY <1>1, <1>2, <1>3, ReaderFrame, GroupHolds, CounterTests
  DEF Inv, SemaphoresExact, WmutexExact, ReadTryExact, UnlockForReaders, P, V,
      Semaphores
<1>9. ResourceExact'
  BY <1>1, <1>2, <1>3, ReaderFrame, GroupHolds, CounterTests
  DEF Inv, SemaphoresExact, RmutexExact, ResourceExact, UnlockForReaders, P, V,
      Semaphores, other
<1> QED
  BY <1>5, <1>6, <1>7, <1>8, <1>9 DEF SemaphoresExact

\* read_unlock, V(rmutex) on the way out.
LEMMA LeaveReaderStep ==
  ASSUME Inv, NEW r \in Readers, LeaveReader(r)
  PROVE  SemaphoresExact'
<1>1. ReaderMoved(r, rest[r])
  BY ReaderMove DEF Inv, LeaveReader
<1>2. /\ ~HoldsReadTry(r) /\ HoldsRmutex(r) /\ r \notin CountedReaders
      /\ ~SharesResource(r) /\ ~At(r, "lockRead") /\ ~At(r, "unlockRead")
      /\ ~HoldsReadTry(r)' /\ ~HoldsRmutex(r)' /\ ~(r \in CountedReaders)'
      /\ ~SharesResource(r)' /\ ~At(r, "lockRead")' /\ ~At(r, "unlockRead")'
  BY <1>1
  DEF LeaveReader, ReaderMoved, At, HoldsRmutex, HoldsReadTry, Reading,
      CountedReaders, SharesResource, ReaderAt, Inv, TypeOK
<1>3. /\ sem \in [Semaphores -> {0, 1}]
      /\ readers \in Nat /\ writers \in Nat /\ leaked \in Nat
  BY DEF Inv, TypeOK
<1>4. CountedReaders' = CountedReaders /\ CountedWriters' = CountedWriters
  BY <1>1, <1>2, ReaderFrame DEF CountedReaders
<1>5. CountersExact'
  BY <1>3, <1>4, CountedFinite
  DEF Inv, SemaphoresExact, CountersExact, LeaveReader, counters, other
<1>6. WmutexExact'
  BY <1>1, <1>2, <1>3, ReaderFrame
  DEF Inv, SemaphoresExact, WmutexExact, LeaveReader, P, V, Semaphores, counters
<1>7. RmutexExact'
  BY <1>1, <1>2, <1>3, ReaderFrame
  DEF Inv, SemaphoresExact, RmutexExact, LeaveReader, P, V, Semaphores, counters
<1>8. ReadTryExact'
  BY <1>1, <1>2, <1>3, ReaderFrame, GroupHolds
  DEF Inv, SemaphoresExact, WmutexExact, ReadTryExact, LeaveReader, P, V, Semaphores
<1>9. ResourceExact'
  BY <1>1, <1>2, <1>3, ReaderFrame, GroupHolds
  DEF Inv, SemaphoresExact, RmutexExact, ResourceExact, LeaveReader, P, V,
      Semaphores, other
<1> QED
  BY <1>5, <1>6, <1>7, <1>8, <1>9 DEF SemaphoresExact

-----------------------------------------------------------------------------
(***************************************************************************)
(* The steps that do not concern the lock.                                 *)
(***************************************************************************)

\* StartWrite, CopyData, BumpNonce, SetPacketNonce: outside the lock, or
\* inside it from end to end.
LEMMA WriterInert ==
  ASSUME Inv, NEW w \in Writers,
         StartWrite(w) \/ CopyData(w) \/ BumpNonce(w) \/ SetPacketNonce(w)
  PROVE  SemaphoresExact'
<1>1. UNCHANGED <<sem, counters, leaked>>
  BY DEF StartWrite, CopyData, BumpNonce, SetPacketNonce, other
<1>2. \E l : /\ Goto(w, l)
            /\ \/ {pc[w], l} \subseteq {"idle", "enter"}
               \/ {pc[w], l} \subseteq {"copy", "bumpNonce", "setPacketNonce", "wake", "unlockData"}
  BY DEF StartWrite, CopyData, BumpNonce, SetPacketNonce, At
<1>3. PICK l : /\ WriterMoved(w, l)
               /\ \/ {pc[w], l} \subseteq {"idle", "enter"}
                  \/ {pc[w], l} \subseteq {"copy", "bumpNonce", "setPacketNonce", "wake", "unlockData"}
  BY <1>2, WriterMove DEF Inv
<1>4. \A p \in Writers \cup Readers : SameRole(p)
  BY <1>3 DEF WriterMoved, SameRole
<1> QED
  BY <1>1, <1>4, InertStep DEF Inv

\* futex wakes sleepers: they go from outside the lock to outside the lock.
LEMMA WakeStep ==
  ASSUME Inv, NEW w \in Writers, Wake(w)
  PROVE  SemaphoresExact'
<1>1. UNCHANGED <<sem, counters, leaked>>
  BY DEF Wake, other
<1>2. \A p \in Writers \cup Readers : SameRole(p)
  BY DEF Wake, Woken, SameRole, At
<1> QED
  BY <1>1, <1>2, InertStep DEF Inv

\* The steps of a reader that neither post nor wait nor count.
LEMMA ReaderInert ==
  ASSUME Inv, NEW r \in Readers,
         \/ StartUpdate(r) \/ ReadFresh(r) \/ ReadStale(r) \/ FetchDone(r)
         \/ FutexWait(r) \/ Awaken(r) \/ TimeOut(r)
  PROVE  SemaphoresExact'
<1>1. UNCHANGED <<sem, counters, leaked>>
  BY DEF StartUpdate, ReadFresh, ReadStale, FetchDone, FutexWait, Awaken, TimeOut, other
<1>2. \E l : /\ Goto(r, l)
            /\ \/ {pc[r], l} \subseteq {"check", "fetch", "unlock"}
               \/ {pc[r], l} \subseteq {"idle", "tryRead", "wait", "asleep", "awake"}
  BY DEF StartUpdate, ReadFresh, ReadStale, FetchDone, FutexWait, Awaken, TimeOut,
     ReaderAt, At
<1>3. PICK l : /\ ReaderMoved(r, l)
               /\ \/ {pc[r], l} \subseteq {"check", "fetch", "unlock"}
                  \/ {pc[r], l} \subseteq {"idle", "tryRead", "wait", "asleep", "awake"}
  BY <1>2, ReaderMove DEF Inv
<1>4. \A p \in Writers \cup Readers : SameRole(p)
  BY <1>3 DEF ReaderMoved, SameRole
<1> QED
  BY <1>1, <1>4, InertStep DEF Inv

\* FetchPacket, Signal and stuttering move nobody.
LEMMA NobodyMoves ==
  ASSUME Inv, UNCHANGED <<sem, counters, leaked, pc>>
  PROVE  SemaphoresExact'
  BY InertStep DEF Inv, SameRole

-----------------------------------------------------------------------------
\* Every step of write, clear, update and sighandler keeps the lock exact.
LEMMA LockStep ==
  ASSUME Inv, [Next]_vars
  PROVE  SemaphoresExact'
<1>1. CASE \E w \in Writers : StartWrite(w) \/ WriterStep(w)
  <2>1. PICK w \in Writers : StartWrite(w) \/ WriterStep(w)
    BY <1>1
  <2> QED
    BY <2>1, WriterInert, WakeStep, EnterWriterStep, CountWriterStep,
       LockOutReadersStep, LeaveEntryStep, LockDataStep, UnlockDataStep,
       ExitWriterStep, UncountWriterStep, LetReadersInStep, LeaveExitStep
    DEF WriterStep
<1>2. CASE \E r \in Readers : ReaderStep(r) \/ TimeOut(r)
  <2>1. PICK r \in Readers : ReaderStep(r) \/ TimeOut(r)
    BY <1>2
  <2>2. CASE FetchPacket(r)
    BY <2>2, NobodyMoves DEF FetchPacket, other
  <2> QED
    BY <2>1, <2>2, ReaderInert, TryReadStep, EnterReaderStep, CountReaderStep,
       LockForReadersStep, LeaveReaderEntryStep, LeaveReadTryStep,
       ReadInterruptedStep, ExitReaderStep, UncountReaderStep,
       UnlockForReadersStep, LeaveReaderStep
    DEF ReaderStep
<1>3. CASE \E r \in Readers : Signal(r)
  BY <1>3, NobodyMoves DEF Signal
<1>4. CASE UNCHANGED vars
  BY <1>4, NobodyMoves DEF vars, counters, other
<1> QED
  BY <1>1, <1>2, <1>3, <1>4 DEF Next, Stop

-----------------------------------------------------------------------------
(***************************************************************************)
(* Type correctness.  A V keeps its semaphore at most 1 because whoever    *)
(* posts holds it; a counter stays a natural number because it counts.     *)
(***************************************************************************)

\* readers-- and writers-- never take the uint32_t counters below zero, because
\* after the step the counters are still cardinalities.
LEMMA CountersType ==
  ASSUME CountersExact', leaked' \in Nat
  PROVE  readers' \in Nat /\ writers' \in Nat
<1>1. /\ IsFiniteSet(CountedWriters')
      /\ IsFiniteSet(CountedReaders')
  BY ProcessAssumption, FS_Subset DEF CountedWriters, CountedReaders
<1>2. /\ Cardinality(CountedWriters') \in Nat
      /\ Cardinality(CountedReaders') \in Nat
  BY <1>1, FS_CardinalityType
<1> QED
  BY <1>2 DEF CountersExact

\* A semaphore that is posted only while it is 0, and waited for only while it
\* is 1, stays 0 or 1.
LEMMA PostType ==
  ASSUME Inv, NEW s \in Semaphores, P(s) \/ (V(s) /\ sem[s] = 0) \/ UNCHANGED sem
  PROVE  sem' \in [Semaphores -> {0, 1}]
<1>1. sem \in [Semaphores -> {0, 1}]
  BY DEF Inv, TypeOK
<1>2. CASE P(s)
  BY <1>1, <1>2 DEF P
<1>3. CASE V(s) /\ sem[s] = 0
  BY <1>1, <1>3 DEF V
<1> QED
  BY <1>1, <1>2, <1>3

\* No step of write_lock or write_unlock posts a semaphore that is at 1.
LEMMA WriterSem ==
  ASSUME Inv, NEW w \in Writers, WriterStep(w)
  PROVE  sem' \in [Semaphores -> {0, 1}]
<1>1. /\ At(w, "leaveEntry") \/ At(w, "leaveExit") => sem["wmutex"] = 0
      /\ At(w, "unlockData") => sem["resource"] = 0
      /\ At(w, "unlockReaders") => sem["readTry"] = 0
  BY GroupHolds DEF Inv, SemaphoresExact, WmutexExact, ReadTryExact, ResourceExact,
     At, HoldsWmutex, Writing, SharesReadTry
<1>2. ASSUME NEW s \in Semaphores, P(s) \/ (V(s) /\ sem[s] = 0) \/ UNCHANGED sem
      PROVE  sem' \in [Semaphores -> {0, 1}]
  BY <1>2, PostType
<1>3. "wmutex" \in Semaphores /\ "readTry" \in Semaphores /\ "resource" \in Semaphores
  BY DEF Semaphores
<1>4. CASE EnterWriter(w) \/ ExitWriter(w) \/ LockOutReaders(w) \/ LockData(w)
  <2>1. ASSUME EnterWriter(w)
        PROVE  P("wmutex")
    BY <2>1 DEF EnterWriter
  <2>2. ASSUME ExitWriter(w)
        PROVE  P("wmutex")
    BY <2>2 DEF ExitWriter
  <2>3. ASSUME LockOutReaders(w)
        PROVE  P("readTry")
    BY <2>3 DEF LockOutReaders
  <2>4. ASSUME LockData(w)
        PROVE  P("resource")
    BY <2>4 DEF LockData
  <2>5. sem \in [Semaphores -> {0, 1}]
    BY DEF Inv, TypeOK
  <2>6. P("wmutex") \/ P("readTry") \/ P("resource")
    BY <1>4, <2>1, <2>2, <2>3, <2>4
  <2> QED
    BY <1>3, <2>5, <2>6 DEF P
<1>5. CASE LeaveEntry(w) \/ LeaveExit(w) \/ UnlockData(w) \/ LetReadersIn(w)
  BY <1>1, <1>2, <1>3, <1>5 DEF LeaveEntry, LeaveExit, UnlockData, LetReadersIn
<1>6. CASE \/ CountWriter(w) \/ CopyData(w) \/ BumpNonce(w) \/ SetPacketNonce(w)
           \/ Wake(w) \/ UncountWriter(w)
  BY <1>2, <1>3, <1>6 DEF CountWriter, CopyData, BumpNonce, SetPacketNonce, Wake,
     UncountWriter
<1> QED
  BY <1>4, <1>5, <1>6 DEF WriterStep

\* No step of read_lock or read_unlock posts a semaphore that is at 1.
LEMMA ReaderSem ==
  ASSUME Inv, NEW r \in Readers, ReaderStep(r) \/ TimeOut(r) \/ Signal(r)
  PROVE  sem' \in [Semaphores -> {0, 1}]
<1>1. /\ At(r, "leaveEnter") \/ At(r, "leaveUnlock") => sem["rmutex"] = 0
      /\ At(r, "leaveTry") => sem["readTry"] = 0
      /\ At(r, "unlockRead") => sem["resource"] = 0
  BY GroupHolds DEF Inv, SemaphoresExact, RmutexExact, ReadTryExact, ResourceExact,
     At, HoldsRmutex, HoldsReadTry, SharesResource
<1>2. ASSUME NEW s \in Semaphores, P(s) \/ (V(s) /\ sem[s] = 0) \/ UNCHANGED sem
      PROVE  sem' \in [Semaphores -> {0, 1}]
  BY <1>2, PostType
<1>3. "rmutex" \in Semaphores /\ "readTry" \in Semaphores /\ "resource" \in Semaphores
  BY DEF Semaphores
<1>4. CASE TryRead(r) \/ EnterReader(r) \/ LockForReaders(r) \/ ExitReader(r)
  <2>1. ASSUME TryRead(r)
        PROVE  P("readTry")
    BY <2>1 DEF TryRead
  <2>2. ASSUME EnterReader(r)
        PROVE  P("rmutex")
    BY <2>2 DEF EnterReader
  <2>3. ASSUME LockForReaders(r)
        PROVE  P("resource")
    BY <2>3 DEF LockForReaders
  <2>4. ASSUME ExitReader(r)
        PROVE  P("rmutex")
    BY <2>4 DEF ExitReader
  <2>5. sem \in [Semaphores -> {0, 1}]
    BY DEF Inv, TypeOK
  <2>6. P("rmutex") \/ P("readTry") \/ P("resource")
    BY <1>4, <2>1, <2>2, <2>3, <2>4
  <2> QED
    BY <1>3, <2>5, <2>6 DEF P
<1>5. CASE LeaveReaderEntry(r) \/ LeaveReadTry(r) \/ UnlockForReaders(r) \/ LeaveReader(r)
  BY <1>1, <1>2, <1>3, <1>5
  DEF LeaveReaderEntry, LeaveReadTry, UnlockForReaders, LeaveReader, ReaderAt
<1>6. CASE \/ StartUpdate(r) \/ CountReader(r) \/ ReadFresh(r) \/ ReadStale(r)
           \/ ReadInterrupted(r) \/ FetchPacket(r) \/ FetchDone(r) \/ UncountReader(r)
           \/ FutexWait(r) \/ Awaken(r) \/ TimeOut(r) \/ Signal(r)
  BY <1>2, <1>3, <1>6 DEF StartUpdate, CountReader, ReadFresh, ReadStale,
     ReadInterrupted, FetchPacket, FetchDone, UncountReader, FutexWait, Awaken,
     TimeOut, Signal
<1> QED
  BY <1>4, <1>5, <1>6 DEF ReaderStep

-----------------------------------------------------------------------------
\* The part of the type invariant that neither the semaphores nor the counters
\* enter.
RestTypeOK ==
  /\ nonce \in 0 .. NonceMod - 1
  /\ packetNonce \in [Packets -> 0 .. NonceMod - 1]
  /\ data \in [Packets -> Nat]
  /\ pc \in [Writers \cup Readers -> WriterLocations \cup ReaderLocations]
  /\ \A w \in Writers : pc[w] \in WriterLocations
  /\ \A r \in Readers : pc[r] \in ReaderLocations
  /\ packet \in [Writers -> Packets]
  /\ clearing \subseteq Clearers
  /\ lastNonce \in [Readers -> 0 .. NonceMod - 1]
  /\ lastNonces \in [Readers -> [Packets -> 0 .. NonceMod - 1]]
  /\ updated \in [Readers -> SUBSET Packets]
  /\ view \in [Readers -> [Packets -> Nat]]
  /\ toCopy \in [Readers -> SUBSET Packets]
  /\ rest \in [Readers -> {"idle", "wait"}]
  /\ fate \in [Readers -> Fates]
  /\ leaked \in Nat
  /\ written \in Seq(Packets)

\* A process that moves to a place of its own code stays in its own code.
LEMMA GotoType ==
  ASSUME RestTypeOK, NEW p, NEW l, Goto(p, l),
         \/ p \in Writers /\ l \in WriterLocations
         \/ p \in Readers /\ l \in ReaderLocations
  PROVE  /\ pc' \in [Writers \cup Readers -> WriterLocations \cup ReaderLocations]
         /\ \A w \in Writers : pc'[w] \in WriterLocations
         /\ \A r \in Readers : pc'[r] \in ReaderLocations
  BY ProcessAssumption DEF RestTypeOK, Goto

\* Steps that change no more than semaphores, counters and a program counter.
LEMMA PlainType ==
  ASSUME RestTypeOK, UNCHANGED <<blocks, writer, nonces, locals, other>>,
         NEW p, NEW l, Goto(p, l),
         \/ p \in Writers /\ l \in WriterLocations
         \/ p \in Readers /\ l \in ReaderLocations
  PROVE  RestTypeOK'
  BY GotoType DEF RestTypeOK, blocks, writer, nonces, locals, other

\* The steps of write and clear keep the types of the blocks and the locals.
LEMMA WriterType ==
  ASSUME RestTypeOK, NEW w \in Writers, StartWrite(w) \/ WriterStep(w)
  PROVE  RestTypeOK'
<1>1. CASE StartWrite(w)
  <2>1. Goto(w, "enter") /\ "enter" \in WriterLocations
    BY <1>1 DEF StartWrite, WriterLocations
  <2>2. packet' \in [Writers -> Packets]
    <3>1. PICK p \in WriterPackets[w] : packet' = [packet EXCEPT ![w] = p]
      BY <1>1 DEF StartWrite
    <3>2. p \in Packets
      BY <3>1, PacketAssumption
    <3> QED
      BY <3>1, <3>2 DEF RestTypeOK
  <2>3. clearing' \subseteq Clearers
    BY <1>1 DEF StartWrite, RestTypeOK
  <2> QED
    BY <1>1, <2>1, <2>2, <2>3, GotoType DEF StartWrite, RestTypeOK, blocks, nonces, locals, other
<1>2. CASE CopyData(w)
  <2>1. Goto(w, "bumpNonce") /\ "bumpNonce" \in WriterLocations
    BY <1>2 DEF CopyData, WriterLocations
  <2>2. data' \in [Packets -> Nat]
    BY <1>2 DEF CopyData, RestTypeOK
  <2> QED
    BY <1>2, <2>1, <2>2, GotoType DEF CopyData, RestTypeOK, writer, nonces, locals, other
<1>3. CASE BumpNonce(w)
  <2>1. Goto(w, "setPacketNonce") /\ "setPacketNonce" \in WriterLocations
    BY <1>3 DEF BumpNonce, WriterLocations
  <2>2. nonce' \in 0 .. NonceMod - 1 /\ written' \in Seq(Packets)
    BY <1>3, NumberAssumption DEF BumpNonce, RestTypeOK
  <2> QED
    BY <1>3, <2>1, <2>2, GotoType DEF BumpNonce, RestTypeOK, writer, nonces, locals, other
<1>4. CASE SetPacketNonce(w)
  <2>1. Goto(w, "wake") /\ "wake" \in WriterLocations
    BY <1>4 DEF SetPacketNonce, WriterLocations
  <2>2. packetNonce' \in [Packets -> 0 .. NonceMod - 1]
    BY <1>4 DEF SetPacketNonce, RestTypeOK
  <2> QED
    BY <1>4, <2>1, <2>2, GotoType DEF SetPacketNonce, RestTypeOK, writer, nonces, locals, other
<1>5. CASE Wake(w)
  <2>1. /\ pc' \in [Writers \cup Readers -> WriterLocations \cup ReaderLocations]
        /\ \A x \in Writers : pc'[x] \in WriterLocations
        /\ \A r \in Readers : pc'[r] \in ReaderLocations
    BY <1>5, ProcessAssumption DEF Wake, Woken, RestTypeOK, WriterLocations, ReaderLocations
  <2> QED
    BY <1>5, <2>1 DEF Wake, RestTypeOK, blocks, writer, nonces, locals, other
<1>6. CASE \/ EnterWriter(w) \/ CountWriter(w) \/ LockOutReaders(w) \/ LeaveEntry(w)
           \/ LockData(w) \/ UnlockData(w) \/ ExitWriter(w) \/ UncountWriter(w)
           \/ LetReadersIn(w) \/ LeaveExit(w)
  <2>1. \E l \in WriterLocations : Goto(w, l)
    BY <1>6 DEF EnterWriter, CountWriter, LockOutReaders, LeaveEntry, LockData,
       UnlockData, ExitWriter, UncountWriter, LetReadersIn, LeaveExit, WriterLocations
  <2>2. UNCHANGED <<blocks, writer, nonces, locals, other>>
    BY <1>6 DEF EnterWriter, CountWriter, LockOutReaders, LeaveEntry, LockData,
       UnlockData, ExitWriter, UncountWriter, LetReadersIn, LeaveExit
  <2> QED
    BY <2>1, <2>2, PlainType
<1> QED
  BY <1>1, <1>2, <1>3, <1>4, <1>5, <1>6 DEF WriterStep

\* The packets a viewer tracks are packets of the vehicle.
LEMMA TrackedIn ==
  ASSUME NEW r \in Readers
  PROVE  TrackedIds(r) \subseteq Packets
  BY PacketAssumption DEF TrackedIds

\* The steps of update, read_lock, read_unlock and sighandler keep the types of
\* the blocks and the locals.
LEMMA ReaderType ==
  ASSUME RestTypeOK, NEW r \in Readers, ReaderStep(r) \/ TimeOut(r) \/ Signal(r)
  PROVE  RestTypeOK'
<1> USE DEF ReaderAt
<1>1. CASE StartUpdate(r)
  <2>1. Goto(r, "tryRead") /\ "tryRead" \in ReaderLocations
    BY <1>1 DEF StartUpdate, ReaderLocations
  <2>2. updated' \in [Readers -> SUBSET Packets]
    BY <1>1 DEF StartUpdate, RestTypeOK
  <2> QED
    BY <1>1, <2>1, <2>2, GotoType
    DEF StartUpdate, RestTypeOK, blocks, writer, locals, other
<1>2. CASE ReadFresh(r)
  <2>1. Goto(r, "fetch") /\ "fetch" \in ReaderLocations
    BY <1>2 DEF ReadFresh, ReaderLocations
  <2>2. Changed(r) \subseteq Packets
    BY TrackedIn DEF Changed
  <2>3. lastNonce' \in [Readers -> 0 .. NonceMod - 1]
    BY <1>2 DEF ReadFresh, RestTypeOK
  <2>4. lastNonces' \in [Readers -> [Packets -> 0 .. NonceMod - 1]]
    BY <1>2, TrackedIn DEF ReadFresh, RestTypeOK
  <2>5. updated' \in [Readers -> SUBSET Packets] /\ toCopy' \in [Readers -> SUBSET Packets]
    BY <1>2, <2>2 DEF ReadFresh, RestTypeOK
  <2> QED
    BY <1>2, <2>1, <2>3, <2>4, <2>5, GotoType DEF ReadFresh, RestTypeOK, blocks, writer, other
<1>3. CASE ReadStale(r)
  <2>1. Goto(r, "unlock") /\ "unlock" \in ReaderLocations
    BY <1>3 DEF ReadStale, ReaderLocations
  <2>2. lastNonce' \in [Readers -> 0 .. NonceMod - 1]
    BY <1>3 DEF ReadStale, RestTypeOK
  <2>3. rest' \in [Readers -> {"idle", "wait"}]
    BY <1>3 DEF ReadStale, RestTypeOK
  <2> QED
    BY <1>3, <2>1, <2>2, <2>3, GotoType DEF ReadStale, RestTypeOK, blocks, writer, other
<1>4. CASE ReadInterrupted(r)
  <2>1. Goto(r, "idle") /\ "idle" \in ReaderLocations
    BY <1>4 DEF ReadInterrupted, ReaderLocations
  <2>2. lastNonce' \in [Readers -> 0 .. NonceMod - 1] /\ leaked' \in Nat
    BY <1>4 DEF ReadInterrupted, RestTypeOK
  <2> QED
    BY <1>4, <2>1, <2>2, GotoType DEF ReadInterrupted, RestTypeOK, blocks, writer, locals
<1>5. CASE FetchPacket(r)
  <2>1. PICK p \in toCopy[r] : /\ view' = [view EXCEPT ![r][p] = data[p]]
                               /\ toCopy' = [toCopy EXCEPT ![r] = @ \ {p}]
    BY <1>5 DEF FetchPacket
  <2>2. view' \in [Readers -> [Packets -> Nat]]
    BY <2>1 DEF RestTypeOK
  <2>3. toCopy' \in [Readers -> SUBSET Packets]
    BY <2>1 DEF RestTypeOK
  <2> QED
    BY <1>5, <2>2, <2>3 DEF FetchPacket, RestTypeOK, blocks, writer, nonces, other
<1>6. CASE FetchDone(r)
  <2>1. Goto(r, "unlock") /\ "unlock" \in ReaderLocations
    BY <1>6 DEF FetchDone, ReaderLocations
  <2>2. rest' \in [Readers -> {"idle", "wait"}]
    BY <1>6 DEF FetchDone, RestTypeOK
  <2> QED
    BY <1>6, <2>1, <2>2, GotoType DEF FetchDone, RestTypeOK, blocks, writer, nonces, other
<1>7. CASE Signal(r)
  <2>1. PICK f \in SignalOutcomes(r) : fate' = [fate EXCEPT ![r] = f]
    BY <1>7 DEF Signal
  <2>2. SignalOutcomes(r) \subseteq Fates
    <3>1. pc[r] \in ReaderLocations /\ OutcomeOfRest(r) \in Fates
      BY DEF RestTypeOK, OutcomeOfRest, Fates
    <3> QED
      BY <3>1 DEF SignalOutcomes, Fates, ReaderLocations, At
  <2>3. fate' \in [Readers -> Fates]
    BY <2>1, <2>2 DEF RestTypeOK
  <2> QED
    BY <1>7, <2>3 DEF Signal, RestTypeOK, blocks, writer, nonces, locals
<1>8. CASE \/ TryRead(r) \/ EnterReader(r) \/ CountReader(r) \/ LockForReaders(r)
           \/ LeaveReaderEntry(r) \/ LeaveReadTry(r) \/ ExitReader(r)
           \/ UncountReader(r) \/ UnlockForReaders(r) \/ LeaveReader(r)
           \/ FutexWait(r) \/ Awaken(r) \/ TimeOut(r)
  <2>1. \E l \in ReaderLocations : Goto(r, l)
    <3>1. rest[r] \in {"idle", "wait"}
      BY DEF RestTypeOK
    <3> QED
      BY <1>8, <3>1 DEF TryRead, EnterReader, CountReader, LockForReaders,
         LeaveReaderEntry, LeaveReadTry, ExitReader, UncountReader,
         UnlockForReaders, LeaveReader, FutexWait, Awaken, TimeOut, ReaderLocations
  <2>2. UNCHANGED <<blocks, writer, nonces, locals, other>>
    BY <1>8 DEF TryRead, EnterReader, CountReader, LockForReaders,
       LeaveReaderEntry, LeaveReadTry, ExitReader, UncountReader,
       UnlockForReaders, LeaveReader, FutexWait, Awaken, TimeOut
  <2> QED
    BY <2>1, <2>2, PlainType
<1> QED
  BY <1>1, <1>2, <1>3, <1>4, <1>5, <1>6, <1>7, <1>8 DEF ReaderStep

-----------------------------------------------------------------------------
\* What create, init and the viewer's constructor set up satisfies the invariant.
LEMMA InvInit == Init => Inv
<1> SUFFICES ASSUME Init
             PROVE  Inv
  OBVIOUS
<1>1. \A p \in Writers \cup Readers : pc[p] = "idle"
  BY DEF Init
<1>2. TypeOK
  BY <1>1, PacketAssumption, NumberAssumption
  DEF Init, TypeOK, Packets, WriterLocations, ReaderLocations, Fates
<1>3. CountedWriters = {} /\ CountedReaders = {}
  BY <1>1 DEF CountedWriters, CountedReaders, Reading, At
<1>4. CountersExact
  BY <1>3, FS_EmptySet DEF Init, CountersExact
<1>5. /\ \A s \in Semaphores : sem[s] = 1
      /\ leaked = 0
  BY DEF Init
<1>6. WmutexExact /\ RmutexExact
  BY <1>1, <1>5 DEF WmutexExact, RmutexExact, HoldsWmutex, HoldsRmutex, At, Semaphores
<1>7. ReadTryExact
  BY <1>1, <1>3, <1>5
  DEF ReadTryExact, WritersHoldReadTry, HoldsReadTry, At, Semaphores
<1>8. ResourceExact
  BY <1>1, <1>5
  DEF ResourceExact, ReadersHoldResource, Reading, Writing, At, Semaphores
<1> QED
  BY <1>2, <1>4, <1>6, <1>7, <1>8 DEF Inv, SemaphoresExact

\* Every step of the system keeps the invariant.
LEMMA InvStep == Inv /\ [Next]_vars => Inv'
<1> SUFFICES ASSUME Inv, [Next]_vars
             PROVE  Inv'
  OBVIOUS
<1>1. SemaphoresExact'
  BY LockStep
<1>2. RestTypeOK
  BY DEF Inv, TypeOK, RestTypeOK
<1>3. RestTypeOK' /\ sem' \in [Semaphores -> {0, 1}]
  <2>1. CASE \E w \in Writers : StartWrite(w) \/ WriterStep(w)
    <3>1. PICK w \in Writers : StartWrite(w) \/ WriterStep(w)
      BY <2>1
    <3>2. StartWrite(w) => sem' \in [Semaphores -> {0, 1}]
      BY DEF StartWrite, Inv, TypeOK
    <3> QED
      BY <1>2, <3>1, <3>2, WriterType, WriterSem
  <2>2. CASE \E r \in Readers : ReaderStep(r) \/ TimeOut(r) \/ Signal(r)
    BY <1>2, <2>2, ReaderType, ReaderSem
  <2>3. CASE UNCHANGED vars
    BY <1>2, <2>3 DEF vars, blocks, writer, nonces, locals, other, RestTypeOK, Inv, TypeOK
  <2> QED
    BY <2>1, <2>2, <2>3 DEF Next, Stop
<1>4. readers' \in Nat /\ writers' \in Nat
  BY <1>1, <1>3, CountersType DEF SemaphoresExact, RestTypeOK
<1>5. TypeOK'
  BY <1>3, <1>4 DEF RestTypeOK, TypeOK
<1> QED
  BY <1>1, <1>5 DEF Inv

\* In every reachable state the shared words and the locals of the processes
\* have their types; the semaphores never exceed 1.
THEOREM TypeCorrect == Spec => []TypeOK
<1>1. Inv => TypeOK
  BY DEF Inv
<1> QED
  BY <1>1, InvInit, InvStep, PTL DEF Spec

\* For any number of writers, readers and packets: the counters count the
\* processes between their increment and their decrement, and a semaphore is
\* taken exactly while write_lock, read_lock or their unlocks hold it.
THEOREM LockExact == Spec => []SemaphoresExact
<1>1. Inv => SemaphoresExact
  BY DEF Inv
<1> QED
  BY <1>1, InvInit, InvStep, PTL DEF Spec

\* No packet is written while another process reads or writes: write's copy
\* and update's copies exclude one another, leaked read locks included.
THEOREM Exclusion == Spec => []MutualExclusion
<1>1. Inv => MutualExclusion
  BY DEF Inv, SemaphoresExact, ResourceExact, ReadersHoldResource, MutualExclusion
<1> QED
  BY <1>1, InvInit, InvStep, PTL DEF Spec

\* While the writers hold readTry as a group, no step lets a reader count
\* itself in: the preference to writers that the header promises.
THEOREM Preference == Spec => WritersPreference
<1>1. ASSUME Inv, [Next]_vars, WritersHoldReadTry
      PROVE  CountedReaders' \subseteq CountedReaders
  <2>1. \A r \in Readers : ~HoldsReadTry(r)
    BY <1>1 DEF Inv, SemaphoresExact, ReadTryExact
  <2>2. SUFFICES ASSUME NEW r \in Readers, r \notin CountedReaders
                 PROVE  r \notin CountedReaders'
    BY DEF CountedReaders
  <2>3. pc[r] \notin {"countRead", "enterRead", "lockRead", "leaveEnter", "leaveTry"}
    BY <2>1 DEF HoldsReadTry
  <2>4. pc[r] \in {"idle", "tryRead", "unlockRead", "leaveUnlock", "wait", "asleep", "awake"}
    <3>1. pc[r] \in ReaderLocations
      BY <1>1 DEF Inv, TypeOK
    <3> QED
      BY <2>2, <2>3, <3>1 DEF CountedReaders, Reading, At, ReaderLocations
  <2>5. pc'[r] \in {"idle", "tryRead", "enterRead", "unlockRead", "leaveUnlock",
                    "wait", "asleep", "awake"}
    <3>1. CASE pc'[r] = pc[r]
      BY <2>4, <3>1
    <3>2. CASE \E w \in Writers : StartWrite(w) \/ WriterStep(w)
      <4>1. PICK w \in Writers : StartWrite(w) \/ WriterStep(w)
        BY <3>2
      <4>2. CASE Wake(w)
        BY <2>4, <4>2, ProcessAssumption DEF Wake
      <4>3. CASE ~Wake(w)
        <5>1. \E l : Goto(w, l)
          BY <4>1, <4>3 DEF StartWrite, WriterStep, EnterWriter, CountWriter,
             LockOutReaders, LeaveEntry, LockData, CopyData, BumpNonce,
             SetPacketNonce, UnlockData, ExitWriter, UncountWriter,
             LetReadersIn, LeaveExit
        <5> QED
          BY <1>1, <5>1, <2>4, ProcessAssumption DEF Goto, Inv, TypeOK
      <4> QED
        BY <4>2, <4>3
    <3>3. CASE \E x \in Readers : ReaderStep(x) \/ TimeOut(x) \/ Signal(x)
      <4>1. PICK x \in Readers : ReaderStep(x) \/ TimeOut(x) \/ Signal(x)
        BY <3>3
      <4>2. CASE x = r
        <5>1. rest[r] \in {"idle", "wait"} /\ pc \in [Writers \cup Readers -> WriterLocations \cup ReaderLocations]
          BY <1>1 DEF Inv, TypeOK
        <5>2. \/ UNCHANGED pc
              \/ \E l \in {"idle", "tryRead", "enterRead", "unlockRead", "leaveUnlock",
                          "wait", "asleep", "awake"} : Goto(r, l)
          BY <2>4, <4>1, <4>2, <5>1 DEF ReaderAt, At, ReaderStep, StartUpdate, TryRead,
             EnterReader, CountReader, LockForReaders, LeaveReaderEntry, LeaveReadTry,
             ReadFresh, ReadStale, ReadInterrupted, FetchPacket, FetchDone, ExitReader,
             UncountReader, UnlockForReaders, LeaveReader, FutexWait, Awaken,
             TimeOut, Signal
        <5> QED
          BY <2>4, <5>1, <5>2 DEF Goto
      <4>3. CASE x # r
        <5>1. UNCHANGED pc \/ \E l : Goto(x, l)
          BY <4>1 DEF ReaderStep, StartUpdate, TryRead,
             EnterReader, CountReader, LockForReaders, LeaveReaderEntry, LeaveReadTry,
             ReadFresh, ReadStale, ReadInterrupted, FetchPacket, FetchDone, ExitReader,
             UncountReader, UnlockForReaders, LeaveReader, FutexWait, Awaken,
             TimeOut, Signal
        <5> QED
          BY <1>1, <2>4, <4>3, <5>1 DEF Goto, Inv, TypeOK
      <4> QED
        BY <4>2, <4>3
    <3>4. CASE UNCHANGED vars
      BY <2>4, <3>4 DEF vars
    <3> QED
      BY <1>1, <3>2, <3>3, <3>4 DEF Next, Stop
  <2> QED
    BY <2>5 DEF CountedReaders, Reading, At
<1>2. Inv /\ [Next]_vars =>
        [WritersHoldReadTry /\ WritersHoldReadTry' => CountedReaders' \subseteq CountedReaders]_vars
  BY <1>1
<1> QED
  BY <1>2, InvInit, InvStep, PTL DEF Spec, WritersPreference

-----------------------------------------------------------------------------
(***************************************************************************)
(* The nonces as counters.  They are uint32_t and wrap; up to 2^32 - 2     *)
(* writes the master nonce is one more than the number of writes, and a    *)
(* packet's nonce is one more than the write its data comes from, except   *)
(* between the copy and the new nonce.                                     *)
(***************************************************************************)

\* The nonce has not wrapped.
NoWrap == Len(written) + 1 < NonceMod

Numbered == nonce = Len(written) + 1

LEMMA NumberedInit == Init => Numbered
  BY DEF Init, Numbered

LEMMA NumberedStep ==
  ASSUME Inv, NoWrap', Numbered, [Next]_vars
  PROVE  Numbered'
<1>1. ASSUME NEW w \in Writers, BumpNonce(w)
      PROVE  Numbered'
  <2>1. written \in Seq(Packets) /\ packet[w] \in Packets
    BY DEF Inv, TypeOK
  <2>2. Len(written') = Len(written) + 1 /\ Len(written) \in Nat
    BY <1>1, <2>1 DEF BumpNonce
  <2>3. nonce + 1 \in 0 .. NonceMod - 1
    BY <2>2, NumberAssumption DEF Numbered, NoWrap
  <2>4. (nonce + 1) % NonceMod = nonce + 1
    BY <2>3, NumberAssumption
  <2> QED
    BY <1>1, <2>2, <2>4 DEF BumpNonce, Numbered
<1>2. CASE UNCHANGED <<nonce, written>>
  BY <1>2 DEF Numbered
<1>3. UNCHANGED <<nonce, written>> \/ \E w \in Writers : BumpNonce(w)
  BY DEF Next, StartWrite, WriterStep, EnterWriter, CountWriter, LockOutReaders, LeaveEntry,
     LockData, CopyData, SetPacketNonce, Wake, UnlockData, ExitWriter, UncountWriter,
     LetReadersIn, LeaveExit, ReaderStep, StartUpdate, TryRead, EnterReader, CountReader,
     LockForReaders, LeaveReaderEntry, LeaveReadTry, ReadFresh, ReadStale, ReadInterrupted,
     FetchPacket, FetchDone, ExitReader, UncountReader, UnlockForReaders, LeaveReader,
     FutexWait, Awaken, TimeOut, Signal, Stop, vars, blocks
<1> QED
  BY <1>1, <1>2, <1>3

-----------------------------------------------------------------------------
(***************************************************************************)
(* No wake-up is lost, as long as the nonce has not wrapped, nobody calls  *)
(* clear, and the bit a write wakes is one the readers of that packet wait *)
(* with.                                                                   *)
(*                                                                         *)
(* The futex compares the nonce with the one read_lock saw.  What a reader *)
(* that found nothing knows is: as long as the nonce is still that one,    *)
(* nothing it follows has changed and no writer is between the two nonces. *)
(* It knows it from read_lock, under the lock, to the futex, after it.     *)
(***************************************************************************)

\* The bit of every packet a reader follows is one of those it waits with: so
\* for add_all, and for a list whose i-th packet has index i.
BitsMatch ==
  \A r \in Readers : \A p \in TrackedIds(r) : WakeBit(p) \in WaitBits(r)

\* A reader that found nothing, on its way to the futex.
GoesToSleep(r) ==
  \/ At(r, "wait")
  \/ rest[r] = "wait" /\ pc[r] \in {"unlock", "uncountRead", "unlockRead", "leaveUnlock"}

NothingNew(r) ==
  /\ r \notin CheckAll => Changed(r) = {}
  /\ \A w \in Writers : ~At(w, "setPacketNonce")

Watchful ==
  \A r \in Readers : fate[r] = "attached" =>
    /\ GoesToSleep(r) => /\ ReadMode[r] = "BLOCKING_READ"
                         /\ lastNonce[r] <= nonce
                         /\ nonce = lastNonce[r] => NothingNew(r)
    /\ At(r, "asleep") => /\ ReadMode[r] = "BLOCKING_READ"
                          /\ Fresh(r) => PendingWake(r)

LEMMA WatchfulInit == Init => Watchful
  BY DEF Init, Watchful, GoesToSleep, At

\* What a step leaves to a reader it does not move.
Untouched(r) ==
  /\ pc'[r] = pc[r] /\ rest'[r] = rest[r] /\ fate'[r] = fate[r]
  /\ lastNonce'[r] = lastNonce[r] /\ lastNonces'[r] = lastNonces[r]

\* The writers are where they were, as far as a sleeper is concerned.
SameWakes ==
  /\ UNCHANGED <<nonce, packetNonce, clearing>>
  /\ \A w \in Writers : pc[w] \in {"setPacketNonce", "wake"} =>
                          pc'[w] = pc[w] /\ packet'[w] = packet[w]
  /\ \A w \in Writers : pc'[w] = "setPacketNonce" => pc[w] = "setPacketNonce"

LEMMA StillWatchful ==
  ASSUME Watchful, SameWakes, NEW r \in Readers, Untouched(r), fate'[r] = "attached"
  PROVE  /\ GoesToSleep(r)' => /\ ReadMode[r] = "BLOCKING_READ"
                               /\ lastNonce'[r] <= nonce'
                               /\ nonce' = lastNonce'[r] => NothingNew(r)'
         /\ At(r, "asleep")' => /\ ReadMode[r] = "BLOCKING_READ"
                                /\ Fresh(r)' => PendingWake(r)'
<1>1. Changed(r)' = Changed(r)
  BY DEF Untouched, SameWakes, Changed, TrackedIds
<1>2. Fresh(r)' = Fresh(r)
  BY <1>1 DEF Untouched, SameWakes, Fresh
<1>3. PendingWake(r) => PendingWake(r)'
  BY DEF SameWakes, PendingWake, WaitBits
<1>4. NothingNew(r) => NothingNew(r)'
  BY <1>1 DEF SameWakes, NothingNew, At
<1>5. GoesToSleep(r)' = GoesToSleep(r) /\ At(r, "asleep")' = At(r, "asleep")
  BY DEF Untouched, GoesToSleep, At
<1> QED
  BY <1>1, <1>2, <1>3, <1>4, <1>5 DEF Watchful, Untouched, SameWakes

\* The steps of write: a new nonce sends every reader on its way to sleep back,
\* and every sleeper it concerns has a wake-up coming.
LEMMA WriterWatchful ==
  ASSUME Clearers = {}, BitsMatch, Inv, Numbered, Numbered', Watchful,
         NEW w \in Writers, StartWrite(w) \/ WriterStep(w)
  PROVE  Watchful'
<1> USE ProcessAssumption
<1>1. /\ clearing = {} /\ w \notin clearing
      /\ \A x \in Writers : Writing(x) /\ Writing(w) => x = w
      /\ \A r \in Readers : r # w
  BY DEF Inv, TypeOK, SemaphoresExact, ResourceExact
<1>2. \A r \in Readers : TrackedIds(r) \subseteq Packets /\ lastNonce[r] \in Nat
  BY TrackedIn, NumberAssumption DEF Inv, TypeOK
<1>3. CASE BumpNonce(w)
  <2>1. /\ WriterMoved(w, "setPacketNonce")
        /\ UNCHANGED <<packetNonce, packet, clearing, rest, fate, lastNonce, lastNonces>>
    BY <1>3, WriterMove DEF Inv, BumpNonce, nonces, locals, other, writer
  <2>2. nonce' = nonce + 1 /\ nonce \in Nat
    BY <1>3 DEF Numbered, BumpNonce, Inv, TypeOK
  <2>3. ASSUME NEW r \in Readers, fate'[r] = "attached"
        PROVE  /\ GoesToSleep(r)' => /\ ReadMode[r] = "BLOCKING_READ"
                                     /\ lastNonce'[r] < nonce'
               /\ At(r, "asleep")' => /\ ReadMode[r] = "BLOCKING_READ"
                                      /\ Fresh(r)' => PendingWake(r)'
    <3>1. pc'[r] = pc[r] /\ GoesToSleep(r)' = GoesToSleep(r)
      BY <2>1 DEF WriterMoved, GoesToSleep, At
    <3>2. fate[r] = "attached" /\ lastNonce'[r] = lastNonce[r]
      BY <2>1, <2>3
    <3>3. r \notin CheckAll => Fresh(r)' = Fresh(r)
      BY <2>1 DEF Fresh, Changed, TrackedIds
    <3>4. PendingWake(r) => PendingWake(r)'
      BY <2>1, <1>3 DEF PendingWake, WriterMoved, WaitBits, BumpNonce, At
    <3>5. r \in CheckAll => PendingWake(r)'
      <4>1. pc'[w] = "setPacketNonce" /\ w \notin clearing' /\ packet[w] \in Nat
        BY <1>1, <2>1 DEF WriterMoved, Inv, TypeOK, Packets
      <4>2. WakeBit(packet[w]) \in 0 .. BitsetWidth - 1
        BY <4>1, NumberAssumption DEF WakeBit
      <4> QED
        BY <2>1, <4>1, <4>2 DEF PendingWake, WaitBits
    <3>6. GoesToSleep(r)' => ReadMode[r] = "BLOCKING_READ" /\ lastNonce'[r] < nonce'
      <4>1. GoesToSleep(r)' => ReadMode[r] = "BLOCKING_READ" /\ lastNonce[r] <= nonce
        BY <3>1, <3>2 DEF Watchful
      <4>2. lastNonce[r] <= nonce => lastNonce[r] < nonce + 1
        BY <1>2, <2>2
      <4> QED
        BY <2>2, <3>2, <4>1, <4>2
    <3>7. At(r, "asleep")' => At(r, "asleep")
      BY <3>1 DEF At
    <3>8. At(r, "asleep")' => ReadMode[r] = "BLOCKING_READ" /\ (Fresh(r) => PendingWake(r))
      BY <3>2, <3>7 DEF Watchful
    <3> QED
      BY <3>3, <3>4, <3>5, <3>6, <3>8
  <2> QED
    BY <1>2, <2>1, <2>2, <2>3 DEF Watchful
<1>4. CASE SetPacketNonce(w)
  <2>1. /\ WriterMoved(w, "wake")
        /\ UNCHANGED <<nonce, packet, clearing, rest, fate, lastNonce, lastNonces>>
    BY <1>4, WriterMove DEF Inv, SetPacketNonce, nonces, locals, other, writer
  <2>2. \A p \in Packets \ {packet[w]} : packetNonce'[p] = packetNonce[p]
    BY <1>4 DEF SetPacketNonce, Inv, TypeOK
  <2>3. ASSUME NEW r \in Readers, fate'[r] = "attached"
        PROVE  /\ GoesToSleep(r)' => /\ ReadMode[r] = "BLOCKING_READ"
                                     /\ lastNonce'[r] <= nonce'
                                     /\ nonce' # lastNonce'[r]
               /\ At(r, "asleep")' => /\ ReadMode[r] = "BLOCKING_READ"
                                      /\ Fresh(r)' => PendingWake(r)'
    <3>1. pc'[r] = pc[r] /\ GoesToSleep(r)' = GoesToSleep(r)
      BY <2>1 DEF WriterMoved, GoesToSleep, At
    <3>2. ~NothingNew(r)
      BY <1>4 DEF NothingNew, SetPacketNonce
    <3>3. PendingWake(r) => PendingWake(r)'
      BY <2>1, <1>4 DEF PendingWake, WriterMoved, WaitBits
    <3>4. ASSUME At(r, "asleep"), Fresh(r)', ~Fresh(r)
          PROVE  PendingWake(r)'
      <4>1. packet[w] \in TrackedIds(r)
        BY <1>2, <2>1, <2>2, <3>4 DEF Fresh, Changed, TrackedIds
      <4> QED
        BY <1>1, <2>1, <4>1 DEF BitsMatch, PendingWake, WriterMoved, WaitBits
    <3>5. fate[r] = "attached" /\ lastNonce'[r] = lastNonce[r] /\ nonce' = nonce
      BY <2>1, <2>3
    <3>6. GoesToSleep(r)' => /\ ReadMode[r] = "BLOCKING_READ"
                             /\ lastNonce'[r] <= nonce' /\ nonce' # lastNonce'[r]
      BY <3>1, <3>2, <3>5 DEF Watchful
    <3>7. At(r, "asleep")' => At(r, "asleep")
      BY <3>1 DEF At
    <3>8. At(r, "asleep")' => ReadMode[r] = "BLOCKING_READ" /\ (Fresh(r) => PendingWake(r))
      BY <3>5, <3>7 DEF Watchful
    <3> QED
      BY <3>3, <3>4, <3>6, <3>7, <3>8
  <2> QED
    BY <2>3 DEF Watchful
<1>5. CASE Wake(w)
  <2>1. /\ UNCHANGED <<nonce, packetNonce, packet, clearing, rest, fate, lastNonce, lastNonces>>
        /\ \A x \in Writers \ {w} : pc'[x] = pc[x]
        /\ pc[w] = "wake" /\ pc'[w] = "unlockData"
    BY <1>5 DEF Wake, Woken, At, blocks, nonces, locals, other, writer
  <2>2. ASSUME NEW r \in Readers, fate'[r] = "attached"
        PROVE  /\ GoesToSleep(r)' => /\ ReadMode[r] = "BLOCKING_READ"
                                     /\ lastNonce'[r] <= nonce'
                                     /\ nonce' = lastNonce'[r] => NothingNew(r)'
               /\ At(r, "asleep")' => /\ ReadMode[r] = "BLOCKING_READ"
                                      /\ Fresh(r)' => PendingWake(r)'
    <3>1. CASE r \in Woken(w)
      <4>1. pc'[r] = "awake"
        BY <1>1, <1>5, <3>1 DEF Wake
      <4> QED
        BY <4>1 DEF GoesToSleep, At
    <3>2. CASE r \notin Woken(w)
      <4>1. pc'[r] = pc[r] /\ GoesToSleep(r)' = GoesToSleep(r)
        BY <1>1, <1>5, <2>1, <3>2 DEF Wake, GoesToSleep, At
      <4>2. Fresh(r)' = Fresh(r) /\ (NothingNew(r) => NothingNew(r)')
        BY <2>1 DEF Fresh, NothingNew, Changed, TrackedIds, At
      <4>3. At(r, "asleep") => WakeBit(packet[w]) \notin WaitBits(r)
        BY <1>1, <2>1, <2>2, <3>2 DEF Woken
      <4>4. At(r, "asleep") /\ PendingWake(r) => PendingWake(r)'
        <5>1. SUFFICES ASSUME At(r, "asleep"), NEW x \in Writers,
                              pc[x] \in {"setPacketNonce", "wake"}, x \notin clearing,
                              WakeBit(packet[x]) \in WaitBits(r)
                       PROVE  PendingWake(r)'
          BY DEF PendingWake
        <5>2. x # w
          BY <4>3, <5>1
        <5> QED
          BY <2>1, <5>1, <5>2 DEF PendingWake, WaitBits
      <4> QED
        BY <2>1, <2>2, <4>1, <4>2, <4>4 DEF Watchful, At
    <3> QED
      BY <3>1, <3>2
  <2> QED
    BY <2>2 DEF Watchful
<1>6. CASE StartWrite(w) \/ (WriterStep(w) /\ ~BumpNonce(w) /\ ~SetPacketNonce(w) /\ ~Wake(w))
  <2>1. \E l \in WriterLocations \ {"setPacketNonce", "wake"} :
          Goto(w, l) /\ pc[w] \notin {"setPacketNonce", "wake"}
    BY <1>6 DEF StartWrite, WriterStep, EnterWriter, CountWriter, LockOutReaders, LeaveEntry,
       LockData, CopyData, UnlockData, ExitWriter, UncountWriter, LetReadersIn, LeaveExit,
       WriterLocations, At
  <2>2. PICK l \in WriterLocations \ {"setPacketNonce", "wake"} : WriterMoved(w, l)
    BY <2>1, WriterMove DEF Inv
  <2>3. /\ UNCHANGED <<nonce, packetNonce, rest, fate, lastNonce, lastNonces>>
        /\ clearing' = {} /\ \A x \in Writers \ {w} : packet'[x] = packet[x]
    <3>1. StartWrite(w) => /\ clearing' \subseteq Clearers
                           /\ \E p : packet' = [packet EXCEPT ![w] = p]
      BY <1>1 DEF StartWrite
    <3> QED
      BY <1>1, <1>6, <3>1 DEF StartWrite, WriterStep, EnterWriter, CountWriter, LockOutReaders,
         LeaveEntry, LockData, CopyData, UnlockData, ExitWriter, UncountWriter, LetReadersIn,
         LeaveExit, blocks, nonces, locals, other, writer, Inv, TypeOK
  <2>4. SameWakes
    BY <1>1, <2>1, <2>2, <2>3 DEF SameWakes, WriterMoved
  <2>5. \A r \in Readers : Untouched(r)
    BY <2>2, <2>3 DEF Untouched, WriterMoved
  <2> QED
    BY <2>4, <2>5, StillWatchful DEF Watchful
<1> QED
  BY <1>3, <1>4, <1>5, <1>6 DEF WriterStep

\* The steps of update and of the futex: a reader that found nothing leaves the
\* lock knowing that nothing was new under it.
LEMMA ReaderWatchful ==
  ASSUME Inv, Numbered, NoWrap, Watchful, NEW r \in Readers,
         ReaderStep(r) \/ TimeOut(r) \/ Signal(r)
  PROVE  Watchful'
<1> USE ProcessAssumption DEF ReaderAt
<1>1. SameWakes
  <2>1. UNCHANGED <<nonce, packetNonce, packet, clearing>>
    BY DEF ReaderStep, StartUpdate, TryRead, EnterReader, CountReader, LockForReaders,
       LeaveReaderEntry, LeaveReadTry, ReadFresh, ReadStale, ReadInterrupted, FetchPacket,
       FetchDone, ExitReader, UncountReader, UnlockForReaders, LeaveReader, FutexWait,
       Awaken, TimeOut, Signal, blocks, writer
  <2>2. UNCHANGED pc \/ \E l : Goto(r, l)
    BY DEF ReaderStep, StartUpdate, TryRead, EnterReader, CountReader, LockForReaders,
       LeaveReaderEntry, LeaveReadTry, ReadFresh, ReadStale, ReadInterrupted, FetchPacket,
       FetchDone, ExitReader, UncountReader, UnlockForReaders, LeaveReader, FutexWait,
       Awaken, TimeOut, Signal
  <2>3. \A w \in Writers : pc'[w] = pc[w]
    BY <2>2, ReaderMove DEF ReaderMoved, Inv
  <2> QED
    BY <2>1, <2>3 DEF SameWakes
<1>2. \A x \in Readers \ {r} : Untouched(x)
  BY DEF Untouched, Goto, Inv, TypeOK, ReaderStep, StartUpdate, TryRead, EnterReader, CountReader, LockForReaders,
     LeaveReaderEntry, LeaveReadTry, ReadFresh, ReadStale, ReadInterrupted, FetchPacket,
     FetchDone, ExitReader, UncountReader, UnlockForReaders, LeaveReader, FutexWait,
     Awaken, TimeOut, Signal, nonces, locals, other
<1>3. SUFFICES ASSUME fate'[r] = "attached"
               PROVE  /\ GoesToSleep(r)' => /\ ReadMode[r] = "BLOCKING_READ"
                                            /\ lastNonce'[r] <= nonce'
                                            /\ nonce' = lastNonce'[r] => NothingNew(r)'
                      /\ At(r, "asleep")' => /\ ReadMode[r] = "BLOCKING_READ"
                                             /\ Fresh(r)' => PendingWake(r)'
  BY <1>1, <1>2, StillWatchful DEF Watchful
<1>4. /\ UNCHANGED <<nonce, packetNonce>>
      /\ \A w \in Writers : At(w, "setPacketNonce")' => At(w, "setPacketNonce")
  BY <1>1 DEF SameWakes, At
<1>5. CASE ReadStale(r)
  <2>1. ReaderMoved(r, "unlock") /\ UNCHANGED lastNonces
    BY <1>5, ReaderMove DEF Inv, ReadStale
  <2>2. \A w \in Writers : ~At(w, "setPacketNonce")
    BY <1>5 DEF Inv, SemaphoresExact, ResourceExact, ReadersHoldResource, Reading, Writing,
       ReadStale, At
  <2>3. /\ lastNonce'[r] = nonce
        /\ rest'[r] = "wait" => ReadMode[r] = "BLOCKING_READ"
        /\ r \notin CheckAll => Changed(r) = {}
    BY <1>5 DEF ReadStale, Fresh, Inv, TypeOK
  <2>4. Changed(r)' = Changed(r)
    BY <1>4, <2>1 DEF Changed, TrackedIds
  <2>5. nonce \in Nat
    BY DEF Inv, TypeOK
  <2> QED
    BY <1>4, <2>1, <2>2, <2>3, <2>4, <2>5 DEF ReaderMoved, GoesToSleep, NothingNew, At
<1>6. CASE ExitReader(r) \/ UncountReader(r) \/ UnlockForReaders(r) \/ LeaveReader(r)
  <2>1. /\ UNCHANGED <<lastNonce, lastNonces, rest, fate>>
        /\ \E l \in {"uncountRead", "unlockRead", "leaveUnlock", rest[r]} : Goto(r, l)
        /\ pc[r] \in {"unlock", "uncountRead", "unlockRead", "leaveUnlock"}
        /\ LeaveReader(r) \/ ~Goto(r, rest[r])
    BY <1>6 DEF ExitReader, UncountReader, UnlockForReaders, LeaveReader, nonces, locals, other, At,
       Inv, TypeOK, Goto
  <2>2. GoesToSleep(r)' => GoesToSleep(r)
    BY <2>1 DEF GoesToSleep, At, Goto, Inv, TypeOK
  <2>3. ~At(r, "asleep")'
    BY <2>1 DEF At, Goto, Inv, TypeOK
  <2>4. Changed(r)' = Changed(r)
    BY <1>4, <2>1 DEF Changed, TrackedIds
  <2> QED
    BY <1>3, <1>4, <2>1, <2>2, <2>3, <2>4 DEF Watchful, NothingNew
<1>7. CASE FutexWait(r)
  <2>1. /\ UNCHANGED <<lastNonce, lastNonces, fate>> /\ At(r, "wait")
        /\ ReaderMoved(r, IF nonce = lastNonce[r] THEN "asleep" ELSE "awake")
    BY <1>7, ReaderMove DEF FutexWait, nonces, other, Inv
  <2>2. ~GoesToSleep(r)'
    BY <2>1 DEF GoesToSleep, ReaderMoved, At
  <2>3. ReadMode[r] = "BLOCKING_READ" /\ (nonce = lastNonce[r] => NothingNew(r))
    BY <1>3, <2>1 DEF Watchful, GoesToSleep
  <2>4. At(r, "asleep")' => nonce = lastNonce[r]
    BY <2>1 DEF ReaderMoved, At
  <2>5. Changed(r)' = Changed(r)
    BY <1>4, <2>1 DEF Changed, TrackedIds
  <2>6. At(r, "asleep")' => ~Fresh(r)'
    BY <1>4, <2>1, <2>3, <2>4, <2>5 DEF Fresh, NothingNew
  <2> QED
    BY <2>2, <2>3, <2>6
<1>8. CASE Signal(r)
  BY <1>1, <1>3, <1>8, StillWatchful DEF Untouched, Signal, nonces, locals
<1>9. CASE FetchPacket(r)
  BY <1>1, <1>3, <1>9, StillWatchful DEF Untouched, FetchPacket, nonces, other
<1>10. CASE \/ StartUpdate(r) \/ TryRead(r) \/ EnterReader(r) \/ CountReader(r)
            \/ LockForReaders(r) \/ LeaveReaderEntry(r) \/ LeaveReadTry(r) \/ ReadFresh(r)
            \/ ReadInterrupted(r) \/ FetchDone(r) \/ Awaken(r) \/ TimeOut(r)
  <2>1. \E l \in {"tryRead", "enterRead", "countRead", "lockRead", "leaveEnter", "leaveTry",
                  "check", "fetch", "idle", "unlock"} :
          Goto(r, l) /\ (l = "unlock" => FetchDone(r))
    BY <1>10 DEF StartUpdate, TryRead, EnterReader, CountReader,
       LockForReaders, LeaveReaderEntry, LeaveReadTry, ReadFresh, ReadInterrupted, FetchDone,
       Awaken, TimeOut
  <2>2. PICK l \in {"tryRead", "enterRead", "countRead", "lockRead", "leaveEnter", "leaveTry",
                    "check", "fetch", "idle", "unlock"} :
          pc'[r] = l /\ (l = "unlock" => FetchDone(r))
    BY <2>1 DEF Goto, Inv, TypeOK
  <2>3. FetchDone(r) => rest'[r] = "idle"
    BY DEF FetchDone, Inv, TypeOK
  <2> QED
    BY <2>2, <2>3 DEF GoesToSleep, At
<1> QED
  BY <1>5, <1>6, <1>7, <1>8, <1>9, <1>10 DEF ReaderStep

LEMMA WatchfulStep ==
  ASSUME Clearers = {}, BitsMatch, Inv, Numbered, Numbered', NoWrap, Watchful, [Next]_vars
  PROVE  Watchful'
<1>1. CASE UNCHANGED vars
  <2>1. SameWakes /\ \A r \in Readers : Untouched(r)
    BY <1>1 DEF vars, blocks, writer, nonces, locals, other, SameWakes, Untouched
  <2> QED
    BY <2>1, StillWatchful DEF Watchful
<1> QED
  BY <1>1, WriterWatchful, ReaderWatchful DEF Next, Stop

\* Where nobody calls clear, the bit a write wakes is among those its readers
\* wait with, and fewer than 2^32 - 1 writes were made: no reader sleeps in the
\* futex of read_lock with something to read that nobody is going to wake it for
\* (TelemetryShm.cpp:506-530, 655-668 and 271-321).
THEOREM WakeupsNotLost ==
  ASSUME Clearers = {}, BitsMatch
  PROVE  Spec /\ []NoWrap => []NoLostWakeup
<1> DEFINE I == Inv /\ Numbered /\ Watchful
<1>1. Init => I
  BY InvInit, NumberedInit, WatchfulInit
<1>2. I /\ NoWrap /\ NoWrap' /\ [Next]_vars => I'
  BY InvStep, NumberedStep, WatchfulStep
<1>3. I => NoLostWakeup
  BY DEF Watchful, NoLostWakeup
<1> QED
  BY <1>1, <1>2, <1>3, PTL DEF Spec

-----------------------------------------------------------------------------
(***************************************************************************)
(* The shared memory and its viewers implement the atomic store.  What     *)
(* update relies on is that two equal nonces of a packet mean the same     *)
(* data: a packet's nonce counts the write its data comes from, and what a *)
(* viewer holds of a packet is the data of the nonce it has cached.        *)
(***************************************************************************)

\* A write of p has changed its data and not yet its nonce.
Unnumbered(p) ==
  \E w \in Writers : packet[w] = p /\ pc[w] \in {"bumpNonce", "setPacketNonce"}

\* What viewer r will hold of packet p once it has copied what it has to.
Held(r, p) == IF p \in toCopy[r] THEN data[p] ELSE view[r][p]

Counted ==
  /\ \A p \in Packets : ~Unnumbered(p) => packetNonce[p] = data[p] + 1
  /\ \A w \in Writers : /\ At(w, "bumpNonce") => data[packet[w]] = Len(written) + 1
                        /\ At(w, "setPacketNonce") => data[packet[w]] = Len(written)

Cached ==
  /\ \A r \in Readers : toCopy[r] # {} => At(r, "fetch")
  /\ \A r \in Readers : \A p \in TrackedIds(r) : lastNonces[r][p] = Held(r, p) + 1

LEMMA CountedInit == Init => Counted /\ Cached
<1> SUFFICES ASSUME Init PROVE Counted /\ Cached
  OBVIOUS
<1>1. \A r \in Readers : TrackedIds(r) \subseteq Packets
  BY TrackedIn
<1>2. Counted
  BY DEF Init, Counted, At
<1>3. Cached
  BY <1>1 DEF Init, Cached, Held
<1> QED
  BY <1>2, <1>3

\* While a writer is at the data, no viewer reads and no other writer writes.
LEMMA AloneAtData ==
  ASSUME Inv, NEW w \in Writers, Writing(w)
  PROVE  /\ \A r \in Readers : ~Reading(r)
         /\ \A x \in Writers \ {w} : ~Writing(x)
  BY DEF Inv, SemaphoresExact, ResourceExact, ReadersHoldResource

\* The steps between the copy and the new nonce of the packet.
LEMMA CopyCounted ==
  ASSUME Inv, Counted, Cached, NEW w \in Writers, CopyData(w)
  PROVE  Counted' /\ Cached' /\ Store!Write(packet[w])
<1>1. /\ packet[w] \in Packets /\ data \in [Packets -> Nat] /\ Len(written) \in Nat
      /\ packet \in [Writers -> Packets]
  BY DEF Inv, TypeOK
<1>2. /\ WriterMoved(w, "bumpNonce") /\ pc[w] = "copy"
      /\ UNCHANGED <<packetNonce, written, packet, lastNonces, view, toCopy>>
      /\ data' = [data EXCEPT ![packet[w]] = Len(written) + 1]
  BY WriterMove DEF CopyData, Inv, nonces, locals, writer, At
<1>3. \A x \in Writers \ {w} : pc[x] \notin {"bumpNonce", "setPacketNonce"}
  BY <1>2, AloneAtData DEF Writing
<1>4. \A r \in Readers : toCopy[r] = {}
  BY <1>2, AloneAtData DEF Writing, Reading, Cached, At
<1>5. \A p \in Packets : Unnumbered(p)' <=> p = packet[w]
  BY <1>2, <1>3 DEF Unnumbered, WriterMoved
<1>6. \A p \in Packets : ~Unnumbered(p)
  BY <1>2, <1>3 DEF Unnumbered
<1>7. Counted'
  BY <1>1, <1>2, <1>3, <1>5, <1>6 DEF Counted, WriterMoved, At
<1>8. Cached'
  BY <1>2, <1>4 DEF Cached, Held, TrackedIds, At
<1>9. /\ ~ \E x \in Writers : At(x, "bumpNonce")
      /\ \E x \in Writers : At(x, "bumpNonce")'
  BY <1>2, <1>3 DEF At, WriterMoved
<1>10. Store!Write(packet[w])
  BY <1>1, <1>2, <1>4, <1>9 DEF Store!Write
<1> QED
  BY <1>7, <1>8, <1>10

LEMMA NoncesCounted ==
  ASSUME Inv, Numbered, Counted, Cached, NEW w \in Writers, BumpNonce(w) \/ SetPacketNonce(w)
  PROVE  Counted' /\ Cached' /\ UNCHANGED Store!storeVars
<1>1. /\ packet[w] \in Packets /\ data \in [Packets -> Nat] /\ Len(written) \in Nat
      /\ packet \in [Writers -> Packets] /\ packetNonce \in [Packets -> 0 .. NonceMod - 1]
      /\ written \in Seq(Packets)
  BY DEF Inv, TypeOK
<1>2. UNCHANGED <<data, packet, lastNonces, view, toCopy>>
  BY DEF BumpNonce, SetPacketNonce, nonces, locals, writer
<1>3. \A x \in Writers \ {w} : pc[x] \notin {"bumpNonce", "setPacketNonce"}
  BY AloneAtData DEF Writing, BumpNonce, SetPacketNonce, At
<1>4. WriterMoved(w, IF BumpNonce(w) THEN "setPacketNonce" ELSE "wake")
  BY WriterMove DEF BumpNonce, SetPacketNonce, Inv
<1>5. Cached'
  BY <1>2, <1>4 DEF Cached, Held, TrackedIds, At, WriterMoved
<1>6. CASE BumpNonce(w)
  <2>1. /\ Len(written') = Len(written) + 1 /\ UNCHANGED packetNonce
        /\ pc[w] = "bumpNonce" /\ pc'[w] = "setPacketNonce"
    BY <1>1, <1>4, <1>6 DEF BumpNonce, At, WriterMoved
  <2>2. \A p \in Packets : Unnumbered(p)' = Unnumbered(p)
    BY <1>2, <1>3, <1>4, <2>1 DEF Unnumbered, WriterMoved
  <2>3. Counted'
    BY <1>1, <1>2, <1>3, <1>4, <2>1, <2>2 DEF Counted, At, WriterMoved
  <2>4. /\ \E x \in Writers : At(x, "bumpNonce")
        /\ ~ \E x \in Writers : At(x, "bumpNonce")'
    BY <1>3, <1>4, <2>1 DEF At, WriterMoved
  <2> QED
    BY <1>2, <1>5, <2>1, <2>3, <2>4 DEF Store!storeVars
<1>7. CASE SetPacketNonce(w)
  <2>1. /\ pc[w] = "setPacketNonce" /\ ~BumpNonce(w) /\ UNCHANGED written
        /\ packetNonce' = [packetNonce EXCEPT ![packet[w]] = nonce]
    BY <1>7 DEF BumpNonce, SetPacketNonce, At
  <2>2. pc'[w] = "wake"
    BY <1>4, <2>1 DEF WriterMoved
  <2>3. \A p \in Packets : ~Unnumbered(p)' /\ (Unnumbered(p) <=> p = packet[w])
    BY <1>2, <1>3, <1>4, <2>1, <2>2 DEF Unnumbered, WriterMoved
  <2>4. data[packet[w]] = Len(written)
    BY <2>1 DEF Counted, At
  <2>5. Counted'
    BY <1>1, <1>2, <1>3, <1>4, <2>1, <2>2, <2>3, <2>4 DEF Counted, At, WriterMoved, Numbered
  <2>6. \A x \in Writers : ~At(x, "bumpNonce") /\ ~At(x, "bumpNonce")'
    BY <1>3, <1>4, <2>1, <2>2 DEF At, WriterMoved
  <2> QED
    BY <1>2, <1>5, <2>1, <2>5, <2>6 DEF Store!storeVars
<1> QED
  BY <1>6, <1>7

\* read_lock under the lock: what differs from the cached nonces is what has
\* been written since, and no nonce is in the middle of a change.
LEMMA FreshCounted ==
  ASSUME Inv, Counted, Cached, NEW r \in Readers, ReadFresh(r)
  PROVE  Counted' /\ Cached' /\ Store!Update(r)
<1>1. /\ data \in [Packets -> Nat] /\ packetNonce \in [Packets -> 0 .. NonceMod - 1]
      /\ lastNonces \in [Readers -> [Packets -> 0 .. NonceMod - 1]]
      /\ toCopy \in [Readers -> SUBSET Packets] /\ view \in [Readers -> [Packets -> Nat]]
  BY DEF Inv, TypeOK
<1>2. /\ UNCHANGED <<data, packetNonce, written, packet, view>>
      /\ ReaderMoved(r, "fetch") /\ pc[r] = "check"
  BY ReaderMove DEF ReadFresh, ReaderAt, At, blocks, writer, Inv
<1>3. \A w \in Writers : ~Writing(w)
  BY <1>2 DEF Inv, SemaphoresExact, ResourceExact, ReadersHoldResource, Reading
<1>4. \A p \in Packets : ~Unnumbered(p)
  BY <1>3 DEF Unnumbered, Writing
<1>5. TrackedIds(r) \subseteq Packets /\ toCopy[r] = {}
  BY <1>2, TrackedIn DEF Cached, At
<1>6. \A p \in TrackedIds(r) :
        /\ packetNonce[p] = data[p] + 1
        /\ lastNonces[r][p] = view[r][p] + 1
  BY <1>4, <1>5 DEF Counted, Cached, Held
<1>7. \A p \in TrackedIds(r) : p \in Changed(r) <=> view[r][p] # data[p]
  <2>1. SUFFICES ASSUME NEW p \in TrackedIds(r)
                 PROVE  p \in Changed(r) <=> view[r][p] # data[p]
    OBVIOUS
  <2>2. view[r][p] \in Nat /\ data[p] \in Nat
    BY <1>1, <1>5
  <2> QED
    BY <1>6, <2>2 DEF Changed
<1>8. toCopy' = [toCopy EXCEPT ![r] = Changed(r)]
  BY DEF ReadFresh
<1>9. Counted'
  BY <1>2 DEF Counted, Unnumbered, ReaderMoved, At
<1>10. \A x \in Readers \ {r} : /\ toCopy'[x] = toCopy[x] /\ lastNonces'[x] = lastNonces[x]
                                /\ pc'[x] = pc[x]
  BY <1>1, <1>2 DEF ReadFresh, ReaderMoved
<1>11. \A p \in TrackedIds(r) : lastNonces'[r][p] = data[p] + 1
  BY <1>1, <1>5, <1>6, <1>7 DEF ReadFresh
<1>12. \A p \in TrackedIds(r) : Held(r, p)' = data[p]
  BY <1>1, <1>2, <1>7, <1>8 DEF Held
<1>13. Cached'
  <2>1. \A x \in Readers \ {r} : \A p \in TrackedIds(x) : Held(x, p)' = Held(x, p)
    BY <1>2, <1>10 DEF Held
  <2>2. \A x \in Readers : TrackedIds(x)' = TrackedIds(x)
    BY DEF TrackedIds
  <2>3. ASSUME NEW x \in Readers
        PROVE  /\ toCopy'[x] # {} => At(x, "fetch")'
               /\ \A p \in TrackedIds(x)' : lastNonces'[x][p] = Held(x, p)' + 1
    <3>1. CASE x = r
      BY <1>2, <1>11, <1>12, <2>2, <3>1 DEF ReaderMoved, At
    <3>2. CASE x # r
      BY <1>10, <2>1, <2>2, <3>2 DEF Cached, At
    <3> QED
      BY <3>1, <3>2
  <2> QED
    BY <2>3 DEF Cached
<1>14. \A w \in Writers : At(w, "bumpNonce")' = At(w, "bumpNonce")
  BY <1>2 DEF ReaderMoved, At
<1>15. \A p \in Packets : Held(r, p)' = IF p \in TrackedIds(r) THEN data[p] ELSE Held(r, p)
  <2>1. \A p \in Packets \ TrackedIds(r) : p \notin Changed(r)
    BY DEF Changed
  <2> QED
    BY <1>1, <1>2, <1>5, <1>8, <1>12, <2>1 DEF Held
<1>16. \A x \in Readers \ {r} : \A p \in Packets : Held(x, p)' = Held(x, p)
  BY <1>2, <1>10 DEF Held
<1>17. Store!Update(r)
  <2> DEFINE S == [x \in Readers |-> [p \in Packets |-> IF p \in toCopy[x] THEN data[p] ELSE view[x][p]]]
             N(x) == [p \in Packets |-> IF p \in TrackedIds(r) THEN data[p] ELSE x[p]]
             T(x) == [p \in Packets |-> Held(x, p)']
  <2>1. S' = [x \in Readers |-> T(x)] /\ DOMAIN S = Readers
    BY DEF Held
  <2>2. T(r) = N(S[r])
    BY <1>15 DEF Held
  <2>3. \A x \in Readers \ {r} : T(x) = S[x]
    BY <1>16 DEF Held
  <2>4. S' = [S EXCEPT ![r] = N(S[r])]
    <3> HIDE DEF S, N, T
    <3> QED
      BY <2>1, <2>2, <2>3
  <2> QED
    BY <1>2, <1>14, <2>4 DEF Store!Update
<1> QED
  BY <1>9, <1>13, <1>17

\* update copies a packet under the lock: what the viewer is going to hold does
\* not change.
LEMMA FetchCounted ==
  ASSUME Inv, Counted, Cached, NEW r \in Readers, FetchPacket(r)
  PROVE  Counted' /\ Cached' /\ UNCHANGED Store!storeVars
<1>1. /\ toCopy \in [Readers -> SUBSET Packets] /\ view \in [Readers -> [Packets -> Nat]]
      /\ At(r, "fetch")
      /\ UNCHANGED <<data, packetNonce, written, packet, pc, lastNonces>>
  BY DEF Inv, TypeOK, FetchPacket, ReaderAt, blocks, writer, nonces
<1>2. PICK p \in toCopy[r] : /\ view' = [view EXCEPT ![r][p] = data[p]]
                             /\ toCopy' = [toCopy EXCEPT ![r] = @ \ {p}]
  BY DEF FetchPacket
<1>3. \A x \in Readers : \A q \in Packets : Held(x, q)' = Held(x, q)
  BY <1>1, <1>2 DEF Held
<1>4. Counted'
  BY <1>1 DEF Counted, Unnumbered, At
<1>5. Cached'
  <2>1. \A x \in Readers : toCopy'[x] # {} => At(x, "fetch")'
    BY <1>1, <1>2 DEF Cached, At
  <2>2. \A x \in Readers : TrackedIds(x) \subseteq Packets /\ TrackedIds(x)' = TrackedIds(x)
    BY TrackedIn DEF TrackedIds
  <2> QED
    BY <1>1, <1>3, <2>1, <2>2 DEF Cached
<1>6. UNCHANGED Store!storeVars
  BY <1>1, <1>3 DEF Store!storeVars, Held, At
<1> QED
  BY <1>4, <1>5, <1>6

\* The other steps concern neither the nonces nor the data.
LEMMA RestCounted ==
  ASSUME Inv, Counted, Cached,
         UNCHANGED <<data, packetNonce, written, lastNonces, view, toCopy>>,
         \A w \in Writers : \/ packet'[w] = packet[w]
                            \/ pc'[w] \notin {"bumpNonce", "setPacketNonce"},
         \A w \in Writers : {pc[w], pc'[w]} \cap {"bumpNonce", "setPacketNonce"} # {} =>
                              pc'[w] = pc[w],
         \A r \in Readers : At(r, "fetch") => toCopy[r] = {} \/ At(r, "fetch")'
  PROVE  Counted' /\ Cached' /\ UNCHANGED Store!storeVars
<1>1. \A p \in Packets : Unnumbered(p)' = Unnumbered(p)
  BY DEF Unnumbered
<1>2. \A w \in Writers : /\ At(w, "bumpNonce")' = At(w, "bumpNonce")
                         /\ At(w, "setPacketNonce")' = At(w, "setPacketNonce")
  BY DEF At
<1>3. Counted'
  BY <1>1, <1>2 DEF Counted, At
<1>4. Cached'
  BY DEF Cached, Held, TrackedIds, At
<1>5. UNCHANGED Store!storeVars
  BY <1>2 DEF Store!storeVars
<1> QED
  BY <1>3, <1>4, <1>5

LEMMA StoreStep ==
  ASSUME Inv, Numbered, NoWrap, Counted, Cached, [Next]_vars
  PROVE  Counted' /\ Cached' /\ [Store!StoreNext]_(Store!storeVars)
<1> USE ProcessAssumption
<1>1. ASSUME NEW w \in Writers, CopyData(w)
      PROVE  Counted' /\ Cached' /\ Store!StoreNext
  <2>1. packet[w] \in Packets
    BY DEF Inv, TypeOK
  <2> QED
    BY <1>1, <2>1, CopyCounted DEF Store!StoreNext
<1>2. ASSUME NEW r \in Readers, ReadFresh(r)
      PROVE  Counted' /\ Cached' /\ Store!StoreNext
  BY <1>2, FreshCounted DEF Store!StoreNext
<1>3. ASSUME NEW w \in Writers,
             StartWrite(w) \/ (WriterStep(w) /\ ~CopyData(w) /\ ~BumpNonce(w) /\ ~SetPacketNonce(w))
      PROVE  Counted' /\ Cached' /\ UNCHANGED Store!storeVars
  <2>1. /\ UNCHANGED <<data, packetNonce, written, lastNonces, view, toCopy>>
        /\ UNCHANGED packet \/ (StartWrite(w) /\ \E p : packet' = [packet EXCEPT ![w] = p])
    BY <1>3 DEF StartWrite, WriterStep, EnterWriter, CountWriter, LockOutReaders, LeaveEntry,
       LockData, Wake, UnlockData, ExitWriter, UncountWriter, LetReadersIn, LeaveExit, blocks,
       nonces, locals, writer
  <2>2. /\ pc[w] \notin {"bumpNonce", "setPacketNonce"}
        /\ pc'[w] \notin {"bumpNonce", "setPacketNonce"}
        /\ \A x \in Writers \ {w} : pc'[x] = pc[x]
        /\ \A r \in Readers : At(r, "fetch") => At(r, "fetch")'
    <3>1. CASE Wake(w)
      BY <3>1 DEF Wake, Woken, At
    <3>2. CASE ~Wake(w)
      <4>1. \E l \in WriterLocations \ {"bumpNonce", "setPacketNonce"} :
              Goto(w, l) /\ pc[w] \notin {"bumpNonce", "setPacketNonce"}
        BY <1>3, <3>2 DEF StartWrite, WriterStep, EnterWriter, CountWriter, LockOutReaders,
           LeaveEntry, LockData, UnlockData, ExitWriter, UncountWriter, LetReadersIn, LeaveExit,
           WriterLocations, At
      <4> QED
        BY <4>1, WriterMove DEF WriterMoved, At, Inv
    <3> QED
      BY <3>1, <3>2
  <2>3. \A x \in Writers \ {w} : packet'[x] = packet[x]
    BY <2>1 DEF Inv, TypeOK
  <2> QED
    BY <2>1, <2>2, <2>3, RestCounted
<1>4. ASSUME NEW r \in Readers,
             \/ ReaderStep(r) /\ ~ReadFresh(r) /\ ~FetchPacket(r)
             \/ TimeOut(r) \/ Signal(r)
      PROVE  Counted' /\ Cached' /\ UNCHANGED Store!storeVars
  <2>1. nonce # 0
    BY DEF Numbered, Inv, TypeOK
  <2>2. UNCHANGED <<data, packetNonce, written, lastNonces, view, toCopy, packet>>
    BY <1>4 DEF ReaderStep, StartUpdate, TryRead, EnterReader, CountReader, LockForReaders,
       LeaveReaderEntry, LeaveReadTry, ReadStale, ReadInterrupted,
       FetchDone, ExitReader, UncountReader, UnlockForReaders, LeaveReader, FutexWait,
       Awaken, TimeOut, Signal, blocks, writer, nonces, locals
  <2>3. UNCHANGED pc \/ \E l : Goto(r, l) /\ (pc[r] = "fetch" => toCopy[r] = {})
    BY <1>4 DEF ReaderStep, StartUpdate, TryRead, EnterReader, CountReader, LockForReaders,
       LeaveReaderEntry, LeaveReadTry, ReadStale, ReadInterrupted,
       FetchDone, ExitReader, UncountReader, UnlockForReaders, LeaveReader, FutexWait,
       Awaken, TimeOut, Signal, ReaderAt, At
  <2>4. /\ \A w \in Writers : pc'[w] = pc[w]
        /\ \A x \in Readers : At(x, "fetch") => toCopy[x] = {} \/ At(x, "fetch")'
    BY <2>3, ReaderMove DEF ReaderMoved, At, Inv
  <2> QED
    BY <2>2, <2>4, RestCounted
<1>5. CASE UNCHANGED vars
  <2>1. UNCHANGED <<data, packetNonce, written, lastNonces, view, toCopy, packet, pc>>
    BY <1>5 DEF vars, blocks, writer, nonces, locals
  <2> QED
    BY <2>1, RestCounted DEF At
<1> QED
  BY <1>1, <1>2, <1>3, <1>4, <1>5, NoncesCounted, FetchCounted DEF Next, Stop, WriterStep, ReaderStep

\* Up to 2^32 - 2 writes, the shared memory and its viewers implement the atomic
\* store of TelemetryStore: a write takes effect in one step, and what an update
\* returns is what one state of the store held of every packet that is tracked,
\* for any number of writers and viewers, signalled or not.
THEOREM AtomicStore == Spec /\ []NoWrap => ImplementsStore
<1> DEFINE I == Inv /\ Numbered /\ Counted /\ Cached
<1>1. Init => I
  BY InvInit, NumberedInit, CountedInit
<1>2. I /\ NoWrap /\ NoWrap' /\ [Next]_vars => I'
  BY InvStep, NumberedStep, StoreStep
<1>3. I /\ NoWrap /\ [Next]_vars => [Store!StoreNext]_(Store!storeVars)
  BY StoreStep
<1>4. Init => Store!StoreInit
  BY DEF Init, Store!StoreInit, At
<1> QED
  BY <1>1, <1>2, <1>3, <1>4, PTL DEF Spec, ImplementsStore, Store!StoreSpec
=============================================================================
