----------------------- MODULE EngineController_proofs -----------------------
(***************************************************************************)
(* Proofs about EngineController, for any number of runs of ec_cmd and     *)
(* ec_program, any programs, any size of the queue and any NUM_RETRANSMITS.*)
(*                                                                         *)
(* The inductive invariant comes in layers, each proved with the help of   *)
(* the ones below it: types; who has the vehicle locks; which numbers are  *)
(* about; which commands are about; what the process that waits may        *)
(* conclude.                                                               *)
(***************************************************************************)
EXTENDS EngineController, FiniteSetTheorems, TLAPS

(***************************************************************************)
(* Types.                                                                  *)
(***************************************************************************)

\* A sender still waits only while it has time-outs left.
WaitBounded == \A p \in Procs : At(p, "waiting") => retries[p] < NumRetransmits

Typed == TypeOK /\ WaitBounded

\* Nobody waits initially.
LEMMA TypedInit == Init => Typed
  BY CommandAssumption DEF Init, Typed, TypeOK, WaitBounded, At, Resources

\* What a process does to the locks keeps their types.
LEMMA LockTypes ==
  ASSUME TypeOK, NEW p \in Procs, NEW r \in Resources,
         Take(p, r) \/ Release(p, r) \/ UNCHANGED locks
  PROVE  /\ sem' \in [Resources -> Nat]
         /\ holds' \in [Procs -> SUBSET Resources]
         /\ stray' \in Nat
<1>1. CASE Take(p, r)
  BY <1>1 DEF Take, TypeOK
<1>2. CASE Release(p, r)
  BY <1>2 DEF Release, TypeOK
<1>3. CASE UNCHANGED locks
  BY <1>3 DEF locks, TypeOK
<1> QED
  BY <1>1, <1>2, <1>3

Places == {"start", "loading", "ready", "locked", "waiting", "acked", "ending", "hanging", "stuck",
           "done"}

\* A process goes to a place where it does not wait.
LEMMA GotoTypes ==
  ASSUME Typed, NEW p \in Procs, NEW l \in Places \ {"waiting"}, Goto(p, l), UNCHANGED retries
  PROVE  pc' \in [Procs -> Places] /\ WaitBounded'
  BY DEF Typed, TypeOK, WaitBounded, Goto, At, Places

\* A command of the model.
LEMMA SentIsCommand ==
  ASSUME TypeOK, NEW p \in Procs, NEW i \in Nat, NEW n \in Nat
  PROVE  [by |-> p, index |-> i, num |-> n] \in Commands
  BY DEF Commands

\* Every step of a process, the network or the controller keeps the types.
LEMMA TypedStep == Typed /\ [Next]_vars => Typed'
<1> SUFFICES ASSUME Typed, [Next]_vars
             PROVE  Typed'
  OBVIOUS
<1> USE CommandAssumption
<1>1. ASSUME NEW p \in Procs, Begin(p) PROVE Typed'
  <2>1. TypeOK /\ p \in Procs /\ tele \in Nat
    BY DEF Typed, TypeOK
  <2>2. view' \in [Procs -> Nat]
    BY <1>1, <2>1 DEF Begin, TypeOK
  <2>3. pc' \in [Procs -> Places] /\ WaitBounded'
    BY <1>1, GotoTypes DEF Begin, Places
  <2> QED
    BY <1>1, <2>1, <2>2, <2>3
    DEF Begin, Typed, TypeOK, Places, locks, network, controller, history
<1>2. ASSUME NEW p \in Procs, TryLock(p) \/ TryProgram(p) PROVE Typed'
  <2>1. PICK r \in Resources, l \in {"locked", "loading"} : Locks(p, r, l)
    BY <1>2 DEF TryLock, TryProgram, Resources
  <2>2. /\ Take(p, r) \/ UNCHANGED locks
        /\ Goto(p, l) \/ Goto(p, "done")
    BY <2>1 DEF Locks
  <2>3. pc' \in [Procs -> Places] /\ WaitBounded'
    BY <1>2, <2>2, GotoTypes DEF TryLock, TryProgram, Places, sender
  <2> QED
    BY <1>2, <2>2, <2>3, LockTypes
    DEF TryLock, TryProgram, Typed, TypeOK, Places, sender, network, controller, history
<1>3. ASSUME NEW p \in Procs, Load(p) PROVE Typed'
  <2>1. /\ Release(p, "PROGRAM") \/ UNCHANGED locks
        /\ Goto(p, "ready") \/ Goto(p, "done")
        /\ view' = [view EXCEPT ![p] = tele] \/ UNCHANGED view
    BY <1>3 DEF Load
  <2>2. pc' \in [Procs -> Places] /\ WaitBounded'
    BY <1>3, <2>1, GotoTypes DEF Load, Places
  <2>3. view' \in [Procs -> Nat]
    BY <2>1 DEF Typed, TypeOK
  <2> QED
    BY <1>3, <2>1, <2>2, <2>3, LockTypes
    DEF Load, Typed, TypeOK, Places, Resources, network, controller, history
<1>4. ASSUME NEW p \in Procs,
             \/ NextCommand(p) \/ ClockStopped(p) \/ EndProgram(p) \/ Exit(p)
             \/ SendFails(p) \/ Unlock(p) \/ Stick(p) \/ Signal(p)
      PROVE  Typed'
  <2>1. /\ \E r \in Resources : Take(p, r) \/ Release(p, r) \/ UNCHANGED locks
        /\ \E l \in Places \ {"waiting"} : Goto(p, l)
        /\ UNCHANGED <<sender, network, controller, history>>
    BY <1>4 DEF NextCommand, ClockStopped, EndProgram, Exit, SendFails, Unlock, Stick, Signal,
                Resources, Places
  <2>2. pc' \in [Procs -> Places] /\ WaitBounded'
    BY <2>1, GotoTypes DEF sender
  <2> QED
    BY <2>1, <2>2, LockTypes DEF Typed, TypeOK, Places, sender, network, controller, history
<1>5. ASSUME NEW p \in Procs, Send(p) PROVE Typed'
  <2> DEFINE c == [by |-> p, index |-> sent[p] + 1, num |-> view[p] + 1]
  <2>0. c \in Commands /\ c.num \in Nat /\ c.index \in Nat
    <3>1. sent[p] + 1 \in Nat /\ view[p] + 1 \in Nat
      BY DEF Typed, TypeOK
    <3> QED
      BY <3>1, SentIsCommand DEF Typed
  <2>1. /\ Len(queue) < QueueSize
        /\ queue' = Append(queue, c)
        /\ num' = [num EXCEPT ![p] = c.num]
        /\ sent' = [sent EXCEPT ![p] = c.index]
        /\ retries' = [retries EXCEPT ![p] = 0]
        /\ clean' = clean \cup {c} \/ clean' = clean
        /\ pc' = [pc EXCEPT ![p] = "waiting"]
        /\ UNCHANGED <<locks, view, air, acks, tele, controller, acked>>
    BY <1>5 DEF Send, Goto
  <2> HIDE DEF c
  <2>2. queue' \in Seq(Commands) /\ Len(queue') <= QueueSize
    BY <2>0, <2>1 DEF Typed, TypeOK
  <2>3. /\ num' \in [Procs -> Nat] /\ sent' \in [Procs -> Nat]
        /\ retries' \in [Procs -> 0 .. NumRetransmits] /\ clean' \subseteq Commands
        /\ pc' \in [Procs -> Places]
    BY <2>0, <2>1 DEF Typed, TypeOK, Places
  <2>4. WaitBounded'
    BY <2>1 DEF Typed, TypeOK, WaitBounded, At
  <2> QED
    BY <2>1, <2>2, <2>3, <2>4 DEF Typed, TypeOK, Places, locks, controller
<1>6. ASSUME NEW p \in Procs, Look(p) PROVE Typed'
  <2>1. view' \in [Procs -> Nat]
    BY <1>6 DEF Look, Typed, TypeOK
  <2>2. pc' \in [Procs -> Places] /\ WaitBounded'
    <3>1. CASE tele = num[p]
      BY <1>6, <3>1, GotoTypes DEF Look, Places
    <3>2. CASE tele # num[p]
      BY <1>6, <3>2 DEF Look, Typed, TypeOK, WaitBounded, At, Places
    <3> QED
      BY <3>1, <3>2
  <2>3. [by |-> p, index |-> sent[p], num |-> num[p]] \in Commands
    BY SentIsCommand DEF Typed, TypeOK
  <2>4. acked' \subseteq Commands
    BY <1>6, <2>3 DEF Look, Typed, TypeOK
  <2> QED
    BY <1>6, <2>1, <2>2, <2>4 DEF Look, Typed, TypeOK, Places, locks, network, controller
<1>7. ASSUME NEW p \in Procs, TimeOut(p) PROVE Typed'
  <2>1. /\ retries[p] \in 0 .. NumRetransmits /\ retries[p] < NumRetransmits
        /\ retries' = [retries EXCEPT ![p] = @ + 1]
    BY <1>7 DEF TimeOut, Typed, TypeOK, WaitBounded
  <2>2. retries' \in [Procs -> 0 .. NumRetransmits]
    BY <2>1 DEF Typed, TypeOK
  <2>3. CASE retries[p] + 1 = NumRetransmits
    <3>1. Release(p, "COMMAND") /\ pc' = [pc EXCEPT ![p] = "done"]
      BY <1>7, <2>3 DEF TimeOut, Goto
    <3>2. pc' \in [Procs -> Places] /\ WaitBounded'
      BY <2>1, <3>1 DEF Typed, TypeOK, WaitBounded, At, Places
    <3> QED
      BY <1>7, <2>2, <3>1, <3>2, LockTypes
      DEF TimeOut, Typed, TypeOK, Places, Resources, network, controller, history
  <2>4. CASE retries[p] + 1 # NumRetransmits
    <3>1. UNCHANGED <<locks, pc>>
      BY <1>7, <2>4 DEF TimeOut
    <3>2. WaitBounded'
      BY <2>1, <2>4, <3>1 DEF Typed, TypeOK, WaitBounded, At
    <3> QED
      BY <1>7, <2>2, <3>1, <3>2 DEF TimeOut, Typed, TypeOK, locks, network, controller, history
  <2> QED
    BY <2>3, <2>4
<1>8. ASSUME Transmit PROVE Typed'
  <2>1. queue # << >> /\ queue \in Seq(Commands) /\ Len(queue) <= QueueSize
    BY <1>8 DEF Transmit, Typed, TypeOK
  <2>2. /\ Tail(queue) \in Seq(Commands) /\ Len(Tail(queue)) <= QueueSize
        /\ Head(queue) \in Commands
    BY <2>1
  <2> QED
    BY <1>8, <2>2
    DEF Transmit, Typed, TypeOK, WaitBounded, At, locks, sender, controller, history
<1>9. ASSUME NEW c \in air, LoseCommand(c) PROVE Typed'
  BY <1>9 DEF LoseCommand, Typed, TypeOK, WaitBounded, At, locks, sender, controller, history
<1>10. ASSUME NEW c \in air, DeliverCommand(c) PROVE Typed'
  <2>1. c \in Commands /\ c.num \in Nat
    BY DEF Typed, TypeOK, Commands
  <2>2. Receive(c) /\ seqNum \in Nat /\ executed \in Seq(Commands)
    BY <1>10 DEF DeliverCommand, Typed, TypeOK
  <2>3. seqNum' \in Nat /\ executed' \in Seq(Commands)
    BY <2>1, <2>2 DEF Receive, controller
  <2>4. acks' = acks \cup {seqNum'}
    BY <2>2 DEF Receive
  <2> QED
    BY <1>10, <2>3, <2>4 DEF DeliverCommand, Typed, TypeOK, WaitBounded, At, locks, sender, history
<1>11. ASSUME NEW n \in acks, DeliverAck(n) PROVE Typed'
  BY <1>11 DEF DeliverAck, Typed, TypeOK, WaitBounded, At, locks, sender, controller, history
<1>12. CASE UNCHANGED vars
  BY <1>12 DEF vars, locks, sender, network, controller, history, Typed, TypeOK, WaitBounded, At
<1> QED
  BY <1>1, <1>2, <1>3, <1>4, <1>5, <1>6, <1>7, <1>8, <1>9, <1>10, <1>11, <1>12
  DEF Next, Step, Environment, Stop

\* The type invariant holds in every reachable state.
THEOREM TypeCorrect == Spec => []TypeOK
<1>1. Typed => TypeOK
  BY DEF Typed
<1> QED
  BY TypedInit, TypedStep, <1>1, PTL DEF Spec

\* The types and the bound on time-outs, for the layers above.
LEMMA AlwaysTyped == Spec => []Typed
  BY TypedInit, TypedStep, PTL DEF Spec

(***************************************************************************)
(* The vehicle locks.                                                      *)
(***************************************************************************)

Owns(p) == "COMMAND" \in holds[p]
Sending(p) == pc[p] \in {"locked", "waiting", "acked"}

\* COMMAND is free and nobody's, or taken and somebody's, who is the only one.
CommandExact ==
  \/ sem["COMMAND"] = 1 /\ \A p \in Procs : ~Owns(p)
  \/ sem["COMMAND"] = 0 /\ \E p \in Procs : Owns(p) /\ \A q \in Procs : Owns(q) => q = p

ProgramExact == sem["PROGRAM"] + Cardinality(Holders("PROGRAM")) = 1 + stray

\* Who is sending holds COMMAND; who has not begun does not hold PROGRAM.
Entitled ==
  \A p \in Procs :
    /\ Sending(p) => Owns(p)
    /\ At(p, "start") => "PROGRAM" \notin holds[p]

LockInv == CommandExact /\ ProgramExact /\ Entitled

\* There are finitely many processes, so holders can be counted.
LEMMA HoldersFinite ==
  ASSUME NEW r PROVE IsFiniteSet(Holders(r)) /\ Cardinality(Holders(r)) \in Nat
  BY CommandAssumption, FS_Subset, FS_CardinalityType DEF Holders

\* Both locks are created free.
LEMMA LockInit == Init => LockInv
<1> SUFFICES ASSUME Init PROVE LockInv
  OBVIOUS
<1>1. Holders("PROGRAM") = {}
  BY DEF Init, Holders
<1>2. Cardinality(Holders("PROGRAM")) = 0
  BY <1>1, FS_EmptySet
<1> QED
  BY <1>2 DEF Init, LockInv, CommandExact, ProgramExact, Entitled, Owns, Sending, At, Resources

\* The five ways a step can concern the locks.
TakesCommand(p) == Take(p, "COMMAND") /\ Goto(p, "locked")
TakesProgram(p) == At(p, "start") /\ Take(p, "PROGRAM") /\ Goto(p, "loading")
GivesCommand(p) ==
  Sending(p) /\ Release(p, "COMMAND") /\ \E l \in Places : l \in {"ready", "done"} /\ Goto(p, l)
GivesProgram(p) == Release(p, "PROGRAM") /\ \E l \in {"ending", "done"} : Goto(p, l)
KeepsLocks(p) ==
  /\ UNCHANGED locks
  /\ \/ UNCHANGED pc
     \/ \E l \in Places \ {"start"} :
          Goto(p, l) /\ (l \in {"locked", "waiting", "acked"} => Sending(p))

\* Every step of ec_cmd and ec_program, and the signal handler, is one of the five.
LEMMA LockMoves ==
  ASSUME NEW p \in Procs, Step(p) \/ Stick(p) \/ Signal(p)
  PROVE  TakesCommand(p) \/ TakesProgram(p) \/ GivesCommand(p) \/ GivesProgram(p) \/ KeepsLocks(p)
<1>1. CASE Begin(p) \/ Exit(p) \/ Stick(p) \/ Send(p) \/ Look(p)
  BY <1>1 DEF Begin, Exit, Stick, Send, Look, KeepsLocks, Places, Sending, At
<1>2. CASE TryLock(p) \/ TryProgram(p) \/ NextCommand(p)
  BY <1>2 DEF TryLock, TryProgram, NextCommand, Locks, TakesCommand, TakesProgram,
              GivesProgram, KeepsLocks, Places
<1>3. CASE Load(p) \/ ClockStopped(p) \/ EndProgram(p) \/ Signal(p)
  BY <1>3 DEF Load, ClockStopped, EndProgram, Signal, GivesProgram, KeepsLocks, Places
<1>4. CASE SendFails(p) \/ TimeOut(p) \/ Unlock(p)
  BY <1>4 DEF SendFails, TimeOut, Unlock, GivesCommand, KeepsLocks, Places, Sending, At
<1> QED
  BY <1>1, <1>2, <1>3, <1>4 DEF Step

\* Each of the five keeps the locks exact.
LEMMA LockStepProcess ==
  ASSUME Typed, LockInv, NEW p \in Procs, Step(p) \/ Stick(p) \/ Signal(p)
  PROVE  LockInv'
<1> DEFINE H == Holders("PROGRAM")
<1>a. /\ sem \in [Resources -> Nat] /\ holds \in [Procs -> SUBSET Resources]
      /\ pc \in [Procs -> Places] /\ stray \in Nat
      /\ "COMMAND" \in Resources /\ "PROGRAM" \in Resources
  BY DEF Typed, TypeOK, Places, Resources
<1>b. IsFiniteSet(H) /\ Cardinality(H) \in Nat
  BY HoldersFinite
<1>1. CASE TakesCommand(p)
  <2>1. /\ sem' = [sem EXCEPT !["COMMAND"] = @ - 1] /\ sem["COMMAND"] > 0 /\ UNCHANGED stray
        /\ holds' = [holds EXCEPT ![p] = @ \cup {"COMMAND"}]
        /\ pc' = [pc EXCEPT ![p] = "locked"]
    BY <1>1 DEF TakesCommand, Take, Goto
  <2>2. CommandExact'
    BY <1>a, <2>1 DEF LockInv, CommandExact, Owns
  <2>3. Holders("PROGRAM")' = H
    BY <1>a, <2>1 DEF Holders
  <2>4. ProgramExact'
    BY <1>a, <2>1, <2>3 DEF LockInv, ProgramExact
  <2>5. Entitled'
    BY <1>a, <2>1 DEF LockInv, Entitled, Sending, Owns, At
  <2> QED
    BY <2>2, <2>4, <2>5 DEF LockInv
<1>2. CASE TakesProgram(p)
  <2>1. /\ sem' = [sem EXCEPT !["PROGRAM"] = @ - 1] /\ sem["PROGRAM"] > 0 /\ UNCHANGED stray
        /\ holds' = [holds EXCEPT ![p] = @ \cup {"PROGRAM"}]
        /\ pc' = [pc EXCEPT ![p] = "loading"]
        /\ "PROGRAM" \notin holds[p]
    BY <1>2 DEF TakesProgram, Take, Goto, LockInv, Entitled
  <2>2. CommandExact'
    BY <1>a, <2>1 DEF LockInv, CommandExact, Owns
  <2>3. Holders("PROGRAM")' = H \cup {p} /\ p \notin H
    BY <1>a, <2>1 DEF Holders
  <2>4. Cardinality(H \cup {p}) = Cardinality(H) + 1
    BY <1>b, <2>3, FS_AddElement
  <2>5. ProgramExact'
    <3>1. Cardinality(Holders("PROGRAM"))' = Cardinality(H) + 1
      BY <2>3, <2>4
    <3>2. sem'["PROGRAM"] = sem["PROGRAM"] - 1
      BY <1>a, <2>1
    <3>3. sem["PROGRAM"] \in Nat /\ sem["PROGRAM"] + Cardinality(H) = 1 + stray
      BY <1>a DEF LockInv, ProgramExact
    <3> HIDE DEF H
    <3> QED
      BY <1>a, <1>b, <2>1, <3>1, <3>2, <3>3 DEF ProgramExact
  <2>6. Entitled'
    BY <1>a, <2>1 DEF LockInv, Entitled, Sending, Owns, At
  <2> QED
    BY <2>2, <2>5, <2>6 DEF LockInv
<1>3. CASE GivesCommand(p)
  <2>1. PICK l \in {"ready", "done"} : pc' = [pc EXCEPT ![p] = l]
    BY <1>3 DEF GivesCommand, Goto
  <2>2. /\ sem' = [sem EXCEPT !["COMMAND"] = @ + 1]
        /\ holds' = [holds EXCEPT ![p] = @ \ {"COMMAND"}]
        /\ Owns(p)
    BY <1>3 DEF GivesCommand, Release, LockInv, Entitled
  <2>3. UNCHANGED stray
    BY <1>3, <2>2 DEF GivesCommand, Release, Owns
  <2>4. CommandExact'
    BY <1>a, <2>2 DEF LockInv, CommandExact, Owns
  <2>5. Holders("PROGRAM")' = H
    BY <1>a, <2>2 DEF Holders
  <2>6. ProgramExact'
    BY <1>a, <2>2, <2>3, <2>5 DEF LockInv, ProgramExact
  <2>7. Entitled'
    BY <1>a, <2>1, <2>2 DEF LockInv, Entitled, Sending, Owns, At
  <2> QED
    BY <2>4, <2>6, <2>7 DEF LockInv
<1>4. CASE GivesProgram(p)
  <2>1. PICK l \in {"ending", "done"} : pc' = [pc EXCEPT ![p] = l]
    BY <1>4 DEF GivesProgram, Goto
  <2>2. /\ sem' = [sem EXCEPT !["PROGRAM"] = @ + 1]
        /\ holds' = [holds EXCEPT ![p] = @ \ {"PROGRAM"}]
        /\ stray' = IF "PROGRAM" \in holds[p] THEN stray ELSE stray + 1
    BY <1>4 DEF GivesProgram, Release
  <2>3. CommandExact'
    BY <1>a, <2>2 DEF LockInv, CommandExact, Owns
  <2>4. Holders("PROGRAM")' = H \ {p}
    BY <1>a, <2>2 DEF Holders
  <2>5. Cardinality(H \ {p}) = IF p \in H THEN Cardinality(H) - 1 ELSE Cardinality(H)
    BY <1>b, FS_RemoveElement
  <2>6. p \in H <=> "PROGRAM" \in holds[p]
    BY DEF Holders
  <2>7. ProgramExact'
    <3>1. sem'["PROGRAM"] = sem["PROGRAM"] + 1
      BY <1>a, <2>2
    <3>2. sem["PROGRAM"] \in Nat /\ sem["PROGRAM"] + Cardinality(H) = 1 + stray
      BY <1>a DEF LockInv, ProgramExact
    <3>3. Cardinality(Holders("PROGRAM"))' =
            IF "PROGRAM" \in holds[p] THEN Cardinality(H) - 1 ELSE Cardinality(H)
      BY <2>4, <2>5, <2>6
    <3> HIDE DEF H
    <3> QED
      BY <1>a, <1>b, <2>2, <3>1, <3>2, <3>3 DEF ProgramExact
  <2>8. Entitled'
    BY <1>a, <2>1, <2>2 DEF LockInv, Entitled, Sending, Owns, At
  <2> QED
    BY <2>3, <2>7, <2>8 DEF LockInv
<1>5. CASE KeepsLocks(p)
  <2>1. UNCHANGED <<sem, holds, stray>>
    BY <1>5 DEF KeepsLocks, locks
  <2>2. Entitled'
    BY <1>5, <1>a, <2>1 DEF KeepsLocks, Goto, LockInv, Entitled, Sending, Owns, At
  <2> QED
    BY <2>1, <2>2 DEF LockInv, CommandExact, ProgramExact, Owns, Holders
<1> QED
  BY <1>1, <1>2, <1>3, <1>4, <1>5, LockMoves

\* The network and the controller do not touch the locks.
LEMMA LockStep == Typed /\ LockInv /\ [Next]_vars => LockInv'
<1> SUFFICES ASSUME Typed, LockInv, [Next]_vars
             PROVE  LockInv'
  OBVIOUS
<1>1. ASSUME NEW p \in Procs, Step(p) \/ Stick(p) \/ Signal(p) PROVE LockInv'
  BY <1>1, LockStepProcess
<1>2. CASE UNCHANGED <<locks, pc>>
  BY <1>2 DEF locks, LockInv, CommandExact, ProgramExact, Entitled, Owns, Sending, At, Holders
<1>3. Environment \/ UNCHANGED vars => UNCHANGED <<locks, pc>>
  BY DEF Environment, Transmit, LoseCommand, DeliverCommand, DeliverAck, vars
<1> QED
  BY <1>1, <1>2, <1>3 DEF Next, Stop

\* The invariant of the locks.
LEMMA AlwaysLocked == Spec => [](Typed /\ LockInv)
  BY TypedInit, TypedStep, LockInit, LockStep, PTL DEF Spec

\* At most one process holds COMMAND at a time, whatever fails and whoever is
\* signalled.
THEOREM Exclusion == Spec => []CommandExclusion
<1>1. Typed /\ LockInv => CommandExclusion
  BY DEF LockInv, CommandExact, CommandExclusion, Holders, Owns
<1> QED
  BY AlwaysLocked, <1>1, PTL

\* COMMAND is free exactly when nobody has it; PROGRAM exceeds one by the posts
\* of the signal handler that nobody waited for.
THEOREM LocksAreExact == Spec => []LocksExact
<1>1. ASSUME Typed, LockInv PROVE LocksExact
  <2>1. ASSUME sem["COMMAND"] = 1, \A p \in Procs : ~Owns(p)
        PROVE  sem["COMMAND"] + Cardinality(Holders("COMMAND")) = 1
    <3>1. Holders("COMMAND") = {}
      BY <2>1 DEF Holders, Owns
    <3> QED
      BY <2>1, <3>1, FS_EmptySet
  <2>2. ASSUME sem["COMMAND"] = 0,
               NEW p \in Procs, Owns(p), \A q \in Procs : Owns(q) => q = p
        PROVE  sem["COMMAND"] + Cardinality(Holders("COMMAND")) = 1
    <3>1. Holders("COMMAND") = {p}
      BY <2>2 DEF Holders, Owns
    <3> QED
      BY <2>2, <3>1, FS_Singleton
  <2> QED
    BY <1>1, <2>1, <2>2 DEF LockInv, CommandExact, ProgramExact, LocksExact
<1> QED
  BY AlwaysLocked, <1>1, PTL

(***************************************************************************)
(* The numbers.                                                            *)
(***************************************************************************)

\* No number the network or the telemetry shows is beyond the controller's.
NumbersBounded ==
  /\ \A n \in acks : n <= seqNum
  /\ tele <= seqNum
  /\ AckedWasReached

NumbersInv == ExecutedInOrder /\ NumbersBounded

\* All numbers start at 0.
LEMMA NumbersInit == Init => NumbersInv
  BY DEF Init, NumbersInv, ExecutedInOrder, NumbersBounded, AckedWasReached

\* What the controller carries out is the next command.
LEMMA InOrderStep ==
  ASSUME Typed, ExecutedInOrder, [Next]_vars
  PROVE  ExecutedInOrder' /\ seqNum' >= seqNum
<1>1. ASSUME NEW c \in air, DeliverCommand(c) PROVE ExecutedInOrder' /\ seqNum' >= seqNum
  <2>1. /\ c \in Commands /\ executed \in Seq(Commands) /\ seqNum \in Nat
        /\ Receive(c)
    BY <1>1 DEF DeliverCommand, Typed, TypeOK
  <2>2. CASE c.num = seqNum + 1
    <3>1. seqNum' = seqNum + 1 /\ executed' = Append(executed, c)
      BY <2>1, <2>2 DEF Receive
    <3>2. Len(executed') = Len(executed) + 1
      BY <2>1, <3>1
    <3>3. ASSUME NEW i \in DOMAIN executed' PROVE executed'[i].num = i
      <4>1. CASE i \in DOMAIN executed
        BY <2>1, <3>1, <4>1 DEF ExecutedInOrder
      <4>2. CASE i = Len(executed) + 1
        BY <2>1, <2>2, <3>1, <4>2 DEF ExecutedInOrder
      <4> QED
        BY <2>1, <3>1, <4>1, <4>2
    <3> QED
      BY <2>1, <3>1, <3>2, <3>3 DEF ExecutedInOrder
  <2>3. CASE c.num # seqNum + 1
    BY <2>1, <2>3 DEF Receive, controller, ExecutedInOrder
  <2> QED
    BY <2>2, <2>3
<1>2. CASE UNCHANGED controller
  BY <1>2 DEF controller, ExecutedInOrder, Typed, TypeOK
<1>3. (\E c \in air : DeliverCommand(c)) \/ UNCHANGED controller
  BY DEF Next, Step, Stick, Signal, Environment, Stop, vars, controller,
         Begin, TryLock, TryProgram, Load, NextCommand, ClockStopped, EndProgram, Exit,
         Send, SendFails, Look, TimeOut, Unlock, Transmit, LoseCommand, DeliverAck
<1> QED
  BY <1>1, <1>2, <1>3

\* Acknowledgements carry what the controller had reached, and it only goes on.
LEMMA NumbersStep == Typed /\ NumbersInv /\ [Next]_vars => NumbersInv'
<1> SUFFICES ASSUME Typed, NumbersInv, [Next]_vars
             PROVE  NumbersInv'
  OBVIOUS
<1>1. /\ ExecutedInOrder' /\ seqNum' >= seqNum
      /\ seqNum \in Nat /\ tele \in Nat /\ acks \subseteq Nat /\ acked \subseteq Commands
      /\ \A c \in acked : c.num \in Nat
  BY InOrderStep DEF NumbersInv, Typed, TypeOK, Commands
<1>2. ASSUME NEW c \in air, DeliverCommand(c) PROVE NumbersBounded'
  <2>1. /\ acks' = acks \cup {seqNum'} /\ UNCHANGED <<tele, acked>>
        /\ seqNum' \in Nat
    <3>1. c.num \in Nat
      BY DEF Typed, TypeOK, Commands
    <3> QED
      BY <1>1, <1>2, <3>1 DEF DeliverCommand, Receive, history, controller
  <2> QED
    BY <1>1, <2>1 DEF NumbersInv, NumbersBounded, AckedWasReached
<1>3. ASSUME NEW n \in acks, DeliverAck(n) PROVE NumbersBounded'
  BY <1>1, <1>3 DEF DeliverAck, NumbersInv, NumbersBounded, AckedWasReached, controller, history
<1>4. ASSUME NEW p \in Procs, Look(p) PROVE NumbersBounded'
  <2>1. /\ \A c \in acked' : c \in acked \/ c.num = tele
        /\ UNCHANGED <<acks, tele, seqNum>>
    BY <1>4 DEF Look, network, controller
  <2> QED
    BY <1>1, <2>1 DEF NumbersInv, NumbersBounded, AckedWasReached
<1>5. CASE UNCHANGED <<acks, tele, seqNum, acked>>
  <2>1. acks' = acks /\ tele' = tele /\ seqNum' = seqNum /\ acked' = acked
    BY <1>5
  <2> QED
    BY <1>1, <2>1 DEF NumbersInv, NumbersBounded, AckedWasReached
<1>6. \/ UNCHANGED <<acks, tele, seqNum, acked>>
      \/ \E c \in air : DeliverCommand(c)
      \/ \E n \in acks : DeliverAck(n)
      \/ \E p \in Procs : Look(p)
  BY DEF Next, Step, Stick, Signal, Environment, Stop, vars, controller, network, history,
         Begin, TryLock, TryProgram, Load, NextCommand, ClockStopped, EndProgram, Exit,
         Send, SendFails, TimeOut, Unlock, Transmit, LoseCommand
<1> QED
  BY <1>1, <1>2, <1>3, <1>4, <1>5, <1>6 DEF NumbersInv

\* The invariant of the numbers.
LEMMA AlwaysNumbered == Spec => [](Typed /\ NumbersInv)
  BY TypedInit, TypedStep, NumbersInit, NumbersStep, PTL DEF Spec

\* The controller carries out the commands 1, 2, ... in that order.
THEOREM InOrder == Spec => []ExecutedInOrder
<1>1. Typed /\ NumbersInv => ExecutedInOrder
  BY DEF NumbersInv
<1> QED
  BY AlwaysNumbered, <1>1, PTL

\* Nobody is told of an acknowledgement before the controller got that far.
THEOREM AckReached == Spec => []AckedWasReached
<1>1. Typed /\ NumbersInv => AckedWasReached
  BY DEF NumbersInv, NumbersBounded
<1> QED
  BY AlwaysNumbered, <1>1, PTL

(***************************************************************************)
(* The commands that are about: on their way or carried out.               *)
(***************************************************************************)

About == Pending \cup Executed

\* A sender's commands are numbered up to sent, and one of a sender and a
\* place is one command.
CommandsInv ==
  /\ \A c \in About \cup acked \cup clean : c.index <= sent[c.by]
  /\ \A c, d \in About : c.by = d.by /\ c.index = d.index => c = d

SetOf(s) == {s[i] : i \in DOMAIN s}

\* What a sequence holds after Append, and after Tail.
LEMMA AppendSet ==
  ASSUME NEW S, NEW s \in Seq(S), NEW e
  PROVE  SetOf(Append(s, e)) = SetOf(s) \cup {e}
<1>1. DOMAIN Append(s, e) = 1 .. Len(s) + 1 /\ DOMAIN s = 1 .. Len(s) /\ Len(s) \in Nat
  OBVIOUS
<1>2. /\ \A i \in 1 .. Len(s) : Append(s, e)[i] = s[i]
      /\ Append(s, e)[Len(s) + 1] = e
  OBVIOUS
<1>3. SetOf(Append(s, e)) \subseteq SetOf(s) \cup {e}
  BY <1>1, <1>2 DEF SetOf
<1>4. ASSUME NEW x \in SetOf(s) \cup {e} PROVE x \in SetOf(Append(s, e))
  <2>1. CASE x = e
    BY <1>1, <1>2, <2>1 DEF SetOf
  <2>2. CASE x \in SetOf(s)
    <3>1. PICK i \in 1 .. Len(s) : x = s[i]
      BY <1>1, <2>2 DEF SetOf
    <3>2. i \in DOMAIN Append(s, e) /\ x = Append(s, e)[i]
      BY <1>1, <1>2, <3>1
    <3> QED
      BY <3>2 DEF SetOf
  <2> QED
    BY <2>1, <2>2
<1> QED
  BY <1>3, <1>4

\* Taking the head of a queue adds nothing to it.
LEMMA TailSet ==
  ASSUME NEW S, NEW s \in Seq(S), s # << >>
  PROVE  SetOf(Tail(s)) \subseteq SetOf(s) /\ Head(s) \in SetOf(s)
<1>1. /\ DOMAIN s = 1 .. Len(s) /\ Len(s) \in Nat \ {0}
      /\ DOMAIN Tail(s) = 1 .. Len(s) - 1
      /\ \A i \in 1 .. Len(s) - 1 : Tail(s)[i] = s[i + 1]
      /\ Head(s) = s[1]
  OBVIOUS
<1>2. ASSUME NEW x \in SetOf(Tail(s)) PROVE x \in SetOf(s)
  <2>1. PICK i \in 1 .. Len(s) - 1 : x = s[i + 1]
    BY <1>1, <1>2 DEF SetOf
  <2>2. i + 1 \in DOMAIN s
    BY <1>1
  <2> QED
    BY <2>1, <2>2 DEF SetOf
<1> QED
  BY <1>1, <1>2 DEF SetOf

\* The commands about, by where they are.
LEMMA AboutIs == About = air \cup SetOf(queue) \cup SetOf(executed)
  BY DEF About, Pending, Executed, SetOf

\* But for Send, no step brings a command about; what was carried out stays so.
LEMMA AboutStep ==
  ASSUME Typed, [Next]_vars, \A p \in Procs : ~Send(p)
  PROVE  About' \subseteq About /\ Executed \subseteq Executed'
<1>1. /\ About = air \cup SetOf(queue) \cup SetOf(executed)
      /\ About' = air' \cup SetOf(queue') \cup SetOf(executed')
      /\ Executed = SetOf(executed) /\ Executed' = SetOf(executed')
      /\ queue \in Seq(Commands) /\ executed \in Seq(Commands)
  BY DEF About, Pending, Executed, SetOf, Typed, TypeOK
<1>2. CASE Transmit
  <2>1. SetOf(queue') \subseteq SetOf(queue) /\ air' \subseteq air \cup SetOf(queue) /\ UNCHANGED executed
    BY <1>1, <1>2, TailSet DEF Transmit, controller
  <2> QED
    BY <1>1, <2>1
<1>3. ASSUME NEW c \in air, DeliverCommand(c) PROVE About' \subseteq About /\ Executed \subseteq Executed'
  <2>1. UNCHANGED <<queue, air>> /\ Receive(c)
    BY <1>3 DEF DeliverCommand
  <2>2. executed' = Append(executed, c) \/ UNCHANGED executed
    BY <2>1 DEF Receive, controller
  <2>3. SetOf(executed') = SetOf(executed) \cup {c} \/ SetOf(executed') = SetOf(executed)
    BY <1>1, <2>2, AppendSet
  <2> QED
    BY <1>1, <1>3, <2>1, <2>3
<1>4. ASSUME NEW c \in air, LoseCommand(c) PROVE About' \subseteq About /\ Executed \subseteq Executed'
  BY <1>1, <1>4 DEF LoseCommand, controller
<1>5. CASE UNCHANGED <<queue, air, executed>>
  BY <1>1, <1>5
<1>6. \/ Transmit \/ UNCHANGED <<queue, air, executed>>
      \/ \E c \in air : DeliverCommand(c) \/ LoseCommand(c)
  BY DEF Next, Step, Stick, Signal, Environment, Stop, vars, controller, network,
         Begin, TryLock, TryProgram, Load, NextCommand, ClockStopped, EndProgram, Exit,
         SendFails, Look, TimeOut, Unlock, DeliverAck
<1> QED
  BY <1>2, <1>3, <1>4, <1>5, <1>6

\* The command p sends in this step.
NewCommand(p) == [by |-> p, index |-> sent[p] + 1, num |-> view[p] + 1]
Fresh(p) == view[p] = seqNum /\ \A d \in Pending : d.num # view[p] + 1

\* What Send changes, in the terms of the invariants.
LEMMA SendStep ==
  ASSUME Typed, NEW p \in Procs, Send(p)
  PROVE  /\ NewCommand(p) \in Commands
         /\ About' = About \cup {NewCommand(p)} /\ UNCHANGED executed
         /\ sent' = [sent EXCEPT ![p] = sent[p] + 1]
         /\ num' = [num EXCEPT ![p] = view[p] + 1]
         /\ clean' = IF Fresh(p) THEN clean \cup {NewCommand(p)} ELSE clean
         /\ pc' = [pc EXCEPT ![p] = "waiting"]
         /\ UNCHANGED <<acked, seqNum, tele>>
<1>1. /\ queue' = Append(queue, NewCommand(p))
      /\ sent' = [sent EXCEPT ![p] = sent[p] + 1]
      /\ num' = [num EXCEPT ![p] = view[p] + 1]
      /\ clean' = IF Fresh(p) THEN clean \cup {NewCommand(p)} ELSE clean
      /\ pc' = [pc EXCEPT ![p] = "waiting"]
      /\ UNCHANGED <<air, acked, tele, seqNum, executed>>
  BY DEF Send, NewCommand, Fresh, Goto, controller
<1>2. NewCommand(p) \in Commands
  <2>1. sent[p] + 1 \in Nat /\ view[p] + 1 \in Nat
    BY DEF Typed, TypeOK
  <2> QED
    BY <2>1, SentIsCommand DEF NewCommand, Typed
<1>3. SetOf(queue') = SetOf(queue) \cup {NewCommand(p)}
  BY <1>1, AppendSet DEF Typed, TypeOK
<1>4. /\ About = air \cup SetOf(queue) \cup SetOf(executed)
      /\ About' = air' \cup SetOf(queue') \cup SetOf(executed')
  BY DEF About, Pending, Executed, SetOf
<1> QED
  BY <1>1, <1>2, <1>3, <1>4

\* Everything about is a command.
LEMMA AboutTyped ==
  ASSUME Typed
  PROVE  /\ About \cup acked \cup clean \subseteq Commands
         /\ \A c \in Commands : c.by \in Procs /\ c.index \in Nat /\ c.num \in Nat
<1>1. SetOf(queue) \subseteq Commands /\ SetOf(executed) \subseteq Commands
  BY DEF SetOf, Typed, TypeOK
<1> QED
  BY <1>1, AboutIs DEF Typed, TypeOK, Commands

\* The command p waits for.
Current(p) == [by |-> p, index |-> sent[p], num |-> num[p]]

\* What Look changes, in the terms of the invariants.
LEMMA LookStep ==
  ASSUME NEW p \in Procs, Look(p)
  PROVE  /\ acked' = acked \/ (tele = num[p] /\ acked' = acked \cup {Current(p)})
         /\ UNCHANGED <<sent, num, clean>>
<1>1. CASE tele = num[p]
  BY <1>1 DEF Look, Current
<1>2. CASE tele # num[p]
  BY <1>2 DEF Look
<1> QED
  BY <1>1, <1>2

\* Nothing is about initially.
LEMMA CommandsInit == Init => CommandsInv
  BY DEF Init, CommandsInv, About, Pending, Executed

\* A new command has a new place among its sender's.
LEMMA CommandsStep == Typed /\ CommandsInv /\ [Next]_vars => CommandsInv'
<1> SUFFICES ASSUME Typed, CommandsInv, [Next]_vars
             PROVE  CommandsInv'
  OBVIOUS
<1>0. /\ About \cup acked \cup clean \subseteq Commands
      /\ \A c \in Commands : c.by \in Procs /\ c.index \in Nat /\ c.num \in Nat
      /\ sent \in [Procs -> Nat]
  BY AboutTyped DEF Typed, TypeOK
<1>1. ASSUME NEW p \in Procs, Send(p) PROVE CommandsInv'
  <2> DEFINE c == NewCommand(p)
  <2>1. /\ About' = About \cup {c} /\ sent' = [sent EXCEPT ![p] = sent[p] + 1]
        /\ clean' \subseteq clean \cup {c} /\ UNCHANGED acked
        /\ c.by = p /\ c.index = sent[p] + 1
    BY <1>1, SendStep DEF NewCommand
  <2> HIDE DEF c
  <2>2. \A d \in About \cup acked \cup clean : d.index <= sent[d.by] /\ d.index <= sent'[d.by]
    BY <1>0, <2>1 DEF CommandsInv
  <2>3. \A d \in (About \cup acked \cup clean)' : d.index <= sent'[d.by]
    BY <1>0, <2>1, <2>2
  <2>4. \A d \in About : ~(d.by = c.by /\ d.index = c.index)
    BY <1>0, <2>1, <2>2
  <2> QED
    BY <2>1, <2>3, <2>4 DEF CommandsInv
<1>2. ASSUME NEW p \in Procs, Look(p) PROVE CommandsInv'
  <2>1. /\ About' \subseteq About /\ UNCHANGED <<sent, clean>>
        /\ \A c \in acked' : c \in acked \/ (c.by = p /\ c.index = sent[p])
    <3>1. \A q \in Procs : ~Send(q)
      BY <1>2, <1>0 DEF Look, Send, At
    <3>2. About' \subseteq About
      BY <3>1, AboutStep
    <3> QED
      BY <1>2, <3>2, LookStep DEF Current
  <2> QED
    BY <1>0, <2>1 DEF CommandsInv
<1>3. CASE (\A p \in Procs : ~Send(p)) /\ UNCHANGED <<sent, acked, clean>>
  <2>1. About' \subseteq About
    BY <1>3, AboutStep
  <2> QED
    BY <1>3, <2>1 DEF CommandsInv
<1>4. \/ \E p \in Procs : Send(p) \/ Look(p)
      \/ (\A p \in Procs : ~Send(p)) /\ UNCHANGED <<sent, acked, clean>>
  BY DEF Next, Step, Stick, Signal, Environment, Stop, vars, sender, network, history,
         Begin, TryLock, TryProgram, Load, NextCommand, ClockStopped, EndProgram, Exit,
         SendFails, TimeOut, Unlock, Transmit, LoseCommand, DeliverCommand, DeliverAck
<1> QED
  BY <1>1, <1>2, <1>3, <1>4

\* The invariant of the commands.
LEMMA AlwaysCommands == Spec => [](Typed /\ NumbersInv /\ CommandsInv)
  BY TypedInit, TypedStep, NumbersInit, NumbersStep, CommandsInit, CommandsStep, PTL DEF Spec

\* No command is carried out twice, however often the network delivers it.
THEOREM Once == Spec => []ExecutedOnce
<1>1. ASSUME Typed, NumbersInv, CommandsInv PROVE ExecutedOnce
  <2> SUFFICES ASSUME NEW i \in DOMAIN executed, NEW j \in DOMAIN executed,
                      executed[i].by = executed[j].by, executed[i].index = executed[j].index
               PROVE  i = j
    BY DEF ExecutedOnce
  <2>1. executed[i] \in About /\ executed[j] \in About
    BY DEF About, Executed
  <2>2. executed[i] = executed[j]
    BY <1>1, <2>1 DEF CommandsInv
  <2>3. executed[i].num = i /\ executed[j].num = j
    BY <1>1 DEF NumbersInv, ExecutedInOrder
  <2> QED
    BY <2>2, <2>3
<1> QED
  BY AlwaysCommands, <1>1, PTL

(***************************************************************************)
(* What an acknowledgement is worth.                                       *)
(***************************************************************************)

\* While a process waits for a command it sent to no rival, no other command of
\* that number is about: nobody else can send.
NoRival ==
  \A p \in Procs :
    At(p, "waiting") =>
      /\ num[p] >= 1
      /\ Current(p) \in clean => \A d \in About : d.num = num[p] => d = Current(p)

TrustInv == NoRival /\ AckTrustworthy

Below == Typed /\ LockInv /\ NumbersInv /\ CommandsInv

\* Nobody waits and nothing is acknowledged initially.
LEMMA TrustInit == Init => TrustInv
  BY DEF Init, TrustInv, NoRival, AckTrustworthy, At

\* The command of a number that has been reached was carried out.
LEMMA ReachedExecuted ==
  ASSUME Typed, NumbersInv, NEW n \in Nat, 1 <= n, n <= seqNum
  PROVE  \E c \in Executed : c.num = n
<1>1. n \in DOMAIN executed
  BY DEF Typed, TypeOK, NumbersInv, ExecutedInOrder
<1> QED
  BY <1>1 DEF NumbersInv, ExecutedInOrder, Executed

\* The process that waits keeps the others from sending its number.
LEMMA TrustStep == Below /\ TrustInv /\ [Next]_vars => TrustInv'
<1> SUFFICES ASSUME Below, TrustInv, [Next]_vars
             PROVE  TrustInv'
  OBVIOUS
<1>0. /\ Typed /\ LockInv /\ NumbersInv /\ CommandsInv
      /\ About \cup acked \cup clean \subseteq Commands
      /\ \A c \in Commands : c.by \in Procs /\ c.index \in Nat /\ c.num \in Nat
      /\ sent \in [Procs -> Nat] /\ num \in [Procs -> Nat] /\ view \in [Procs -> Nat]
      /\ pc \in [Procs -> Places] /\ seqNum \in Nat
      /\ Executed \subseteq About
  BY AboutTyped DEF Below, Typed, TypeOK, Places, About
<1>1. ASSUME NEW p \in Procs, Send(p) PROVE TrustInv'
  <2> DEFINE c == NewCommand(p)
  <2>1. /\ c \in Commands
        /\ About' = About \cup {c} /\ UNCHANGED executed
        /\ sent' = [sent EXCEPT ![p] = sent[p] + 1]
        /\ num' = [num EXCEPT ![p] = view[p] + 1]
        /\ clean' = IF Fresh(p) THEN clean \cup {c} ELSE clean
        /\ pc' = [pc EXCEPT ![p] = "waiting"]
        /\ UNCHANGED <<acked, seqNum, tele>>
    BY <1>0, <1>1, SendStep
  <2>2. c.by = p /\ c.index = sent[p] + 1 /\ c.num = view[p] + 1
    BY DEF NewCommand
  <2>3. Current(p)' = c
    BY <1>0, <2>1 DEF Current, NewCommand
  <2> HIDE DEF c
  <2>4. c \notin acked \cup clean
    BY <1>0, <2>1, <2>2 DEF CommandsInv
  <2>5. ASSUME NEW q \in Procs, At(q, "waiting")' PROVE q = p
    <3>1. Sending(p) /\ At(p, "locked")
      BY <1>1 DEF Send, At, Sending
    <3>2. q # p => Sending(q)
      BY <1>0, <2>1, <2>5 DEF At, Sending
    <3> QED
      BY <1>0, <3>1, <3>2 DEF LockInv, Entitled, CommandExact
  <2>6. ASSUME c \in clean', NEW d \in About', d.num = c.num PROVE d = c
    <3>1. Fresh(p)
      BY <2>1, <2>4, <2>6
    <3>2. \A e \in Executed : e.num <= seqNum
      BY <1>0 DEF NumbersInv, ExecutedInOrder, Executed, Typed, TypeOK
    <3>3. \A e \in About : e.num # c.num
      BY <1>0, <2>2, <3>1, <3>2 DEF Fresh, About
    <3> QED
      BY <2>1, <2>6, <3>3
  <2>7. NoRival'
    <3>1. num'[p] = c.num /\ num'[p] >= 1
      BY <1>0, <2>1, <2>2
    <3> QED
      BY <2>3, <2>5, <2>6, <3>1 DEF NoRival
  <2>8. AckTrustworthy'
    BY <2>1, <2>4 DEF TrustInv, AckTrustworthy, Executed
  <2> QED
    BY <2>7, <2>8 DEF TrustInv
<1>2. ASSUME NEW p \in Procs, Look(p) PROVE TrustInv'
  <2>1. \A q \in Procs : ~Send(q)
    BY <1>0, <1>2 DEF Look, Send, At
  <2>2. /\ About' \subseteq About /\ Executed \subseteq Executed'
        /\ UNCHANGED <<sent, num, clean>>
        /\ At(p, "waiting")
    BY <1>0, <1>2, <2>1, AboutStep DEF Look
  <2>3. \A q \in Procs : At(q, "waiting")' => At(q, "waiting")
    BY <1>0, <1>2 DEF Look, At, Goto
  <2>4. \A q \in Procs : Current(q)' = Current(q)
    BY <2>2 DEF Current
  <2>5. NoRival'
    BY <2>2, <2>3, <2>4 DEF TrustInv, NoRival
  <2>6. ASSUME tele = num[p], Current(p) \in clean PROVE Current(p) \in Executed
    <3>1. num[p] \in Nat /\ 1 <= num[p] /\ num[p] <= seqNum
      BY <1>0, <2>2, <2>6 DEF TrustInv, NoRival, NumbersInv, NumbersBounded
    <3>2. PICK e \in Executed : e.num = num[p]
      BY <1>0, <3>1, ReachedExecuted
    <3> QED
      BY <1>0, <2>2, <2>6, <3>2 DEF TrustInv, NoRival
  <2>7. acked' = acked \/ (tele = num[p] /\ acked' = acked \cup {Current(p)})
    BY <1>2, LookStep
  <2>8. AckTrustworthy'
    BY <2>2, <2>6, <2>7 DEF TrustInv, AckTrustworthy
  <2> QED
    BY <2>5, <2>8 DEF TrustInv
<1>3. CASE /\ \A p \in Procs : ~Send(p)
           /\ UNCHANGED <<sent, num, clean, acked>>
           /\ \A p \in Procs : At(p, "waiting")' => At(p, "waiting")
  <2>1. About' \subseteq About /\ Executed \subseteq Executed'
    BY <1>0, <1>3, AboutStep
  <2>2. \A q \in Procs : Current(q)' = Current(q)
    BY <1>3 DEF Current
  <2> QED
    BY <1>3, <2>1, <2>2 DEF TrustInv, NoRival, AckTrustworthy
<1>4. ASSUME NEW p \in Procs, Step(p) \/ Stick(p) \/ Signal(p), ~Send(p), ~Look(p)
      PROVE  /\ \A q \in Procs : ~Send(q)
             /\ UNCHANGED <<sent, num, clean, acked>>
             /\ \A q \in Procs : At(q, "waiting")' => At(q, "waiting")
  <2>1. UNCHANGED <<queue, sent, num, clean, acked>>
    BY <1>4 DEF Step, Stick, Signal, sender, network, history,
                Begin, TryLock, TryProgram, Load, NextCommand, ClockStopped, EndProgram, Exit,
                SendFails, TimeOut, Unlock
  <2>2. UNCHANGED pc \/ \E l \in Places \ {"waiting"} : Goto(p, l)
    BY <1>4 DEF Step, Stick, Signal, Places, Locks,
                Begin, TryLock, TryProgram, Load, NextCommand, ClockStopped, EndProgram, Exit,
                SendFails, TimeOut, Unlock
  <2>3. \A q \in Procs : ~Send(q)
    BY <1>0, <2>1 DEF Send, Typed, TypeOK
  <2>4. \A q \in Procs : At(q, "waiting")' => At(q, "waiting")
    BY <1>0, <2>2 DEF At, Goto
  <2> QED
    BY <2>1, <2>3, <2>4
<1>5. CASE Environment \/ UNCHANGED vars
  <2>1. UNCHANGED <<pc, sent, num, clean, acked>>
    BY <1>5 DEF Environment, Transmit, LoseCommand, DeliverCommand, DeliverAck,
                vars, sender, history
  <2>2. \A q \in Procs : ~Send(q)
    BY <1>0, <2>1 DEF Send, Typed, TypeOK
  <2> QED
    BY <1>3, <2>1, <2>2 DEF At
<1> QED
  BY <1>1, <1>2, <1>3, <1>4, <1>5 DEF Next, Stop

\* An acknowledgement of a command that had the controller's next number and
\* no rival means that this command was carried out.
THEOREM Trust == Spec => []AckTrustworthy
<1>1. Init => Below /\ TrustInv
  BY TypedInit, LockInit, NumbersInit, CommandsInit, TrustInit DEF Below
<1>2. Below /\ TrustInv /\ [Next]_vars => (Below /\ TrustInv)'
  BY TypedStep, LockStep, NumbersStep, CommandsStep, TrustStep DEF Below
<1>3. Below /\ TrustInv => AckTrustworthy
  BY DEF TrustInv
<1> QED
  BY <1>1, <1>2, <1>3, PTL DEF Spec
=============================================================================
