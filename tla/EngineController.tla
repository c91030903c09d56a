-------------------------- MODULE EngineController --------------------------
(***************************************************************************)
(* Commands to the engine controller: ec_cmd and ec_program, the vehicle   *)
(* locks (vlock) they share, the message queue of the uplink process, the  *)
(* network, and the controller as sim/ec_sim has it.                       *)
(*                                                                         *)
(* A command carries one more than the sequence number the sender last saw *)
(* in the telemetry.  The controller takes the command that is one ahead   *)
(* of it, and answers every command with the number it has reached.  The   *)
(* sender waits until the telemetry shows the number of its command.       *)
(*                                                                         *)
(* A command is known by its sender and its place among the sender's       *)
(* commands.  The network loses, repeats and reorders in both directions:  *)
(* a message in it is delivered any number of times, or never.  A command  *)
(* may also vanish, so that a later one has no rival.                      *)
(***************************************************************************)
EXTENDS Naturals, Sequences, FiniteSets

CONSTANTS
  Commanders,      \* runs of ec_cmd
  Programs,        \* runs of ec_program
  Length,          \* the commands each program has
  QueueSize,       \* messages the uplink queue holds
  NumRetransmits,  \* NUM_RETRANSMITS
  Signalled        \* programs that may be sent a signal

Procs == Commanders \cup Programs
Resources == {"PROGRAM", "COMMAND"}

ASSUME CommandAssumption ==
  /\ Commanders \cap Programs = {}
  /\ IsFiniteSet(Procs)
  /\ Length \in [Programs -> Nat]
  /\ QueueSize \in Nat \ {0}
  /\ NumRetransmits \in Nat \ {0}
  /\ Signalled \subseteq Programs

NumCommands(p) == IF p \in Programs THEN Length[p] ELSE 1
Commands == [by : Procs, index : Nat, num : Nat]

VARIABLES
  sem,       \* the vehicle locks
  holds,     \* what each process took and did not give back, dead or alive
  pc,
  view,      \* the sequence number in the viewer's copy of the telemetry
  num,       \* cmd_num of the command under way
  sent,      \* commands each process has queued
  retries,   \* retransmit_count
  queue,     \* the uplink's message queue
  air,       \* commands on the network
  acks,      \* acknowledgements on the network
  tele,      \* the sequence number in telemetry shared memory
  seqNum,    \* the controller's seq_num
  executed,  \* the commands the controller has carried out, in order
  acked,     \* the commands whose senders report "command acknowledged"
  clean,     \* the commands sent with the controller's next number to no rival
  stray      \* posts of PROGRAM by a process that did not hold it

locks == <<sem, holds, stray>>
sender == <<view, num, sent, retries>>
network == <<queue, air, acks, tele>>
controller == <<seqNum, executed>>
history == <<acked, clean>>
vars == <<locks, pc, sender, network, controller, history>>

TypeOK ==
  /\ sem \in [Resources -> Nat]
  /\ holds \in [Procs -> SUBSET Resources]
  /\ pc \in [Procs -> {"start", "loading", "ready", "locked", "waiting", "acked",
                       "ending", "hanging", "stuck", "done"}]
  /\ view \in [Procs -> Nat]
  /\ num \in [Procs -> Nat]
  /\ sent \in [Procs -> Nat]
  /\ retries \in [Procs -> 0 .. NumRetransmits]
  /\ queue \in Seq(Commands) /\ Len(queue) <= QueueSize
  /\ air \subseteq Commands
  /\ acks \subseteq Nat
  /\ tele \in Nat
  /\ seqNum \in Nat
  /\ executed \in Seq(Commands)
  /\ acked \subseteq Commands
  /\ clean \subseteq Commands
  /\ stray \in Nat

\* The controller has announced itself: its first acknowledgement has arrived.
Init ==
  /\ sem = [r \in Resources |-> 1]
  /\ holds = [p \in Procs |-> {}]
  /\ pc = [p \in Procs |-> "start"]
  /\ view = [p \in Procs |-> 0]
  /\ num = [p \in Procs |-> 0]
  /\ sent = [p \in Procs |-> 0]
  /\ retries = [p \in Procs |-> 0]
  /\ queue = << >>
  /\ air = {}
  /\ acks = {}
  /\ tele = 0
  /\ seqNum = 0
  /\ executed = << >>
  /\ acked = {}
  /\ clean = {}
  /\ stray = 0

-----------------------------------------------------------------------------
(* vlock *)
At(p, l) == pc[p] = l
Goto(p, l) == pc' = [pc EXCEPT ![p] = l]

\* Mutant: the resource is taken whether it is free or not.
TakeAnyway(p, r) ==
  /\ sem' = [sem EXCEPT ![r] = IF @ > 0 THEN @ - 1 ELSE 0]
  /\ holds' = [holds EXCEPT ![p] = @ \cup {r}]
  /\ UNCHANGED stray

Take(p, r) ==
  /\ sem[r] > 0
  /\ sem' = [sem EXCEPT ![r] = @ - 1]
  /\ holds' = [holds EXCEPT ![p] = @ \cup {r}]
  /\ UNCHANGED stray

\* Mutant: unlock stops at one, like a mutex.
ReleaseOnce(p, r) ==
  /\ sem' = [sem EXCEPT ![r] = 1]
  /\ holds' = [holds EXCEPT ![p] = @ \ {r}]
  /\ stray' = IF r \in holds[p] THEN stray ELSE stray + 1

\* unlock posts, whoever calls it.
Release(p, r) ==
  /\ sem' = [sem EXCEPT ![r] = @ + 1]
  /\ holds' = [holds EXCEPT ![p] = @ \ {r}]
  /\ stray' = IF r \in holds[p] THEN stray ELSE stray + 1

\* try_lock, and lock with a timeout, which has always run out already: the
\* deadline is cut to 32 bits of milliseconds.
Locks(p, r, l) ==
  \/ Take(p, r) /\ Goto(p, l)
  \/ sem[r] = 0 /\ Goto(p, "done") /\ UNCHANGED locks

-----------------------------------------------------------------------------
(* ec_cmd up to the lock *)

\* The telemetry is read before the lock is tried.
Begin(p) ==
  /\ p \in Commanders
  /\ At(p, "start")
  /\ \/ view' = [view EXCEPT ![p] = tele] /\ Goto(p, "ready")
     \/ UNCHANGED view /\ Goto(p, "done")
  /\ UNCHANGED <<locks, num, sent, retries, network, controller, history>>

TryLock(p) ==
  /\ p \in Commanders
  /\ At(p, "ready")
  /\ Locks(p, "COMMAND", "locked")
  /\ UNCHANGED <<sender, network, controller, history>>

(* ec_program up to the lock *)
TryProgram(p) ==
  /\ p \in Programs
  /\ At(p, "start")
  /\ Locks(p, "PROGRAM", "loading")
  /\ UNCHANGED <<sender, network, controller, history>>

\* A program that cannot be loaded gives the lock back, or forgets to.
Load(p) ==
  /\ At(p, "loading")
  /\ \/ view' = [view EXCEPT ![p] = tele] /\ Goto(p, "ready") /\ UNCHANGED locks
     \/ UNCHANGED view /\ Goto(p, "done") /\ Release(p, "PROGRAM")
     \/ UNCHANGED view /\ Goto(p, "done") /\ UNCHANGED locks
  /\ UNCHANGED <<num, sent, retries, network, controller, history>>

\* The next event is a command and its time has come.
NextCommand(p) ==
  /\ p \in Programs
  /\ At(p, "ready")
  /\ sent[p] < Length[p]
  /\ \/ Take(p, "COMMAND") /\ Goto(p, "locked")
     \/ sem["COMMAND"] = 0 /\ Release(p, "PROGRAM") /\ Goto(p, "done")
  /\ UNCHANGED <<sender, network, controller, history>>

ClockStopped(p) ==
  /\ p \in Programs
  /\ At(p, "ready")
  /\ sent[p] < Length[p]
  /\ Release(p, "PROGRAM")
  /\ Goto(p, "done")
  /\ UNCHANGED <<sender, network, controller, history>>

-----------------------------------------------------------------------------
(* Sending a command and waiting for its acknowledgement, in both *)
Pending == air \cup {queue[i] : i \in DOMAIN queue}

\* The command goes out with the number after the one in the view.
Send(p) ==
  LET c == [by |-> p, index |-> sent[p] + 1, num |-> view[p] + 1]
  IN  /\ At(p, "locked")
      /\ Len(queue) < QueueSize
      /\ queue' = Append(queue, c)
      /\ num' = [num EXCEPT ![p] = c.num]
      /\ sent' = [sent EXCEPT ![p] = c.index]
      /\ retries' = [retries EXCEPT ![p] = 0]
      /\ clean' = IF view[p] = seqNum /\ (\A d \in Pending : d.num # c.num)
                    THEN clean \cup {c} ELSE clean
      /\ Goto(p, "waiting")
      /\ UNCHANGED <<locks, view, air, acks, tele, controller, acked>>

\* The queue is full.  ec_cmd unlocks; ec_program leaves both locks taken.
SendFails(p) ==
  /\ At(p, "locked")
  /\ Len(queue) = QueueSize
  /\ IF p \in Commanders THEN Release(p, "COMMAND") ELSE UNCHANGED locks
  /\ Goto(p, "done")
  /\ UNCHANGED <<sender, network, controller, history>>

\* Mutant: any news is taken for the acknowledgement.
LookAny(p) ==
  /\ At(p, "waiting")
  /\ view[p] # tele
  /\ view' = [view EXCEPT ![p] = tele]
  /\ Goto(p, "acked")
  /\ acked' = acked \cup {[by |-> p, index |-> sent[p], num |-> num[p]]}
  /\ UNCHANGED <<locks, num, sent, retries, network, controller, clean>>

\* An update of the view; the wait ends when it shows the command's number.
Look(p) ==
  /\ At(p, "waiting")
  /\ view[p] # tele
  /\ view' = [view EXCEPT ![p] = tele]
  /\ IF tele = num[p]
       THEN /\ Goto(p, "acked")
            /\ acked' = acked \cup {[by |-> p, index |-> sent[p], num |-> num[p]]}
       ELSE UNCHANGED <<pc, acked>>
  /\ UNCHANGED <<locks, num, sent, retries, network, controller, clean>>

\* Mutant: the retransmission count starts anew.
TimeOutForever(p) ==
  /\ At(p, "waiting")
  /\ retries' = [retries EXCEPT ![p] = IF @ + 1 = NumRetransmits THEN 0 ELSE @ + 1]
  /\ UNCHANGED <<locks, pc, view, num, sent, network, controller, history>>

\* TIMEOUT has passed without the number.  "retransmitting command" is logged
\* and nothing sent; the last time gives up, ec_program with PROGRAM taken.
TimeOut(p) ==
  /\ At(p, "waiting")
  /\ retries' = [retries EXCEPT ![p] = @ + 1]
  /\ IF retries[p] + 1 = NumRetransmits
       THEN Release(p, "COMMAND") /\ Goto(p, "done")
       ELSE UNCHANGED <<locks, pc>>
  /\ UNCHANGED <<view, num, sent, network, controller, history>>

Unlock(p) ==
  /\ At(p, "acked")
  /\ Release(p, "COMMAND")
  /\ Goto(p, IF p \in Commanders THEN "done" ELSE "ready")
  /\ UNCHANGED <<sender, network, controller, history>>

\* The last event is done.  The process lives on a little.
EndProgram(p) ==
  /\ p \in Programs
  /\ At(p, "ready")
  /\ sent[p] = Length[p]
  /\ Release(p, "PROGRAM")
  /\ Goto(p, "ending")
  /\ UNCHANGED <<sender, network, controller, history>>

Exit(p) ==
  /\ At(p, "ending")
  /\ Goto(p, "done")
  /\ UNCHANGED <<locks, sender, network, controller, history>>

\* A call may never return: the logger waits while dlp's queue is full, and an
\* update where a signal has left a semaphore of the telemetry taken.  Nothing is
\* logged between "locked" and "waiting" or between "acked" and Unlock, unless
\* the send fails.  A signal still ends a program where it does not ignore it.
Stick(p) ==
  /\ \/ p \in Programs /\ pc[p] \in {"loading", "ready", "ending"} /\ Goto(p, "hanging")
     \/ p \in Commanders /\ At(p, "ready") /\ Goto(p, "stuck")
     \/ pc[p] \in {"start", "waiting"} /\ Goto(p, "stuck")
     \/ At(p, "locked") /\ Len(queue) = QueueSize /\ Goto(p, "stuck")
  /\ UNCHANGED <<locks, sender, network, controller, history>>

\* sighandler of ec_program, where ignore_sig is false: the handler posts
\* PROGRAM and ends the process, whether it holds the lock or not.
Signal(p) ==
  /\ p \in Signalled
  /\ pc[p] \in {"start", "loading", "ready", "ending", "hanging"}
  /\ Release(p, "PROGRAM")
  /\ Goto(p, "done")
  /\ UNCHANGED <<sender, network, controller, history>>

-----------------------------------------------------------------------------
(* uplink, network, controller, decom *)
Transmit ==
  /\ queue # << >>
  /\ queue' = Tail(queue)
  /\ air' = air \cup {Head(queue)}
  /\ UNCHANGED <<locks, pc, sender, acks, tele, controller, history>>

LoseCommand(c) ==
  /\ air' = air \ {c}
  /\ UNCHANGED <<locks, pc, sender, queue, acks, tele, controller, history>>

\* Mutant: an old command is carried out again.
ReceiveAny(c) ==
  /\ seqNum' = seqNum + 1
  /\ executed' = Append(executed, c)
  /\ acks' = acks \cup {seqNum'}

\* The controller takes the command whose turn it is and answers each.
Receive(c) ==
  /\ IF c.num = seqNum + 1
       THEN seqNum' = c.num /\ executed' = Append(executed, c)
       ELSE UNCHANGED controller
  /\ acks' = acks \cup {seqNum'}

DeliverCommand(c) ==
  /\ Receive(c)
  /\ UNCHANGED <<locks, pc, sender, queue, air, tele, history>>

\* decom writes what arrives, in the order it arrives.
DeliverAck(n) ==
  /\ tele # n
  /\ tele' = n
  /\ UNCHANGED <<locks, pc, sender, queue, air, acks, controller, history>>

-----------------------------------------------------------------------------
Step(p) ==
  \/ Begin(p) \/ TryLock(p)
  \/ TryProgram(p) \/ Load(p) \/ NextCommand(p) \/ ClockStopped(p) \/ EndProgram(p) \/ Exit(p)
  \/ Send(p) \/ SendFails(p) \/ Look(p) \/ TimeOut(p) \/ Unlock(p)

Environment ==
  \/ Transmit
  \/ \E c \in air : LoseCommand(c) \/ DeliverCommand(c)
  \/ \E n \in acks : DeliverAck(n)

\* In ec_program, waiting for the clock to be started or for the time of an event.
Awaits(p) == p \in Programs /\ At(p, "ready")

\* Nobody is left to send a command.
Gone(p) == pc[p] \in {"hanging", "stuck", "done"}
Stop == (\A p \in Procs : Gone(p)) /\ UNCHANGED vars

Next == (\E p \in Procs : Step(p) \/ Stick(p) \/ Signal(p)) \/ Environment \/ Stop

Spec == Init /\ [][Next]_vars

\* A process that can take a step takes one or sticks, but a program may wait for
\* the clock for ever; and time passes: the deadline is looked at before each
\* update, so that news cannot put it off for ever.
FairSpec == Spec /\ \A p \in Procs : WF_vars(~Awaits(p) /\ Step(p)) /\ WF_vars(TimeOut(p))

-----------------------------------------------------------------------------
\* vlock: one process at a time holds COMMAND, through every failure and
\* signal; a lock is free exactly when nobody, dead or alive, has it, and what
\* PROGRAM has beyond that are the posts of processes that did not hold it.
Holders(r) == {p \in Procs : r \in holds[p]}
CommandExclusion == \A p, q \in Holders("COMMAND") : p = q
LocksExact ==
  /\ sem["COMMAND"] + Cardinality(Holders("COMMAND")) = 1
  /\ sem["PROGRAM"] + Cardinality(Holders("PROGRAM")) = 1 + stray

\* ec_sim carries commands out in the order of their numbers, one for each,
\* whatever the network repeats or reorders.
ExecutedInOrder ==
  /\ seqNum = Len(executed)
  /\ \A i \in DOMAIN executed : executed[i].num = i
ExecutedOnce ==
  \A i, j \in DOMAIN executed :
    executed[i].by = executed[j].by /\ executed[i].index = executed[j].index => i = j

\* "command acknowledged" is not reported before the controller has reached
\* the command's number, however late or often acknowledgements arrive.
AckedWasReached == \A c \in acked : c.num <= seqNum

\* It means that the command was carried out, if it was sent with the
\* controller's next number and no older command with that number was under
\* way: nobody else can send one while COMMAND is held.
Executed == {executed[i] : i \in DOMAIN executed}
AckTrustworthy == acked \cap clean \subseteq Executed

\* However the network and the others behave, every process ends, unless one of its
\* calls never returns or it waits for the clock; and who is neither stuck nor a
\* program whose message could not be queued has given COMMAND back.
AllEnd ==
  \A p \in Procs :
    <>[](/\ Gone(p) \/ Awaits(p)
         /\ "COMMAND" \in holds[p] => At(p, "stuck") \/ (p \in Programs /\ sent[p] < Length[p]))

\* ec_program on the sequence number, with someone else sending commands: "that
\* should cause a failed ack ... this should be fine".
AckMeansExecuted == acked \subseteq Executed
=============================================================================
