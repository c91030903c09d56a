----------------------------- MODULE ProcessTree -----------------------------
(***************************************************************************)
(* The processes of decom and of uplink.  The master reads the vehicle's   *)
(* configuration, forks a child for every downlink packet (decom) or every *)
(* network device (uplink) and waits for them.  A signal to the master is  *)
(* passed on to the children.                                              *)
(*                                                                         *)
(* Process 0 is the master, process c the child of the c-th fork.  A fork  *)
(* copies the memory of the master, so each process has an ignore_kill and *)
(* a child_proc of its own, and the pids of the children before it.        *)
(***************************************************************************)
EXTENDS VehicleConfig

CONSTANTS
  MaxChildren,  \* bound: children of a master
  MaxSignals,   \* bound: signals sent by an operator
  MaxFailures   \* bound: forks that fail, and children that cannot initialise

ASSUME TreeAssumption == MaxChildren \in Nat

VARIABLES
  state,        \* where each process is
  job,          \* the fork the master is at
  ignore_kill,  \* the flags of each process
  child_proc,
  killed,       \* children of decom whose handler has run
  pids,         \* what the master's forks returned: children, or Failed
  reaping,      \* the place in pids each process' handler is at, 0 outside of it
  pending,      \* processes with a signal that is not yet delivered
  signals,      \* signals sent by the operator so far
  failures,     \* failures so far
  stuck,        \* processes in a call that never returns
  ignored       \* history: processes that ignored a signal

flags == <<ignore_kill, child_proc, killed>>
treeVars == <<state, job, flags, pids, reaping, pending, signals, failures, stuck, ignored>>

Children == 1 .. MaxChildren
Procs == 0 .. MaxChildren
Failed == -1   \* what a failed fork returns, pushed to pids like the others

\* What is forked for: the packets that are not virtual, or the devices.
Jobs ==
  IF kind = "decom" THEN SelectSeq(packets, LAMBDA p : p.port # Virtual) ELSE net_devices

Alive(p) == state[p] \notin {"none", "exited", "reaped"}
Goto(p, s) == state' = [state EXCEPT ![p] = s]
\* The process runs its own code, not a handler.
At(p, s) == state[p] = s /\ reaping[p] = 0 /\ p \notin stuck

TreeInit ==
  /\ state = [p \in Procs |-> IF p = 0 THEN "reading" ELSE "none"]
  /\ job = 1
  /\ ignore_kill = [p \in Procs |-> FALSE]
  /\ child_proc = [p \in Procs |-> FALSE]
  /\ killed = {} /\ pids = <<>>
  /\ reaping = [p \in Procs |-> 0]
  /\ pending = {} /\ signals = 0 /\ failures = 0
  /\ stuck = {} /\ ignored = {}

\* Mutant: signals are not ignored while the children are made.
BeginOpenly ==
  /\ At(0, "reading") /\ status # "reading"
  /\ Goto(0, IF status = "ok" THEN "forking" ELSE "exited")
  /\ UNCHANGED <<job, flags, pids, reaping, pending, signals, failures, stuck, ignored>>

\* main, after VCM::init.
Begin ==
  /\ At(0, "reading") /\ status # "reading"
  /\ IF status = "ok"
     THEN Goto(0, "forking") /\ ignore_kill' = [ignore_kill EXCEPT ![0] = TRUE]
     ELSE Goto(0, "exited") /\ UNCHANGED ignore_kill
  /\ UNCHANGED <<job, child_proc, killed, pids, reaping, pending, signals, failures, stuck, ignored>>

\* fork: the child has the memory of the master; its pid is pushed in a step of its own.
Fork ==
  /\ At(0, "forking") /\ job <= Len(Jobs) /\ Len(pids) = job - 1
  /\ Goto(job, "born")
  /\ ignore_kill' = [ignore_kill EXCEPT ![job] = ignore_kill[0]]
  /\ job' = job + 1
  /\ UNCHANGED <<child_proc, killed, pids, reaping, pending, signals, failures, stuck, ignored>>

PushPid ==
  /\ At(0, "forking") /\ Len(pids) < job - 1
  /\ pids' = Append(pids, job - 1)
  /\ UNCHANGED <<state, job, flags, reaping, pending, signals, failures, stuck, ignored>>

ForkFails ==
  /\ At(0, "forking") /\ job <= Len(Jobs) /\ Len(pids) = job - 1
  /\ failures < MaxFailures
  /\ failures' = failures + 1
  /\ job' = job + 1
  /\ pids' = Append(pids, Failed)
  /\ UNCHANGED <<state, flags, reaping, pending, signals, stuck, ignored>>

Forked ==
  /\ At(0, "forking") /\ job > Len(Jobs) /\ Len(pids) = job - 1
  /\ ignore_kill' = [ignore_kill EXCEPT ![0] = FALSE]
  /\ Goto(0, "waiting")
  /\ UNCHANGED <<job, child_proc, killed, pids, reaping, pending, signals, failures, stuck, ignored>>

\* A child: child_proc, then ignore_kill, then execute.
MarkChild(c) ==
  /\ At(c, "born")
  /\ child_proc' = [child_proc EXCEPT ![c] = TRUE]
  /\ Goto(c, "marked")
  /\ UNCHANGED <<job, ignore_kill, killed, pids, reaping, pending, signals, failures, stuck, ignored>>

ListenChild(c) ==
  /\ At(c, "marked")
  /\ ignore_kill' = [ignore_kill EXCEPT ![c] = FALSE]
  /\ Goto(c, "initialising")
  /\ UNCHANGED <<job, child_proc, killed, pids, reaping, pending, signals, failures, stuck, ignored>>

\* The socket, the block of addresses and the telemetry blocks: without them the child
\* returns.
InitChild(c) ==
  /\ At(c, "initialising")
  /\ \/ Goto(c, "looping") /\ UNCHANGED failures
     \/ failures < MaxFailures /\ failures' = failures + 1 /\ Goto(c, "exited")
  /\ UNCHANGED <<job, flags, pids, reaping, pending, signals, stuck, ignored>>

\* decom's loop: rx times out after a second, and the loop ends when killed is set, unless a
\* packet that came in does not get through (see Stick).
LoopEnds(c) ==
  /\ At(c, "looping") /\ c \in killed
  /\ Goto(c, "exited")
  /\ UNCHANGED <<job, flags, pids, reaping, pending, signals, failures, stuck, ignored>>

\* wait: a child that has ended, or none is left.
Wait ==
  /\ At(0, "waiting")
  /\ \/ \E c \in Children : state[c] = "exited" /\ Goto(c, "reaped")
     \/ (\A c \in Children : state[c] \in {"none", "reaped"}) /\ Goto(0, "exited")
  /\ UNCHANGED <<job, flags, pids, reaping, pending, signals, failures, stuck, ignored>>

\* A call that never returns: a message or a packet for a log whose queue is full and that
\* nobody reads any more, in any code that logs and in the handler, or telemetry whose
\* semaphores somebody left taken.  In the second case a handler still runs, but nothing
\* tests what it sets.  Between fork and listening only the handler logs.
Stick(p) ==
  /\ Alive(p) /\ p \notin stuck /\ (state[p] \in {"born", "marked"} => p \in pending)
  /\ stuck' = stuck \cup {p}
  /\ UNCHANGED <<state, job, flags, pids, reaping, pending, signals, failures, ignored>>

-----------------------------------------------------------------------------
(* Signals.                                                                 *)

\* An operator: to the foreground group (ctrl-C) or to the master alone.
SendSignal(to) ==
  /\ Alive(0) /\ signals < MaxSignals
  /\ signals' = signals + 1
  /\ pending' = pending \cup {p \in to : Alive(p)}
  /\ UNCHANGED <<state, job, flags, pids, reaping, failures, stuck, ignored>>

\* sighandler: ignored, or the master starts to reap, or the child ends: decom's after
\* its loop, uplink's at once.
Deliver(p) ==
  /\ p \in pending /\ Alive(p) /\ reaping[p] = 0 /\ p \notin stuck
  /\ pending' = pending \ {p}
  /\ IF ignore_kill[p]
     THEN ignored' = ignored \cup {p} /\ UNCHANGED <<state, killed, reaping>>
     ELSE /\ UNCHANGED ignored
          /\ IF ~child_proc[p]
             THEN reaping' = [reaping EXCEPT ![p] = 1] /\ UNCHANGED <<state, killed>>
             ELSE IF kind = "decom"
             THEN killed' = killed \cup {p} /\ UNCHANGED <<state, reaping>>
             ELSE Goto(p, "exited") /\ UNCHANGED <<killed, reaping>>
  /\ UNCHANGED <<job, ignore_kill, child_proc, pids, signals, failures, stuck>>

\* The pids a process knows.
PidsOf(p) == IF p = 0 THEN pids ELSE SubSeq(pids, 1, p - 1)

\* Mutant: the loop stops one short.
KillAllButLast(p) ==
  LET i == reaping[p]
      pid == PidsOf(p)[i]
  IN  /\ Alive(p) /\ p \notin stuck /\ i \in 1 .. Len(PidsOf(p))
      /\ pending' = pending \cup {q \in Children : q = pid /\ Alive(q) /\ i < Len(PidsOf(p))}
      /\ reaping' = [reaping EXCEPT ![p] = i + 1]
      /\ UNCHANGED <<state, job, flags, pids, signals, failures, stuck, ignored>>

\* The handler's loop over pids: kill; of -1 it signals every process but its own, of which
\* only those of the tree are in the model.
KillNext(p) ==
  LET i == reaping[p]
      pid == PidsOf(p)[i]
      to == IF pid = Failed THEN {q \in Procs \ {p} : Alive(q)} ELSE {q \in {pid} : Alive(q)}
  IN  /\ Alive(p) /\ p \notin stuck /\ i \in 1 .. Len(PidsOf(p))
      /\ pending' = pending \cup to
      /\ reaping' = [reaping EXCEPT ![p] = i + 1]
      /\ UNCHANGED <<state, job, flags, pids, signals, failures, stuck, ignored>>

\* exit, at the end of the handler.
EndHandler(p) ==
  /\ Alive(p) /\ p \notin stuck /\ reaping[p] > Len(PidsOf(p))
  /\ Goto(p, "exited")
  /\ UNCHANGED <<job, flags, pids, reaping, pending, signals, failures, stuck, ignored>>

MasterStep == Begin \/ Fork \/ PushPid \/ ForkFails \/ Forked \/ Wait

ChildStep(c) == MarkChild(c) \/ ListenChild(c) \/ InitChild(c) \/ LoopEnds(c)

HandlerStep(p) == Deliver(p) \/ KillNext(p) \/ EndHandler(p)

TreeProgress ==
  \/ MasterStep
  \/ \E c \in Children : ChildStep(c)
  \/ \E p \in Procs : HandlerStep(p)

TreeNext ==
  \/ TreeProgress
  \/ SendSignal(Procs)
  \/ SendSignal({0})
  \/ \E p \in Procs : Stick(p)

-----------------------------------------------------------------------------
(* Properties.                                                              *)

\* "we don't want to get killed while spawning children, we may lose track of a child"
\* (uplink.cpp:143) and "we dont want multiple processes trying to kill each other"
\* (decom.cpp:222): only the master reaps, and it then knows every child there is.
MasterReapsAll ==
  \A p \in Procs : reaping[p] # 0 =>
    p = 0 /\ {c \in Children : state[c] # "none"} \subseteq Range(pids)

\* When the master ends, by a signal or as no child is left, every child ends, but one that
\* had a signal before it could take it, which ignores it and goes on without a master, and
\* one that stands in a call that never returns: its log has lost its reader, or telemetry
\* its semaphores.
ChildrenFollow ==
  state[0] = "exited" ~>
    \A c \in Children : Alive(c) => c \in ignored \cup stuck

=============================================================================
