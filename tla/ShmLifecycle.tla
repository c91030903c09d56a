---------------------------- MODULE ShmLifecycle ----------------------------
(***************************************************************************)
(* The life of the shared memory: shmctl -on creates the blocks of         *)
(* TelemetryShm, NmShm, CountdownClock and vlock, shmctl -off destroys     *)
(* them, and TelemetryShm::open attaches to those of telemetry, while      *)
(* other runs of shmctl are under way.                                     *)
(*                                                                         *)
(* A run is a script of calls of Shm, one per step.  A failure skips the   *)
(* rest of its part: telemetry, or one of the other libraries.  The kernel *)
(* finds a block by its key; one that is created again is another segment, *)
(* numbered by the times the key was created.                              *)
(***************************************************************************)
EXTENDS Naturals, Sequences, Functions

CONSTANTS
  NumPackets,   \* num_packets of TelemetryShm
  Others,       \* the other libraries with a block, in shmctl's order
  Controllers,  \* processes that may run shmctl
  Clients,      \* processes that open the telemetry blocks
  MaxRuns,      \* bound: runs of shmctl
  MaxFaults     \* bound: creations that fail for want of memory

PacketBlocks == {"data", "info", "lock"} \X (1 .. NumPackets)
Master == <<"master", 0>>
OtherBlocks == {"other"} \X Range(Others)
Blocks == PacketBlocks \cup {Master} \cup OtherBlocks
Procs == Controllers \cup Clients

ASSUME LifecycleAssumption ==
  /\ NumPackets \in Nat
  /\ Others \in Seq(Range(Others)) /\ IsInjective(Others)
  /\ Controllers \cap Clients = {}
  /\ MaxRuns \in Nat /\ MaxFaults \in Nat

VARIABLES
  segment,  \* the segment of each key, 0 if there is none
  made,     \* segments created so far for each key
  ready,    \* the segments that are initialised
  script,   \* what each process runs: "on", "off", "open" or "idle"
  pos,      \* the call it is at
  got,      \* the segments it is attached to, 0 if it is not
  opened,   \* the clients whose open has succeeded
  runs, faults

kernel == <<segment, made, ready>>
vars == <<kernel, script, pos, got, opened, runs, faults>>

-----------------------------------------------------------------------------
Call(op, b) == [op |-> op, block |-> b]
Packet(op, i) == <<Call(op, <<"data", i>>), Call(op, <<"info", i>>), Call(op, <<"lock", i>>)>>
NewPacket(i) ==
  <<Call("create", <<"data", i>>), Call("create", <<"info", i>>), Call("create", <<"lock", i>>),
    Call("init", <<"info", i>>), Call("init", <<"lock", i>>)>>

\* A loop over the packets, n calls for each.
Each(n, calls(_)) ==
  [k \in 1 .. n * NumPackets |-> calls(((k - 1) \div n) + 1)[((k - 1) % n) + 1]]
EachPacket(op) == LET calls(i) == Packet(op, i) IN Each(3, calls)
Telemetry(op) == Append(EachPacket(op), Call(op, Master))
Library(l, op1, op2) == <<Call(op1, <<"other", l>>), Call(op2, <<"other", l>>)>>

\* Mutant: the master block is created first.
CreateMasterFirst ==
  <<Call("create", Master), Call("init", Master)>> \o Each(5, NewPacket)

\* TelemetryShm::create.  The master block comes last.
CreateTelemetry ==
  Each(5, NewPacket) \o <<Call("create", Master), Call("init", Master)>>

\* Mutant: the master block stays.
DestroyPackets == EachPacket("destroy")

\* TelemetryShm::destroy
DestroyTelemetry == Telemetry("destroy")

\* The parts of shmctl -on and -off, and of TelemetryShm::open.
Parts ==
  [on   |-> <<CreateTelemetry>>
            \o [i \in 1 .. Len(Others) |-> Library(Others[i], "create", "init")],
   off  |-> <<Telemetry("attach") \o DestroyTelemetry>>
            \o [i \in 1 .. Len(Others) |-> Library(Others[i], "attach", "destroy")],
   open |-> <<Telemetry("attach")>>,
   idle |-> << >>]

Start == <<1, 1>>
Nowhere == [b \in Blocks |-> 0]

Init ==
  /\ segment = Nowhere /\ made = Nowhere
  /\ ready = {}
  /\ script = [p \in Procs |-> "idle"]
  /\ pos = [p \in Procs |-> Start]
  /\ got = [p \in Procs |-> Nowhere]
  /\ opened = {}
  /\ runs = 0 /\ faults = 0

-----------------------------------------------------------------------------
Running(s) == \E p \in Procs : script[p] = s

\* An operator does not switch on while switching off, nor the reverse; several
\* may do the same at once.
Run(c, s) ==
  /\ script[c] = "idle"
  /\ runs < MaxRuns
  /\ ~Running(IF s = "on" THEN "off" ELSE "on")
  /\ runs' = runs + 1
  /\ script' = [script EXCEPT ![c] = s]
  /\ pos' = [pos EXCEPT ![c] = Start]
  /\ got' = [got EXCEPT ![c] = Nowhere]
  /\ UNCHANGED <<kernel, opened, faults>>

OpenTelemetry(p) ==
  /\ script[p] = "idle"
  /\ p \notin opened
  /\ script' = [script EXCEPT ![p] = "open"]
  /\ pos' = [pos EXCEPT ![p] = Start]
  /\ got' = [got EXCEPT ![p] = Nowhere]
  /\ UNCHANGED <<kernel, opened, runs, faults>>

\* The call at hand succeeds or fails, and the process goes to the next call,
\* to the next part, or ends.
Here(p) == Parts[script[p]][pos[p][1]][pos[p][2]]
NextPart(p) ==
  IF pos[p][1] < Len(Parts[script[p]])
    THEN pos' = [pos EXCEPT ![p] = <<@[1] + 1, 1>>] /\ UNCHANGED script
    ELSE script' = [script EXCEPT ![p] = "idle"] /\ UNCHANGED pos

Succeeds(p) ==
  IF pos[p][2] < Len(Parts[script[p]][pos[p][1]])
    THEN pos' = [pos EXCEPT ![p][2] = @ + 1] /\ UNCHANGED <<script, opened>>
    ELSE /\ NextPart(p)
         /\ opened' = IF script[p] = "open" THEN opened \cup {p} ELSE opened

\* Mutant: a failure is logged and the part goes on.
LogsOnly(p) == Succeeds(p) /\ UNCHANGED <<kernel, got>>

Fails(p) ==
  /\ NextPart(p)
  /\ UNCHANGED <<kernel, got, opened>>

Calling(p, op, b) == script[p] # "idle" /\ Here(p) = Call(op, b)

\* Shm::create: IPC_EXCL.
Create(p, b) ==
  /\ Calling(p, "create", b)
  /\ \/ /\ segment[b] = 0
        /\ made' = [made EXCEPT ![b] = @ + 1]
        /\ segment' = [segment EXCEPT ![b] = made'[b]]
        /\ Succeeds(p)
        /\ UNCHANGED <<ready, got, faults>>
     \/ /\ segment[b] # 0
        /\ Fails(p)
        /\ UNCHANGED faults
     \/ /\ segment[b] = 0
        /\ faults < MaxFaults
        /\ faults' = faults + 1
        /\ Fails(p)
  /\ UNCHANGED runs

\* Attaching by key, and the first value of a nonce or a semaphore.
Initialise(p, b) ==
  /\ Calling(p, "init", b)
  /\ IF segment[b] # 0
       THEN ready' = ready \cup {<<b, segment[b]>>} /\ Succeeds(p) /\ UNCHANGED <<segment, made, got>>
       ELSE Fails(p)
  /\ UNCHANGED <<runs, faults>>

\* Shm::attach
Attach(p, b) ==
  /\ Calling(p, "attach", b)
  /\ IF segment[b] # 0
       THEN got' = [got EXCEPT ![p][b] = segment[b]] /\ Succeeds(p) /\ UNCHANGED kernel
       ELSE Fails(p)
  /\ UNCHANGED <<runs, faults>>

\* Shm::destroy removes the segment the process is attached to.  The kernel lets
\* it be removed twice: it stays until nobody is attached, without its key.
Destroy(p, b) ==
  /\ Calling(p, "destroy", b)
  /\ segment' = IF segment[b] = got[p][b] THEN [segment EXCEPT ![b] = 0] ELSE segment
  /\ Succeeds(p)
  /\ UNCHANGED <<made, ready, got, runs, faults>>

Step(p) == \E b \in Blocks : Create(p, b) \/ Initialise(p, b) \/ Attach(p, b) \/ Destroy(p, b)

Next ==
  \/ \E c \in Controllers, s \in {"on", "off"} : Run(c, s)
  \/ \E p \in Clients : OpenTelemetry(p)
  \/ \E p \in Procs : Step(p)

Spec == Init /\ [][Next]_vars

-----------------------------------------------------------------------------
\* TelemetryShm: a client that has opened the telemetry blocks finds every
\* nonce and every write lock initialised, though open does not wait for the
\* end of create: the master block is the last to be created and to be opened.
OpenedReady ==
  \A p \in opened : \A b \in PacketBlocks :
    b[1] # "data" => <<b, got[p][b]>> \in ready

\* shmctl: when no run is under way and no creation has failed, either every
\* block exists and is initialised or none exists, however many runs have raced:
\* -on and -off work next time.
Quiet == \A c \in Controllers : script[c] = "idle"
Live == {b \in Blocks : segment[b] # 0}
AllOrNothing ==
  Quiet /\ faults = 0 =>
    \/ Live = {}
    \/ Live = Blocks /\ \A b \in Blocks : b[1] # "data" => <<b, segment[b]>> \in ready

\* What is missing after a failed creation is the end of a part: the blocks of a
\* library are made in order, and a race does not tear a hole.
CreatedInOrder ==
  ~Running("off") =>
    \A i, j \in {k \in DOMAIN CreateTelemetry : CreateTelemetry[k].op = "create"} :
      i < j /\ segment[CreateTelemetry[j].block] # 0 => segment[CreateTelemetry[i].block] # 0
=============================================================================
