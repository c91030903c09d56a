--------------------------- MODULE CountdownClock ---------------------------
(***************************************************************************)
(* The countdown clock in shared memory (lib/clock) and the processes that *)
(* command and read it.                                                    *)
(*                                                                         *)
(* parse_cmd and read_time read the time of day first and then wait for    *)
(* the clock's semaphore, so what they work with may be old.  What they do *)
(* under the semaphore is one step.  Times are whole milliseconds, those   *)
(* in shared memory but the hold are uint32_t.                             *)
(***************************************************************************)
EXTENDS Integers

CONSTANTS
  Controllers,  \* processes that call parse_cmd
  Readers,      \* processes that call read_time
  Args,         \* arguments of the commands
  Width,        \* one more than the greatest uint32_t
  Created,      \* the time of day when the clock is created
  MaxTicks      \* bound: milliseconds from then on

Procs == Controllers \cup Readers

ASSUME ClockAssumption ==
  /\ Controllers \cap Readers = {}
  /\ Args \subseteq Int
  /\ Width \in Nat \ {0}
  /\ Created \in 0 .. Width - 1
  /\ MaxTicks \in Nat

VARIABLES
  now,      \* the time of day
  t0, holdSet, hold, stopped, stopTime,
  command,  \* what each controller is about
  sample,   \* curr_time of each process
  busy      \* the processes inside a call

clock == <<t0, holdSet, hold, stopped, stopTime>>
caller == <<command, sample, busy>>
vars == <<now, clock, caller>>

WithArg == {"SET_HOLD", "SET"}
WithoutArg == {"START", "STOP", "RELEASE_HOLD"}
Commands == [cmd : WithArg, arg : Args] \cup [cmd : WithoutArg \cup {"NONE"}, arg : {0}]
Nothing == [cmd |-> "NONE", arg |-> 0]
U(x) == x % Width

TypeOK ==
  /\ now \in Created .. Created + MaxTicks
  /\ t0 \in 0 .. Width - 1 /\ stopTime \in 0 .. Width - 1
  /\ hold \in Args \cup {0}
  /\ holdSet \in BOOLEAN /\ stopped \in BOOLEAN
  /\ command \in [Controllers -> Commands]
  /\ sample \in [Procs -> 0 .. Width - 1]
  /\ busy \subseteq Procs

Init ==
  /\ now = Created
  /\ t0 = Created /\ stopTime = Created
  /\ stopped = TRUE
  /\ holdSet = FALSE /\ hold = 0
  /\ command = [c \in Controllers |-> Nothing]
  /\ sample = [p \in Procs |-> Created]
  /\ busy = {}

-----------------------------------------------------------------------------
Tick ==
  /\ now < Created + MaxTicks
  /\ now' = now + 1
  /\ UNCHANGED <<clock, caller>>

Sample(p) ==
  /\ p \notin busy
  /\ busy' = busy \cup {p}
  /\ sample' = [sample EXCEPT ![p] = U(now)]

\* systime() at the beginning of parse_cmd.
Issue(c, k) ==
  /\ Sample(c)
  /\ k # Nothing
  /\ command' = [command EXCEPT ![c] = k]
  /\ UNCHANGED <<now, clock>>

\* Controller c, with the time cur, carries out command k under the semaphore.
Doing(c, k) == c \in busy /\ command[c].cmd = k
Return(p) ==
  /\ busy' = busy \ {p}
  /\ sample' = [sample EXCEPT ![p] = Created]
Done(c) ==
  /\ Return(c)
  /\ command' = [command EXCEPT ![c] = Nothing]
  /\ UNCHANGED now

\* t0 as it would be if the clock were started at cur.
Resumed(cur) == cur + (t0 - stopTime)

\* Mutant: the time the clock stood still is counted.
StartAtOldT0(c) ==
  /\ Doing(c, "START")
  /\ stopped
  /\ stopped' = FALSE
  /\ holdSet' = (holdSet /\ ~(sample[c] > t0 + hold))
  /\ UNCHANGED <<t0, hold, stopTime>>
  /\ Done(c)

\* Mutant: a hold that is reached counts as passed.
StartUnholding(c) ==
  LET new == U(Resumed(sample[c]))
  IN  /\ Doing(c, "START")
      /\ stopped
      /\ stopped' = FALSE
      /\ t0' = new
      /\ holdSet' = (holdSet /\ ~(sample[c] >= new + hold))
      /\ UNCHANGED <<hold, stopTime>>
      /\ Done(c)

Start(c) ==
  LET new == U(Resumed(sample[c]))
  IN  /\ Doing(c, "START")
      /\ stopped
      /\ stopped' = FALSE
      /\ t0' = new
      /\ holdSet' = (holdSet /\ ~(sample[c] > new + hold))
      /\ UNCHANGED <<hold, stopTime>>
      /\ Done(c)

\* If the clock is at its hold, t0 moves so that the stop lines up.
Stop(c) ==
  /\ Doing(c, "STOP")
  /\ ~stopped
  /\ stopped' = TRUE
  /\ stopTime' = sample[c]
  /\ t0' = IF holdSet /\ sample[c] >= t0 + hold THEN U(sample[c] - hold) ELSE t0
  /\ UNCHANGED <<hold, holdSet>>
  /\ Done(c)

\* The code looks for the present hold at t0 - hold, not t0 + hold.
AtAHold(cur) == ~stopped /\ holdSet /\ cur > t0 - hold
SetHold(c) ==
  /\ Doing(c, "SET_HOLD")
  /\ ~AtAHold(sample[c])
  /\ ~(sample[c] > (IF stopped THEN Resumed(sample[c]) ELSE t0) + command[c].arg)
  /\ hold' = command[c].arg
  /\ holdSet' = TRUE
  /\ UNCHANGED <<t0, stopped, stopTime>>
  /\ Done(c)

ReleaseHold(c) ==
  LET new == IF sample[c] >= t0 + hold THEN U(sample[c] - hold) ELSE t0
  IN  /\ Doing(c, "RELEASE_HOLD")
      /\ holdSet
      /\ holdSet' = FALSE
      /\ t0' = new
      /\ stopTime' = IF stopped THEN U(stopTime + (new - t0)) ELSE stopTime
      /\ UNCHANGED <<hold, stopped>>
      /\ Done(c)

SetClock(c) ==
  /\ Doing(c, "SET")
  /\ stopped
  /\ t0' = U(sample[c] - command[c].arg)
  /\ stopTime' = sample[c]
  /\ UNCHANGED <<hold, holdSet, stopped>>
  /\ Done(c)

\* FAILURE: nothing changes.
Refuse(c) ==
  /\ \/ Doing(c, "START") /\ ~stopped
     \/ Doing(c, "STOP") /\ stopped
     \/ Doing(c, "SET_HOLD") /\
          \/ AtAHold(sample[c])
          \/ sample[c] > (IF stopped THEN Resumed(sample[c]) ELSE t0) + command[c].arg
     \/ Doing(c, "RELEASE_HOLD") /\ ~holdSet
     \/ Doing(c, "SET") /\ ~stopped
  /\ UNCHANGED clock
  /\ Done(c)

-----------------------------------------------------------------------------
\* What a clock shows at the time cur.
Value(cur) ==
  IF stopped THEN stopTime - t0
  ELSE IF holdSet /\ cur > t0 + hold THEN hold
  ELSE cur - t0

BeginRead(r) ==
  /\ Sample(r)
  /\ UNCHANGED <<now, clock, command>>

\* The reader is told Value(sample[r]).
Read(r) ==
  /\ r \in busy
  /\ Return(r)
  /\ UNCHANGED <<now, clock, command>>

Do(c) == Start(c) \/ Stop(c) \/ SetHold(c) \/ ReleaseHold(c) \/ SetClock(c) \/ Refuse(c)

Next ==
  \/ Tick
  \/ \E c \in Controllers : Do(c) \/ (\E k \in Commands : Issue(c, k))
  \/ \E r \in Readers : BeginRead(r) \/ Read(r)

Spec == Init /\ [][Next]_vars

-----------------------------------------------------------------------------
Distance(x, y) == IF x > y THEN x - y ELSE y - x
Age(p) == now - sample[p]

\* A command other than SET does not move the time shown by more than the time
\* its controller has waited for the semaphore: starting, stopping, holding and
\* releasing leave off where they find the clock, whatever the other
\* controllers do meanwhile.  SET_HOLD at a hold is excepted: "already at a
\* hold, must release first!" is looked for in the wrong place.
Holding == ~stopped /\ holdSet /\ now > t0 + hold
NoJump ==
  [][\A c \in Controllers :
       c \in busy \ busy' /\ ~Doing(c, "SET") /\ ~(Doing(c, "SET_HOLD") /\ Holding) =>
         Distance(Value(now)', Value(now)) <= Age(c)]_vars

\* Starting the clock forgets the hold only if the clock has passed it, however
\* late the command comes.
HoldSurvivesStart ==
  [][\A c \in Controllers \cap (busy \ busy') : Doing(c, "START") /\ stopped =>
       (holdSet /\ ~holdSet' <=> holdSet /\ Value(now) > hold)]_vars
=============================================================================
