------------------------ MODULE EngineProgram_proofs ------------------------
(***************************************************************************)
(* What holds of the countdown clock and of ec_program for any             *)
(* controllers, readers and programs.                                      *)
(*                                                                         *)
(* A step of the program is a step of the clock's specification, so what   *)
(* is proved of the clock holds under the program.  Times in shared memory *)
(* are uint32_t: the theorems about time are for behaviours in which none  *)
(* of them wraps (NoWrap), which the code does not prevent.                *)
(***************************************************************************)
EXTENDS EngineProgram, SequenceTheorems, TLAPS

Word == 0 .. Width - 1

\* Cutting a number to 32 bits gives one of 32 bits, and leaves such a number.
LEMMA CutToWord ==
  /\ \A x \in Int : U(x) \in Word
  /\ \A x \in Word : U(x) = x
  BY ClockAssumption DEF U, Word

\* NONE is one of the commands.
LEMMA NothingIsCommand == Nothing \in Commands
  BY DEF Nothing, Commands

\* Every variable starts with its type.
LEMMA InitTypes == Init => TypeOK
<1> SUFFICES ASSUME Init PROVE TypeOK
  OBVIOUS
<1>1. Created \in 0 .. Width - 1 /\ Created \in Created .. Created + MaxTicks
  BY ClockAssumption
<1> QED
  BY <1>1, NothingIsCommand DEF Init, TypeOK

\* Whoever enters takes a 32-bit time of day with it.
LEMMA SampleTypes ==
  ASSUME TypeOK, NEW p \in Procs, Sample(p)
  PROVE  busy' \subseteq Procs /\ sample' \in [Procs -> Word]
  BY CutToWord, ClockAssumption DEF Sample, TypeOK, Word

\* Whoever leaves forgets it.
LEMMA ReturnTypes ==
  ASSUME TypeOK, NEW p \in Procs, Return(p)
  PROVE  busy' \subseteq Procs /\ sample' \in [Procs -> Word]
  BY ClockAssumption DEF Return, TypeOK, Word

\* A command that stores 32-bit times leaves the types as they are.
LEMMA DoneTypes ==
  ASSUME TypeOK, NEW c \in Controllers, Done(c),
         {t0', stopTime'} \subseteq Word, hold' \in Args \cup {0},
         {holdSet', stopped'} \subseteq BOOLEAN
  PROVE  TypeOK'
<1>1. busy' \subseteq Procs /\ sample' \in [Procs -> Word]
  BY ReturnTypes DEF Done, Procs
<1> QED
  BY <1>1, NothingIsCommand DEF Done, TypeOK, Word

\* Every command stores 32-bit times.
LEMMA DoTypes ==
  ASSUME TypeOK, NEW c \in Controllers, Do(c)
  PROVE  TypeOK'
<1>a. /\ t0 \in Word /\ stopTime \in Word /\ hold \in Int /\ hold \in Args \cup {0}
      /\ holdSet \in BOOLEAN /\ stopped \in BOOLEAN
      /\ sample[c] \in Word /\ command[c] \in Commands
      /\ t0 \in Int /\ stopTime \in Int /\ sample[c] \in Int
  BY ClockAssumption DEF TypeOK, Word, Procs
<1>b. command[c].cmd \in WithArg => command[c].arg \in Args
  BY <1>a DEF Commands, WithArg, WithoutArg
<1>1. CASE Start(c)
  <2>1. U(Resumed(sample[c])) \in Word
    <3>1. Resumed(sample[c]) \in Int
      BY <1>a DEF Resumed
    <3> QED
      BY <3>1, CutToWord
  <2> QED
    BY <1>1, <1>a, <2>1, DoneTypes DEF Start
<1>2. CASE Stop(c)
  <2>1. U(sample[c] - hold) \in Word
    <3>1. sample[c] - hold \in Int
      BY <1>a
    <3> QED
      BY <3>1, CutToWord
  <2> QED
    BY <1>2, <1>a, <2>1, DoneTypes DEF Stop
<1>3. CASE SetHold(c)
  BY <1>3, <1>a, <1>b, DoneTypes DEF SetHold, Doing, WithArg
<1>4. CASE ReleaseHold(c)
  <2> DEFINE new == IF sample[c] >= t0 + hold THEN U(sample[c] - hold) ELSE t0
  <2>a. /\ t0' = new
        /\ stopTime' = IF stopped THEN U(stopTime + (new - t0)) ELSE stopTime
    BY <1>4 DEF ReleaseHold
  <2>b. new \in Word /\ new \in Int
    <3>1. sample[c] - hold \in Int
      BY <1>a
    <3>2. U(sample[c] - hold) \in Word
      BY <3>1, CutToWord
    <3> QED
      BY <1>a, <3>2, ClockAssumption DEF Word
  <2>1. t0' \in Word /\ stopTime' \in Word
    <3> HIDE DEF new
    <3>1. stopTime + (new - t0) \in Int
      BY <1>a, <2>b
    <3>2. U(stopTime + (new - t0)) \in Word
      BY <3>1, CutToWord
    <3> QED
      BY <1>a, <2>a, <2>b, <3>2
  <2> QED
    BY <1>4, <1>a, <2>1, DoneTypes DEF ReleaseHold
<1>5. CASE SetClock(c)
  <2>1. U(sample[c] - command[c].arg) \in Word
    <3>1. command[c].arg \in Int
      BY <1>5, <1>b, ClockAssumption DEF SetClock, Doing, WithArg
    <3>2. sample[c] - command[c].arg \in Int
      BY <1>a, <3>1
    <3> QED
      BY <3>2, CutToWord
  <2> QED
    BY <1>5, <1>a, <2>1, DoneTypes DEF SetClock
<1>6. CASE Refuse(c)
  BY <1>6, <1>a, DoneTypes DEF Refuse, clock
<1> QED
  BY <1>1, <1>2, <1>3, <1>4, <1>5, <1>6 DEF Do

\* No step breaks the types.
LEMMA StepTypes == TypeOK /\ [Next]_vars => TypeOK'
<1> SUFFICES ASSUME TypeOK, [Next]_vars PROVE TypeOK'
  OBVIOUS
<1>1. CASE Tick
  BY <1>1, ClockAssumption DEF Tick, clock, caller, TypeOK
<1>2. ASSUME NEW c \in Controllers, Do(c) PROVE TypeOK'
  BY <1>2, DoTypes
<1>3. ASSUME NEW c \in Controllers, NEW k \in Commands, Issue(c, k) PROVE TypeOK'
  <2>1. busy' \subseteq Procs /\ sample' \in [Procs -> Word]
    BY <1>3, SampleTypes DEF Issue, Procs
  <2> QED
    BY <1>3, <2>1 DEF Issue, clock, TypeOK, Word
<1>4. ASSUME NEW r \in Readers, BeginRead(r) \/ Read(r) PROVE TypeOK'
  <2>1. busy' \subseteq Procs /\ sample' \in [Procs -> Word]
    BY <1>4, SampleTypes, ReturnTypes DEF BeginRead, Read, Procs
  <2> QED
    BY <1>4, <2>1 DEF BeginRead, Read, clock, TypeOK, Word
<1>5. CASE UNCHANGED vars
  BY <1>5 DEF vars, clock, caller, TypeOK
<1> QED
  BY <1>1, <1>2, <1>3, <1>4, <1>5 DEF Next

\* The type invariant of the clock's block and of its callers.
THEOREM TypeCorrect == Spec => []TypeOK
  BY InitTypes, StepTypes, PTL DEF Spec

-----------------------------------------------------------------------------
(***************************************************************************)
(* The program is a reader of the clock.                                   *)
(***************************************************************************)

\* A step of the program or of the others is a step of the clock, or none.
LEMMA ProgStepsRead == [ProgNext]_<<vars, progVars>> => [Next]_vars
<1> SUFFICES ASSUME [ProgNext]_<<vars, progVars>> PROVE [Next]_vars
  OBVIOUS
<1>1. CASE ProgStep
  BY <1>1, ProgramAssumption DEF ProgStep, Next
<1>2. CASE ClockStep
  BY <1>2 DEF ClockStep, Next
<1>3. CASE UNCHANGED <<vars, progVars>>
  BY <1>3
<1> QED
  BY <1>1, <1>2, <1>3 DEF ProgNext

\* ec_program under the clock's controllers behaves towards the clock as the
\* clock's specification lets a reader behave.
THEOREM ProgramReadsClock == ProgSpec => Spec
<1>1. ProgInit => Init
  BY DEF ProgInit
<1> QED
  BY ProgStepsRead, <1>1, PTL DEF ProgSpec, Spec

-----------------------------------------------------------------------------
(***************************************************************************)
(* Time, as long as no number in shared memory wraps.                      *)
(***************************************************************************)

\* What the callers inside are about to store fits in 32 bits.
NoWrap ==
  /\ now \in Word
  /\ \A c \in Controllers \cap busy :
       /\ stopped => Resumed(sample[c]) \in Word
       /\ sample[c] >= t0 + hold =>
            /\ sample[c] - hold \in Word
            /\ stopped => stopTime + (sample[c] - hold - t0) \in Word

\* What a caller takes for the time of day is not ahead of it.
NotAhead == \A p \in busy : sample[p] <= now

\* Nobody is inside.
LEMMA NotAheadInit == Init => NotAhead
  BY DEF Init, NotAhead

\* Time does not go back.
LEMMA NotAheadStep == TypeOK /\ NotAhead /\ NoWrap /\ [Next]_vars => NotAhead'
<1> SUFFICES ASSUME TypeOK, NotAhead, NoWrap, [Next]_vars PROVE NotAhead'
  OBVIOUS
<1>a. now \in Int /\ sample \in [Procs -> Int] /\ busy \subseteq Procs
  BY ClockAssumption DEF TypeOK
<1>1. CASE Tick
  BY <1>1, <1>a DEF Tick, caller, NotAhead
<1>2. ASSUME NEW p \in Procs, Sample(p), now' = now PROVE NotAhead'
  <2>1. U(now) = now
    BY CutToWord DEF NoWrap
  <2> QED
    BY <1>2, <1>a, <2>1 DEF Sample, NotAhead
<1>3. ASSUME NEW p \in Procs, Return(p), now' = now PROVE NotAhead'
  BY <1>3, <1>a DEF Return, NotAhead
<1>4. CASE UNCHANGED vars
  BY <1>4 DEF vars, caller, NotAhead
<1>5. ASSUME NEW c \in Controllers, Do(c) PROVE NotAhead'
  BY <1>3, <1>5 DEF Do, Start, Stop, SetHold, ReleaseHold, SetClock, Refuse, Done, Procs
<1>6. ASSUME NEW c \in Controllers, NEW k \in Commands, Issue(c, k) PROVE NotAhead'
  BY <1>2, <1>6 DEF Issue, Procs
<1>7. ASSUME NEW r \in Readers, BeginRead(r) \/ Read(r) PROVE NotAhead'
  BY <1>2, <1>3, <1>7 DEF BeginRead, Read, Procs
<1> QED
  BY <1>1, <1>4, <1>5, <1>6, <1>7 DEF Next

\* A command is carried out by the controller that leaves, at one instant.
LEMMA WhoLeaves ==
  ASSUME NEW c \in Controllers, c \in busy \ busy', [Next]_vars
  PROVE  Do(c) /\ now' = now
<1>1. ~UNCHANGED vars /\ ~Tick
  BY DEF vars, caller, Tick
<1>2. ASSUME NEW d \in Controllers, NEW k \in Commands PROVE ~Issue(d, k)
  BY DEF Issue, Sample
<1>3. ASSUME NEW r \in Readers PROVE ~BeginRead(r) /\ ~Read(r)
  BY ClockAssumption DEF BeginRead, Read, Sample, Return
<1>4. PICK d \in Controllers : Do(d)
  BY <1>1, <1>2, <1>3 DEF Next
<1>5. Done(d)
  BY <1>4 DEF Do, Start, Stop, SetHold, ReleaseHold, SetClock, Refuse
<1> QED
  BY <1>4, <1>5 DEF Done, Return

\* Starting the clock forgets the hold only if the clock has passed it.
THEOREM HoldSurvives == Spec /\ []NoWrap => HoldSurvivesStart
<1>1. TypeOK /\ NoWrap /\ [Next]_vars =>
        [\A c \in Controllers \cap (busy \ busy') : Doing(c, "START") /\ stopped =>
            (holdSet /\ ~holdSet' <=> holdSet /\ Value(now) > hold)]_vars
  <2> SUFFICES ASSUME TypeOK, NoWrap, [Next]_vars,
                      NEW c \in Controllers, c \in busy \ busy', Doing(c, "START"), stopped
               PROVE  holdSet /\ ~holdSet' <=> holdSet /\ Value(now) > hold
    OBVIOUS
  <2>1. Start(c)
    <3>1. Do(c)
      BY WhoLeaves
    <3> QED
      BY <3>1 DEF Do, Stop, SetHold, ReleaseHold, SetClock, Refuse, Doing
  <2>2. U(Resumed(sample[c])) = sample[c] + (t0 - stopTime)
    BY CutToWord DEF NoWrap, Resumed
  <2>3. holdSet' = (holdSet /\ ~(sample[c] > sample[c] + (t0 - stopTime) + hold))
    BY <2>1, <2>2 DEF Start
  <2>4. sample[c] \in Int /\ t0 \in Int /\ stopTime \in Int /\ hold \in Int
    BY ClockAssumption DEF TypeOK, Procs
  <2>5. sample[c] > sample[c] + (t0 - stopTime) + hold <=> stopTime - t0 > hold
    BY <2>4
  <2> QED
    BY <2>3, <2>5 DEF Value
<1> QED
  BY TypeCorrect, <1>1, PTL DEF Spec, HoldSurvivesStart

\* The clock's numbers when a controller acts, as integers.
LEMMA NumbersOf ==
  ASSUME TypeOK, NotAhead, NEW c \in Controllers, c \in busy
  PROVE  /\ sample[c] \in Int /\ t0 \in Int /\ stopTime \in Int /\ hold \in Int /\ now \in Int
         /\ holdSet \in BOOLEAN /\ stopped \in BOOLEAN
         /\ Age(c) = now - sample[c] /\ Age(c) >= 0 /\ Age(c) \in Int
  BY ClockAssumption DEF TypeOK, NotAhead, Age, Procs

\* The command of c moves the time shown by no more than the age of its sample.
Unmoved(c) == Distance(Value(now)', Value(now)) <= Age(c)

\* The clock goes on where it stopped, less the time the starter waited.
LEMMA StartUnmoved ==
  ASSUME TypeOK, NotAhead, NoWrap, NEW c \in Controllers, c \in busy, Start(c), now' = now
  PROVE  Unmoved(c)
<1> DEFINE new == sample[c] + (t0 - stopTime)
<1>1. stopped /\ ~stopped' /\ hold' = hold /\ t0' = new
      /\ holdSet' = (holdSet /\ ~(sample[c] > new + hold))
  BY CutToWord DEF Start, NoWrap, Resumed
<1>2. Value(now) = stopTime - t0
  BY <1>1 DEF Value
<1>3. Value(now)' = IF holdSet' /\ now > new + hold THEN hold ELSE now - new
  BY <1>1 DEF Value
<1>4. new \in Int /\ now - new = Age(c) + (stopTime - t0) /\ sample[c] - new = stopTime - t0
  BY NumbersOf
<1> HIDE DEF new
<1>5. CASE holdSet' /\ now > new + hold
  <2>1. Value(now)' = hold /\ ~(sample[c] > new + hold)
    BY <1>1, <1>3, <1>5
  <2> QED
    BY <1>2, <1>4, <1>5, <2>1, NumbersOf DEF Unmoved, Distance
<1>6. CASE ~(holdSet' /\ now > new + hold)
  <2>1. Value(now)' = now - new
    BY <1>3, <1>6
  <2> QED
    BY <1>2, <1>4, <2>1, NumbersOf DEF Unmoved, Distance
<1> QED
  BY <1>5, <1>6

\* The clock stops at the time the stopper came.
LEMMA StopUnmoved ==
  ASSUME TypeOK, NotAhead, NoWrap, NEW c \in Controllers, c \in busy, Stop(c), now' = now
  PROVE  Unmoved(c)
<1>1. ~stopped /\ stopped' /\ stopTime' = sample[c]
      /\ t0' = IF holdSet /\ sample[c] >= t0 + hold THEN sample[c] - hold ELSE t0
  BY CutToWord DEF Stop, NoWrap
<1>2. Value(now) = IF holdSet /\ now > t0 + hold THEN hold ELSE now - t0
  BY <1>1 DEF Value
<1>3. Value(now)' = sample[c] - t0'
  BY <1>1 DEF Value
<1> QED
  BY <1>1, <1>2, <1>3, NumbersOf DEF Unmoved, Distance

\* A hold is not set before the time the holder came.
LEMMA SetHoldUnmoved ==
  ASSUME TypeOK, NotAhead, NEW c \in Controllers, c \in busy, SetHold(c), ~Holding, now' = now
  PROVE  Unmoved(c)
<1>1. /\ hold' = command[c].arg /\ holdSet' /\ UNCHANGED <<t0, stopped, stopTime>>
      /\ stopped \/ ~(sample[c] > t0 + command[c].arg)
  BY DEF SetHold
<1>2. command[c].arg \in Int
  <2>1. command[c] \in Commands
    BY DEF TypeOK
  <2>2. CASE command[c] \in [cmd : WithArg, arg : Args]
    BY <2>2, ClockAssumption
  <2>3. CASE command[c] \in [cmd : WithoutArg \cup {"NONE"}, arg : {0}]
    BY <2>3
  <2> QED
    BY <2>1, <2>2, <2>3 DEF Commands
<1>3. CASE stopped
  BY <1>1, <1>3, NumbersOf DEF Unmoved, Distance, Value
<1>4. CASE ~stopped
  <2>1. Value(now) = now - t0
    BY <1>4, NumbersOf DEF Value, Holding
  <2>2. Value(now)' = IF now > t0 + command[c].arg THEN command[c].arg ELSE now - t0
    BY <1>1, <1>4 DEF Value
  <2> QED
    BY <1>1, <1>2, <1>4, <2>1, <2>2, NumbersOf DEF Unmoved, Distance
<1> QED
  BY <1>3, <1>4

\* The clock goes on from the hold, less the time the releaser waited.
LEMMA ReleaseUnmoved ==
  ASSUME TypeOK, NotAhead, NoWrap, NEW c \in Controllers, c \in busy, ReleaseHold(c), now' = now
  PROVE  Unmoved(c)
<1> DEFINE new == IF sample[c] >= t0 + hold THEN sample[c] - hold ELSE t0
<1>1. sample[c] >= t0 + hold => U(sample[c] - hold) = sample[c] - hold
  BY CutToWord DEF NoWrap
<1>2. holdSet /\ ~holdSet' /\ UNCHANGED <<hold, stopped>> /\ t0' = new
  BY <1>1 DEF ReleaseHold
<1>3. CASE stopped
  <2>1. stopTime' = U(stopTime + (new - t0))
    BY <1>1, <1>3 DEF ReleaseHold
  <2>2. stopTime + (new - t0) \in Word
    <3>1. CASE sample[c] >= t0 + hold
      BY <1>3, <3>1 DEF NoWrap
    <3>2. CASE ~(sample[c] >= t0 + hold)
      <4>1. stopTime + (new - t0) = stopTime
        BY <3>2, NumbersOf
      <4> QED
        BY <4>1 DEF TypeOK, Word
    <3> QED
      BY <3>1, <3>2
  <2>3. stopTime' = stopTime + (new - t0)
    BY <2>1, <2>2, CutToWord
  <2>4. new \in Int
    BY NumbersOf
  <2> HIDE DEF new
  <2>5. stopped' /\ t0' = new
    BY <1>2, <1>3
  <2>6. Value(now)' = stopTime' - t0' /\ Value(now) = stopTime - t0
    BY <1>3, <2>5 DEF Value
  <2>7. stopTime' - t0' = stopTime - t0
    BY <2>3, <2>4, <2>5, NumbersOf
  <2> QED
    BY <2>6, <2>7, NumbersOf DEF Unmoved, Distance
<1>4. CASE ~stopped
  <2>1. /\ Value(now)' = now - new
        /\ Value(now) = IF now > t0 + hold THEN hold ELSE now - t0
    BY <1>2, <1>4 DEF Value
  <2> QED
    BY <2>1, NumbersOf DEF Unmoved, Distance
<1> QED
  BY <1>3, <1>4

\* parse_cmd: no command but SET moves the time shown by more than the time it
\* has waited for the semaphore.
THEOREM Steady == Spec /\ []NoWrap => NoJump
<1>1. TypeOK /\ NotAhead /\ NoWrap /\ [Next]_vars =>
        [\A c \in Controllers :
           c \in busy \ busy' /\ ~Doing(c, "SET") /\ ~(Doing(c, "SET_HOLD") /\ Holding) =>
             Distance(Value(now)', Value(now)) <= Age(c)]_vars
  <2> SUFFICES ASSUME TypeOK, NotAhead, NoWrap, [Next]_vars,
                      NEW c \in Controllers, c \in busy \ busy', ~Doing(c, "SET"),
                      ~(Doing(c, "SET_HOLD") /\ Holding)
               PROVE  Unmoved(c)
    BY DEF Unmoved
  <2>1. Do(c) /\ now' = now
    BY WhoLeaves
  <2>2. CASE Start(c) \/ Stop(c) \/ ReleaseHold(c)
    BY <2>1, <2>2, StartUnmoved, StopUnmoved, ReleaseUnmoved
  <2>3. CASE SetHold(c)
    BY <2>1, <2>3, SetHoldUnmoved DEF SetHold
  <2>4. CASE SetClock(c)
    BY <2>4 DEF SetClock
  <2>5. CASE Refuse(c)
    <3>1. Value(now)' = Value(now)
      BY <2>1, <2>5 DEF Refuse, clock, Value
    <3>2. Value(now) \in Int
      BY NumbersOf DEF Value
    <3> QED
      BY <3>1, <3>2, NumbersOf DEF Unmoved, Distance
  <2> QED
    BY <2>1, <2>2, <2>3, <2>4, <2>5 DEF Do
<1> QED
  BY TypeCorrect, NotAheadInit, NotAheadStep, <1>1, PTL DEF Spec, NoJump

-----------------------------------------------------------------------------
(***************************************************************************)
(* The events of a program.                                                *)
(***************************************************************************)

Numbers == \A t : Strtol(t) \in Int
Event == [time : Int, type : {"MESSAGE", "COMMAND"}]
Sorted == \A j, k \in 1 .. Len(events) : j < k => events[j].time <= events[k].time

\* The loop has carried out what it went past, and does not carry out anything
\* before the program is read and its events are in order.
Ordered ==
  /\ events \in Seq(Event)
  /\ first_event \in 0 .. Len(events) /\ i \in Nat
  /\ phase = "parsing" => first_event = 0 /\ i = 0
  /\ phase = "waiting" => i = 0 \/ i = first_event + 1
  /\ i = 0 => first_event = 0
  /\ phase \in {"running", "due"} => i # 0
  /\ phase = "due" => i <= Len(events)
  /\ phase \in {"waiting", "running", "due"} => Sorted
  /\ phase \in {"parsing", "waiting"} => ran = {}
  /\ ran \subseteq {k \in 1 .. Len(events) : k < i}
  /\ NothingForgotten

\* There are no events.
LEMMA OrderedInit == ProgInit => Ordered
<1> SUFFICES ASSUME ProgInit PROVE Ordered
  OBVIOUS
<1>1. events = << >> /\ << >> \in Seq(Event) /\ Len(<< >>) = 0
  BY EmptySeq DEF ProgInit
<1> QED
  BY <1>1 DEF ProgInit, Ordered, NothingForgotten

\* A line adds one event at most.
LEMMA AddEventTyped ==
  ASSUME Numbers, events \in Seq(Event), NEW type \in {"MESSAGE", "COMMAND"}, NEW t,
         AddEvent(type, Strtol(t)), NEW f \in 0 .. Len(events)
  PROVE  events' \in Seq(Event) /\ f \in 0 .. Len(events')
<1>1. [time |-> Strtol(t), type |-> type] \in Event
  BY DEF Event, Numbers
<1>2. Len(events) \in Nat
  BY LenProperties
<1>3. CASE UNCHANGED events
  BY <1>3
<1>4. CASE events' = Append(events, [time |-> Strtol(t), type |-> type])
  BY <1>1, <1>2, <1>4, AppendProperties
<1> QED
  BY <1>3, <1>4 DEF AddEvent, Fail

\* Reading the file carries nothing out.
LEMMA ReadLineOrdered ==
  ASSUME Numbers, Ordered, NEW line \in Lines, ReadLine(line)
  PROVE  Ordered' /\ ran' = ran
<1> DEFINE tokens == Tokens(line)
<1>1. /\ phase = "parsing" /\ first_event = 0 /\ i = 0 /\ ran = {}
      /\ UNCHANGED <<first_event, i, ran, late>>
  BY DEF ReadLine, Ordered
<1>2. events' \in Seq(Event) /\ 0 \in 0 .. Len(events')
  <2>1. events \in Seq(Event) /\ 0 \in 0 .. Len(events)
    BY <1>1 DEF Ordered
  <2>2. CASE UNCHANGED events
    BY <2>1, <2>2
  <2>3. CASE MessageLine(tokens)
    BY <2>1, <2>2, <2>3, AddEventTyped DEF MessageLine, Fail
  <2>4. CASE CommandLine(tokens)
    BY <2>1, <2>4, AddEventTyped DEF CommandLine
  <2>5. CASE MacroLine(tokens) \/ OtherLine(tokens)
    BY <2>2, <2>5 DEF MacroLine, OtherLine, Fail
  <2> QED
    BY <2>2, <2>3, <2>4, <2>5 DEF ReadLine
<1>3. phase' \in {"parsing", "ended"}
  BY <1>1 DEF ReadLine, MessageLine, CommandLine, MacroLine, OtherLine, AddEvent, Fail
<1> QED
  BY <1>1, <1>2, <1>3 DEF Ordered, NothingForgotten

\* Events are sorted before anything is carried out.
LEMMA LoadOrdered ==
  ASSUME Ordered, Load
  PROVE  Ordered' /\ ran' = ran
<1>1. /\ phase = "parsing" /\ first_event = 0 /\ i = 0 /\ ran = {}
      /\ phase' \in {"waiting", "ended"}
      /\ UNCHANGED <<first_event, i, ran, late>>
  BY DEF Load, Ordered
<1>2. PICK f \in [DOMAIN events -> DOMAIN events] :
        /\ \A j, k \in DOMAIN events : j < k => events[f[j]].time <= events[f[k]].time
        /\ events' = [k \in DOMAIN events |-> events[f[k]]]
  BY DEF Load
<1>3. Len(events) \in Nat /\ DOMAIN events = 1 .. Len(events)
      /\ events \in [1 .. Len(events) -> Event]
  BY LenProperties DEF Ordered
<1>4. events' \in [1 .. Len(events) -> Event]
  BY <1>2, <1>3
<1>5. events' \in Seq(Event)
  BY <1>3, <1>4, SeqDef
<1>6. Len(events') = Len(events)
  <2>1. DOMAIN events' = 1 .. Len(events')
    BY <1>5, LenProperties
  <2>2. DOMAIN events' = 1 .. Len(events)
    BY <1>4
  <2>3. Len(events') \in Nat
    BY <1>5, LenProperties
  <2>4. 1 .. Len(events') = 1 .. Len(events)
    BY <2>1, <2>2
  <2>5. CASE Len(events') > Len(events)
    <3>1. Len(events') \in 1 .. Len(events') /\ Len(events') \notin 1 .. Len(events)
      BY <1>3, <2>3, <2>5
    <3> QED
      BY <2>4, <3>1
  <2>6. CASE Len(events') < Len(events)
    <3>1. Len(events) \in 1 .. Len(events) /\ Len(events) \notin 1 .. Len(events')
      BY <1>3, <2>3, <2>6
    <3> QED
      BY <2>4, <3>1
  <2> QED
    BY <1>3, <2>3, <2>5, <2>6
<1>7. Sorted'
  BY <1>2, <1>3, <1>6 DEF Sorted
<1> QED
  BY <1>1, <1>3, <1>5, <1>6, <1>7 DEF Ordered, NothingForgotten

\* What the program was told when it began to read is not ahead of the clock.
LEMMA ToldPast ==
  ASSUME TypeOK, NotAhead, Program \in busy
  PROVE  Told \in Int /\ Value(now) \in Int /\ Told <= Value(now)
<1>1. /\ sample[Program] \in Int /\ now \in Int /\ sample[Program] <= now
      /\ t0 \in Int /\ stopTime \in Int /\ hold \in Int
  BY ClockAssumption, ProgramAssumption DEF TypeOK, NotAhead, Procs
<1>2. CASE stopped
  BY <1>1, <1>2 DEF Told, Value
<1>3. CASE ~stopped
  <2>1. Told = IF holdSet /\ sample[Program] > t0 + hold THEN hold ELSE sample[Program] - t0
    BY <1>3 DEF Told, Value
  <2>2. Value(now) = IF holdSet /\ now > t0 + hold THEN hold ELSE now - t0
    BY <1>3 DEF Value
  <2> QED
    BY <1>1, <2>1, <2>2
<1> QED
  BY <1>2, <1>3

\* What is skipped before the start had passed.
LEMMA WaitOrdered ==
  ASSUME TypeOK, NotAhead, Ordered, Program \in busy, WaitForStart
  PROVE  Ordered' /\ ran' = ran
<1>1. /\ phase = "waiting" /\ phase' \in {"waiting", "running"}
      /\ UNCHANGED <<events, ran>> /\ ran = {}
      /\ i' = first_event' + 1
      /\ late' = late \cup {k \in Pending : events[k].time < Value(now)}
  BY DEF WaitForStart, parser, Ordered
<1>2. /\ first_event' \in first_event .. Len(events)
      /\ \A k \in first_event + 1 .. first_event' : events[k].time < Told
  BY DEF WaitForStart, PassedUpTo
<1>3. Len(events) \in Nat /\ first_event \in Nat /\ first_event <= Len(events)
  BY LenProperties DEF Ordered
<1>4. \A k \in 1 .. Len(events) : events[k].time \in Int
  <2>1. \A k \in 1 .. Len(events) : events[k] \in Event
    BY ElementOfSeq DEF Ordered
  <2> QED
    BY <2>1 DEF Event
<1>5. \A k \in 1 .. first_event' : k \in late'
  <2> SUFFICES ASSUME NEW k \in 1 .. first_event' PROVE k \in late'
    OBVIOUS
  <2>1. CASE k <= first_event
    <3>1. i # 0
      BY <1>3, <2>1 DEF Ordered
    <3>2. k \in 1 .. i - 1
      BY <1>1, <1>2, <1>3, <2>1, <3>1 DEF Ordered
    <3> QED
      BY <1>1, <3>2 DEF Ordered, NothingForgotten
  <2>2. CASE k > first_event
    <3>1. k \in Pending /\ k \in 1 .. Len(events) /\ events[k].time < Told
      BY <1>2, <1>3, <2>2 DEF Pending
    <3>2. events[k].time < Value(now)
      BY <1>4, <3>1, ToldPast
    <3> QED
      BY <1>1, <3>1, <3>2
  <2> QED
    BY <1>2, <1>3, <2>1, <2>2
<1>6. first_event' \in 0 .. Len(events') /\ i' \in Nat /\ i' # 0
  <2>1. first_event' \in Nat /\ first_event' <= Len(events)
    BY <1>2, <1>3
  <2>2. i' \in Nat /\ i' # 0
    <3>1. i' = first_event' + 1
      BY <1>1
    <3>2. \A n \in Nat : n + 1 \in Nat /\ n + 1 # 0
      OBVIOUS
    <3>3. first_event' + 1 \in Nat /\ first_event' + 1 # 0
      BY <2>1, <3>2
    <3> QED
      BY <3>1, <3>3, Zenon
  <2>3. Len(events') = Len(events)
    BY <1>1
  <2> QED
    BY <1>3, <2>1, <2>2, <2>3
<1>7. NothingForgotten'
  <2>1. first_event' \in Nat
    BY <1>2, <1>3
  <2>2. \A n \in Nat : \A k \in 1 .. (n + 1) - 1 : k \in 1 .. n
    OBVIOUS
  <2>3. i' = first_event' + 1
    BY <1>1
  <2>4. \A k \in 1 .. i' - 1 : k \in 1 .. first_event'
    BY <2>1, <2>2, <2>3, Zenon
  <2> QED
    BY <1>1, <1>5, <2>4 DEF NothingForgotten
<1>8. Sorted' /\ events' \in Seq(Event)
  BY <1>1 DEF Ordered, Sorted
<1> QED
  BY <1>1, <1>6, <1>7, <1>8 DEF Ordered

\* A look at the clock leaves the events alone.
LEMMA LookOrdered ==
  ASSUME Ordered, LookAgain
  PROVE  Ordered' /\ ran' = ran
<1>1. /\ phase = "running" /\ i <= Len(events) /\ phase' \in {"running", "due", "ended"}
      /\ UNCHANGED <<events, first_event, i, ran, late>>
  BY DEF LookAgain, parser
<1>2. NothingForgotten' /\ Sorted' /\ events' \in Seq(Event)
  BY <1>1 DEF Ordered, NothingForgotten, Sorted
<1> QED
  BY <1>1, <1>2 DEF Ordered

\* The event the loop is at is carried out, after those before it, and the loop goes on.
LEMMA RunOrdered ==
  ASSUME Ordered, RunEvent
  PROVE  /\ Ordered' /\ ran' \ ran \subseteq {i}
         /\ \A j \in ran : events[j].time <= events[i].time
<1>1. /\ phase = "due" /\ i <= Len(events) /\ i \in Nat /\ i # 0 /\ Sorted
      /\ phase' = "running" /\ i' = i + 1 /\ ran' = ran \cup {i}
      /\ UNCHANGED <<events, first_event, late>>
  BY DEF RunEvent, parser, Ordered
<1>2. Len(events) \in Nat /\ i \in 1 .. Len(events)
  <2>1. Len(events) \in Nat
    BY LenProperties DEF Ordered
  <2> QED
    BY <1>1, <2>1
<1>3. \A k \in ran : k \in 1 .. Len(events) /\ k < i
  BY DEF Ordered
<1>4. \A j \in ran : events[j].time <= events[i].time
  BY <1>1, <1>2, <1>3 DEF Sorted
<1>5. NothingForgotten'
  <2>1. \A k \in 1 .. i' - 1 : k = i \/ k \in 1 .. i - 1
    BY <1>1
  <2> QED
    BY <1>1, <2>1 DEF Ordered, NothingForgotten
<1>6. ran' \subseteq {k \in 1 .. Len(events') : k < i'}
  <2> SUFFICES ASSUME NEW k \in ran' PROVE k \in 1 .. Len(events) /\ k < i + 1
    BY <1>1
  <2>1. CASE k \in ran
    <3>1. k \in 1 .. Len(events) /\ k < i
      BY <1>3, <2>1
    <3> QED
      BY <1>1, <3>1
  <2>2. CASE k = i
    BY <1>1, <1>2, <2>2
  <2> QED
    BY <1>1, <2>1, <2>2
<1>7. i' \in Nat /\ i' # 0 /\ Sorted' /\ events' \in Seq(Event)
  <2>1. i' \in Nat /\ i' # 0
    BY <1>1
  <2> QED
    BY <1>1, <2>1 DEF Ordered, Sorted
<1>8. Ordered'
  BY <1>1, <1>5, <1>6, <1>7 DEF Ordered
<1> QED
  BY <1>1, <1>4, <1>8

\* The end of the program, and the steps of others, leave events alone.
LEMMA OtherOrdered ==
  ASSUME Ordered, Complete \/ GiveUp \/ ClockStep \/ UNCHANGED progVars
  PROVE  Ordered' /\ ran' = ran
<1>1. /\ UNCHANGED <<events, first_event, i, ran, late>>
      /\ phase' = phase \/ phase' = "ended"
  BY DEF Complete, GiveUp, ClockStep, progVars, parser
<1>2. NothingForgotten'
  BY <1>1 DEF Ordered, NothingForgotten
<1>3. Sorted => Sorted'
  BY <1>1 DEF Sorted
<1>4. events' \in Seq(Event) /\ first_event' \in 0 .. Len(events') /\ i' \in Nat
      /\ ran' \subseteq {k \in 1 .. Len(events') : k < i'}
  BY <1>1 DEF Ordered
<1> QED
  BY <1>1, <1>2, <1>3, <1>4 DEF Ordered

\* What a look has found is so until somebody changes the clock, and an event is due only
\* after a look.
Watched ==
  /\ phase = "due" => look # "none"
  /\ look \in {"none", "fresh", "stale"}
  /\ look = "fresh" => /\ phase \in {"running", "due"} /\ i <= Len(events)
                       /\ ~stopped /\ events[i].time <= Value(now)

\* A clock that nobody changes does not go back.
LEMMA ClockGoesOn ==
  ASSUME TypeOK, UNCHANGED clock, ~stopped, now' \in Int, now <= now'
  PROVE  Value(now) \in Int /\ Value(now)' \in Int /\ Value(now) <= Value(now)'
<1>1. /\ now \in Int /\ t0 \in Int /\ hold \in Int
      /\ UNCHANGED <<t0, hold, holdSet, stopped>>
  BY ClockAssumption DEF TypeOK, clock
<1>2. Value(now) = IF holdSet /\ now > t0 + hold THEN hold ELSE now - t0
  BY DEF Value
<1>3. Value(now)' = IF holdSet /\ now' > t0 + hold THEN hold ELSE now' - t0
  BY <1>1 DEF Value
<1>4. \A n, m, t, h \in Int : \A s \in BOOLEAN : n <= m =>
        /\ (IF s /\ n > t + h THEN h ELSE n - t) \in Int
        /\ (IF s /\ m > t + h THEN h ELSE m - t) \in Int
        /\ (IF s /\ n > t + h THEN h ELSE n - t) <= (IF s /\ m > t + h THEN h ELSE m - t)
  OBVIOUS
<1>5. holdSet \in BOOLEAN
  BY DEF TypeOK
<1>6. /\ (IF holdSet /\ now > t0 + hold THEN hold ELSE now - t0) \in Int
      /\ (IF holdSet /\ now' > t0 + hold THEN hold ELSE now' - t0) \in Int
      /\ (IF holdSet /\ now > t0 + hold THEN hold ELSE now - t0)
           <= (IF holdSet /\ now' > t0 + hold THEN hold ELSE now' - t0)
  BY <1>1, <1>4, <1>5, Zenon
<1> QED
  BY <1>2, <1>3, <1>6, Zenon

\* The time of day does not go back.
LEMMA TimeGoesOn == TypeOK /\ [Next]_vars => now' \in Int /\ now <= now'
<1> SUFFICES ASSUME TypeOK, [Next]_vars PROVE now' \in Int /\ now <= now'
  OBVIOUS
<1>1. now \in Int
  BY ClockAssumption DEF TypeOK
<1>2. now' = now \/ now' = now + 1
  BY DEF Next, vars, Tick, Do, Start, Stop, SetHold, ReleaseHold, SetClock, Refuse, Done, Issue,
     BeginRead, Read
<1> QED
  BY <1>1, <1>2

\* Times of events are numbers.
LEMMA EventTimes ==
  ASSUME Ordered, i \in 1 .. Len(events)
  PROVE  events[i].time \in Int
<1>1. events[i] \in Event
  BY ElementOfSeq DEF Ordered
<1> QED
  BY <1>1 DEF Event

\* What other programs do to the clock is noticed by the history, and what they do not do
\* leaves what the program saw.
LEMMA ClockWatched ==
  ASSUME TypeOK, Ordered, Watched, [Next]_vars, UNCHANGED <<phase, events, i>>,
         look' = IF look = "fresh" /\ clock' # clock THEN "stale" ELSE look
  PROVE  Watched'
<1>1. CASE look = "fresh" /\ clock' = clock
  <2>1. /\ phase \in {"running", "due"} /\ i <= Len(events)
        /\ ~stopped /\ events[i].time <= Value(now)
    BY <1>1 DEF Watched
  <2>2. /\ Value(now) \in Int /\ Value(now)' \in Int /\ Value(now) <= Value(now)'
        /\ stopped' = stopped
    BY <1>1, <2>1, ClockGoesOn, TimeGoesOn DEF clock
  <2>3. i \in 1 .. Len(events)
    <3>1. i \in Nat /\ i # 0 /\ Len(events) \in Nat
      BY <2>1, LenProperties DEF Ordered
    <3> QED
      BY <2>1, <3>1
  <2>4. events[i].time <= Value(now)'
    <3>1. events[i].time \in Int
      BY <2>3, EventTimes
    <3> QED
      BY <2>1, <2>2, <3>1
  <2> QED
    BY <1>1, <2>1, <2>2, <2>4 DEF Watched
<1>2. CASE ~(look = "fresh" /\ clock' = clock)
  BY <1>2 DEF Watched
<1> QED
  BY <1>1, <1>2

\* A look finds an event due only if it is.
LEMMA LookWatched ==
  ASSUME TypeOK, NotAhead, Ordered, Watched, Read(Program), LookAgain
  PROVE  Watched'
<1>1. /\ phase = "running" /\ i <= Len(events) /\ UNCHANGED <<events, i, now, clock>>
      /\ Program \in busy
  BY DEF LookAgain, parser, Read
<1>2. Value(now)' = Value(now) /\ stopped' = stopped
  BY <1>1 DEF Value, clock
<1>3. i \in 1 .. Len(events)
  <2>1. i \in Nat /\ i # 0 /\ Len(events) \in Nat
    BY <1>1, LenProperties DEF Ordered
  <2> QED
    BY <1>1, <2>1
<1>4. phase' = "due" => ~stopped /\ events[i].time <= Value(now)
  <2>1. phase' = "due" => ~stopped /\ ~(Told < events[i].time)
    BY DEF LookAgain
  <2>2. Told \in Int /\ Value(now) \in Int /\ Told <= Value(now) /\ events[i].time \in Int
    BY <1>1, <1>3, ToldPast, EventTimes
  <2> QED
    BY <2>1, <2>2
<1>5. look' = IF ~stopped /\ events[i].time <= Value(now) THEN "fresh" ELSE "none"
  BY DEF LookAgain, Looked
<1>6. phase' \in {"running", "due", "ended"} /\ (phase' = "ended" => stopped)
  BY DEF LookAgain
<1> QED
  BY <1>1, <1>2, <1>4, <1>5, <1>6 DEF Watched

\* What is carried out is carried out after a look, and in order.
OnTime ==
  ran' # ran => /\ look # "none"
                /\ look = "fresh" => ~stopped /\ \A k \in ran' \ ran : events[k].time <= Value(now)
                /\ \A k \in ran' \ ran, j \in ran : events[j].time <= events[k].time

\* Every step keeps the events in order.
LEMMA ProgStepOrdered ==
  ASSUME Numbers, TypeOK, NotAhead, Ordered, [ProgNext]_<<vars, progVars>>
  PROVE  Ordered' /\ (ran' = ran \/ RunEvent)
<1>1. ASSUME NEW line \in Lines, ReadLine(line) PROVE Ordered' /\ ran' = ran
  BY <1>1, ReadLineOrdered
<1>2. CASE Load
  BY <1>2, LoadOrdered
<1>3. CASE Complete \/ GiveUp \/ ClockStep \/ UNCHANGED progVars
  BY <1>3, OtherOrdered
<1>4. CASE Read(Program) /\ WaitForStart
  BY <1>4, WaitOrdered DEF Read
<1>5. CASE Read(Program) /\ LookAgain
  BY <1>5, LookOrdered
<1>6. CASE RunEvent
  BY <1>6, RunOrdered
<1> QED
  BY <1>1, <1>2, <1>3, <1>4, <1>5, <1>6 DEF ProgNext, ProgStep

\* Every step keeps the history of looks.
LEMMA ProgStepWatched ==
  ASSUME TypeOK, NotAhead, Ordered, Watched, [ProgNext]_<<vars, progVars>>
  PROVE  Watched'
<1>1. ASSUME NEW line \in Lines, ReadLine(line) PROVE Watched'
  <2>1. phase = "parsing" /\ phase' \in {"parsing", "ended"} /\ look' = look
    BY <1>1 DEF ReadLine, MessageLine, CommandLine, MacroLine, OtherLine, AddEvent, Fail
  <2> QED
    BY <2>1 DEF Watched
<1>2. CASE Load
  BY <1>2 DEF Load, Watched
<1>3. CASE Complete
  <2>1. ~(i <= Len(events))
    BY <1>3, LenProperties DEF Complete, Ordered
  <2> QED
    BY <1>3, <2>1 DEF Complete, Watched
<1>4. CASE GiveUp
  BY <1>4 DEF GiveUp, Watched
<1>5. CASE RunEvent
  BY <1>5 DEF RunEvent, Watched
<1>6. CASE WaitForStart
  <2>1. phase = "waiting" /\ phase' \in {"waiting", "running"} /\ look' = look
    BY <1>6 DEF WaitForStart
  <2> QED
    BY <2>1 DEF Watched
<1>7. CASE Read(Program) /\ LookAgain
  BY <1>7, LookWatched
<1>8. CASE ClockStep
  BY <1>8, ProgStepsRead, ClockWatched DEF ClockStep, parser
<1>9. CASE BeginRead(Program) /\ UNCHANGED progVars
  BY <1>9, ProgStepsRead, ClockWatched DEF BeginRead, progVars, parser
<1>10. CASE UNCHANGED <<vars, progVars>>
  BY <1>10, ProgStepsRead, ClockWatched DEF vars, progVars, parser
<1> QED
  BY <1>1, <1>2, <1>3, <1>4, <1>5, <1>6, <1>7, <1>8, <1>9, <1>10 DEF ProgNext, ProgStep

\* Every event that the loop went past was carried out, or had passed when the
\* program looked at the clock before the start.
THEOREM EventsKept ==
  ASSUME Numbers
  PROVE  ProgSpec /\ []NoWrap => []NothingForgotten
<1>1. Ordered => NothingForgotten
  BY DEF Ordered
<1>2. TypeOK /\ NotAhead /\ Ordered /\ [ProgNext]_<<vars, progVars>> => Ordered'
  BY ProgStepOrdered
<1>3. ProgInit => Init
  BY DEF ProgInit
<1> QED
  BY <1>3, InitTypes, StepTypes, NotAheadInit, NotAheadStep, OrderedInit, ProgStepsRead, <1>1, <1>2, PTL
  DEF ProgSpec

\* An event is carried out only after a look that found the clock running and at its time or
\* later, and after every event of an earlier time; the clock still runs and shows that time
\* unless somebody has changed it since.
THEOREM EventsOnTime ==
  ASSUME Numbers
  PROVE  ProgSpec /\ []NoWrap => RunsOnTime
<1>1. ProgInit => Init /\ Watched
  BY DEF ProgInit, Watched
<1>2. TypeOK /\ NotAhead /\ Ordered /\ Watched /\ [ProgNext]_<<vars, progVars>> =>
        Ordered' /\ Watched' /\ OnTime
  <2> SUFFICES ASSUME TypeOK, NotAhead, Ordered, Watched, [ProgNext]_<<vars, progVars>>
               PROVE  Ordered' /\ Watched' /\ OnTime
    OBVIOUS
  <2>1. Ordered' /\ Watched' /\ (ran' = ran \/ RunEvent)
    BY ProgStepOrdered, ProgStepWatched
  <2>2. ASSUME RunEvent PROVE OnTime
    <3>1. /\ ran' \ ran \subseteq {i}
          /\ \A j \in ran : events[j].time <= events[i].time
      BY <2>2, RunOrdered
    <3>2. look # "none" /\ (look = "fresh" => ~stopped /\ events[i].time <= Value(now))
      BY <2>2 DEF RunEvent, Watched
    <3> QED
      BY <3>1, <3>2 DEF OnTime
  <2> QED
    BY <2>1, <2>2 DEF OnTime
<1>3. OnTime =>
        [ran' # ran =>
           /\ look # "none"
           /\ look = "fresh" => ~stopped /\ \A k \in ran' \ ran : events[k].time <= Value(now)
           /\ \A k \in ran' \ ran, j \in ran :
                events[j].time <= events[k].time]_<<vars, progVars>>
  BY DEF OnTime
<1> QED
  BY <1>1, <1>2, <1>3, InitTypes, StepTypes, NotAheadInit, NotAheadStep, OrderedInit, ProgStepsRead,
     PTL
  DEF ProgSpec, RunsOnTime
=============================================================================
