---------------------------- MODULE EngineProgram ----------------------------
(***************************************************************************)
(* ec_program: it reads a program of timed events, waits for the countdown *)
(* clock to start, and carries the events out when the clock says so,      *)
(* while controllers start, stop, hold and set that clock.                 *)
(*                                                                         *)
(* A line is the sequence of its tokens.  The program reads the clock like *)
(* any other reader (see CountdownClock).  The time between two reads      *)
(* stands for usleep and for the exchange with the engine controller (see  *)
(* EngineController), after which the program goes on or gives up.         *)
(***************************************************************************)
EXTENDS CountdownClock, Sequences, SequencesExt

CONSTANTS
  Program,    \* the reader that is ec_program
  Lines,      \* what the lines of a program may be
  MaxLines,   \* bound: lines of a program
  Strtol(_),  \* the number that strtol makes of a token: 0 of what is none
  Opens(_),   \* a token that begins with a quote
  Closes(_)   \* a token that ends with a quote

ASSUME ProgramAssumption == Program \in Readers

VARIABLES
  phase,      \* "parsing", "waiting", "running", "due" (event i is), "ended"
  lines,      \* lines read so far
  macros,
  curr_time,  \* time of the last event read, or none
  events,
  first_event,  \* events that are skipped, the first ones
  i,          \* the event the loop is at
  ran,        \* history: events carried out
  late,       \* history: events whose time had passed at a look at the clock
  look        \* history: "fresh" once the program has looked at a clock that ran and had come
              \* to event i, "stale" if the clock was changed since, else "none"

parser == <<lines, macros, curr_time, events>>
progVars == <<phase, parser, first_event, i, ran, late, look>>

ProgInit ==
  /\ Init
  /\ phase = "parsing"
  /\ lines = 0 /\ macros = <<>> /\ curr_time = <<>> /\ events = <<>>
  /\ first_event = 0 /\ i = 0
  /\ ran = {} /\ late = {} /\ look = "none"

-----------------------------------------------------------------------------
(* The program file.                                                        *)

\* A token that begins with # ends the line; empty tokens are dropped.
Tokens(line) ==
  LET comments == {k \in DOMAIN line : line[k] = "#"}
      end == IF comments = {} THEN Len(line) + 1 ELSE Min(comments)
  IN  SelectSeq(SubSeq(line, 1, end - 1), LAMBDA t : t # "")

Fail == phase' = "ended" /\ UNCHANGED <<macros, curr_time, events>>

\* Times may not go back.
AddEvent(type, t) ==
  IF curr_time # <<>> /\ t < Last(curr_time) THEN Fail
  ELSE /\ events' = Append(events, [time |-> t, type |-> type])
       /\ curr_time' = <<t>>
       /\ UNCHANGED <<phase, macros>>

\* <time> MSG "...": macros are not replaced.
MessageLine(tokens) ==
  /\ tokens[2] = "MSG"
  /\ IF Len(tokens) > 2 /\ Opens(tokens[3]) /\ Closes(Last(tokens))
     THEN AddEvent("MESSAGE", Strtol(tokens[1]))
     ELSE Fail  \* of two tokens the third is read all the same: the build crashes or fails

MacroLine(tokens) ==
  /\ Len(tokens) = 3 /\ tokens[2] = "="
  /\ macros' = [t \in DOMAIN macros \cup {tokens[1]} |->
                  IF t = tokens[1] THEN tokens[3] ELSE macros[t]]
  /\ UNCHANGED <<phase, curr_time, events>>

\* <time> <control> <state>, each of which may be a macro.
CommandLine(tokens) ==
  LET t == IF tokens[1] \in DOMAIN macros THEN macros[tokens[1]] ELSE tokens[1]
  IN  /\ Len(tokens) = 3 /\ tokens[2] \notin {"=", "MSG"}
      /\ AddEvent("COMMAND", Strtol(t))

\* Of one token the second is read all the same: the build crashes or fails.
OtherLine(tokens) ==
  /\ tokens # <<"end">> /\ Len(tokens) \in Nat \ {0, 3}
  /\ ~(Len(tokens) > 1 /\ tokens[2] = "MSG")
  /\ Fail

ReadLine(line) ==
  LET tokens == Tokens(line)
  IN  /\ phase = "parsing" /\ lines < MaxLines
      /\ tokens # <<"end">>
      /\ lines' = lines + 1
      /\ \/ tokens = <<>> /\ UNCHANGED <<phase, macros, curr_time, events>>
         \/ Len(tokens) > 1 /\ MessageLine(tokens)
         \/ MacroLine(tokens)
         \/ CommandLine(tokens)
         \/ OtherLine(tokens)
      /\ UNCHANGED <<first_event, i, ran, late, look>>

\* "end" or the end of the file: the events are sorted by time; std::sort may exchange
\* events of one time.  Then all that the program needs is opened, or it ends.
Load ==
  /\ phase = "parsing"
  /\ \E f \in [DOMAIN events -> DOMAIN events] :
       /\ IsInjective(f)
       /\ \A j, k \in DOMAIN events : j < k => events[f[j]].time <= events[f[k]].time
       /\ events' = [k \in DOMAIN events |-> events[f[k]]]
  /\ phase' \in {"waiting", "ended"}
  /\ lines' = 0 /\ macros' = <<>> /\ curr_time' = <<>>  \* nobody reads them again
  /\ UNCHANGED <<first_event, i, ran, late, look>>

-----------------------------------------------------------------------------
(* Carrying it out.                                                         *)

Pending == first_event + 1 .. Len(events)
\* The time the program is told by a read that ends now.
Told == Value(sample[Program])

\* Of the pending events those up to f have passed at t; the loop stops at the next one.
PassedUpTo(f, t) ==
  /\ \A k \in first_event + 1 .. f : events[k].time < t
  /\ f < Len(events) => events[f + 1].time >= t

\* Mutant: an event that is due now has passed.
WaitPastDue ==
  /\ phase = "waiting"
  /\ first_event' \in {f \in first_event .. Len(events) :
                        /\ \A k \in first_event + 1 .. f : events[k].time <= Told
                        /\ f < Len(events) => events[f + 1].time > Told}
  /\ late' = late \cup {k \in Pending : events[k].time < Value(now)}
  /\ phase' = IF stopped THEN "waiting" ELSE "running"
  /\ i' = first_event' + 1
  /\ UNCHANGED <<parser, ran, look>>

\* A look at the clock while it is waited for, stopped or not.  What is skipped now stays
\* skipped, also if the clock is set back before it starts.
WaitForStart ==
  /\ phase = "waiting"
  /\ first_event' \in {f \in first_event .. Len(events) : PassedUpTo(f, Told)}
  /\ late' = late \cup {k \in Pending : events[k].time < Value(now)}
  /\ phase' = IF stopped THEN "waiting" ELSE "running"
  /\ i' = first_event' + 1
  /\ UNCHANGED <<parser, ran, look>>

\* What the history says of a look at the clock.
Looked ==
  look' = IF ~stopped /\ events[i].time <= Value(now) THEN "fresh" ELSE "none"

\* Mutant: when the event is waited for, the clock is not looked at again.
LookOnce ==
  /\ phase = "running" /\ i <= Len(events)
  /\ phase' = IF stopped THEN "ended" ELSE "due"
  /\ Looked
  /\ UNCHANGED <<parser, first_event, i, ran, late>>

\* The loop's look at the clock: stopped, too early, or event i is due.
LookAgain ==
  /\ phase = "running" /\ i <= Len(events)
  /\ phase' = CASE stopped -> "ended"
                [] ~stopped /\ Told < events[i].time -> "running"
                [] OTHER -> "due"
  /\ Looked
  /\ UNCHANGED <<parser, first_event, i, ran, late>>

\* Event i is carried out, whatever has become of the clock since.
RunEvent ==
  /\ phase = "due"
  /\ phase' = "running"
  /\ i' = i + 1 /\ ran' = ran \cup {i}
  /\ look' = "none"
  /\ UNCHANGED <<parser, first_event, late>>

\* The last event is done.
Complete ==
  /\ phase = "running" /\ i > Len(events)
  /\ phase' = "ended"
  /\ UNCHANGED <<parser, first_event, i, ran, late, look>>

\* A signal, or a command that could not be sent or was not acknowledged.
GiveUp ==
  /\ phase \in {"waiting", "running", "due"} /\ Program \notin busy
  /\ phase' = "ended" /\ look' = "none"
  /\ UNCHANGED <<parser, first_event, i, ran, late>>

Looking == phase = "waiting" \/ (phase = "running" /\ i <= Len(events))

-----------------------------------------------------------------------------
\* A program is parsed before it looks at the clock, and the clock may do anything before
\* that look: it waits for the program here, and nobody looks when the program has ended.
ProgStep ==
  \/ /\ \/ \E line \in Lines : ReadLine(line)
        \/ Load
        \/ RunEvent
        \/ Complete
        \/ GiveUp
     /\ UNCHANGED vars
  \/ Looking /\ BeginRead(Program) /\ UNCHANGED progVars
  \/ Read(Program) /\ (WaitForStart \/ LookAgain)

ClockStep ==
  /\ \/ Tick
     \/ \E c \in Controllers : Do(c) \/ (\E k \in Commands : Issue(c, k))
     \/ \E r \in Readers \ {Program} : BeginRead(r) \/ Read(r)
  /\ look' = IF look = "fresh" /\ clock' # clock THEN "stale" ELSE look
  /\ UNCHANGED <<phase, parser, first_event, i, ran, late>>

ProgNext == ProgStep \/ (phase \in {"waiting", "running", "due"} /\ ClockStep)

ProgSpec == ProgInit /\ [][ProgNext]_<<vars, progVars>>

-----------------------------------------------------------------------------
(* Properties.                                                              *)

\* Whatever was done to the clock while the program slept or waited for an answer (stopped
\* and started, set back, held): an event is carried out only after a look that found the
\* clock running and at its time or later, taken after the event before was carried out, and
\* after every event of an earlier time.  Unless somebody has changed the clock since that
\* look, it still runs and shows the time of the event or more.
RunsOnTime ==
  [][ran' # ran =>
       /\ look # "none"
       /\ look = "fresh" => ~stopped /\ \A k \in ran' \ ran : events[k].time <= Value(now)
       /\ \A k \in ran' \ ran, j \in ran : events[j].time <= events[k].time]_<<vars, progVars>>

\* Nothing is forgotten: every event before the one the program is at was carried out, or
\* its time had passed when the program looked at the clock before the start.
NothingForgotten == \A k \in 1 .. i - 1 : k \in ran \cup late

=============================================================================
