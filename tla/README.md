# GSW-2021: models, checks and proofs

TLA+ models of the RIT Launch Initiative ground software, with the TLC
configurations that check them and TLAPS proofs of what matters most. Paths
below are relative to the repository's `src/`. Line numbers are those of the
commit beside which this directory is kept. `PROJECT.json` maps every definition
to the lines it models.

## 1. The system

The ground software is a set of Linux processes on one machine that communicate
through System V shared memory, POSIX semaphores inside it, one futex, message
queues and UDP. A configuration file (VCM) names the vehicle's packets and the
measurements in them; it is read once by each process and never changes.

```
 vehicle ──UDP──> decom (one process per packet) ──┐
                    │ address of the device        │ write
                    v                              v
                  NmShm                     TelemetryShm <──lock/flush── mmon
                    │ address                      │                (triggers)
 vehicle <──UDP── uplink <──mqueue── ec_cmd,       │ update (futex)
                                  ec_program <─────┴──> viewers, forwarders
                                     │
                                   vlock        CountdownClock <── clock_ctrl
 every process ──mqueue──> dlp (logs)           shmctl creates/destroys it all
```

### Inventory

| component | code | state | operations | made of |
|---|---|---|---|---|
| TelemetryShm | `lib/telemetry/src/TelemetryShm.cpp` | master nonce, reader and writer counts, four semaphores; data, nonce and write lock per packet; per client: nonces last seen | create, open, write, clear, read_lock (all or a list; standard, blocking, non-blocking; with timeout), read_unlock, write_lock, sighandler, update_value | readers-writers protocol with writers' preference; a futex on the nonce |
| TelemetryViewer | `.../TelemetryViewer.cpp` | tracked packets, private copies of them, `check_all` | add, add_all, remove_all, update, latest_data, get_*, sighandler | read_lock, copy, read_unlock |
| TelemetryWriter | `.../TelemetryWriter.cpp` | cache of the virtual packets, dirty flags | lock, write, write_raw, flush, unlock | write locks of TelemetryShm |
| mmon | `proc/mmon/src/main.cpp` | killed flag, flush flag | loop: update, lock, triggers, flush, unlock; signal | viewer and writer on one TelemetryShm |
| decom, uplink | `proc/decom`, `proc/uplink` | a master and one child per packet or device; per process: `ignore_kill`, `child_proc`, pids | fork, mark, initialise, reap, wait; receive and write; dequeue and send | NmShm, message queue, signals |
| nm | `lib/nm/src/nm.cpp`, `NmShm.cpp` | per device: address, nonce, semaphore; per process: block count, nonce seen, address | rx + update_addr, tx + get_addr | semaphore tried, then waited for |
| vlock | `lib/vlock/src/vlock.cpp` | a semaphore per resource | try_lock, lock, unlock | shared memory |
| ec_cmd, ec_program | `app/propulsion` | sequence number seen, retries, locks held; the events of a program, and the one it is at | send a command, await acknowledgement; parse, wait for the clock, carry out | viewer, vlock, uplink queue, clock |
| ec_sim | `sim/ec_sim` | sequence number reached | execute, acknowledge | UDP |
| CountdownClock | `lib/clock/src/clock.cpp` | t0, stop time, hold, flags, semaphore | start, stop, hold, release, set, read | shared memory |
| shmctl, Shm | `proc/shmctl`, `lib/shm` | the segments of the kernel | -on, -off; create, attach, detach, destroy | all libraries above |
| dls, dlp | `lib/dls`, `proc/dlp`, `proc/tool` | a message queue of text and one of packets; a thread of dlp, its files and its index for each; a block with the enable flag; `ignore_sig` | log, file, rotate, enable, disable, read back; signal | message queues, shared memory |
| vcm | `lib/vcm` | measurements with locations, packets, devices, ports | read the configuration line by line | |
| trigger, ec, daq, convert | `lib/...` | none that lasts, but for a static time in one function | conversions of bytes; functions of measurements | viewer, writer |
| applications | `app/...` | none shared | show or forward what a viewer returns | viewer |

### What is hard, and what makes each part correct

* **TelemetryShm.** Fourteen places of a writer and seventeen of a reader
  interleave; `readTry` and `resource` are released by another process than the
  one that took them; the nonce may change between `read_unlock` and the futex
  wait; signals detach a viewer at any instruction. Correct means: no packet is
  read while it is written, the counters count, writers have preference, no
  wake-up is lost, an update is a snapshot, every started write ends.
* **TelemetryWriter and mmon.** Two monitors rewrite whole packets, including
  measurements of the other, from caches that were filled earlier. Correct means:
  no measurement goes back to an older sample, copies in several packets agree,
  all settle at the newest sample, also after one monitor was restarted.
* **Engine commands.** A sequence number is read before the lock is taken; the
  network loses, repeats, delays; a sender gives up while its message is queued;
  a signal comes between any two steps. Correct means: one sender at a time,
  each command carried out once and in order, an acknowledgement that can be
  believed.
* **nm.** The address is copied in two halves, under a semaphore that is given up
  on. Correct means: never a torn address, no address thought seen that was not,
  a bounded number of addresses dropped in a row.
* **CountdownClock.** The time of day is read before the wait for the semaphore.
  Correct means: a command does not make the clock jump, a start does not lose a
  hold, a read is as old as the caller's wait and no older.
* **shmctl.** A run is some forty system calls and may race another run and
  clients that attach. Correct means: all or nothing where nothing failed, and no
  client that attached successfully uses an uninitialised block.
* **dls and dlp.** Two threads share one flag that holds the signal handler back;
  queues outlive processes and block who writes to them when they are full. Correct
  means: nothing is lost, repeated or reordered on the way to the files, a log reads
  back as what was logged, disabling takes effect, an end cleans up, and a logger
  waits only while somebody reads.
* **The process trees.** A signal may come between any two steps of a master that
  forks and of children that are half made. Correct means: no child outlives the
  master, only the master reaps, and it knows every child by then.
* **ec_program's events.** The clock is stopped, held and set back while the program
  sleeps. Correct means: each event after a look of its own that finds the clock running
  and the event's time come, none out of order, and none forgotten. The semaphore is free
  between that look and the event, so an event may meet a clock that was stopped or set
  back in between; no more can be claimed.
* **vcm.** Sizes, ports and names come in any number and order. Correct means:
  measurements lie inside their packets and apart, ports and ids are unique.
* **TelemetryViewer's list, and values.** Packets are added and removed between
  writes; a measurement may lie in several packets, in either byte order. Correct
  means: a program sees the newest copy, and a value read is the value meant.

## 2. Modules

| module | models | state and actions |
|---|---|---|
| `TelemetryShm` | TelemetryShm.cpp, the update loop of TelemetryViewer | One action per semaphore operation, access to a shared word or futex call, named for what it does (`CountWriter`, `SetPacketNonce`, `FutexWait`, ...). `pc` is the place in `write`/`clear` or `read_lock`/`read_unlock`. `Signal` is the handler, enabled at every place of a reader; a detached reader keeps what it held (`fate`). `leaked` counts the read locks that `INTERRUPTED` returns leave behind. |
| `TelemetryStore` | the abstract specification: atomic writes, atomic snapshots | refined by `TelemetryShm` (`ImplementsStore`) |
| `MeasurementMonitor` | TelemetryWriter, mmon, the write of decom | A `write` of TelemetryShm is one step, `lock`, `flush` and `unlock` are one step per packet. `Signal` is the handler: `Kill` outside of calls into TelemetryShm, `KillReading`, `KillWriting` and `KillLeaving` inside `update` and `write`, where it leaves semaphores taken (`taken`). `BlockedRead` and `BlockedWrite` take more on their way to one of these. |
| `EngineController` | ec_cmd, the sending half of ec_program, vlock, the uplink queue, the network, ec_sim | One action per call that touches shared state. `Locks` is `try_lock`; `lock` with a timeout never waits in the code and is the same. `Stick` is a call that never returns: a logger whose queue is full, an `update` whose semaphores were left taken. `Awaits` is ec_program at the clock. |
| `NetworkManager` | NmShm, the automatic receiver, the transmitter, uplink's handler | The semaphore, the two halves of an address, the nonce, `static blocked`. |
| `CountdownClock` | clock.cpp | A call is two steps: the time of day is sampled, then the rest happens under the semaphore. `Tick` lets time pass. Arithmetic is modulo `Width`. |
| `EngineProgram` | the other half of ec_program, composed with `CountdownClock` | `ReadLine` and `Load` are the parser, `WaitForStart` and `LookAgain` a look at the clock before and after the start; `RunEvent` carries out an event in a step of its own, for the clock's semaphore is free in between. `look` is a history of what the last look has found. The exchange with the controller is the time between two looks. |
| `ShmLifecycle` | shmctl, Shm, `create`/`open`/`destroy` of the libraries | A run is a script of calls; a failed call skips the rest of its part. Segments have generations: one created again under a key is another segment. |
| `LogProcess` | dlp, dls, log_ctrl, the reader of log2csv | One action per system call of either thread and of the handler (`OpenQueue`, `RecordQueue`, `CreateBlock`, ...). Queues have generations too: one that was unlinked lives on for who has it open. `Encode` and `Retrieve` are the bytes of a packet in the log and their inverse. |
| `VehicleConfig` | VCM::init | One action per kind of line, with every return. The configuration it builds is the input of the next three. |
| `ProcessTree` | the processes of decom and uplink | `fork`, the push of its pid, the marks of a child, its end, `wait`, and the handler, one child per step. Each process has flags of its own, copied by the fork. `Stick` is a call that never returns, of the loop or of the handler. |
| `PacketViewer` | TelemetryViewer's list, copies and `latest_data` | A write and an update are a step. |
| `TriggerValues` | convert, COPY, SUM_UINT and the state functions, write and write_raw | Packets are bytes; a trigger function is a step on them. |
| `VehiclePrograms` | the composition of the last four | A program reads its configuration and is then what its `kind` says. |
| `TelemetryShm_proofs`, `MeasurementMonitor_proofs`, `EngineController_proofs`, `NetworkManager_proofs`, `EngineProgram_proofs`, `ShmLifecycle_proofs`, `LogProcess_proofs`, `VehiclePrograms_proofs` | | theorems, see 5 |
| `*MC` | | the values of the constants of the runs |

In every module a definition whose comment begins with "Mutant" is a plausible
bug: a wrong variant of the definition after it, used by nothing. `PROJECT.json`
says which property notices it.

Abstractions made on purpose:

* Data is a number that says where it comes from: a packet holds the number of
  the write that produced it (`TelemetryShm`), a measurement that of its sample
  (`MeasurementMonitor`), an address is two halves with the name of their owner.
  Text, logging, byte order and the layout of packets are left out.
* Single machine: sequentially consistent memory. The shared words are read and
  written under semaphores, which are fences, except for the futex word, which
  the kernel compares under its own lock.
* `sem_wait`, `shmdt`, `sem_post` on valid arguments do not fail.
* The other modules take a write or an update of `TelemetryShm` for one step:
  `ImplementsStore` justifies that grain.
* `LogProcess` leaves out lock and flag of the block a killed dlp leaves: the next dlp refuses
  it, so nobody reads its flag. Files of a dlp that ended are left out, too: the next
  one starts at index 0 and truncates them one after the other.
* `Next` of `ProcessTree` lets the operator signal the foreground group or the master
  alone; a signal that is pending twice is delivered once.
* A line of a configuration or of a program is the sequence of its tokens; what
  `stoi` and `strtol` make of a token is a constant operator.

## 3. Runs

Every constant below is a bound of a run, none of the models. The proofs of
section 5 remove those of their properties.

| run | instance | states | question and answer |
|---|---|---|---|
| `shm_safety` | two writers (one writes packet 0, one both), two blocking viewers, one of all packets and one of a list of both, 2 writes, fair | 243 thousand | Does the lock exclude, are counters and semaphores exact, do writers have preference, is no wake-up lost, is every update a snapshot, does each write end, do the viewers catch up, is there no deadlock? Yes. |
| `shm_faults` | one writer that may also clear, a standard and a waiting viewer that may time out, both may be signalled; nonces modulo 3 | 1.5 million | Is what a signal at any instruction, a leaked read lock and a nonce that wraps to 0 leave behind accounted for? Yes, and so it excludes (below). The system may stop (a leaked lock blocks all others), so deadlock is not checked. |
| `mmon_pair` | two monitors with `lock(true)`; one may be signalled at any point, inside `update` and `write` too, and restarted; one has triggers that decline or fail half-way | 836 thousand | Are caches current under the locks, does nothing revert, do copies agree, do values settle? Yes, with `check_for_updates`; values settle unless the signal has left a semaphore or a lock taken or a logger never returns. |
| `ec_commands` | ec_cmd, a program of two commands that may be signalled, a program of messages only; queue of 1, two retries; any call that may wait without end may do so | 317 thousand | Exact locks, order, at most once, trustworthy acknowledgements? Yes. Does every process end and give COMMAND back? Yes, but for those the code itself leaves waiting (`AllEnd` names them). |
| `nm_follow` | one receiver, an automatic transmitter, one like uplink's that may be killed and restarted; two addresses, 3 packets, block count 1 | 332 thousand | Is an address ever torn, missed, or dropped too often, and does the transmitter follow? No, no, no and yes. |
| `clock_jumps` | two controllers, ec_program with every file of up to two of eleven lines, arguments -1 and 1, 2 ms | 1.6 million | How far can a command move the clock (by no more than the wait for the semaphore), does a start keep a hold, is an event carried out without a look that found it due, out of order, or forgotten (no)? |
| `shm_life` | two operators, four runs of shmctl, a client, two packets, two other libraries, one creation that fails | 289 thousand | What do races and failures leave? All or nothing without failures; the beginning of a part with one. Runs are finite, so deadlock is not checked. |
| `log_process` | two starts of dlp, ended by a signal or killed; one text logger (1 message), one packet logger (2), queues of 1, a line per file, one run of log_ctrl | 430 thousand | Is something lost, repeated or reordered over the rotation (no), does a log read back (yes), how much is filed after disabling (one packet at most), what does an end leave (what `CleanExit` lists), do loggers go on (while somebody reads). |
| `vehicle_programs` | configuration files of a setting (of 4) and up to 7 of 25 lines; decom and uplink with two children, two signals, one failure; a viewer with 4 writes, 4 updates and a removal; triggers on 24 configurations with 2 packets received; a process may stand still for ever in a logger or in telemetry; a conversion buffer of 8 bytes and strings of 6 and 10 | 641 thousand | Do measurements lie in their packets and apart, are ports and ids unique, is a child left behind, does a viewer show the newest copy, is a value read the value meant? As it should be, with the exceptions the properties state. |

Three runs end with a violation, on purpose. Each shows a disagreement of the code
with what the repository says of it:

| run | what the counterexample shows |
|---|---|
| `shm_bug_bitset` | `read_lock` with a list builds its futex bitset from positions in the list (TelemetryShm.cpp:546), `write` wakes the bit of the packet id (384): a viewer of packet 1 alone sleeps through a write of packet 1. Comment at 46. |
| `mmon_bug_stale` | `lock(false)`, which mmon calls, copies only packets that had changed at the last `update`; a write of another monitor between `update` and `lock` is overwritten with the old cache. Comment at TelemetryWriter.cpp:228-235. |
| `ec_bug_ack` | the sequence number is read before the lock (ec_cmd) or may be used by someone else meanwhile; a command is reported acknowledged though another one with its number was carried out. Comment at ec_program/src/main.cpp:460-465. |

In every module a property that holds only with exceptions names them in its
definition, so that what it claims is exact: `Uncovered` (dlp's shared flag),
`Unread` (a queue nobody reads), `stale` (a packet that was read while it was not
tracked), `ignored` (a child signalled before it could take the signal), `stuck` (a process in a call
that never returns), `TooLarge` (a string without room in the buffer of the conversions), `negative`
and `Redefined` (a configuration that wraps an offset or replaces an entry), `leaked`
and `fate` (read locks left behind).

### Why the bounds are enough

* Two processes of a kind exhibit every pairwise race; the locks are proved for any
  number. Two packets distinguish "the same packet" from "another", and
  `BitsetWidth` 2 "the same bit" from "another".
* `NonceMod = 3` makes the nonce wrap within the run; elsewhere 8 keeps it from
  wrapping, as 2^32 does for hours of telemetry.
* Two retries reach both branches of the time-out; a queue of one is full and
  empty; a program of two commands makes a second command follow an old one's
  late acknowledgement.
* `BlockCount` 1 reaches both the try and the wait; three packets make an address
  change twice.
* The clock's arguments -1 and 1 and two milliseconds put a hold, an event and the
  present in every order; `Created` = 20 of `Width` = 64 keeps away from the wrap,
  where the code's arithmetic is known to be wrong (section 6). Two lines make a
  program of two events, in and out of order, or a macro and its use. The constraint
  `FewCommands` lets two commands overlap only in runs of an empty program; a
  program sees single commands between any two of its looks. The theorems about the
  clock and about events know no such bound.
* Four runs of shmctl are on, off and on again with a rival.
* `QueueSize`, `MaxLines` 1 make every message after the first wait, and rotate after
  each line. Two starts of dlp let the second meet the queues, blocked loggers and
  block the first has left, and end in its turn. A stamp of two bytes and data of two
  hold each of the four bytes that frame a record, in both places.
* Eight lines hold the setting without which no file is accepted and two packets with
  a field each, or one with four. `PortModulus` and `SizeModulus` 16 make
  26 collide with 10 and -1 a size of 15. Bytes of base 2 (3 to a word, 5 to a double)
  reach every value of a measurement of one, two or three bytes in each order and
  sign.
* Two children, two signals and one failure give every order of two deaths, a failed
  fork before and after a good one, and ctrl-C twice.

### Fairness

Weak fairness of each process's own steps, and nothing else: a runnable process is
scheduled. Nobody is obliged to start a write, log, send a signal, time out or deliver
a message. `sem_wait` gives no more than that; a property that would need strong
fairness (each monitor gets the write lock in turn) is not claimed. Nor is anybody obliged to come
back from a call that the code may wait in without end. mq_send of a logger waits while
dlp's queue is full: `FairSpec` of `MeasurementMonitor` leaves out the packets' loggers
(`Logs`), and in `EngineController` and `ProcessTree` a process at such a call, or in
telemetry whose semaphores were left taken, may `Stick` instead of going on. ec_program
waits for the clock, and for the time of an event, for as long as nobody starts the
clock: `Awaits` has no fairness. Additions, each with a reason in the code: in `EngineController` the time-out of a waiting sender is
fair by itself, since both programs look at the deadline before each update and news
cannot put it off; in `NetworkManager` messages to send keep coming, or a transmitter
would never look for an address; in `VehiclePrograms` a signal that was sent is
delivered, as decom's receive times out every second and uplink's wait is interrupted.
`LogProcess` and `VehiclePrograms` need only that some process goes on (`Progress`,
`TreeProgress`), since what they have to do is bounded.

Liveness of `TelemetryShm` is checked without signals in `shm_safety`; with a signal
it is false (section 6, first item on `sighandler`). `Settled`, `AllEnd`,
`AutoFollows`, `LoggersProceed` and `ChildrenFollow` except, in their statements, the
states in which a signal, a kill or a crash has left a lock taken or a queue unread, or a
call has not returned.

## 4. Abstract specifications

* `TelemetryStore` says what a client of the telemetry library may rely on. The
  refinement mapping of `TelemetryShm` places a write at its copy (from there on it
  excludes everyone) and an update at the decision of `read_lock` what has changed
  (what is still to be copied cannot change before it is copied). TLC checks
  `ImplementsStore` in `shm_safety`, `AtomicStore` proves it. Signals and time-outs only end an update, so
  they have no abstract step.
* `CountdownClock` is the specification of which ec_program with its surroundings is
  an implementation: `ProgramReadsClock` (`ProgSpec => Spec`) is proved, so that what
  is proved of the clock holds in `EngineProgram`.

## 5. Proofs

TLAPS checks every step of the eight proof modules. Constants are arbitrary, subject
to the assumptions named in the modules (disjoint finite sets of processes, positive
bounds); what a theorem assumes beyond them is in its statement.

**TelemetryShm_proofs** - for any number of writers, readers, packets and writes,
with signals, time-outs, clears and nonce wraps as in the model, and every mode of
`read_lock`, the non-blocking one, which no run has, included:

* `TypeCorrect` (`TypeOK`), `LockExact` (`SemaphoresExact`), `Exclusion`
  (`MutualExclusion`), `Preference` (`WritersPreference`).
* Inductive invariant: `TypeOK /\ SemaphoresExact`. Exclusion alone is not
  inductive: that a writer finds `resource` at 1 says something about readers only
  if `resource` is 0 whenever a reader is counted, and that a reader leaving last
  finds the counter at 1 only if the counter is the number of readers inside, plus
  the leaked ones. `SemaphoresExact` says who holds each semaphore and what each
  counter counts; a step either keeps every process's role, or is one of the
  fourteen that concern the lock, each with its lemma.

* `WakeupsNotLost` (`NoLostWakeup`), for behaviours in which no nonce wraps
  (`NoWrap`), without `clear` (`Clearers = {}`) and with bits that agree (`BitsMatch`:
  the bit of every tracked packet is among those its reader waits with). Each of the
  three is a line of the code: a wrapped nonce looks unchanged, `clear` wakes nobody
  (453), and a list's bits are those of positions (546, the run `shm_bug_bitset`).
  `add_all`, and a list that starts with packet 0 and has no gap, satisfy `BitsMatch`. The
  invariant is `Watchful`: as long as the nonce is the one a reader will compare, nothing
  it follows has changed and no writer is between the two nonces.
* `AtomicStore` (`ImplementsStore`), under `NoWrap` only: every step of the lock is a
  step of `TelemetryStore` under the mapping, or a stutter. `Counted` says that a
  packet's nonce counts the write its data comes from, but for the writer between the
  two; `Cached` that a viewer holds, or has still to copy, the data of the nonce it has cached.

**MeasurementMonitor_proofs** - for any monitors, packets and triggers, kills and
restarts:

* `TypeCorrect`; `LocksExclusive`; `CachesCurrent` (`CacheIsCurrent`) and
  `CopiesStayEqual` (`CopiesAgree`), the last two under `Attentive`: who locks with
  `lock(false)` computes everything there is to compute. mmon does lock so, hence the
  theorems are about one mmon with all triggers, or about monitors that lock with
  `lock(true)`; for two mmons `CacheIsCurrent` is false, as `mmon_bug_stale` shows.
* `NothingReverts` (`NeverReverts`), under `Attentive` and `Uncut`: no signal cuts a flush
  short, or no trigger reads a measurement that is in several packets. Without `Uncut` it is
  false (section 6). The run's monitors read samples only, which are in one packet each; the
  theorem covers monitors that compute from each other's results.
* A cache is current only while nobody else writes the packet, so the invariant says
  who holds which lock (`Locks`: a function of the place in the loop) and that a
  monitor runs its own triggers only.
* That copies agree is said of a computed measurement at each place of its monitor
  (`Results`): in shared memory outside a flush, in the cache from `lock` on, and between
  the two in every packet that is not marked or that the flush has passed. For a monitor
  with `lock(false)` it needs `Alone`: what it sees as changed is what it flushed.
* That nothing goes back follows a value along its way: a viewer has all it has
  not missed (`Fresh`); the copy in the packet written last is the newest, no older than
  the others or than what a viewer finds (`SourceOf`); a result is no newer than that copy,
  in shared memory and in the cache, nor, from the update on, than what the monitor
  will compute next (`DerivedOf`); so a cache is not behind with its own results (`Ahead`),
  and with those of others it is current. That the packet written last has the newest
  copy is where `Results` comes in again.
* What a signal leaves taken decides who can go on, never what is written, so the
  invariants do not mention it: `NextActs` reduces every step to one of a pass, an end, a
  restart or a downlink, or to one that changes semaphores alone.

**EngineController_proofs** - for any number of runs of ec_cmd and ec_program, any
programs, queue size and number of retries:

* `TypeCorrect`; `Exclusion` and `LocksAreExact` (who holds COMMAND, how many stray
  posts PROGRAM has); `InOrder`, `Once`, `AckReached`, `Trust`.
* The invariant is built in layers, each relative to those below. Locks: COMMAND
  is free and nobody's or taken and somebody's, and who sends holds it. Numbers:
  nothing shown exceeds what the controller has reached. Commands: a sender's
  commands are numbered up to `sent`, and one of a sender and a place is one
  command, wherever copies of it are. Trust: while a process waits for a command
  that had no rival, no other command of that number is about. The last needs
  exclusion, because only who holds COMMAND can create a rival.

**NetworkManager_proofs** - for any receivers, transmitters, addresses and block
count:

* `TypeCorrect`, `Exact`, `AddressesWhole`, `Knows`, `Bounded`, one for each invariant
  of `nm_follow`.
* An address is in two halves only while its one copier is between them, which needs
  that one process at most is inside; a transmitter's copy is the address it saw the
  nonce of; a receiver's drops are among the failures it counts.

**EngineProgram_proofs** - for any controllers, readers, arguments and programs:

* `TypeCorrect` of the clock; `ProgramReadsClock`; `Steady` (`NoJump`) and `HoldSurvives`
  (`HoldSurvivesStart`); `EventsKept` (`NothingForgotten`) and `EventsOnTime`
  (`RunsOnTime`).
* Times in shared memory are 32 bits wide. All but the first two are for behaviours in
  which no time that is stored wraps (`NoWrap`); the code does not see to that, and
  without it they are false. That what a caller took for the time of day is not ahead
  of it (`NotAhead`) then bounds a jump by the age of the sample. `Numbers`
  (strtol gives integers) types the events; `Ordered` says what has been carried out
  or skipped by the place of the loop. `Watched` follows what the last look has found: it
  is so until somebody changes the clock, as a running clock does not go back by itself
  (`ClockGoesOn`), and an event is due only after such a look.

**ShmLifecycle_proofs** - for any number of packets, other libraries (each with a key
of its own), operators, clients, runs of shmctl and failures:

* `OpenedAreReady` (`OpenedReady`), `NoHoles` (`CreatedInOrder`), `AllOrNone`
  (`AllOrNothing`), one for each invariant of `shm_life`.
* The model lets several operators switch on, or several off, at once, but not one on
  while another switches off: the theorems are about operators who keep to that.
* What a process has done is the beginning of its script, so the invariants are about
  the calls of a part that are made and those that are not; the lemmas `Made`, `Unmade`
  and `Reached` read the scripts. `Done` says what the calls a process has made still say
  of the blocks, `InOrder` that the blocks exist in the order of their creation unless somebody
  is destroying them, `Readiness` that they are ready once the master block, created
  last, is there. A client attached to segments that may be gone by now, hence `Past`:
  every nonce and lock that ever lost its key was ready.
* `AllOrNone` needs more: of all racers on one part exactly one wins its first block
  (`Single`) and finds the rest of the part free (`Ahead`); so a part that nobody is in
  is whole or absent (`Settled`), a part somebody has passed is not as he found it
  (`Behind`), and with the last run all parts are alike (`AtRest`).

**LogProcess_proofs** - for any loggers, messages, queue and file sizes, starts of dlp
and runs of log_ctrl:

* `TypeCorrect`, `AtMostOneLate` (`DisabledStopsFiling`), `ExitIsClean` (`CleanExit`),
  `NothingLost` (`LogComplete`), `LogsReadBack` (`PacketsReadBack`).
* `CleanExit` is about what the handler finds, so the invariant follows it back:
  `Recorded` (a thread past its record has made it), `Guarded` (a thread that is
  making something is open to the handler only if the other one reads) and `Taken`
  (what the handler has found stays so, though the threads go on while it runs).
  Types need `Filing`: a thread with a message has the file it goes to.
* `LogComplete` compares what was accepted with what is filed, over all files. Packets
  that are discarded are taken out by name, which is right only if none is there twice:
  `Numbered` says that a logger's messages are numbered and new ones come after all that
  are about. `Intake` adds to the equation what the hand holds at each place of a thread.
* `PacketsReadBack` is about a loop over bytes. What is proved of `Retrieve` is what
  it does at each byte; that it then returns the packet needs induction over the
  bytes, which is done with sets: the set of places up to which the claim fails has
  a least element (`Least`, `Induction`, `SeqInduction`, stated for sets because the
  library's theorems take operators). `PacketAssumption` says what a packet is: a stamp, the
  name of a device and data, each a sequence of bytes; stamps have `StampSize` bytes, which
  may be any, and a device's name holds no '>', which log_packet does not escape.

**VehiclePrograms_proofs** - for any configuration file, packets, devices, children,
failing forks, signals, received bytes and trigger functions:

* `PortsUnique` (`PortsAndIdsUnique`): a line adds one port and one id, the next.
* `Reaping` (`MasterReapsAll`): the master knows all children but, between a fork and
  its push, the last (`Known`), and ignores signals then; a child ignores them until
  it is marked (`Guarded`).
* `PlacesFit` (`LocationsFit`): for files whose sizes cannot add up to 2^64 (`stoi`
  gives at most `max`, and lines times `max` stay below): a file that could wrap would
  have more than eight thousand million lines. The run has sizes below 16 and a modulus of 16 and needs no such condition.
  The invariant: places are of measurements that have a size (`Located`, `Named`), sizes
  are bounded (`Sized`), and the size of a packet is the sum of its measurements'
  while their extents are apart (`Fits`); extents that are apart and add up to the
  packet cover it. Sums over finite sets are relations (`SumsExist`, `SumRemove`,
  `SumAdd`), so that induction on the cardinality is induction for sets.
* `NewestShown` (`GetsNewest`): `Viewing` says that a tracked packet that is not stale
  has in its buffer what the last update saw, and one never read the nonce 0.

* `ReadsMeaning`: in any even base (a byte has a sign bit) and for any word, what
  `convert_to` makes of the bytes of an integer or a float is what they mean by the
  declaration: filling up with the sign byte is two's complement (`SignExtended`),
  reversing is big-endian (`ReversedNumber`). Powers and sums are recursive functions over
  naturals; that they exist and what each step adds (`PowerSteps`, `TotalIsPartial`) is
  again induction for sets.
* `ValuesRead` (`ValuesSurvive`), under the condition of `PlacesFit`, for files with
  positive sizes (`Positive`; the code takes zero and negative ones, and then reads what
  lies before or far behind a buffer) and texts that end with their only zero (`IsText`,
  what `write_raw` gets from its callers). A string of more than `MAX_CONVERSION_SIZE - 1`
  bytes is written, and `convert_to` refuses to read it (convert.cpp:232): `ValuesSurvive`
  says so (`TooLarge`). The frame is `PlacesFit`: a write at the places
  of one measurement changes no byte of another (`WriteChanges`); what was written is read
  back by `ReadsNumber`, `ReadsText` and `SameConversion`. Each kind of
  trigger function has its lemma.

Every invariant of a passing run is a theorem. Model-checked only, for good: all
liveness (`WritesFinish`, `ViewersCatchUp`, `Settled`, `AllEnd`, `AutoFollows`,
`LoggersProceed`, `ChildrenFollow`), as TLAPS has no support for `ENABLED`, which
fairness needs.

## 6. Disagreements and surprises without a run

Seen while modelling; where the code is modelled, the models do what it does.

Telemetry

* `sighandler` in the middle of a read lock leaves it taken, though TelemetryViewer.h:76
  says it "avoids locking shared memory on exit" (TelemetryShm.cpp:750). A viewer that
  was waiting for a semaphore waits on a private page of zeros and hangs (763), against
  TelemetryViewer.h:24-25.
* A signal inside `update` or `write` leaves `readTry`, `rmutex`, `resource` or `wmutex`
  taken, or a reader or writer counted that is gone: from then on readers, writers or both
  wait for ever in every process (TelemetryShm.cpp:360-396, 519-526, 750). `Settled` holds
  only without that. mmon's own handler does nothing to avoid it.
* `clear` passes the nonce's value, not its address, to futex (TelemetryShm.cpp:453,
  comment 450-452): nobody is woken by a clear.
* A time-out's timespec is in a scope that has ended when futex reads it, and the
  deadline is computed in 32 bits (506).
* A master nonce that wraps to 0 is taken for a signal (530, 589, 760) and leaves
  the read lock taken (`leaked`).
* `packet_updated` is inverted (888) and `more_recent_packet` confuses positions
  with ids (910-934); neither has a caller, so neither is modelled.
* With 64 or more packets two blocks have one key: `ftok` uses eight bits of the
  id, and 2(i+1) meets -2(j+1) (comment at TelemetryShm.cpp:168-170).
* TelemetryViewer's constructor leaves `check_all` unset, and a packet that is added
  after an update has read it, or again after `remove_all`, shows zeros until it is
  written again (the exceptions of `GetsNewest`).
* A signal in the middle of a flush leaves an old copy of a result in the packets that were
  not written yet. If another monitor then writes one of them, `latest_data` takes the
  old copy for the newest, and what is computed from it goes back. It takes a measurement
  in two packets, a monitor that reads it and one that shares a packet with it:
  a counterexample to `NeverReverts` for such constants, found on the way to its proof.
* A signal while mmon flushes leaves locks taken and mmon hanging (735-736); two
  monitors whose triggers feed each other never come to rest (trigger.h:36).

Engine programs, locks and clock

* ec_program returns without giving back locks at 361-364, 380-398, 401-406, 533,
  544 and 566 (comment 512-513), and its handler posts PROGRAM a second time
  after a return that gave it back (307-308). "retransmitting command" re-sends
  nothing (ec_cmd 230-236). A signal inside `read_time` leaves the clock's semaphore
  taken.
* ec_program reads the clock and gives its semaphore back before it acts (main.cpp:475,
  clock.cpp:263): a stop, a hold or a set just after the look comes too late for the event in
  hand, which is carried out on a stopped clock (`RunsOnTime`: `look` is "stale").
* ec_program does not end while nobody starts the clock (main.cpp:425), and neither program
  ends if dlp is gone and its queue full, or if a signal elsewhere has left telemetry's semaphores taken, for
  `update` waits for those without its timeout (TelemetryShm.cpp:519-524); it then keeps
  the locks it has.
* Events that had passed while the clock was stopped are skipped also if the clock is
  set back before it starts (main.cpp:455-457 announces "already passed"); lines of one
  or two tokens are read past their end; what is no number is 0, as strtol's errors are
  looked for in `errno` alone; `std::sort` may exchange events of one time; macros are
  not replaced in messages.
* `vlock::lock` with a timeout never waits, its deadline is cut to 32 bits
  (vlock.cpp:160; vlock.h says it waits).
* `SET_HOLD` looks for the present hold at `t0 - hold` (clock.cpp:150). A running
  clock jumps when 32 bits of milliseconds wrap, every 49.7 days (196).

Network and processes

* uplink passes port 0, so its address is taken once at the start (nm.cpp:315-323,
  uplink.cpp:98) and is uninitialised if the device was not heard of. Its handler
  exits at once, in spite of the comment at uplink.cpp:81-85.
* A failed `fork` is kept as pid -1, so the handler of decom and uplink signals every
  process its user may signal. A child that is signalled before it clears
  `ignore_kill` ignores it and outlives the master. ctrl-C while the master forks kills
  children that are ready, and not the master. A child that stands in mq_send or in `write`
  outlives the master as well: decom's handler only sets a flag (decom.cpp:79), and a
  handler that logs may itself wait.
* A failed `-on` cannot be repaired: `-on` refuses existing blocks and `-off` refuses
  missing ones. A client may attach to the master block between its creation and
  its `sem_init`; `OpenedReady` claims readiness of the packets' blocks only. A
  client that opens across an `-off` and an `-on` may attach to segments of both.

Logging

* Both threads of dlp set and clear one `ignore_sig`: the first to listen opens the
  other to the handler (dlp.cpp:91, 120). The thread that returns because the block
  exists (106) leaves the flag set; if the other one has cleared it before, only SIGKILL
  ends dlp from then on.
* "don't kill everything if the logger doesn't work" (Logger.cpp:12), but `mq_send`
  blocks: a program stands still when the queue is full and dlp is gone.
* `queue_msg` refuses more than `MAX_Q_SIZE` bytes (Logger.cpp:57), which then never reach a
  queue. `LogProcess` has no such message, and a MsgLogger of it opens the queue at each
  call, though some live as long as their process; no property depends on either.
* `MAX_FILE_SIZE` is `1 << 31` as an int: binary files never rotate (dlp.cpp:18). A new
  dlp truncates the files of the last one, from index 0 on.

Configuration and values

* Sizes may be negative (then offsets wrap) or zero (a signed number of size 0 reads
  the byte before it); `stoi`'s out_of_range is not caught; a measurement that is
  defined again loses its places; comments are accepted inside packets, against
  vcm.cpp:311. The constructor that takes a file leaves `num_net_devices` unset.
* `VELOCITY_DOUBLE` never leaves its first branch (`last_us` stays 0, basic.cpp:154).
  "at least 5 char" (ec.cpp:16) is too short for CLOSED, whose write then fails and
  leaves the old text. COPY ignores byte orders and types. `convert_from` of a string
  writes a byte past the measurement; it has no caller.

## 7. Not modelled

* Floating-point values and arithmetic: sensors.cpp, MAX, MIN, averages and velocity
  in basic.cpp, `convert_to` beyond the order of the bytes. TLC has no such numbers.
* The parse of trigger files (string to function and arguments, once at the start).
* `packet_updated`, `more_recent_packet`, `convert_from`, `write_lock` outside
  TelemetryWriter: no caller.
* The set-up of sockets and queues beyond that it may fail; `ftok`, `detach` and
  arguments of the tools.
* Applications that show or forward, database tools, device drivers, tests, Python
  bindings, dashboards and scripts: no shared state of their own.
* Real time: that a wait lasts its timeout.
* The processes outside of the tree that `kill(-1)` signals (decom.cpp:218 and 63).
* Whether what a queue held when dlp ended is still there for the next: `LogComplete`
  counts from what a dlp took over, and the queue of a dlp that ended by its handler is
  unlinked with what it holds.

## 8. Plan

Done: all modules of section 2. What is left, in this order:

1. `LogProcess` with the files that a dead dlp leaves and the next truncates, and
   log2csv reading while dlp writes.
2. Viewers composed with `ShmLifecycle`: what a program sees across an `-off`.
