----------------------------- MODULE LogProcess -----------------------------
(***************************************************************************)
(* Logging: dlp, the process that files what the others log, the loggers   *)
(* (MsgLogger, PacketLogger) that send to its two message queues, the      *)
(* block of shared memory that says whether telemetry is filed, and the    *)
(* tool log_ctrl that sets it.                                             *)
(*                                                                         *)
(* A message queue outlives its name and its readers: a logger that opened *)
(* it keeps it, so a queue is numbered by the start of dlp that created it. *)
(* mq_send blocks while the queue is full.  The queue of text messages is  *)
(* "msg", that of telemetry packets "tel"; a thread of dlp reads each.     *)
(***************************************************************************)
EXTENDS Naturals, Sequences, SequencesExt, FiniteSets

CONSTANTS
  MsgLoggers,    \* processes that log text
  TelLoggers,    \* processes that log packets
  QueueSize,     \* mq_maxmsg, 10 in the code
  MaxLines,      \* MAX_LINES_PER_FILE, 512 in the code
  Packet(_, _),  \* what a logger logs when, as a record of stamp, device, data
  StampSize,     \* bytes of a timestamp
  MaxSends,      \* bound: messages of a logger of each kind
  MaxStarts,     \* bound: starts of dlp
  MaxSets        \* bound: runs of log_ctrl

Kinds == {"msg", "tel"}
Loggers == MsgLoggers \cup TelLoggers
KindOf(l) == IF l \in MsgLoggers THEN "msg" ELSE "tel"
Messages == UNION {{l} \X (1 .. MaxSends[KindOf(l)]) : l \in Loggers}

\* The bytes that frame a packet in the log.
LBracket == 91
RBracket == 93
Less == 60
Greater == 62

ASSUME LogAssumption ==
  /\ MsgLoggers \cap TelLoggers = {}
  /\ QueueSize \in Nat \ {0} /\ MaxLines \in Nat \ {0} /\ StampSize \in Nat
  /\ MaxSends \in [Kinds -> Nat] /\ MaxStarts \in Nat /\ MaxSets \in Nat

\* A packet is bytes and a device's name holds no '>': log_packet does not escape it.
ASSUME PacketAssumption ==
  \A m \in TelLoggers \X (1 .. MaxSends["tel"]) :
    LET p == Packet(m[1], m[2])
    IN  /\ p \in [stamp : Seq(Nat), device : Seq(Nat), data : Seq(Nat)]
        /\ Len(p.stamp) = StampSize /\ \A i \in DOMAIN p.device : p.device[i] # Greater

VARIABLES
  mq,          \* the queue under each name, 0 if there is none
  queue,       \* the messages in each queue
  pc,          \* where each thread of dlp is, "off" while dlp does not run
  reads,       \* the queue each thread has open
  hand,        \* what each thread has received and not yet filed
  index,       \* file_index of each thread
  writes,      \* what each thread counts to rotate
  files,       \* the files of each kind, by index; those of a dlp that ended are left out
  mqs,         \* names the handler unlinks
  shm_open,    \* whether the handler destroys the block
  ignore_sig,  \* whether the handler returns at once
  handler,     \* how far the handler is: "none" or "unlinked"
  block,       \* the block: the start of dlp that made it, its lock and its flag
  ctrl,        \* log_ctrl: "off" or "holding"
  holds,       \* the block log_ctrl is attached to
  fd,          \* the queue each logger has open, 0 if it could not open one
  logger,      \* each logger: "idle", "open" (packets only) or "sending"
  sent,        \* messages of each logger so far
  starts,      \* starts of dlp so far
  sets,        \* runs of log_ctrl so far
  accepted,    \* history: what was in a thread's queue or came to it since it opened it
  dropped,     \* history: the messages a thread discarded
  late,        \* history: packets treated against the flag since it was set
  taken        \* history: where the threads were when the signal was taken

names == <<mq, queue>>
threads == <<pc, reads, hand, index, writes, files>>
shutdown == <<mqs, shm_open, ignore_sig, handler, taken>>
control == <<block, ctrl, holds, sets>>
loggers == <<fd, logger, sent>>
history == <<accepted, dropped, late>>
vars == <<names, threads, shutdown, control, loggers, starts, history>>

-----------------------------------------------------------------------------
(* The bytes of a packet in the log, and the records read back from them.   *)

\* log_packet: the packet as it is queued and filed.
Encode(p) ==
  <<LBracket>> \o p.stamp \o <<RBracket, Less>> \o p.device
    \o <<Greater, Len(p.data)>> \o p.data

\* The first place at or after i that holds byte c, past the end if there is none.
Find(s, i, c) ==
  LET places == {j \in i .. Len(s) : s[j] = c}
  IN  IF places = {} THEN Len(s) + 1 ELSE CHOOSE j \in places : \A k \in places : j <= k

\* Mutant: the timestamp ends at the first ']'.
RetrieveToBracket(s, i) ==
  LET open == Find(s, i, LBracket)
      close == Find(s, open, RBracket)
      greater == Find(s, close + 2, Greater)
      last == IF greater >= Len(s) THEN Len(s) + 1 ELSE greater + 1 + s[greater + 1]
  IN  IF last > Len(s) THEN [found |-> <<>>, next |-> Len(s) + 1]
      ELSE [found |-> <<[stamp |-> SubSeq(s, open + 1, close - 1),
                         device |-> SubSeq(s, close + 2, greater - 1),
                         data |-> SubSeq(s, greater + 2, last)]>>,
            next |-> last + 1]

\* retrieve_record from place i: the records found, one or none, and the place after.
\* Reading past the end of the file leaves the place after the end.
Retrieve(s, i) ==
  LET open == Find(s, i, LBracket)
      close == open + StampSize + 1
      greater == Find(s, close + 2, Greater)
      last == IF greater >= Len(s) THEN Len(s) + 1 ELSE greater + 1 + s[greater + 1]
      none(next) == [found |-> <<>>, next |-> next]
  IN  IF close + 1 > Len(s) THEN none(Len(s) + 1)
      ELSE IF s[close] # RBracket THEN none(close + 1)
      ELSE IF s[close + 1] # Less THEN none(close + 2)
      ELSE IF last > Len(s) THEN none(Len(s) + 1)
      ELSE [found |-> <<[stamp |-> SubSeq(s, open + 1, close - 1),
                         device |-> SubSeq(s, close + 2, greater - 1),
                         data |-> SubSeq(s, greater + 2, last)]>>,
            next |-> last + 1]

\* log2csv and log2influx: records until the end of the file.
ReadBack(s) ==
  LET from[i \in 1 .. Len(s) + 1] ==
        IF i > Len(s) THEN <<>>
        ELSE LET r == Retrieve(s, i) IN r.found \o from[r.next]
  IN  from[1]

-----------------------------------------------------------------------------
(* The loggers.                                                             *)

\* Logger::Open in the constructor of a PacketLogger, which lives as long as its
\* process; it does not create the queue.
OpenLogger(l) ==
  /\ l \in TelLoggers /\ logger[l] = "idle"
  /\ logger' = [logger EXCEPT ![l] = "open"]
  /\ fd' = [fd EXCEPT ![l] = mq["tel"]]
  /\ UNCHANGED <<names, threads, shutdown, control, sent, starts, history>>

\* A logger that is not open loses the message, the others wait for room.
\* queue_msg also refuses more than MAX_Q_SIZE bytes, which never reach a queue; no
\* message is that large here.  Some MsgLoggers live as long as their process and
\* keep the queue of their start; here each call opens it.
Sends(l, q) ==
  /\ sent[l] < MaxSends[KindOf(l)]
  /\ sent' = [sent EXCEPT ![l] = @ + 1]
  /\ fd' = [fd EXCEPT ![l] = q]
  /\ logger' = [logger EXCEPT ![l] = IF q = 0 THEN @ ELSE "sending"]
  /\ UNCHANGED <<names, threads, shutdown, control, starts, history>>

\* A MsgLogger, made for a call or two, and its log_message.
LogMessage(l) == l \in MsgLoggers /\ logger[l] = "idle" /\ Sends(l, mq["msg"])

LogPacket(l) == logger[l] = "open" /\ Sends(l, fd[l])

\* mq_send in queue_msg: the queue is blocking.
QueueMsg(l) ==
  LET k == KindOf(l)
      q == <<k, fd[l]>>
      m == <<l, sent[l]>>
  IN  /\ logger[l] = "sending" /\ Len(queue[q]) < QueueSize
      /\ queue' = [queue EXCEPT ![q] = Append(@, m)]
      /\ logger' = [logger EXCEPT ![l] = IF k = "msg" THEN "idle" ELSE "open"]
      /\ fd' = [fd EXCEPT ![l] = IF k = "msg" THEN 0 ELSE @]
      /\ accepted' = IF reads[k] = fd[l] THEN [accepted EXCEPT ![k] = Append(@, m)] ELSE accepted
      /\ UNCHANGED <<mq, threads, shutdown, control, sent, starts, dropped, late>>

-----------------------------------------------------------------------------
(* dlp: a thread for each queue (read_queue).                               *)

Alive == pc["msg"] # "off"

\* No block.
NoBlock == [number |-> 0, lock |-> "left", enabled |-> FALSE]

\* main: both threads.
Start ==
  /\ ~Alive /\ starts < MaxStarts
  /\ starts' = starts + 1
  /\ pc' = [k \in Kinds |-> "begin"]
  /\ UNCHANGED <<names, reads, hand, index, writes, files, shutdown, control, loggers, history>>

\* Mutant: signals are not ignored meanwhile.
OpenUnguarded(k) ==
  LET q == IF mq[k] = 0 THEN starts ELSE mq[k]
  IN  /\ pc[k] = "begin"
      /\ mq' = [mq EXCEPT ![k] = q]
      /\ reads' = [reads EXCEPT ![k] = q]
      /\ accepted' = [accepted EXCEPT ![k] = queue[<<k, q>>]]
      /\ pc' = [pc EXCEPT ![k] = "record"]
      /\ UNCHANGED <<queue, hand, index, writes, files, shutdown, control, loggers, starts,
                     dropped, late>>

\* ignore_sig, then mq_open with O_CREAT and without O_EXCL: a queue that was left is
\* taken over.
OpenQueue(k) ==
  LET q == IF mq[k] = 0 THEN starts ELSE mq[k]
  IN  /\ pc[k] = "begin"
      /\ ignore_sig' = TRUE
      /\ mq' = [mq EXCEPT ![k] = q]
      /\ reads' = [reads EXCEPT ![k] = q]
      /\ accepted' = [accepted EXCEPT ![k] = queue[<<k, q>>]]
      /\ pc' = [pc EXCEPT ![k] = "record"]
      /\ UNCHANGED <<queue, hand, index, writes, files, mqs, shm_open, handler, taken, control,
                     loggers, starts, dropped, late>>

\* Mutant: the mutex is not unlocked.
RecordWithoutUnlock(k) ==
  /\ pc[k] = "record" /\ mqs = {}
  /\ mqs' = {k}
  /\ pc' = [pc EXCEPT ![k] = IF k = "tel" THEN "create" ELSE "listen"]
  /\ UNCHANGED <<names, reads, hand, index, writes, files, shm_open, ignore_sig, handler, taken,
                 control, loggers, starts, history>>

\* add_mq_to_close.
RecordQueue(k) ==
  /\ pc[k] = "record"
  /\ mqs' = mqs \cup {k}
  /\ pc' = [pc EXCEPT ![k] = IF k = "tel" THEN "create" ELSE "listen"]
  /\ UNCHANGED <<names, reads, hand, index, writes, files, shm_open, ignore_sig, handler, taken,
                 control, loggers, starts, history>>

\* DlShm::create: with IPC_EXCL, the thread returns if the block exists, and leaves
\* ignore_sig as it is.  Then the block is set up, and the thread attaches to it.
CreateBlock ==
  /\ pc["tel"] = "create"
  /\ IF block # NoBlock
     THEN pc' = [pc EXCEPT !["tel"] = "returned"] /\ UNCHANGED block
     ELSE /\ pc' = [pc EXCEPT !["tel"] = "mark"]
          /\ block' = [number |-> starts, lock |-> "free", enabled |-> TRUE]
  /\ UNCHANGED <<names, reads, hand, index, writes, files, shutdown, ctrl, holds, sets, loggers,
                 starts, history>>

MarkBlock ==
  /\ pc["tel"] = "mark"
  /\ shm_open' = TRUE
  /\ pc' = [pc EXCEPT !["tel"] = "listen"]
  /\ UNCHANGED <<names, reads, hand, index, writes, files, mqs, ignore_sig, handler, taken,
                 control, loggers, starts, history>>

\* The file of the given index, truncated.
Truncate(k, i) == [files EXCEPT ![k] = SubSeq(@, 1, i) \o <<<<>>>> \o SubSeq(@, i + 2, Len(@))]

\* One flag for both threads: a thread clears it while the other needs it.  Then the
\* first file.
Listen(k) ==
  /\ pc[k] = "listen"
  /\ ignore_sig' = FALSE
  /\ files' = Truncate(k, 0)
  /\ pc' = [pc EXCEPT ![k] = "receive"]
  /\ UNCHANGED <<names, reads, hand, index, writes, mqs, shm_open, handler, taken,
                 control, loggers, starts, history>>

\* mq_receive.
Receive(k) ==
  LET q == <<k, reads[k]>>
  IN  /\ pc[k] = "receive" /\ writes[k] < MaxLines /\ queue[q] # <<>>
      /\ hand' = [hand EXCEPT ![k] = <<Head(queue[q])>>]
      /\ queue' = [queue EXCEPT ![q] = Tail(@)]
      /\ pc' = [pc EXCEPT ![k] = IF k = "tel" THEN "check" ELSE "write"]
      /\ UNCHANGED <<mq, reads, index, writes, files, shutdown, control, loggers, starts, history>>

\* Mutant: the flag is taken to be set.
CheckNothing ==
  /\ pc["tel"] = "check" /\ block.lock = "free"
  /\ pc' = [pc EXCEPT !["tel"] = "write"]
  /\ UNCHANGED <<names, reads, hand, index, writes, files, shutdown, control, loggers, starts,
                 history>>

\* logging_enabled, under the semaphore: a packet is discarded if telemetry is disabled.
Check ==
  /\ pc["tel"] = "check" /\ block.lock = "free"
  /\ IF block.enabled
     THEN pc' = [pc EXCEPT !["tel"] = "write"] /\ UNCHANGED <<hand, dropped>>
     ELSE /\ pc' = [pc EXCEPT !["tel"] = "receive"]
          /\ hand' = [hand EXCEPT !["tel"] = <<>>]
          /\ dropped' = [dropped EXCEPT !["tel"] = @ \cup ToSet(hand["tel"])]
  /\ UNCHANGED <<names, reads, index, writes, files, shutdown, control, loggers, starts,
                 accepted, late>>

\* file.write or <<, with flush.
Write(k) ==
  /\ pc[k] = "write"
  /\ files' = [files EXCEPT ![k][index[k] + 1] = @ \o hand[k]]
  /\ hand' = [hand EXCEPT ![k] = <<>>]
  /\ writes' = [writes EXCEPT ![k] = IF k = "msg" THEN @ + 1 ELSE 0]
  /\ late' = IF k = "tel" /\ ~block.enabled THEN late + 1 ELSE late
  /\ pc' = [pc EXCEPT ![k] = "receive"]
  /\ UNCHANGED <<names, reads, index, shutdown, control, loggers, starts, accepted, dropped>>

\* Mutant: the index is not advanced.
RotateInPlace ==
  /\ pc["msg"] = "receive" /\ writes["msg"] = MaxLines
  /\ files' = Truncate("msg", index["msg"])
  /\ writes' = [writes EXCEPT !["msg"] = 0]
  /\ UNCHANGED <<names, pc, reads, hand, index, shutdown, control, loggers, starts, history>>

\* The next file.  Only text rotates: MAX_FILE_SIZE is 1 << 31 as an int, and as the
\* size_t it is compared with it is never reached.
Rotate ==
  /\ pc["msg"] = "receive" /\ writes["msg"] = MaxLines
  /\ index' = [index EXCEPT !["msg"] = @ + 1]
  /\ files' = Truncate("msg", index'["msg"])
  /\ writes' = [writes EXCEPT !["msg"] = 0]
  /\ UNCHANGED <<names, pc, reads, hand, shutdown, control, loggers, starts, history>>

-----------------------------------------------------------------------------
(* The end of dlp: a signal, or a crash.                                    *)

\* What the end of the process takes with it.
ProcessEnds ==
  /\ pc' = [k \in Kinds |-> "off"]
  /\ reads' = [k \in Kinds |-> 0]
  /\ hand' = [k \in Kinds |-> <<>>]
  /\ index' = [k \in Kinds |-> 0]
  /\ writes' = [k \in Kinds |-> 0]
  /\ mqs' = {} /\ shm_open' = FALSE /\ ignore_sig' = FALSE /\ handler' = "none"
  /\ accepted' = [k \in Kinds |-> <<>>]
  /\ dropped' = [k \in Kinds |-> {}]
  /\ late' = 0
  /\ taken' = [k \in Kinds |-> "off"]
  /\ files' = [k \in Kinds |-> <<>>]
  /\ UNCHANGED <<queue, ctrl, holds, sets, loggers, starts>>

\* sighandler: unless signals are ignored it unlinks what is recorded; the threads go on.
Signal ==
  /\ Alive /\ handler = "none" /\ ~ignore_sig
  /\ handler' = "unlinked"
  /\ taken' = pc
  /\ mq' = [k \in Kinds |-> IF k \in mqs THEN 0 ELSE mq[k]]
  /\ UNCHANGED <<queue, threads, mqs, shm_open, ignore_sig, control, loggers, starts, history>>

\* The handler goes on: DlShm::destroy, if the block is recorded, and exit.
Exit ==
  /\ handler = "unlinked"
  /\ block' = IF shm_open THEN NoBlock ELSE block
  /\ ProcessEnds
  /\ UNCHANGED mq

\* SIGKILL: the kernel's objects stay.  The next dlp does not use a block that was left,
\* so its lock and flag are left out.
Crash ==
  /\ Alive /\ starts < MaxStarts
  /\ ProcessEnds
  /\ block' = [block EXCEPT !.lock = "left", !.enabled = FALSE]
  /\ UNCHANGED mq

-----------------------------------------------------------------------------
(* log_ctrl, run when dlp is up.                                            *)

\* Attach, and sem_wait in set_logging.
Lock ==
  /\ ctrl = "off" /\ sets < MaxSets
  /\ block.lock = "free"
  /\ block' = [block EXCEPT !.lock = "ctrl"]
  /\ sets' = sets + 1
  /\ ctrl' = "holding" /\ holds' = block.number
  /\ UNCHANGED <<names, threads, shutdown, loggers, starts, history>>

\* The flag, and sem_post.  A block that was destroyed meanwhile lives on for log_ctrl alone.
SetLogging(enabled) ==
  /\ ctrl = "holding"
  /\ IF holds = block.number /\ block.lock # "left"
     THEN /\ block' = [block EXCEPT !.lock = "free", !.enabled = enabled]
          /\ late' = 0
     ELSE UNCHANGED <<block, late>>
  /\ ctrl' = "off" /\ holds' = 0
  /\ UNCHANGED <<names, threads, shutdown, sets, loggers, starts, accepted, dropped>>

\* Killed while it holds the semaphore.
KillCtrl ==
  /\ ctrl = "holding"
  /\ ctrl' = "off" /\ holds' = 0
  /\ UNCHANGED <<names, threads, shutdown, block, sets, loggers, starts, history>>

-----------------------------------------------------------------------------
Init ==
  /\ mq = [k \in Kinds |-> 0]
  /\ queue = [q \in Kinds \X (0 .. MaxStarts) |-> <<>>]
  /\ pc = [k \in Kinds |-> "off"]
  /\ reads = [k \in Kinds |-> 0]
  /\ hand = [k \in Kinds |-> <<>>]
  /\ index = [k \in Kinds |-> 0]
  /\ writes = [k \in Kinds |-> 0]
  /\ files = [k \in Kinds |-> <<>>]
  /\ mqs = {} /\ shm_open = FALSE /\ ignore_sig = FALSE /\ handler = "none"
  /\ block = NoBlock
  /\ ctrl = "off" /\ holds = 0
  /\ fd = [l \in Loggers |-> 0]
  /\ logger = [l \in Loggers |-> "idle"]
  /\ sent = [l \in Loggers |-> 0]
  /\ starts = 0 /\ sets = 0
  /\ accepted = [k \in Kinds |-> <<>>]
  /\ dropped = [k \in Kinds |-> {}]
  /\ late = 0
  /\ taken = [k \in Kinds |-> "off"]

\* What a thread of dlp does.
Thread(k) ==
  \/ OpenQueue(k)
  \/ RecordQueue(k)
  \/ Listen(k)
  \/ Receive(k)
  \/ Write(k)

TelThread ==
  \/ CreateBlock
  \/ MarkBlock
  \/ Check

Ctrl == \E enabled \in BOOLEAN : SetLogging(enabled)

Next ==
  \/ \E l \in Loggers : OpenLogger(l) \/ LogMessage(l) \/ LogPacket(l) \/ QueueMsg(l)
  \/ Start
  \/ \E k \in Kinds : Thread(k)
  \/ TelThread
  \/ Rotate
  \/ Signal
  \/ Exit
  \/ Crash
  \/ Lock
  \/ Ctrl
  \/ KillCtrl

Spec == Init /\ [][Next]_vars

\* The scheduler goes on as long as dlp, its handler, log_ctrl or a sender that has room can:
\* what they have to do is bounded, so no more is needed.
Progress ==
  \/ \E k \in Kinds : Thread(k)
  \/ TelThread
  \/ Rotate
  \/ Exit
  \/ Ctrl
  \/ \E l \in Loggers : QueueMsg(l)

FairSpec == Spec /\ WF_vars(Progress)

-----------------------------------------------------------------------------
(* Properties.                                                              *)

Starting == {"begin", "record"}
Creating == Starting \cup {"create", "mark"}
Reading == {"receive", "check", "write"}

Locations == Creating \cup Reading \cup {"off", "listen", "returned"}

TypeOK ==
  /\ mq \in [Kinds -> 0 .. MaxStarts] /\ reads \in [Kinds -> 0 .. MaxStarts]
  /\ queue \in [Kinds \X (0 .. MaxStarts) -> Seq(Messages)]
  /\ pc \in [Kinds -> Locations] /\ taken \in [Kinds -> Locations]
  /\ hand \in [Kinds -> Seq(Messages)] /\ accepted \in [Kinds -> Seq(Messages)]
  /\ index \in [Kinds -> Nat] /\ writes \in [Kinds -> 0 .. MaxLines]
  /\ files \in [Kinds -> Seq(Seq(Messages))]
  /\ mqs \subseteq Kinds /\ shm_open \in BOOLEAN /\ ignore_sig \in BOOLEAN
  /\ handler \in {"none", "unlinked"}
  /\ block \in [number : 0 .. MaxStarts, lock : {"free", "ctrl", "left"}, enabled : BOOLEAN]
  /\ ctrl \in {"off", "holding"} /\ holds \in 0 .. MaxStarts
  /\ fd \in [Loggers -> 0 .. MaxStarts] /\ sent \in [Loggers -> Nat]
  /\ logger \in [Loggers -> {"idle", "open", "sending"}]
  /\ starts \in 0 .. MaxStarts /\ sets \in 0 .. MaxSets
  /\ dropped \in [Kinds -> SUBSET Messages] /\ late \in Nat

\* What a thread has filed since it started, over all the files it rotated through.
FiledBy(k) == FlattenSeq(SubSeq(files[k], 1, index[k] + 1))

\* The messages of s that are not in D, in order.
Kept(s, D) == FlattenSeq([i \in DOMAIN s |-> IF s[i] \in D THEN <<>> ELSE <<s[i]>>])

\* While dlp runs, what it took over in a queue and what loggers put there since is, in
\* this order and once each, in its files, in the hands of the thread or in the queue:
\* read_queue loses and reorders nothing over the rotation of files, but for the packets
\* it discards while telemetry is disabled.
LogComplete ==
  \A k \in Kinds : pc[k] \in Reading =>
    Kept(accepted[k], dropped[k]) = FiledBy(k) \o hand[k] \o queue[<<k, reads[k]>>]

\* After log_ctrl disables telemetry at most one packet is still filed: the one for which
\* the flag was read before (dlp reads it under the semaphore and writes after it).
DisabledStopsFiling == late <= 1

\* log2csv and log2influx read back from a telemetry log the packets that were logged,
\* whatever bytes stamps and data hold.
PacketsReadBack ==
  \A i \in 1 .. Len(files["tel"]) :
    LET packets == [j \in 1 .. Len(files["tel"][i]) |->
                      LET m == files["tel"][i][j] IN Packet(m[1], m[2])]
    IN  ReadBack(FlattenSeq([j \in DOMAIN packets |-> Encode(packets[j])])) = packets

\* The thread had not begun when the signal was taken, or it was in one of these places and
\* the other thread had cleared ignore_sig under it.
Uncovered(k, places) ==
  \/ taken[k] = "begin"
  \/ taken[k] \in places /\ \E j \in Kinds \ {k} : taken[j] \in Reading

\* "make sure we log the mqueue to close before taking any signals" (dlp.cpp:90): a dlp that
\* ends by its handler leaves neither a queue nor a block, but when the threads share
\* ignore_sig badly (the thread that makes it had not begun, or had not recorded it and the
\* other one had cleared the flag), or when the block was left by a crash.
CleanExit ==
  [][Exit => /\ \A k \in Kinds : mq[k] # 0 => Uncovered(k, Starting)
             /\ block' # NoBlock =>
                  Uncovered("tel", Creating) \/ taken["tel"] = "returned"]_vars

\* A logger waits on a full queue only as long as a thread reads the queue it has open: not
\* once dlp has ended, when the block was left by a crash and the telemetry thread returned,
\* or when log_ctrl or a dlp was killed with the semaphore.
Unread(l) ==
  \/ reads[KindOf(l)] # fd[l]
  \/ pc[KindOf(l)] = "returned"
  \/ KindOf(l) = "tel" /\ block.lock = "ctrl" /\ ctrl # "holding"

LoggersProceed == \A l \in Loggers : logger[l] = "sending" ~> logger[l] # "sending" \/ Unread(l)

=============================================================================
