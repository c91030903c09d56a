-------------------------- MODULE LogProcess_proofs --------------------------
(***************************************************************************)
(* What dlp leaves behind and files, for any loggers, queues and starts.   *)
(*                                                                         *)
(* Guarded is what the comment at dlp.cpp:90 is about: a thread that has   *)
(* begun to make what the handler must remove is safe from the handler     *)
(* until the other thread has cleared the flag they share.                 *)
(*                                                                         *)
(* That no message is lost (NothingLost) rests on Intake, which relates    *)
(* what came to a thread to what it filed, and on Numbered: a message is   *)
(* in a queue once.  That a log is read back (LogsReadBack) is shown by    *)
(* induction over the packets, from the last to the first.  The prover has *)
(* no induction over an operator; Induction and SeqInduction are stated    *)
(* for a set, from the well-foundedness of the naturals.                   *)
(***************************************************************************)
EXTENDS LogProcess, SequenceTheorems, WellFoundedInduction, TLAPS

\* What a thread has made is recorded by the time it says so.
Recorded ==
  /\ \A k \in Kinds : pc[k] \in Locations \ ({"off"} \cup Starting) => k \in mqs
  /\ pc["tel"] \in Reading \cup {"listen"} => shm_open
  /\ \A k \in Kinds : pc[k] = "off" <=> ~Alive

\* A thread is open to the handler while it makes things only if the other one reads.
Guarded ==
  \A k \in Kinds : pc[k] \in {"record", "create", "mark", "listen"} /\ ~ignore_sig =>
    \E j \in Kinds \ {k} : pc[j] \in Reading

\* What the handler found, when it has unlinked the names.
Taken ==
  handler = "unlinked" =>
    /\ Alive
    /\ \A k \in Kinds : mq[k] # 0 => Uncovered(k, Starting)
    /\ \A k \in Kinds : pc[k] = "begin" => taken[k] = "begin"
    /\ ~shm_open => Uncovered("tel", Creating) \/ taken["tel"] = "returned"

\* A thread with a message in hand has room for it in its file, and a logger that
\* waits has a message.
Filing ==
  /\ \A k \in Kinds : pc[k] \in Reading => index[k] < Len(files[k])
  /\ \A k \in Kinds : pc[k] \notin Reading => index[k] = 0
  /\ \A k \in Kinds : pc[k] \in {"check", "write"} => writes[k] < MaxLines
  /\ \A l \in Loggers : sent[l] <= MaxSends[KindOf(l)]
  /\ \A l \in Loggers : logger[l] = "sending" => sent[l] > 0

\* A packet filed late is the last one until the flag is set again.
LateOnce ==
  /\ late <= 1
  /\ late = 1 => ~block.enabled /\ pc["tel"] \notin {"write", "off"} \cup Creating

IInv == TypeOK /\ Recorded /\ Guarded /\ Taken /\ Filing /\ LateOnce

-----------------------------------------------------------------------------
LEMMA TwoKinds == "msg" \in Kinds /\ "tel" \in Kinds /\ \A k \in Kinds : k = "msg" \/ k = "tel"
  BY DEF Kinds

LEMMA Bounds ==
  /\ QueueSize \in Nat /\ MaxLines \in Nat /\ MaxLines > 0
  /\ MaxSends \in [Kinds -> Nat] /\ MaxStarts \in Nat /\ MaxSets \in Nat
  /\ \A l \in Loggers : KindOf(l) \in Kinds
  BY LogAssumption DEF KindOf, Kinds

LEMMA InitInv == Init => IInv
<1> SUFFICES ASSUME Init PROVE IInv
  OBVIOUS
<1> USE TwoKinds, Bounds
<1>1. <<>> \in Seq(Messages) /\ <<>> \in Seq(Seq(Messages))
  BY EmptySeq
<1>2. "off" \in Locations /\ "off" \notin Reading \cup Creating \cup {"listen"}
  BY DEF Locations, Reading, Creating, Starting
<1>3. TypeOK
  <2>1. NoBlock \in [number : 0 .. MaxStarts, lock : {"free", "ctrl", "left"}, enabled : BOOLEAN]
    BY DEF NoBlock
  <2>2. /\ queue \in [Kinds \X (0 .. MaxStarts) -> Seq(Messages)]
        /\ hand \in [Kinds -> Seq(Messages)] /\ accepted \in [Kinds -> Seq(Messages)]
        /\ files \in [Kinds -> Seq(Seq(Messages))]
    BY <1>1 DEF Init
  <2>3. /\ pc \in [Kinds -> Locations] /\ taken \in [Kinds -> Locations]
        /\ mq \in [Kinds -> 0 .. MaxStarts] /\ reads \in [Kinds -> 0 .. MaxStarts]
        /\ index \in [Kinds -> Nat] /\ writes \in [Kinds -> 0 .. MaxLines]
        /\ dropped \in [Kinds -> SUBSET Messages]
    BY <1>2 DEF Init
  <2>4. /\ fd \in [Loggers -> 0 .. MaxStarts] /\ sent \in [Loggers -> Nat]
        /\ logger \in [Loggers -> {"idle", "open", "sending"}]
    BY DEF Init
  <2>5. /\ mqs = {} /\ shm_open = FALSE /\ ignore_sig = FALSE /\ handler = "none"
        /\ block = NoBlock /\ ctrl = "off" /\ holds = 0
        /\ starts = 0 /\ sets = 0 /\ late = 0
    BY DEF Init
  <2>6. /\ holds \in 0 .. MaxStarts /\ starts \in 0 .. MaxStarts /\ sets \in 0 .. MaxSets
        /\ late \in Nat
    BY <2>5
  <2>7. /\ mqs \subseteq Kinds /\ shm_open \in BOOLEAN /\ ignore_sig \in BOOLEAN
        /\ handler \in {"none", "unlinked"} /\ ctrl \in {"off", "holding"}
    BY <2>5, Zenon
  <2> QED
    BY <2>1, <2>2, <2>3, <2>4, <2>5, <2>6, <2>7 DEF TypeOK
<1>4. Recorded /\ Guarded /\ Taken
  BY <1>2 DEF Init, Recorded, Guarded, Taken, Alive
<1>5. Filing /\ LateOnce
  BY <1>2 DEF Init, Filing, LateOnce
<1> QED
  BY <1>3, <1>4, <1>5 DEF IInv

\* A message in flight is a message.
LEMMA InFlight ==
  ASSUME TypeOK, Filing, NEW l \in Loggers, logger[l] = "sending"
  PROVE  <<l, sent[l]>> \in Messages
<1>1. sent[l] \in 1 .. MaxSends[KindOf(l)]
  BY Bounds DEF TypeOK, Filing
<1> QED
  BY <1>1 DEF Messages

\* Truncating one of the files, or the next one, leaves files.
LEMMA TruncateTypes ==
  ASSUME TypeOK, NEW k \in Kinds, NEW i \in Nat, i <= Len(files[k])
  PROVE  /\ Truncate(k, i) \in [Kinds -> Seq(Seq(Messages))]
         /\ i < Len(Truncate(k, i)[k])
         /\ \A j \in Kinds : j # k => Truncate(k, i)[j] = files[j]
<1> DEFINE s == files[k]
           head == SubSeq(s, 1, i)
           tail == SubSeq(s, i + 2, Len(s))
           S == Seq(Messages)
<1>1. s \in Seq(S) /\ Len(s) \in Nat
  BY DEF TypeOK
<1>2. \A j \in 1 .. Len(s) : s[j] \in S
  BY <1>1, ElementOfSeq
<1>3. head \in Seq(S) /\ Len(head) = i
  BY <1>1, <1>2, SubSeqProperties
<1>4. tail \in Seq(S) /\ Len(tail) \in Nat
  BY <1>1, <1>2, SubSeqProperties
<1>5. <<<<>>>> \in Seq(S) /\ Len(<<<<>>>>) = 1
  BY EmptySeq
<1> HIDE DEF s, head, tail, S
<1>6. head \o <<<<>>>> \in Seq(S) /\ Len(head \o <<<<>>>>) = i + 1
  BY <1>3, <1>5, ConcatProperties
<1>7. (head \o <<<<>>>>) \o tail \in Seq(S) /\ Len((head \o <<<<>>>>) \o tail) = i + 1 + Len(tail)
  BY <1>4, <1>6, ConcatProperties
<1>8. Truncate(k, i) = [files EXCEPT ![k] = (head \o <<<<>>>>) \o tail]
  BY DEF Truncate, head, tail, s, TypeOK
<1> QED
  BY <1>1, <1>4, <1>7, <1>8 DEF S, s, TypeOK

-----------------------------------------------------------------------------
(***************************************************************************)
(* Every step keeps the types.                                             *)
(***************************************************************************)

LEMMA LoggerTypes ==
  ASSUME IInv, NEW l \in Loggers, OpenLogger(l) \/ LogMessage(l) \/ LogPacket(l)
  PROVE  TypeOK'
<1> USE Bounds, TwoKinds DEF IInv
<1>1. CASE OpenLogger(l)
  BY <1>1 DEF OpenLogger, TypeOK, names, threads, shutdown, control, history
<1>2. ASSUME NEW q \in 0 .. MaxStarts, Sends(l, q) PROVE TypeOK'
  <2>1. sent' \in [Loggers -> Nat]
    <3>1. sent \in [Loggers -> Nat]
      BY DEF TypeOK
    <3>2. sent' = [sent EXCEPT ![l] = sent[l] + 1]
      BY <1>2 DEF Sends
    <3> QED
      BY <3>1, <3>2
  <2>2. fd' \in [Loggers -> 0 .. MaxStarts]
    BY <1>2 DEF Sends, TypeOK
  <2>3. logger' \in [Loggers -> {"idle", "open", "sending"}]
    <3>1. logger \in [Loggers -> {"idle", "open", "sending"}]
      BY DEF TypeOK
    <3>2. logger' = [logger EXCEPT ![l] = IF q = 0 THEN logger[l] ELSE "sending"]
      BY <1>2 DEF Sends
    <3> QED
      BY <3>1, <3>2
  <2>4. UNCHANGED <<names, threads, shutdown, control, starts, history>>
    BY <1>2 DEF Sends
  <2> QED
    BY <2>1, <2>2, <2>3, <2>4 DEF TypeOK, names, threads, shutdown, control, history
<1>3. CASE LogMessage(l)
  BY <1>2, <1>3 DEF LogMessage, TypeOK
<1>4. CASE LogPacket(l)
  BY <1>2, <1>4 DEF LogPacket, TypeOK
<1> QED
  BY <1>1, <1>3, <1>4

LEMMA QueueTypes ==
  ASSUME IInv, NEW l \in Loggers, QueueMsg(l)
  PROVE  TypeOK'
<1> USE Bounds DEF IInv
<1> DEFINE k == KindOf(l)
           m == <<l, sent[l]>>
           q == <<k, fd[l]>>
<1>1. k \in Kinds /\ fd[l] \in 0 .. MaxStarts
  BY DEF TypeOK
<1>2. m \in Messages
  BY InFlight DEF QueueMsg
<1>3. queue[q] \in Seq(Messages) /\ accepted[k] \in Seq(Messages)
  BY <1>1 DEF TypeOK
<1> HIDE DEF k, m
<1>4. Append(queue[q], m) \in Seq(Messages) /\ Append(accepted[k], m) \in Seq(Messages)
  BY <1>2, <1>3, AppendProperties
<1>5. queue' = [queue EXCEPT ![q] = Append(queue[q], m)]
  BY <1>1 DEF QueueMsg, k, m, TypeOK
<1>6. queue' \in [Kinds \X (0 .. MaxStarts) -> Seq(Messages)]
  BY <1>4, <1>5 DEF TypeOK
<1>7. accepted' \in [Kinds -> Seq(Messages)]
  <2>1. accepted' = [accepted EXCEPT ![k] = Append(accepted[k], m)] \/ accepted' = accepted
    BY <1>1 DEF QueueMsg, k, m, TypeOK
  <2> QED
    BY <1>4, <2>1 DEF TypeOK
<1>8. logger' \in [Loggers -> {"idle", "open", "sending"}]
  BY DEF QueueMsg, TypeOK
<1>9. fd' \in [Loggers -> 0 .. MaxStarts]
  BY DEF QueueMsg, TypeOK
<1>10. UNCHANGED <<mq, threads, shutdown, control, sent, starts, dropped, late>>
  BY DEF QueueMsg
<1> QED
  BY <1>6, <1>7, <1>8, <1>9, <1>10 DEF TypeOK, threads, shutdown, control

LEMMA OpenTypes ==
  ASSUME IInv, NEW k \in Kinds, OpenQueue(k)
  PROVE  TypeOK'
<1> USE Bounds DEF IInv
<1> DEFINE q == IF mq[k] = 0 THEN starts ELSE mq[k]
<1>1. q \in 0 .. MaxStarts
  BY DEF TypeOK
<1>2. queue[<<k, q>>] \in Seq(Messages)
  BY <1>1 DEF TypeOK
<1> HIDE DEF q
<1>3. /\ mq' = [mq EXCEPT ![k] = q] /\ reads' = [reads EXCEPT ![k] = q]
      /\ accepted' = [accepted EXCEPT ![k] = queue[<<k, q>>]]
      /\ pc' = [pc EXCEPT ![k] = "record"] /\ ignore_sig' = TRUE
      /\ UNCHANGED <<queue, hand, index, writes, files, mqs, shm_open, handler, taken, control,
                     loggers, starts, dropped, late>>
  BY DEF OpenQueue, q
<1>4. mq' \in [Kinds -> 0 .. MaxStarts] /\ reads' \in [Kinds -> 0 .. MaxStarts]
  BY <1>1, <1>3 DEF TypeOK
<1>5. accepted' \in [Kinds -> Seq(Messages)]
  BY <1>2, <1>3 DEF TypeOK
<1>6. pc' \in [Kinds -> Locations]
  BY <1>3 DEF TypeOK, Locations, Creating, Starting
<1> QED
  BY <1>3, <1>4, <1>5, <1>6 DEF TypeOK, control, loggers

LEMMA SetupTypes ==
  ASSUME IInv, NEW k \in Kinds, RecordQueue(k) \/ CreateBlock \/ MarkBlock
  PROVE  TypeOK'
<1> USE Bounds DEF IInv
<1>1. {"create", "listen", "returned", "mark"} \subseteq Locations
  BY DEF Locations, Creating
<1>2. CASE RecordQueue(k)
  BY <1>1, <1>2 DEF RecordQueue, TypeOK, names, control, loggers, history
<1>3. CASE CreateBlock
  <2>1. pc' \in [Kinds -> Locations]
    BY <1>1, <1>3 DEF CreateBlock, TypeOK
  <2>2. block' \in [number : 0 .. MaxStarts, lock : {"free", "ctrl", "left"}, enabled : BOOLEAN]
    <3>1. block' = block \/ block' = [number |-> starts, lock |-> "free", enabled |-> TRUE]
      BY <1>3 DEF CreateBlock
    <3>2. starts \in 0 .. MaxStarts
      BY DEF TypeOK
    <3>3. block \in [number : 0 .. MaxStarts, lock : {"free", "ctrl", "left"}, enabled : BOOLEAN]
      BY DEF TypeOK
    <3>4. [number |-> starts, lock |-> "free", enabled |-> TRUE]
            \in [number : 0 .. MaxStarts, lock : {"free", "ctrl", "left"}, enabled : BOOLEAN]
      BY <3>2
    <3> QED
      BY <3>1, <3>3, <3>4, Zenon
  <2>3. UNCHANGED <<names, reads, hand, index, writes, files, shutdown, ctrl, holds, sets, loggers,
                    starts, history>>
    BY <1>3 DEF CreateBlock
  <2> QED
    BY <2>1, <2>2, <2>3 DEF TypeOK, names, shutdown, loggers, history
<1>4. CASE MarkBlock
  BY <1>1, <1>4 DEF MarkBlock, TypeOK, names, control, loggers, history
<1> QED
  BY <1>2, <1>3, <1>4

LEMMA ListenTypes ==
  ASSUME IInv, NEW k \in Kinds, Listen(k)
  PROVE  TypeOK'
<1> USE Bounds DEF IInv
<1>1. files' \in [Kinds -> Seq(Seq(Messages))]
  <2>1. Len(files[k]) \in Nat
    BY LenProperties DEF TypeOK
  <2> QED
    BY <2>1, TruncateTypes DEF Listen
<1>2. pc' \in [Kinds -> Locations]
  BY DEF Listen, TypeOK, Locations, Reading
<1> QED
  BY <1>1, <1>2 DEF Listen, TypeOK, names, control, loggers, history

LEMMA ReceiveTypes ==
  ASSUME IInv, NEW k \in Kinds, Receive(k)
  PROVE  TypeOK'
<1> USE Bounds DEF IInv
<1> DEFINE q == <<k, reads[k]>>
<1>1. q \in Kinds \X (0 .. MaxStarts) /\ queue[q] \in Seq(Messages) /\ queue[q] # <<>>
  BY DEF Receive, TypeOK
<1> HIDE DEF q
<1>2. Head(queue[q]) \in Messages /\ Tail(queue[q]) \in Seq(Messages)
  BY <1>1, HeadTailProperties
<1>3. <<Head(queue[q])>> \in Seq(Messages)
  BY <1>2
<1>4. /\ hand' = [hand EXCEPT ![k] = <<Head(queue[q])>>]
      /\ queue' = [queue EXCEPT ![q] = Tail(queue[q])]
  BY <1>1 DEF Receive, q, TypeOK
<1>5. hand' \in [Kinds -> Seq(Messages)] /\ queue' \in [Kinds \X (0 .. MaxStarts) -> Seq(Messages)]
  BY <1>1, <1>2, <1>3, <1>4 DEF TypeOK
<1>6. pc' \in [Kinds -> Locations]
  BY DEF Receive, TypeOK, Locations, Reading
<1> QED
  BY <1>5, <1>6 DEF Receive, TypeOK, shutdown, control, loggers, history

LEMMA CheckTypes ==
  ASSUME IInv, Check
  PROVE  TypeOK'
<1> USE Bounds, TwoKinds DEF IInv
<1>1. pc' \in [Kinds -> Locations]
  <2>1. "write" \in Locations /\ "receive" \in Locations
    BY DEF Locations, Reading
  <2>2. pc' = [pc EXCEPT !["tel"] = "write"] \/ pc' = [pc EXCEPT !["tel"] = "receive"]
    BY DEF Check
  <2>3. pc \in [Kinds -> Locations]
    BY DEF TypeOK
  <2> QED
    BY <2>1, <2>2, <2>3
<1>2. hand["tel"] \in Seq(Messages) /\ <<>> \in Seq(Messages)
  BY EmptySeq DEF TypeOK
<1>3. ToSet(hand["tel"]) \subseteq Messages
  BY <1>2, ElementOfSeq, LenProperties DEF ToSet
<1>4. hand' \in [Kinds -> Seq(Messages)]
  <2>1. hand' = [hand EXCEPT !["tel"] = <<>>] \/ hand' = hand
    BY DEF Check
  <2>2. hand \in [Kinds -> Seq(Messages)]
    BY DEF TypeOK
  <2> QED
    BY <1>2, <2>1, <2>2
<1>5. dropped' \in [Kinds -> SUBSET Messages]
  <2>1. dropped["tel"] \cup ToSet(hand["tel"]) \in SUBSET Messages
    BY <1>3 DEF TypeOK
  <2>2. \/ dropped' = [dropped EXCEPT !["tel"] = dropped["tel"] \cup ToSet(hand["tel"])]
        \/ dropped' = dropped
    BY DEF Check
  <2>3. dropped \in [Kinds -> SUBSET Messages]
    BY DEF TypeOK
  <2> QED
    BY <2>1, <2>2, <2>3
<1> QED
  BY <1>1, <1>4, <1>5 DEF Check, TypeOK, names, shutdown, control, loggers

LEMMA WriteTypes ==
  ASSUME IInv, NEW k \in Kinds, Write(k)
  PROVE  /\ TypeOK'
         /\ Len(files'[k]) = Len(files[k])
         /\ \A j \in Kinds : j # k => files'[j] = files[j]
<1> USE Bounds DEF IInv
<1> DEFINE s == files[k]
           i == index[k] + 1
           S == Seq(Messages)
<1>1. s \in Seq(S) /\ Len(s) \in Nat /\ i \in 1 .. Len(s)
  <2>1. s \in Seq(S) /\ index[k] \in Nat
    BY DEF TypeOK
  <2>2. Len(s) \in Nat
    BY <2>1, LenProperties
  <2>3. index[k] < Len(s)
    BY DEF Write, Filing, Reading
  <2> QED
    BY <2>1, <2>2, <2>3
<1>2. s[i] \in S /\ hand[k] \in S
  BY <1>1, ElementOfSeq DEF TypeOK
<1>3. s[i] \o hand[k] \in S
  BY <1>2, ConcatProperties
<1>4. /\ [s EXCEPT ![i] = s[i] \o hand[k]] \in Seq(S)
      /\ Len([s EXCEPT ![i] = s[i] \o hand[k]]) = Len(s)
  BY <1>1, <1>3, ExceptSeq
<1>5. files' = [files EXCEPT ![k] = [s EXCEPT ![i] = s[i] \o hand[k]]]
  BY DEF Write, TypeOK
<1> HIDE DEF i
<1>6. /\ files' \in [Kinds -> Seq(S)] /\ Len(files'[k]) = Len(s)
      /\ \A j \in Kinds : j # k => files'[j] = files[j]
  BY <1>4, <1>5 DEF TypeOK
<1>7. pc' \in [Kinds -> Locations]
  BY DEF Write, TypeOK, Locations, Reading
<1>8. hand' \in [Kinds -> Seq(Messages)]
  BY EmptySeq DEF Write, TypeOK
<1>9. writes[k] \in 0 .. MaxLines /\ writes[k] < MaxLines
  BY DEF Write, TypeOK, Filing
<1>10. writes' \in [Kinds -> 0 .. MaxLines]
  BY <1>9 DEF Write, TypeOK
<1>11. late' \in Nat
  BY DEF Write, TypeOK
<1> QED
  BY <1>6, <1>7, <1>8, <1>10, <1>11 DEF Write, TypeOK, names, shutdown, control, loggers

LEMMA RotateTypes ==
  ASSUME IInv, Rotate
  PROVE  /\ TypeOK'
         /\ index'["msg"] < Len(files'["msg"])
         /\ files'["tel"] = files["tel"] /\ index'["tel"] = index["tel"]
<1> USE Bounds, TwoKinds DEF IInv
<1>1. index'["msg"] = index["msg"] + 1 /\ index["msg"] \in Nat /\ index' \in [Kinds -> Nat]
      /\ index'["tel"] = index["tel"]
  <2>1. index' = [index EXCEPT !["msg"] = index["msg"] + 1]
    BY DEF Rotate
  <2>2. index \in [Kinds -> Nat]
    BY DEF TypeOK
  <2> QED
    BY <2>1, <2>2
<1>2. Len(files["msg"]) \in Nat /\ index["msg"] < Len(files["msg"])
  BY LenProperties DEF Rotate, TypeOK, Filing, Reading
<1>3. /\ files' \in [Kinds -> Seq(Seq(Messages))]
      /\ index'["msg"] < Len(files'["msg"]) /\ files'["tel"] = files["tel"]
  <2>1. files' = Truncate("msg", index'["msg"])
    BY DEF Rotate
  <2>2. index'["msg"] \in Nat /\ index'["msg"] <= Len(files["msg"]) /\ "tel" # "msg"
    BY <1>1, <1>2
  <2>3. TypeOK
    OBVIOUS
  <2>4. /\ Truncate("msg", index'["msg"]) \in [Kinds -> Seq(Seq(Messages))]
        /\ index'["msg"] < Len(Truncate("msg", index'["msg"])["msg"])
        /\ \A j \in Kinds : j # "msg" => Truncate("msg", index'["msg"])[j] = files[j]
    BY <2>2, <2>3, TruncateTypes
  <2> QED
    BY <2>1, <2>2, <2>4
<1>4. writes' \in [Kinds -> 0 .. MaxLines]
  <2>1. writes' = [writes EXCEPT !["msg"] = 0]
    BY DEF Rotate
  <2> QED
    BY <2>1 DEF TypeOK
<1>5. UNCHANGED <<names, pc, reads, hand, shutdown, control, loggers, starts, history>>
  BY DEF Rotate
<1> QED
  BY <1>1, <1>3, <1>4, <1>5 DEF TypeOK, names, shutdown, control, loggers, history

LEMMA EndTypes ==
  ASSUME IInv, ProcessEnds, UNCHANGED mq,
         block' \in [number : 0 .. MaxStarts, lock : {"free", "ctrl", "left"}, enabled : BOOLEAN]
  PROVE  TypeOK'
<1> USE Bounds DEF IInv
<1>1. /\ hand' \in [Kinds -> Seq(Messages)] /\ accepted' \in [Kinds -> Seq(Messages)]
      /\ files' \in [Kinds -> Seq(Seq(Messages))]
  BY EmptySeq DEF ProcessEnds
<1>2. /\ pc' \in [Kinds -> Locations] /\ taken' \in [Kinds -> Locations]
      /\ reads' \in [Kinds -> 0 .. MaxStarts]
      /\ index' \in [Kinds -> Nat] /\ writes' \in [Kinds -> 0 .. MaxLines]
      /\ dropped' \in [Kinds -> SUBSET Messages]
  BY DEF ProcessEnds, Locations
<1> QED
  BY <1>1, <1>2 DEF ProcessEnds, TypeOK, loggers

LEMMA RestTypes ==
  ASSUME IInv, Start \/ Signal \/ Exit \/ Crash \/ Lock \/ Ctrl \/ KillCtrl
  PROVE  TypeOK'
<1> USE Bounds, TwoKinds DEF IInv
<1> DEFINE Blocks == [number : 0 .. MaxStarts, lock : {"free", "ctrl", "left"}, enabled : BOOLEAN]
<1>1. block \in Blocks
  BY DEF TypeOK
<1>2. CASE Start
  <2>1. starts' \in 0 .. MaxStarts
    <3>1. starts \in 0 .. MaxStarts
      BY DEF TypeOK
    <3>2. starts < MaxStarts /\ starts' = starts + 1
      BY <1>2 DEF Start
    <3> QED
      BY <3>1, <3>2
  <2>2. pc' \in [Kinds -> Locations]
    BY <1>2 DEF Start, Locations, Creating, Starting
  <2> QED
    BY <1>2, <2>1, <2>2 DEF Start, TypeOK, names, shutdown, control, loggers, history
<1>3. CASE Signal
  <2>1. mq' \in [Kinds -> 0 .. MaxStarts]
    BY <1>3 DEF Signal, TypeOK
  <2> QED
    BY <1>3, <2>1 DEF Signal, TypeOK, threads, control, loggers, history
<1>4. CASE Exit
  <2>1. NoBlock \in Blocks
    BY DEF NoBlock
  <2>2. block' \in Blocks /\ ProcessEnds /\ UNCHANGED mq
    BY <1>1, <1>4, <2>1 DEF Exit
  <2> QED
    BY <2>2, EndTypes
<1>5. CASE Crash
  <2>1. block' = [block EXCEPT !.lock = "left", !.enabled = FALSE]
    BY <1>5 DEF Crash
  <2>2. block' \in Blocks
    BY <1>1, <2>1
  <2> QED
    BY <1>5, <2>2, EndTypes DEF Crash
<1>6. CASE Lock
  <2>1. block' = [block EXCEPT !.lock = "ctrl"]
    BY <1>6 DEF Lock
  <2>2. block' \in Blocks /\ block.number \in 0 .. MaxStarts
    BY <1>1, <2>1
  <2>3. sets' \in 0 .. MaxSets
    <3>1. sets \in 0 .. MaxSets
      BY DEF TypeOK
    <3>2. sets < MaxSets /\ sets' = sets + 1
      BY <1>6 DEF Lock
    <3> QED
      BY <3>1, <3>2
  <2> QED
    BY <1>6, <2>2, <2>3 DEF Lock, TypeOK, names, threads, shutdown, loggers, history
<1>7. CASE Ctrl
  <2>1. PICK enabled \in BOOLEAN : SetLogging(enabled)
    BY <1>7 DEF Ctrl
  <2>2. block' = block \/ block' = [block EXCEPT !.lock = "free", !.enabled = enabled]
    BY <2>1 DEF SetLogging
  <2>3. block' \in Blocks
    BY <1>1, <2>2
  <2>4. late' \in Nat
    <3>1. late \in Nat
      BY DEF TypeOK
    <3>2. late' = 0 \/ late' = late
      BY <2>1 DEF SetLogging
    <3> QED
      BY <3>1, <3>2
  <2>5. /\ ctrl' = "off" /\ holds' = 0
        /\ UNCHANGED <<names, threads, shutdown, sets, loggers, starts, accepted, dropped>>
    BY <2>1 DEF SetLogging
  <2>6. ctrl' \in {"off", "holding"} /\ holds' \in 0 .. MaxStarts
    BY <2>5
  <2> QED
    BY <2>3, <2>4, <2>5, <2>6 DEF TypeOK, names, threads, shutdown, loggers
<1>8. CASE KillCtrl
  <2>1. /\ ctrl' = "off" /\ holds' = 0
        /\ UNCHANGED <<names, threads, shutdown, block, sets, loggers, starts, history>>
    BY <1>8 DEF KillCtrl
  <2>2. ctrl' \in {"off", "holding"} /\ holds' \in 0 .. MaxStarts
    BY <2>1
  <2> QED
    BY <2>1, <2>2 DEF TypeOK, names, threads, shutdown, loggers, history
<1> QED
  BY <1>2, <1>3, <1>4, <1>5, <1>6, <1>7, <1>8

\* Next, with the steps that share a lemma together.
LEMMA Steps ==
  ASSUME Next
  PROVE  \/ \E l \in Loggers : OpenLogger(l) \/ LogMessage(l) \/ LogPacket(l)
         \/ \E l \in Loggers : QueueMsg(l)
         \/ \E k \in Kinds : OpenQueue(k)
         \/ \E k \in Kinds : RecordQueue(k)
         \/ \E k \in Kinds : Listen(k)
         \/ \E k \in Kinds : Receive(k)
         \/ \E k \in Kinds : Write(k)
         \/ CreateBlock \/ MarkBlock \/ Check \/ Rotate
         \/ Start \/ Signal \/ Exit \/ Crash \/ Lock \/ Ctrl \/ KillCtrl
BY DEF Next, Thread, TelThread

LEMMA StepTypes == IInv /\ Next => TypeOK'
<1> SUFFICES ASSUME IInv, Next PROVE TypeOK'
  OBVIOUS
<1> QED
  BY Steps, TwoKinds, LoggerTypes, QueueTypes, OpenTypes, SetupTypes, ListenTypes, ReceiveTypes,
     CheckTypes, WriteTypes, RotateTypes, RestTypes

-----------------------------------------------------------------------------
(***************************************************************************)
(* What the handler needs: Recorded, Guarded and Taken.                    *)
(***************************************************************************)

\* The locations are distinct, and sort into these sets.
LEMMA Places ==
  /\ Locations = {"begin", "record", "create", "mark", "receive", "check", "write", "off",
                  "listen", "returned"}
  /\ Starting = {"begin", "record"}
  /\ Creating = {"begin", "record", "create", "mark"}
  /\ Reading = {"receive", "check", "write"}
  BY DEF Locations, Creating, Starting, Reading

shutdownVars == <<mq, pc, mqs, shm_open, ignore_sig, handler, taken>>

\* A thread moves alone; what it has made and found with it.
LEMMA QuietStep ==
  ASSUME IInv, UNCHANGED shutdownVars
  PROVE  (Recorded /\ Guarded /\ Taken)'
  BY DEF IInv, shutdownVars, Recorded, Guarded, Taken, Alive, Uncovered

\* A thread that reads goes on reading.
LEMMA ReadingStep ==
  ASSUME IInv, NEW k \in Kinds, pc[k] \in Reading, NEW where \in Reading,
         pc' = [pc EXCEPT ![k] = where],
         UNCHANGED <<mq, mqs, shm_open, ignore_sig, handler, taken>>
  PROVE  (Recorded /\ Guarded /\ Taken)'
<1> USE TwoKinds, Places
<1>1. /\ pc \in [Kinds -> Locations] /\ pc'[k] = where
      /\ \A j \in Kinds \ {k} : pc'[j] = pc[j]
  BY DEF IInv, TypeOK
<1>2. Recorded'
  BY <1>1 DEF IInv, Recorded, Alive
<1>3. Guarded'
  BY <1>1 DEF IInv, Guarded
<1>4. Taken'
  BY <1>1 DEF IInv, Taken, Alive, Uncovered
<1> QED
  BY <1>2, <1>3, <1>4

LEMMA OpenStep ==
  ASSUME IInv, NEW k \in Kinds, OpenQueue(k)
  PROVE  (Recorded /\ Guarded /\ Taken)'
<1> USE TwoKinds, Places
<1>1. /\ pc \in [Kinds -> Locations] /\ pc[k] = "begin" /\ pc'[k] = "record"
      /\ \A j \in Kinds \ {k} : pc'[j] = pc[j] /\ mq'[j] = mq[j]
      /\ ignore_sig' = TRUE /\ UNCHANGED <<mqs, shm_open, handler, taken>>
  BY DEF OpenQueue, IInv, TypeOK
<1>2. Recorded'
  BY <1>1 DEF IInv, Recorded, Alive
<1>3. Guarded'
  BY <1>1 DEF IInv, Guarded
<1>4. Taken'
  BY <1>1 DEF IInv, Taken, Alive, Uncovered
<1> QED
  BY <1>2, <1>3, <1>4

LEMMA RecordStep ==
  ASSUME IInv, NEW k \in Kinds, RecordQueue(k)
  PROVE  (Recorded /\ Guarded /\ Taken)'
<1> USE TwoKinds, Places
<1>1. /\ pc \in [Kinds -> Locations] /\ pc[k] = "record"
      /\ pc'[k] = IF k = "tel" THEN "create" ELSE "listen"
      /\ \A j \in Kinds \ {k} : pc'[j] = pc[j]
      /\ mqs' = mqs \cup {k} /\ UNCHANGED <<mq, shm_open, ignore_sig, handler, taken>>
  BY DEF RecordQueue, IInv, TypeOK, names
<1>2. Recorded'
  BY <1>1 DEF IInv, Recorded, Alive
<1>3. Guarded'
  BY <1>1 DEF IInv, Guarded
<1>4. Taken'
  BY <1>1 DEF IInv, Taken, Alive, Uncovered
<1> QED
  BY <1>2, <1>3, <1>4

LEMMA BlockStep ==
  ASSUME IInv, CreateBlock \/ MarkBlock
  PROVE  (Recorded /\ Guarded /\ Taken)'
<1> USE TwoKinds, Places
<1>1. /\ pc \in [Kinds -> Locations]
      /\ \/ /\ pc["tel"] = "create" /\ pc'["tel"] \in {"mark", "returned"}
            /\ shm_open' = shm_open
         \/ pc["tel"] = "mark" /\ pc'["tel"] = "listen" /\ shm_open' = TRUE
      /\ \A j \in Kinds \ {"tel"} : pc'[j] = pc[j]
      /\ UNCHANGED <<mq, mqs, ignore_sig, handler, taken>>
  <2>1. pc \in [Kinds -> Locations]
    BY DEF IInv, TypeOK
  <2>2. CASE CreateBlock
    BY <2>1, <2>2 DEF CreateBlock, names, shutdown
  <2>3. CASE MarkBlock
    BY <2>1, <2>3 DEF MarkBlock, names
  <2> QED
    BY <2>1, <2>2, <2>3
<1>2. Recorded'
  BY <1>1 DEF IInv, Recorded, Alive
<1>3. Guarded'
  BY <1>1 DEF IInv, Guarded
<1>4. Taken'
  BY <1>1 DEF IInv, Taken, Alive, Uncovered
<1> QED
  BY <1>2, <1>3, <1>4

\* The flag is cleared, but from now on this thread reads.
LEMMA ListenStep ==
  ASSUME IInv, NEW k \in Kinds, Listen(k)
  PROVE  (Recorded /\ Guarded /\ Taken)'
<1> USE TwoKinds, Places
<1>1. /\ pc \in [Kinds -> Locations] /\ pc[k] = "listen" /\ pc'[k] = "receive"
      /\ \A j \in Kinds \ {k} : pc'[j] = pc[j]
      /\ UNCHANGED <<mq, mqs, shm_open, handler, taken>>
  BY DEF Listen, IInv, TypeOK, names
<1>2. Recorded'
  BY <1>1 DEF IInv, Recorded, Alive
<1>3. Guarded'
  BY <1>1 DEF Guarded
<1>4. Taken'
  BY <1>1 DEF IInv, Taken, Alive, Uncovered
<1> QED
  BY <1>2, <1>3, <1>4

\* The handler finds every thread either before what it must remove or past recording it,
\* unless the other one has cleared the flag.
LEMMA SignalStep ==
  ASSUME IInv, Signal
  PROVE  (Recorded /\ Guarded /\ Taken)'
<1> USE TwoKinds, Places
<1>1. /\ pc \in [Kinds -> Locations] /\ Alive /\ ~ignore_sig
      /\ handler' = "unlinked" /\ taken' = pc /\ pc' = pc
      /\ mq' = [j \in Kinds |-> IF j \in mqs THEN 0 ELSE mq[j]]
      /\ UNCHANGED <<mqs, shm_open, ignore_sig>>
  BY DEF Signal, IInv, TypeOK, threads
<1>2. Recorded' /\ Guarded'
  BY <1>1 DEF IInv, Recorded, Guarded, Alive
<1>3. \A j \in Kinds : pc[j] # "off"
  BY <1>1 DEF IInv, Recorded
<1>4. ASSUME NEW j \in Kinds, mq'[j] # 0
      PROVE  Uncovered(j, Starting)'
  <2>1. j \notin mqs
    BY <1>1, <1>4
  <2>2. pc[j] \in Starting
    BY <1>1, <1>3, <2>1 DEF IInv, Recorded
  <2> QED
    BY <1>1, <2>2 DEF IInv, Guarded, Uncovered
<1>5. ASSUME ~shm_open
      PROVE  (Uncovered("tel", Creating) \/ taken["tel"] = "returned")'
  <2>1. pc["tel"] \in Creating \cup {"returned"}
    BY <1>1, <1>3, <1>5 DEF IInv, Recorded
  <2> QED
    BY <1>1, <2>1 DEF IInv, Guarded, Uncovered
<1>6. Taken'
  BY <1>1, <1>4, <1>5 DEF Taken, Alive
<1> QED
  BY <1>2, <1>6

LEMMA LifeStep ==
  ASSUME IInv, Start \/ Exit \/ Crash
  PROVE  (Recorded /\ Guarded /\ Taken)'
<1> USE TwoKinds, Places
<1>1. CASE Start
  <2>1. /\ ~Alive /\ \A k \in Kinds : pc'[k] = "begin"
        /\ UNCHANGED <<handler, shm_open, mqs>>
    BY <1>1 DEF Start, shutdown
  <2>2. handler' # "unlinked"
    BY <2>1 DEF IInv, Taken
  <2> QED
    BY <2>1, <2>2 DEF Recorded, Guarded, Taken, Alive
<1>2. CASE Exit \/ Crash
  <2>1. (\A k \in Kinds : pc'[k] = "off") /\ handler' = "none"
    BY <1>2 DEF Exit, Crash, ProcessEnds
  <2> QED
    BY <2>1 DEF Recorded, Guarded, Taken, Alive
<1> QED
  BY <1>1, <1>2

LEMMA StepShutdown == IInv /\ Next => (Recorded /\ Guarded /\ Taken)'
<1> SUFFICES ASSUME IInv, Next PROVE (Recorded /\ Guarded /\ Taken)'
  OBVIOUS
<1>1. ASSUME NEW l \in Loggers, OpenLogger(l) \/ LogMessage(l) \/ LogPacket(l)
      PROVE  UNCHANGED shutdownVars
  BY <1>1 DEF OpenLogger, LogMessage, LogPacket, Sends, names, threads, shutdown, shutdownVars
<1>2. ASSUME NEW l \in Loggers, QueueMsg(l)
      PROVE  UNCHANGED shutdownVars
  BY <1>2 DEF QueueMsg, threads, shutdown, shutdownVars
<1>3. ASSUME Rotate \/ Lock \/ Ctrl \/ KillCtrl
      PROVE  UNCHANGED shutdownVars
  BY <1>3 DEF Rotate, Lock, Ctrl, SetLogging, KillCtrl, names, threads, shutdown, shutdownVars
<1>4. ASSUME NEW k \in Kinds, Receive(k) \/ Write(k)
      PROVE  (Recorded /\ Guarded /\ Taken)'
  <2>1. /\ pc[k] \in Reading
        /\ \E where \in Reading : pc' = [pc EXCEPT ![k] = where]
        /\ UNCHANGED <<mq, mqs, shm_open, ignore_sig, handler, taken>>
    BY <1>4 DEF Receive, Write, Reading, names, shutdown
  <2> QED
    BY <2>1, ReadingStep
<1>5. ASSUME Check
      PROVE  (Recorded /\ Guarded /\ Taken)'
  <2>1. /\ pc["tel"] \in Reading
        /\ \E where \in Reading : pc' = [pc EXCEPT !["tel"] = where]
        /\ UNCHANGED <<mq, mqs, shm_open, ignore_sig, handler, taken>>
    BY <1>5 DEF Check, Reading, names, shutdown
  <2> QED
    BY <2>1, ReadingStep, TwoKinds
<1> QED
  BY <1>1, <1>2, <1>3, <1>4, <1>5, Steps, QuietStep, OpenStep, RecordStep, BlockStep, ListenStep,
     SignalStep, LifeStep

-----------------------------------------------------------------------------
(***************************************************************************)
(* What the files and the flag need: Filing and LateOnce.                  *)
(***************************************************************************)

\* Filing is about these alone.
filingVars == <<pc, index, files, writes, sent, logger>>

LEMMA SendFiling ==
  ASSUME IInv, NEW l \in Loggers,
         OpenLogger(l) \/ LogMessage(l) \/ LogPacket(l) \/ QueueMsg(l)
  PROVE  Filing'
<1> USE Bounds
<1>1. /\ sent \in [Loggers -> Nat] /\ sent[l] <= MaxSends[KindOf(l)]
      /\ logger \in [Loggers -> {"idle", "open", "sending"}]
  BY DEF IInv, TypeOK, Filing
<1>2. UNCHANGED <<pc, index, files, writes>>
  BY DEF OpenLogger, LogMessage, LogPacket, Sends, QueueMsg, threads
<1>3. /\ \A j \in Loggers \ {l} : sent'[j] = sent[j] /\ logger'[j] = logger[j]
      /\ \/ sent'[l] = sent[l] /\ logger'[l] # "sending"
         \/ sent'[l] = sent[l] + 1 /\ sent[l] < MaxSends[KindOf(l)]
  <2>1. CASE OpenLogger(l)
    BY <1>1, <2>1 DEF OpenLogger
  <2>2. CASE LogMessage(l) \/ LogPacket(l)
    BY <1>1, <2>2 DEF LogMessage, LogPacket, Sends
  <2>3. CASE QueueMsg(l)
    BY <1>1, <2>3 DEF QueueMsg
  <2> QED
    BY <2>1, <2>2, <2>3
<1>4. /\ \A j \in Loggers : sent'[j] <= MaxSends[KindOf(j)]
      /\ \A j \in Loggers : logger'[j] = "sending" => sent'[j] > 0
  <2>1. /\ \A j \in Loggers : sent[j] <= MaxSends[KindOf(j)]
        /\ \A j \in Loggers : logger[j] = "sending" => sent[j] > 0
    BY DEF IInv, Filing
  <2>2. sent[l] \in Nat /\ MaxSends[KindOf(l)] \in Nat
    BY <1>1
  <2>3. sent'[l] <= MaxSends[KindOf(l)] /\ (logger'[l] = "sending" => sent'[l] > 0)
    BY <1>1, <1>3, <2>2
  <2> QED
    BY <1>3, <2>1, <2>3
<1> QED
  BY <1>2, <1>4 DEF IInv, Filing

\* A step of a thread, or of both, that leaves the loggers alone.
LEMMA ThreadFiling ==
  ASSUME IInv, UNCHANGED <<sent, logger>>,
         \A k \in Kinds :
           /\ pc'[k] \in Reading => index'[k] < Len(files'[k])
           /\ pc'[k] \notin Reading => index'[k] = 0
           /\ pc'[k] \in {"check", "write"} => writes'[k] < MaxLines
  PROVE  Filing'
  BY DEF IInv, Filing

LEMMA SetupFiling ==
  ASSUME IInv, NEW k \in Kinds,
         OpenQueue(k) \/ RecordQueue(k) \/ CreateBlock \/ MarkBlock \/ Start
  PROVE  Filing'
<1> USE TwoKinds, Places
<1>1. /\ pc \in [Kinds -> Locations]
      /\ \A j \in Kinds : pc'[j] = pc[j] \/ (pc[j] \notin Reading /\ pc'[j] \notin Reading)
      /\ UNCHANGED <<index, files, writes, sent, logger>>
  <2>1. pc \in [Kinds -> Locations]
    BY DEF IInv, TypeOK
  <2>2. CASE OpenQueue(k)
    BY <2>1, <2>2 DEF OpenQueue, loggers
  <2>3. CASE RecordQueue(k)
    BY <2>1, <2>3 DEF RecordQueue, loggers
  <2>4. CASE CreateBlock
    BY <2>1, <2>4 DEF CreateBlock, loggers
  <2>5. CASE MarkBlock
    BY <2>1, <2>5 DEF MarkBlock, loggers
  <2>6. CASE Start
    BY <2>1, <2>6 DEF Start, loggers, IInv, Recorded
  <2> QED
    BY <2>1, <2>2, <2>3, <2>4, <2>5, <2>6
<1> QED
  BY <1>1, ThreadFiling DEF IInv, Filing

LEMMA ReadFiling ==
  ASSUME IInv, NEW k \in Kinds, Listen(k) \/ Receive(k) \/ Write(k)
  PROVE  Filing'
<1> USE TwoKinds, Places
<1>1. /\ pc \in [Kinds -> Locations] /\ index' = index /\ UNCHANGED <<sent, logger>>
      /\ pc' = [pc EXCEPT ![k] = pc'[k]]
      /\ pc'[k] \in Reading
  <2>1. pc \in [Kinds -> Locations]
    BY DEF IInv, TypeOK
  <2> QED
    BY <2>1 DEF Listen, Receive, Write, loggers
<1>2. index'[k] < Len(files'[k]) /\ \A j \in Kinds : j # k => files'[j] = files[j]
  <2>1. CASE Listen(k)
    <3>1. Len(files[k]) \in Nat
      BY LenProperties DEF IInv, TypeOK
    <3>2. TypeOK /\ 0 <= Len(files[k]) /\ files' = Truncate(k, 0)
      BY <2>1, <3>1 DEF Listen, IInv
    <3>3. 0 < Len(files'[k]) /\ \A j \in Kinds : j # k => files'[j] = files[j]
      BY <3>2, TruncateTypes
    <3>4. index[k] = 0
      BY <2>1 DEF Listen, IInv, Filing
    <3> QED
      BY <1>1, <3>3, <3>4
  <2>2. CASE Receive(k)
    BY <1>1, <2>2 DEF Receive, IInv, Filing
  <2>3. CASE Write(k)
    BY <1>1, <2>3, WriteTypes DEF Write, IInv, Filing
  <2> QED
    BY <2>1, <2>2, <2>3
<1>3. /\ pc'[k] \in {"check", "write"} => writes'[k] < MaxLines
      /\ \A j \in Kinds : j # k => writes'[j] = writes[j]
  <2>1. writes \in [Kinds -> 0 .. MaxLines]
    BY DEF IInv, TypeOK
  <2> QED
    BY <1>1, <2>1 DEF Listen, Receive, Write
<1>4. \A j \in Kinds :
        /\ pc'[j] \in Reading => index'[j] < Len(files'[j])
        /\ pc'[j] \notin Reading => index'[j] = 0
        /\ pc'[j] \in {"check", "write"} => writes'[j] < MaxLines
  BY <1>1, <1>2, <1>3 DEF IInv, Filing
<1> QED
  BY <1>1, <1>4, ThreadFiling

LEMMA OtherFiling ==
  ASSUME IInv, Check \/ Rotate \/ Exit \/ Crash
  PROVE  Filing'
<1> USE TwoKinds, Places
<1>1. CASE Check
  <2>1. /\ pc \in [Kinds -> Locations]
        /\ \A j \in Kinds : pc'[j] = pc[j] \/ (j = "tel" /\ pc[j] = "check" /\ pc'[j] \in Reading)
        /\ UNCHANGED <<index, files, writes, sent, logger>>
    <3>1. pc \in [Kinds -> Locations]
      BY DEF IInv, TypeOK
    <3>2. /\ pc["tel"] = "check"
          /\ pc' = [pc EXCEPT !["tel"] = "write"] \/ pc' = [pc EXCEPT !["tel"] = "receive"]
          /\ UNCHANGED <<index, files, writes, sent, logger>>
      BY <1>1 DEF Check, loggers
    <3> QED
      BY <3>1, <3>2
  <2> QED
    BY <2>1, ThreadFiling DEF IInv, Filing
<1>2. CASE Rotate
  <2>1. /\ index'["msg"] < Len(files'["msg"])
        /\ files'["tel"] = files["tel"] /\ index'["tel"] = index["tel"]
    BY <1>2, RotateTypes
  <2>2. /\ pc["msg"] = "receive" /\ UNCHANGED <<pc, sent, logger>>
        /\ writes'["tel"] = writes["tel"]
    BY <1>2 DEF Rotate, loggers, IInv, TypeOK
  <2> QED
    BY <2>1, <2>2, ThreadFiling DEF IInv, Filing
<1>3. CASE Exit \/ Crash
  <2>1. /\ \A j \in Kinds : pc'[j] = "off" /\ index'[j] = 0
        /\ UNCHANGED <<sent, logger>>
    BY <1>3 DEF Exit, Crash, ProcessEnds, loggers
  <2> QED
    BY <2>1, ThreadFiling
<1> QED
  BY <1>1, <1>2, <1>3

LEMMA StepFiling == IInv /\ Next => Filing'
<1> SUFFICES ASSUME IInv, Next PROVE Filing'
  OBVIOUS
<1>1. ASSUME Signal \/ Lock \/ Ctrl \/ KillCtrl
      PROVE  Filing'
  <2>1. UNCHANGED filingVars
    BY <1>1 DEF Signal, Lock, Ctrl, SetLogging, KillCtrl, threads, loggers, filingVars
  <2> QED
    BY <2>1 DEF IInv, Filing, filingVars
<1> QED
  BY <1>1, Steps, TwoKinds, SendFiling, SetupFiling, ReadFiling, OtherFiling

\* Only Write counts a packet filed late, and it leaves the telemetry thread to read the
\* flag again.
LEMMA StepLate == IInv /\ Next => LateOnce'
<1> SUFFICES ASSUME IInv, Next PROVE LateOnce'
  OBVIOUS
<1> USE TwoKinds, Places
<1>1. pc \in [Kinds -> Locations] /\ late \in Nat
  BY DEF IInv, TypeOK
<1>2. ASSUME late' = 0 PROVE LateOnce'
  BY <1>2 DEF LateOnce
<1>3. ASSUME UNCHANGED <<late, block>>, pc'["tel"] = pc["tel"] PROVE LateOnce'
  BY <1>3 DEF IInv, LateOnce
<1>4. ASSUME NEW l \in Loggers,
             OpenLogger(l) \/ LogMessage(l) \/ LogPacket(l) \/ QueueMsg(l)
      PROVE  LateOnce'
  BY <1>3, <1>4 DEF OpenLogger, LogMessage, LogPacket, Sends, QueueMsg, threads, control, history
<1>5. ASSUME NEW k \in Kinds, OpenQueue(k) \/ RecordQueue(k) \/ Listen(k) \/ Receive(k)
      PROVE  LateOnce'
  <2>1. UNCHANGED <<late, block>> /\ (k # "tel" => pc'["tel"] = pc["tel"])
    BY <1>1, <1>5 DEF OpenQueue, RecordQueue, Listen, Receive, control, history
  <2>2. CASE k = "tel" /\ pc[k] \in Creating
    BY <1>1, <2>1, <2>2 DEF IInv, LateOnce
  <2>3. CASE k = "tel" /\ pc[k] \notin Creating
    <3>1. pc'[k] \in {"receive", "check"}
      BY <1>1, <1>5, <2>3 DEF OpenQueue, RecordQueue, Listen, Receive
    <3> QED
      BY <2>1, <2>3, <3>1 DEF IInv, LateOnce
  <2> QED
    BY <1>3, <2>1, <2>2, <2>3
<1>6. ASSUME NEW k \in Kinds, Write(k)
      PROVE  LateOnce'
  <2>1. CASE k = "tel"
    <3>1. /\ pc["tel"] = "write" /\ pc'["tel"] = "receive" /\ block' = block
          /\ late' = IF ~block.enabled THEN late + 1 ELSE late
      BY <1>1, <1>6, <2>1 DEF Write, control
    <3>2. late = 0
      BY <1>1, <3>1 DEF IInv, LateOnce
    <3> QED
      BY <3>1, <3>2 DEF LateOnce
  <2>2. CASE k # "tel"
    BY <1>1, <1>3, <1>6, <2>2 DEF Write, control
  <2> QED
    BY <2>1, <2>2
<1>7. ASSUME CreateBlock \/ MarkBlock
      PROVE  LateOnce'
  <2>1. pc["tel"] \in Creating /\ late' = late
    BY <1>7 DEF CreateBlock, MarkBlock, history
  <2> QED
    BY <1>1, <1>2, <2>1 DEF IInv, LateOnce
<1>8. ASSUME Check
      PROVE  LateOnce'
  <2>1. /\ UNCHANGED <<late, block>>
        /\ pc'["tel"] = IF block.enabled THEN "write" ELSE "receive"
    BY <1>1, <1>8 DEF Check, control
  <2> QED
    BY <2>1 DEF IInv, LateOnce
<1>9. ASSUME Rotate \/ Signal \/ KillCtrl
      PROVE  LateOnce'
  BY <1>3, <1>9 DEF Rotate, Signal, KillCtrl, threads, control, history
<1>10. ASSUME Start
       PROVE  LateOnce'
  <2>1. pc["tel"] = "off" /\ late' = late
    BY <1>10 DEF Start, history, IInv, Recorded
  <2> QED
    BY <1>1, <1>2, <2>1 DEF IInv, LateOnce
<1>11. ASSUME Exit \/ Crash
       PROVE  LateOnce'
  BY <1>2, <1>11 DEF Exit, Crash, ProcessEnds
<1>12. ASSUME Lock
       PROVE  LateOnce'
  <2>1. /\ late' = late /\ pc' = pc
        /\ block' = [block EXCEPT !.lock = "ctrl"]
    BY <1>12 DEF Lock, threads, history
  <2>2. block'.enabled = block.enabled
    BY <2>1 DEF IInv, TypeOK
  <2> QED
    BY <2>1, <2>2 DEF IInv, LateOnce
<1>13. ASSUME Ctrl
       PROVE  LateOnce'
  BY <1>2, <1>3, <1>13 DEF Ctrl, SetLogging, threads
<1> QED
  BY <1>4, <1>5, <1>6, <1>7, <1>8, <1>9, <1>10, <1>11, <1>12, <1>13, Steps

-----------------------------------------------------------------------------
LEMMA Inductive == IInv /\ [Next]_vars => IInv'
<1>1. IInv /\ Next => IInv'
  BY StepTypes, StepShutdown, StepFiling, StepLate DEF IInv
<1>2. IInv /\ UNCHANGED vars => IInv'
  <2> SUFFICES ASSUME IInv, UNCHANGED vars PROVE IInv'
    OBVIOUS
  <2>1. TypeOK'
    BY DEF IInv, TypeOK, vars, names, threads, shutdown, control, loggers, history
  <2>2. (Recorded /\ Guarded /\ Taken)'
    BY QuietStep DEF shutdownVars, vars, names, threads, shutdown
  <2>3. (Filing /\ LateOnce)'
    BY DEF IInv, Filing, LateOnce, vars, threads, loggers, control, history
  <2> QED
    BY <2>1, <2>2, <2>3 DEF IInv
<1> QED
  BY <1>1, <1>2

LEMMA Invariant == Spec => []IInv
<1> QED
  BY InitInv, Inductive, PTL DEF Spec

\* Every variable keeps its type, whatever the loggers, the queues and the starts: a
\* thread never files into a file that is not there.
THEOREM TypeCorrect == Spec => []TypeOK
<1>1. IInv => TypeOK
  BY DEF IInv
<1> QED
  BY <1>1, Invariant, PTL

\* After log_ctrl disables telemetry at most one packet is still filed (dlp.cpp reads the
\* flag under the semaphore and writes after it).
THEOREM AtMostOneLate == Spec => []DisabledStopsFiling
<1>1. IInv => DisabledStopsFiling
  BY DEF IInv, LateOnce, DisabledStopsFiling
<1> QED
  BY <1>1, Invariant, PTL

\* The handler of dlp leaves a queue or the block behind only where the two threads share
\* ignore_sig badly, or after a crash (dlp.cpp:90).
THEOREM ExitIsClean == Spec => CleanExit
<1> DEFINE Clean == Exit => /\ \A k \in Kinds : mq[k] # 0 => Uncovered(k, Starting)
                            /\ block' # NoBlock =>
                                 Uncovered("tel", Creating) \/ taken["tel"] = "returned"
<1>1. IInv /\ [Next]_vars => [Clean]_vars
  BY DEF IInv, Taken, Exit
<1> QED
  BY <1>1, Invariant, PTL DEF Spec, CleanExit


-----------------------------------------------------------------------------
(***************************************************************************)
(* Sequences built by appending, and FlattenSeq, which the definitions of  *)
(* the log and of what is read back from it are built from.                *)
(***************************************************************************)

\* Induction over the naturals, for a set instead of an operator.
LEMMA Least ==
  ASSUME NEW S \in SUBSET Nat, S # {}
  PROVE  \E n \in S : \A k \in S : n <= k
<1>1. IsWellFoundedOn(OpToRel(<, Nat), Nat)
  BY NatLessThanWellFounded
<1>2. PICK n \in S : \A y \in S : <<y, n>> \notin OpToRel(<, Nat)
  BY <1>1, WFMin, Zenon
<1>3. \A y \in S : ~(y < n)
  BY <1>2, Zenon DEF OpToRel
<1> QED
  BY <1>3

LEMMA Induction ==
  ASSUME NEW S, 0 \in S, \A n \in Nat : n \in S => n + 1 \in S
  PROVE  \A n \in Nat : n \in S
<1> SUFFICES ASSUME NEW n \in Nat, n \notin S PROVE FALSE
  OBVIOUS
<1> DEFINE T == {i \in Nat : i \notin S}
<1>1. PICK m \in T : \A k \in T : m <= k
  BY Least
<1>2. m # 0 /\ m - 1 \in Nat /\ m - 1 \notin T
  BY <1>1
<1> QED
  BY <1>1, <1>2

\* Every sequence is built by appending.
LEMMA SeqInduction ==
  ASSUME NEW S, NEW G, << >> \in G, \A s \in Seq(S), e \in S : s \in G => Append(s, e) \in G
  PROVE  \A s \in Seq(S) : s \in G
<1> DEFINE L == {n \in Nat : \A s \in Seq(S) : Len(s) = n => s \in G}
<1>1. 0 \in L
  <2> SUFFICES ASSUME NEW s \in Seq(S), Len(s) = 0 PROVE s \in G
    OBVIOUS
  <2>1. s = << >>
    BY EmptySeq
  <2> QED
    BY <2>1
<1>2. ASSUME NEW n \in L PROVE n + 1 \in L
  <2> SUFFICES ASSUME NEW s \in Seq(S), Len(s) = n + 1 PROVE s \in G
    OBVIOUS
  <2>1. PICK t \in Seq(S), e \in S : s = Append(t, e)
    BY SequenceEmptyOrAppend, EmptySeq
  <2>2. Len(t) = n
    BY <2>1, AppendProperties, LenProperties
  <2> QED
    BY <2>1, <2>2
<1>3. \A n \in Nat : n \in L => n + 1 \in L
  BY <1>2
<1> HIDE DEF L
<1>4. \A n \in Nat : n \in L
  BY <1>1, <1>3, Induction
<1> QED
  BY <1>4, LenProperties DEF L

\* The function that FlattenSeq computes.
Flat(ss, g) == g = [i \in 1 .. Len(ss) |-> IF i = 1 THEN ss[i] ELSE g[i-1] \o ss[i]]

LEMMA FlatAt ==
  ASSUME NEW ss, NEW g, Flat(ss, g), NEW i \in 1 .. Len(ss)
  PROVE  g[i] = IF i = 1 THEN ss[i] ELSE g[i-1] \o ss[i]
  BY DEF Flat

\* There is such a function, by induction.
LEMMA FlatExists ==
  ASSUME NEW S
  PROVE  \A ss \in Seq(Seq(S)) : \E g : Flat(ss, g)
<1> DEFINE G == {ss \in Seq(Seq(S)) : \E g : Flat(ss, g)}
<1>1. << >> \in G
  <2>1. Flat(<< >>, [i \in 1 .. 0 |-> << >>])
    BY DEF Flat
  <2> QED
    BY <2>1, EmptySeq
<1>2. ASSUME NEW ss \in Seq(Seq(S)), NEW s \in Seq(S), ss \in G PROVE Append(ss, s) \in G
  <2>1. PICK g : Flat(ss, g)
    BY <1>2
  <2> DEFINE n == Len(ss)
             t == Append(ss, s)
             h == [i \in 1 .. n + 1 |-> IF i = n + 1 THEN (IF n = 0 THEN s ELSE g[n] \o s) ELSE g[i]]
  <2>2. n \in Nat /\ Len(t) = n + 1 /\ t \in Seq(Seq(S)) /\ t[n + 1] = s
        /\ \A i \in 1 .. n : t[i] = ss[i]
    BY AppendProperties, LenProperties
  <2>3. Flat(t, h)
    <3>1. ASSUME NEW i \in 1 .. n + 1
          PROVE  h[i] = IF i = 1 THEN t[i] ELSE h[i - 1] \o t[i]
      <4>1. CASE i = n + 1
        BY <2>2, <4>1
      <4>2. CASE i # n + 1
        <5>1. i \in 1 .. n /\ h[i] = g[i] /\ (i # 1 => h[i - 1] = g[i - 1])
          BY <2>2, <4>2
        <5>2. g[i] = IF i = 1 THEN ss[i] ELSE g[i - 1] \o ss[i]
          BY <2>1, <5>1 DEF Flat
        <5> HIDE DEF h
        <5> QED
          BY <2>2, <5>1, <5>2
      <4> QED
        BY <4>1, <4>2
    <3> HIDE DEF t
    <3>2. h = [i \in 1 .. n + 1 |-> h[i]]
      OBVIOUS
    <3> QED
      BY <3>1, <3>2, <2>2 DEF Flat
  <2> QED
    BY <2>2, <2>3
<1> HIDE DEF G
<1>3. \A ss \in Seq(Seq(S)) : ss \in G
  BY <1>1, <1>2, SeqInduction
<1> QED
  BY <1>3 DEF G

\* ss is how tt begins.
Begins(ss, tt) ==
  /\ Len(ss) \in Nat /\ Len(tt) \in Nat /\ Len(ss) <= Len(tt)
  /\ \A i \in 1 .. Len(ss) : tt[i] = ss[i]

\* What is computed for a sequence is what is computed for its beginning.
LEMMA FlatExtends ==
  ASSUME NEW ss, NEW tt, Begins(ss, tt), NEW g, NEW h, Flat(ss, g), Flat(tt, h)
  PROVE  \A i \in 1 .. Len(ss) : g[i] = h[i]
<1> USE DEF Begins
<1> DEFINE T == {i \in 1 .. Len(ss) : g[i] # h[i]}
<1> SUFFICES ASSUME T # {} PROVE FALSE
  OBVIOUS
<1>0. T \in SUBSET Nat
  OBVIOUS
<1>1. PICK i \in T : \A k \in T : i <= k
  <2> HIDE DEF T
  <2> QED
    BY <1>0, Least
<1>2. i \in 1 .. Len(ss) /\ i \in 1 .. Len(tt) /\ g[i] # h[i]
  BY <1>1
<1>3. /\ g[i] = IF i = 1 THEN ss[i] ELSE g[i-1] \o ss[i]
      /\ h[i] = IF i = 1 THEN tt[i] ELSE h[i-1] \o tt[i]
  BY <1>2 DEF Flat
<1>4. i # 1 => i - 1 \in 1 .. Len(ss) /\ i - 1 \notin T
  BY <1>1, <1>2
<1> QED
  BY <1>2, <1>3, <1>4

LEMMA FlattenIs ==
  ASSUME NEW S, NEW ss \in Seq(Seq(S)), ss # << >>, NEW g, Flat(ss, g)
  PROVE  FlattenSeq(ss) = g[Len(ss)]
<1> DEFINE f == CHOOSE f : f = [i \in 1 .. Len(ss) |-> IF i = 1 THEN ss[i] ELSE f[i-1] \o ss[i]]
<1>1. Len(ss) \in Nat /\ Len(ss) > 0
  BY EmptySeq
<1>2. FlattenSeq(ss) = f[Len(ss)]
  BY <1>1 DEF FlattenSeq
<1>3. f = [i \in 1 .. Len(ss) |-> IF i = 1 THEN ss[i] ELSE f[i-1] \o ss[i]]
  BY DEF Flat
<1> HIDE DEF f
<1>4. Flat(ss, f)
  BY <1>3 DEF Flat
<1>5. f[Len(ss)] = g[Len(ss)]
  <2>1. Begins(ss, ss)
    BY <1>1 DEF Begins
  <2> QED
    BY <1>1, <1>4, <2>1, FlatExtends
<1> QED
  BY <1>2, <1>5

LEMMA FlattenEmpty == FlattenSeq(<< >>) = << >>
  BY DEF FlattenSeq

\* FlattenSeq, as it is built up.
LEMMA FlattenAppend ==
  ASSUME NEW S
  PROVE  \A ss \in Seq(Seq(S)), s \in Seq(S) :
           FlattenSeq(ss) \in Seq(S) /\ FlattenSeq(Append(ss, s)) = FlattenSeq(ss) \o s
<1>1. ASSUME NEW ss \in Seq(Seq(S)), NEW s \in Seq(S), FlattenSeq(ss) \in Seq(S)
      PROVE  FlattenSeq(Append(ss, s)) = FlattenSeq(ss) \o s
  <2> DEFINE t == Append(ss, s)
  <2>1. t \in Seq(Seq(S)) /\ t # << >> /\ Len(ss) \in Nat /\ Len(t) = Len(ss) + 1
        /\ t[Len(ss) + 1] = s /\ \A i \in 1 .. Len(ss) : t[i] = ss[i]
    BY AppendProperties, LenProperties
  <2> HIDE DEF t
  <2>2. PICK h : Flat(t, h)
    BY <2>1, FlatExists
  <2>3. PICK g : Flat(ss, g)
    BY FlatExists
  <2>4. FlattenSeq(t) = h[Len(ss) + 1]
    BY <2>1, <2>2, FlattenIs
  <2>5. Len(ss) + 1 \in 1 .. Len(t)
    BY <2>1
  <2>6. h[Len(ss) + 1] = IF Len(ss) = 0 THEN s ELSE h[Len(ss)] \o s
    <3>1. \A i \in 1 .. Len(t) : h[i] = IF i = 1 THEN t[i] ELSE h[i-1] \o t[i]
      BY <2>2, FlatAt
    <3> QED
      BY <2>1, <2>5, <3>1
  <2>7. CASE Len(ss) = 0
    <3>1. FlattenSeq(ss) = << >>
      BY <2>7, EmptySeq, FlattenEmpty
    <3> QED
      BY <2>4, <2>6, <2>7, <3>1, ConcatEmptySeq DEF t
  <2>8. CASE Len(ss) # 0
    <3>1. FlattenSeq(ss) = g[Len(ss)]
      BY <2>3, <2>8, FlattenIs, EmptySeq
    <3>2. Len(ss) \in 1 .. Len(ss) /\ Len(ss) <= Len(t)
      BY <2>1, <2>8
    <3>3. g[Len(ss)] = h[Len(ss)]
      <4>1. Begins(ss, t)
        BY <2>1, <3>2 DEF Begins
      <4>2. \A i \in 1 .. Len(ss) : g[i] = h[i]
        BY <2>2, <2>3, <4>1, FlatExtends
      <4> QED
        BY <3>2, <4>2
    <3> QED
      BY <2>4, <2>6, <2>8, <3>1, <3>3 DEF t
  <2> QED
    BY <2>7, <2>8
<1> DEFINE G == {ss \in Seq(Seq(S)) : FlattenSeq(ss) \in Seq(S)}
<1>2. << >> \in G
  BY FlattenEmpty, EmptySeq
<1>3. ASSUME NEW ss \in Seq(Seq(S)), NEW s \in Seq(S), ss \in G PROVE Append(ss, s) \in G
  BY <1>1, <1>3, ConcatProperties, AppendProperties
<1> HIDE DEF G
<1>4. \A ss \in Seq(Seq(S)) : ss \in G
  BY <1>2, <1>3, SeqInduction
<1> QED
  BY <1>1, <1>4 DEF G

\* No element twice.
Distinct(s) == \A i, j \in DOMAIN s : s[i] = s[j] => i = j

\* Kept, as it is built up.
KeptStep(S, D, s, e) ==
  /\ Kept(s, D) \in Seq(S)
  /\ e \in D => Kept(Append(s, e), D) = Kept(s, D)
  /\ e \notin D => Kept(Append(s, e), D) = Append(Kept(s, D), e)

LEMMA KeptAppend ==
  ASSUME NEW S, NEW D, NEW s \in Seq(S), NEW e \in S
  PROVE  KeptStep(S, D, s, e)
<1> DEFINE P(t) == [i \in DOMAIN t |-> IF t[i] \in D THEN << >> ELSE <<t[i]>>]
<1>1. ASSUME NEW t \in Seq(S)
      PROVE  P(t) \in Seq(Seq(S)) /\ Len(P(t)) = Len(t)
             /\ \A i \in 1 .. Len(t) : P(t)[i] = IF t[i] \in D THEN << >> ELSE <<t[i]>>
  <2>1. DOMAIN t = 1 .. Len(t) /\ Len(t) \in Nat /\ \A i \in 1 .. Len(t) : t[i] \in S
    BY LenProperties, ElementOfSeq
  <2>2. \A i \in 1 .. Len(t) : (IF t[i] \in D THEN << >> ELSE <<t[i]>>) \in Seq(S)
    BY <2>1
  <2>3. P(t) \in [1 .. Len(t) -> Seq(S)]
    BY <2>1, <2>2
  <2> QED
    BY <2>1, <2>3
<1>3. \A t \in Seq(S) : Kept(t, D) = FlattenSeq(P(t))
  BY DEF Kept
<1>4. Kept(Append(s, e), D) = IF e \in D THEN Kept(s, D) ELSE Append(Kept(s, D), e)
  <2> DEFINE t == Append(s, e)
             l == IF e \in D THEN << >> ELSE <<e>>
  <2>1. /\ t \in Seq(S) /\ Len(t) = Len(s) + 1 /\ Len(s) \in Nat /\ t[Len(s) + 1] = e
        /\ \A i \in 1 .. Len(s) : t[i] = s[i]
    BY AppendProperties, LenProperties
  <2>2. l \in Seq(S)
    BY EmptySeq
  <2> HIDE DEF t, l, P
  <2>3. P(t) \in Seq(Seq(S)) /\ Len(P(t)) = Len(s) + 1
        /\ \A i \in 1 .. Len(s) + 1 : P(t)[i] = IF t[i] \in D THEN << >> ELSE <<t[i]>>
    BY <1>1, <2>1
  <2>4. Append(P(s), l) \in Seq(Seq(S)) /\ Len(Append(P(s), l)) = Len(s) + 1
        /\ Append(P(s), l)[Len(s) + 1] = l
        /\ \A i \in 1 .. Len(s) : Append(P(s), l)[i] = IF s[i] \in D THEN << >> ELSE <<s[i]>>
    BY <1>1, <2>1, <2>2, AppendProperties
  <2>5. \A i \in 1 .. Len(s) + 1 : P(t)[i] = Append(P(s), l)[i]
    <3> SUFFICES ASSUME NEW i \in 1 .. Len(s) + 1 PROVE P(t)[i] = Append(P(s), l)[i]
      OBVIOUS
    <3>1. P(t)[i] = IF t[i] \in D THEN << >> ELSE <<t[i]>>
      BY <2>3
    <3>2. CASE i = Len(s) + 1
      BY <2>1, <2>4, <3>1, <3>2 DEF l
    <3>3. CASE i # Len(s) + 1
      <4>1. i \in 1 .. Len(s)
        BY <2>1, <3>3
      <4>2. Append(P(s), l)[i] = IF s[i] \in D THEN << >> ELSE <<s[i]>>
        BY <2>4, <4>1
      <4> QED
        BY <2>1, <3>1, <4>1, <4>2
    <3> QED
      BY <3>2, <3>3
  <2>6. P(t) = Append(P(s), l)
    BY <2>3, <2>4, <2>5, SeqEqual
  <2>7. FlattenSeq(P(s)) \in Seq(S) /\ FlattenSeq(P(t)) = FlattenSeq(P(s)) \o l
    BY <1>1, <2>2, <2>6, FlattenAppend
  <2>8. CASE e \in D
    BY <1>3, <2>1, <2>7, <2>8, ConcatEmptySeq DEF l, t
  <2>9. CASE e \notin D
    BY <1>3, <2>1, <2>7, <2>9, AppendIsConcat DEF l, t
  <2> QED
    BY <2>8, <2>9
<1>5. Kept(s, D) \in Seq(S)
  BY <1>1, <1>3, FlattenAppend
<1> QED
  BY <1>4, <1>5 DEF KeptStep

LEMMA KeptEmpty ==
  ASSUME NEW D
  PROVE  Kept(<< >>, D) = << >>
<1>1. [i \in DOMAIN << >> |-> IF << >>[i] \in D THEN << >> ELSE <<<< >>[i]>>] = << >>
  OBVIOUS
<1> QED
  BY <1>1, FlattenEmpty DEF Kept

LEMMA KeptType ==
  ASSUME NEW S, NEW D, NEW s \in Seq(S)
  PROVE  Kept(s, D) \in Seq(S)
<1>1. CASE s = << >>
  BY <1>1, KeptEmpty, EmptySeq
<1>2. CASE s # << >>
  <2>1. PICK t \in Seq(S), e \in S : s = Append(t, e)
    BY <1>2, SequenceEmptyOrAppend
  <2>2. KeptStep(S, D, t, e) /\ KeptStep(S, D, s, e)
    BY <2>1, KeptAppend
  <2> QED
    BY <2>2 DEF KeptStep
<1> QED
  BY <1>1, <1>2

\* Nothing is kept that was not there, and nothing twice.
LEMMA KeptDistinct ==
  ASSUME NEW S, NEW D
  PROVE  \A s \in Seq(S) : /\ \A i \in DOMAIN Kept(s, D) : \E j \in DOMAIN s : s[j] = Kept(s, D)[i]
                           /\ Distinct(s) => Distinct(Kept(s, D))
<1> DEFINE Among(s) == \A i \in DOMAIN Kept(s, D) : \E j \in DOMAIN s : s[j] = Kept(s, D)[i]
           G == {s \in Seq(S) : Among(s) /\ (Distinct(s) => Distinct(Kept(s, D)))}
<1>1. << >> \in G
  BY KeptEmpty, EmptySeq DEF Distinct
<1>2. ASSUME NEW s \in Seq(S), NEW e \in S, s \in G PROVE Append(s, e) \in G
  <2> DEFINE t == Append(s, e)
             u == Kept(s, D)
  <2>1. /\ t \in Seq(S) /\ Len(s) \in Nat /\ DOMAIN s = 1 .. Len(s)
        /\ DOMAIN t = 1 .. Len(s) + 1 /\ t[Len(s) + 1] = e
        /\ \A i \in 1 .. Len(s) : t[i] = s[i]
    BY AppendProperties, LenProperties
  <2>2. u \in Seq(S) /\ Len(u) \in Nat /\ DOMAIN u = 1 .. Len(u)
    BY KeptType, LenProperties
  <2>3. Kept(t, D) = IF e \in D THEN u ELSE Append(u, e)
    <3>1. KeptStep(S, D, s, e)
      BY KeptAppend
    <3> QED
      BY <3>1 DEF KeptStep
  <2>4. Among(s) /\ (Distinct(s) => Distinct(u))
    BY <1>2
  <2>5. /\ DOMAIN Append(u, e) = 1 .. Len(u) + 1 /\ Append(u, e)[Len(u) + 1] = e
        /\ \A i \in 1 .. Len(u) : Append(u, e)[i] = u[i]
    BY <2>2, AppendProperties, LenProperties
  <2> HIDE DEF t, u
  <2>6. \A i \in DOMAIN u : \E j \in DOMAIN s : s[j] = u[i]
    BY <2>4 DEF u
  <2>7. \A i \in DOMAIN Kept(t, D) : \E j \in DOMAIN t : t[j] = Kept(t, D)[i]
    <3> SUFFICES ASSUME NEW i \in DOMAIN Kept(t, D) PROVE \E j \in DOMAIN t : t[j] = Kept(t, D)[i]
      OBVIOUS
    <3>1. CASE i \in DOMAIN u
      <4>1. Kept(t, D)[i] = u[i]
        BY <2>2, <2>3, <2>5, <3>1
      <4>2. PICK j \in DOMAIN s : s[j] = u[i]
        BY <2>6, <3>1
      <4>3. j \in DOMAIN t /\ t[j] = u[i]
        BY <2>1, <4>2
      <4> QED
        BY <4>1, <4>3
    <3>2. CASE i \notin DOMAIN u
      <4>1. e \notin D /\ i = Len(u) + 1
        BY <2>2, <2>3, <2>5, <3>2
      <4>2. Kept(t, D)[i] = e /\ Len(s) + 1 \in DOMAIN t
        BY <2>1, <2>3, <2>5, <4>1
      <4> QED
        BY <2>1, <4>2
    <3> QED
      BY <3>1, <3>2
  <2>8. ASSUME Distinct(t) PROVE Distinct(Kept(t, D))
    <3>1. Distinct(s)
      BY <2>1, <2>8 DEF Distinct
    <3>2. Distinct(u)
      BY <2>4, <3>1
    <3>3. \A i \in DOMAIN u : u[i] # e
      <4> SUFFICES ASSUME NEW i \in DOMAIN u, u[i] = e PROVE FALSE
        OBVIOUS
      <4>1. PICK j \in DOMAIN s : s[j] = u[i]
        BY <2>6
      <4>2. j \in DOMAIN t /\ Len(s) + 1 \in DOMAIN t /\ j # Len(s) + 1 /\ t[j] = t[Len(s) + 1]
        BY <2>1, <4>1
      <4> QED
        BY <2>8, <4>2 DEF Distinct
    <3>4. Distinct(Append(u, e))
      BY <2>2, <2>5, <3>2, <3>3 DEF Distinct
    <3> QED
      BY <2>3, <3>2, <3>4
  <2> QED
    BY <2>1, <2>7, <2>8 DEF t
<1> HIDE DEF G
<1>3. \A s \in Seq(S) : s \in G
  BY <1>1, <1>2, SeqInduction
<1> QED
  BY <1>3 DEF G

\* What is left out later might as well have been left out before.
Twice(s, D, h) == Kept(s, D \cup {h}) = Kept(Kept(s, D), {h})

LEMMA KeptTwice ==
  ASSUME NEW S, NEW D, NEW h, NEW v \in Seq(S)
  PROVE  Twice(v, D, h)
<1> DEFINE G == {s \in Seq(S) : Twice(s, D, h)}
<1>1. << >> \in G
  BY KeptEmpty, EmptySeq DEF Twice
<1>2. ASSUME NEW s \in Seq(S), NEW e \in S, s \in G PROVE Append(s, e) \in G
  <2> DEFINE E == D \cup {h}
             k == Kept(s, D)
  <2>1. Append(s, e) \in Seq(S) /\ k \in Seq(S)
    BY KeptType, AppendProperties
  <2>2. Kept(s, E) = Kept(k, {h})
    BY <1>2 DEF Twice
  <2>3. /\ e \in E <=> e \in D \/ e = h
        /\ e \in {h} <=> e = h
    OBVIOUS
  <2> HIDE DEF E, k
  <2>4. KeptStep(S, E, s, e) /\ KeptStep(S, D, s, e) /\ KeptStep(S, {h}, k, e)
    BY <2>1, KeptAppend
  <2>5. Kept(Append(s, e), E) = Kept(Kept(Append(s, e), D), {h})
    BY <2>2, <2>3, <2>4 DEF KeptStep, k
  <2> QED
    BY <2>1, <2>5 DEF Twice, E
<1> HIDE DEF G
<1>3. \A s \in Seq(S) : s \in G
  BY <1>1, <1>2, SeqInduction
<1> QED
  BY <1>3 DEF G

\* Nothing left out.
LEMMA KeptAll ==
  ASSUME NEW S, NEW D
  PROVE  \A s \in Seq(S) : (\A i \in DOMAIN s : s[i] \notin D) => Kept(s, D) = s
<1> DEFINE G == {s \in Seq(S) : (\A i \in DOMAIN s : s[i] \notin D) => Kept(s, D) = s}
<1>1. << >> \in G
  BY KeptEmpty, EmptySeq
<1>2. ASSUME NEW s \in Seq(S), NEW e \in S, s \in G PROVE Append(s, e) \in G
  <2> DEFINE t == Append(s, e)
  <2>1. /\ t \in Seq(S) /\ Len(s) \in Nat /\ DOMAIN s = 1 .. Len(s)
        /\ DOMAIN t = 1 .. Len(s) + 1 /\ t[Len(s) + 1] = e
        /\ \A i \in 1 .. Len(s) : t[i] = s[i]
    BY AppendProperties, LenProperties
  <2> HIDE DEF t
  <2>2. SUFFICES ASSUME \A i \in DOMAIN t : t[i] \notin D PROVE Kept(t, D) = t
    BY <2>1 DEF t
  <2>3. e \notin D
    <3>1. Len(s) + 1 \in DOMAIN t
      BY <2>1
    <3> QED
      BY <2>1, <2>2, <3>1
  <2>4. \A i \in DOMAIN s : s[i] \notin D
    BY <2>1, <2>2
  <2>5. Kept(s, D) = s
    BY <1>2, <2>4
  <2>6. KeptStep(S, D, s, e)
    BY KeptAppend
  <2> QED
    BY <2>3, <2>5, <2>6 DEF KeptStep, t
<1> HIDE DEF G
<1>3. \A s \in Seq(S) : s \in G
  BY <1>1, <1>2, SeqInduction
<1> QED
  BY <1>3 DEF G

LEMMA KeptConcat ==
  ASSUME NEW S, NEW D, NEW a \in Seq(S)
  PROVE  \A b \in Seq(S) : Kept(a \o b, D) = Kept(a, D) \o Kept(b, D)
<1> DEFINE G == {b \in Seq(S) : Kept(a \o b, D) = Kept(a, D) \o Kept(b, D)}
<1>1. << >> \in G
  BY KeptType, KeptEmpty, EmptySeq, ConcatEmptySeq
<1>2. ASSUME NEW b \in Seq(S), NEW e \in S, b \in G PROVE Append(b, e) \in G
  <2>1. a \o b \in Seq(S) /\ Kept(a, D) \in Seq(S) /\ Kept(b, D) \in Seq(S) /\ <<e>> \in Seq(S)
    BY KeptType, ConcatProperties
  <2>2. a \o Append(b, e) = Append(a \o b, e)
    BY <2>1, AppendIsConcat, ConcatAssociative
  <2>3. Kept(a \o b, D) = Kept(a, D) \o Kept(b, D)
    BY <1>2
  <2>4. KeptStep(S, D, b, e) /\ KeptStep(S, D, a \o b, e)
    BY <2>1, KeptAppend
  <2>5. CASE e \in D
    BY <2>2, <2>3, <2>4, <2>5, AppendProperties DEF KeptStep
  <2>6. CASE e \notin D
    <3>1. Kept(a, D) \o Append(Kept(b, D), e) = Append(Kept(a, D) \o Kept(b, D), e)
      BY <2>1, AppendIsConcat, ConcatAssociative, ConcatProperties
    <3> QED
      BY <2>2, <2>3, <2>4, <2>6, <3>1, AppendProperties DEF KeptStep
  <2> QED
    BY <2>5, <2>6
<1> HIDE DEF G
<1>3. \A b \in Seq(S) : b \in G
  BY <1>1, <1>2, SeqInduction
<1> QED
  BY <1>3 DEF G

\* A concatenation, place by place.
LEMMA ConcatAt ==
  ASSUME NEW S, NEW a \in Seq(S), NEW b \in Seq(S)
  PROVE  /\ a \o b \in Seq(S) /\ Len(a) \in Nat /\ Len(b) \in Nat
         /\ Len(a \o b) = Len(a) + Len(b) /\ DOMAIN (a \o b) = 1 .. Len(a) + Len(b)
         /\ \A i \in 1 .. Len(a) : (a \o b)[i] = a[i]
         /\ \A i \in 1 .. Len(b) : (a \o b)[Len(a) + i] = b[i]
<1> DEFINE u == a \o b
<1>1. u \in Seq(S) /\ Len(u) = Len(a) + Len(b)
      /\ \A i \in 1 .. Len(a) + Len(b) : u[i] = IF i <= Len(a) THEN a[i] ELSE b[i - Len(a)]
  BY ConcatProperties
<1>2. Len(a) \in Nat /\ Len(b) \in Nat /\ DOMAIN u = 1 .. Len(u)
  BY <1>1, LenProperties
<1> HIDE DEF u
<1>3. ASSUME NEW i \in 1 .. Len(b) PROVE u[Len(a) + i] = b[i]
  <2>1. Len(a) + i \in 1 .. Len(a) + Len(b) /\ ~(Len(a) + i <= Len(a)) /\ Len(a) + i - Len(a) = i
    BY <1>2
  <2> QED
    BY <1>1, <2>1
<1>4. ASSUME NEW i \in 1 .. Len(a) PROVE u[i] = a[i]
  BY <1>1, <1>2
<1> QED
  BY <1>1, <1>2, <1>3, <1>4 DEF u

\* A message in the middle, left out.
Without(s, D, a, h, b) == Kept(s, D) = (a \o <<h>>) \o b => Kept(s, D \cup {h}) = a \o b

LEMMA KeptWithout ==
  ASSUME NEW S, NEW D, NEW s \in Seq(S), Distinct(s), NEW a \in Seq(S), NEW h \in S,
         NEW b \in Seq(S)
  PROVE  Without(s, D, a, h, b)
<1> SUFFICES ASSUME Kept(s, D) = (a \o <<h>>) \o b PROVE Kept(s, D \cup {h}) = a \o b
  BY DEF Without
<1> DEFINE m == Append(a, h)
           u == m \o b
<1>1. /\ m \in Seq(S) /\ Len(a) \in Nat /\ Len(b) \in Nat
      /\ DOMAIN a = 1 .. Len(a) /\ DOMAIN b = 1 .. Len(b)
  BY AppendProperties, LenProperties
<1>2. /\ Len(m) = Len(a) + 1 /\ m[Len(a) + 1] = h /\ \A i \in 1 .. Len(a) : m[i] = a[i]
  BY AppendProperties
<1>0. Kept(s, D) = u
  BY AppendIsConcat
<1> HIDE DEF m
<1>3. /\ DOMAIN u = 1 .. Len(a) + 1 + Len(b)
      /\ \A i \in 1 .. Len(a) : u[i] = a[i]
      /\ u[Len(a) + 1] = h
      /\ \A i \in 1 .. Len(b) : u[Len(a) + 1 + i] = b[i]
  <2>1. /\ DOMAIN u = 1 .. Len(m) + Len(b)
        /\ \A i \in 1 .. Len(m) : u[i] = m[i]
        /\ \A i \in 1 .. Len(b) : u[Len(m) + i] = b[i]
    BY <1>1, ConcatAt
  <2> HIDE DEF u
  <2> QED
    BY <1>1, <1>2, <2>1
<1>4. Distinct(u)
  BY <1>0, KeptDistinct
<1> HIDE DEF u
<1>5. Len(a) + 1 \in DOMAIN u
  BY <1>1, <1>3
<1>6. \A i \in DOMAIN a : a[i] # h
  <2> SUFFICES ASSUME NEW i \in DOMAIN a, a[i] = h PROVE FALSE
    OBVIOUS
  <2>1. i \in DOMAIN u /\ i # Len(a) + 1 /\ u[i] = u[Len(a) + 1]
    BY <1>1, <1>3
  <2> QED
    BY <1>4, <1>5, <2>1 DEF Distinct
<1>7. \A i \in DOMAIN b : b[i] # h
  <2> SUFFICES ASSUME NEW i \in DOMAIN b, b[i] = h PROVE FALSE
    OBVIOUS
  <2>1. i \in 1 .. Len(b)
    BY <1>1
  <2>2. Len(a) + 1 + i \in DOMAIN u /\ Len(a) + 1 + i # Len(a) + 1
        /\ u[Len(a) + 1 + i] = u[Len(a) + 1]
    <3>1. u[Len(a) + 1 + i] = b[i]
      BY <1>3, <2>1, Zenon
    <3>2. Len(a) + 1 + i \in 1 .. Len(a) + 1 + Len(b) /\ Len(a) + 1 + i # Len(a) + 1
      BY <1>1, <2>1
    <3> QED
      BY <1>3, <3>1, <3>2
  <2> QED
    BY <1>4, <1>5, <2>2 DEF Distinct
<1>8. Kept(a, {h}) = a /\ Kept(b, {h}) = b
  <2>1. (\A i \in DOMAIN a : a[i] \notin {h}) /\ (\A i \in DOMAIN b : b[i] \notin {h})
    BY <1>6, <1>7
  <2> QED
    BY <2>1, KeptAll
<1>9. Kept(m, {h}) = a
  <2>1. KeptStep(S, {h}, a, h)
    BY KeptAppend
  <2> QED
    BY <1>8, <2>1 DEF KeptStep, m
<1>10. Kept(u, {h}) = a \o b
  <2>1. \A c \in Seq(S) : Kept(m \o c, {h}) = Kept(m, {h}) \o Kept(c, {h})
    BY <1>1, KeptConcat
  <2> QED
    BY <1>8, <1>9, <2>1 DEF u
<1>11. Kept(s, D \cup {h}) = Kept(u, {h})
  <2>1. Twice(s, D, h)
    BY KeptTwice
  <2> QED
    BY <1>0, <2>1 DEF Twice
<1> QED
  BY <1>10, <1>11

-----------------------------------------------------------------------------
(***************************************************************************)
(* Nothing is lost and nothing moved between the queue and the files.      *)
(* Intake holds because no message is in a queue twice (Numbered): only    *)
(* then is a packet that is discarded the one in hand and no other.        *)
(***************************************************************************)

\* The logger of m has numbered what it sends now, if anything, after m.
Before(m) == m[2] <= sent[m[1]] /\ (logger[m[1]] = "sending" => m[2] < sent[m[1]])
Ordered(s) == Distinct(s) /\ \A i \in DOMAIN s : Before(s[i])

Numbered ==
  /\ \A k \in Kinds, n \in 0 .. MaxStarts : Ordered(queue[<<k, n>>])
  /\ \A k \in Kinds : /\ Ordered(accepted[k])
                      /\ \A m \in dropped[k] : Before(m)
                      /\ \A i \in DOMAIN hand[k] : Before(hand[k][i])

IntakeOf(k) ==
  /\ pc[k] \in Reading =>
       Kept(accepted[k], dropped[k]) = FiledBy(k) \o hand[k] \o queue[<<k, reads[k]>>]
  /\ pc[k] \in {"record", "create", "mark", "listen"} => accepted[k] = queue[<<k, reads[k]>>]
  /\ pc[k] \in {"check", "write"} => Len(hand[k]) = 1
  /\ pc[k] \notin {"check", "write"} => hand[k] = << >>
  /\ pc[k] \notin Reading => dropped[k] = {}

Intake == \A k \in Kinds : IntakeOf(k)

LEMMA InitIntake == Init => Numbered /\ Intake
<1> SUFFICES ASSUME Init PROVE Numbered /\ Intake
  OBVIOUS
<1>1. Ordered(<< >>)
  BY EmptySeq DEF Ordered, Distinct
<1> QED
  BY <1>1, Places DEF Init, Numbered, Intake, IntakeOf

\* A file truncated at the end of what was filed.
LEMMA TruncatedFiles ==
  ASSUME TypeOK, NEW k \in Kinds, NEW i \in Nat, i <= Len(files[k])
  PROVE  FlattenSeq(SubSeq(Truncate(k, i)[k], 1, i + 1)) = FlattenSeq(SubSeq(files[k], 1, i))
<1> DEFINE s == files[k]
           head == SubSeq(s, 1, i)
           tail == SubSeq(s, i + 2, Len(s))
           S == Seq(Messages)
           t == Append(head, << >>)
<1>1. s \in Seq(S) /\ Len(s) \in Nat /\ << >> \in S
  BY EmptySeq DEF TypeOK
<1>2. \A j \in 1 .. Len(s) : s[j] \in S
  BY <1>1, ElementOfSeq
<1>3. head \in Seq(S) /\ Len(head) = i /\ tail \in Seq(S)
  BY <1>1, <1>2, SubSeqProperties
<1>4. Truncate(k, i)[k] = (head \o <<<<>>>>) \o tail
  BY DEF Truncate, TypeOK
<1> HIDE DEF s, head, tail, S
<1>5. t \in Seq(S) /\ Len(t) = i + 1 /\ head \o <<<<>>>> = t
  BY <1>1, <1>3, AppendProperties, AppendIsConcat
<1> HIDE DEF t
<1>6. 1 \in 1 .. Len(t) /\ i + 1 \in 1 .. Len(t)
  BY <1>5
<1>7. SubSeq(t \o tail, 1, i + 1) = SubSeq(t, 1, i + 1)
  BY <1>3, <1>5, <1>6, SubSeqOfConcat1
<1>8. SubSeq(t, 1, i + 1) = t
  BY <1>5, SubSeqFull
<1>9. FlattenSeq(head) \in Seq(Messages) /\ FlattenSeq(t) = FlattenSeq(head) \o << >>
  BY <1>1, <1>3, FlattenAppend DEF S, t
<1> QED
  BY <1>4, <1>5, <1>7, <1>8, <1>9, ConcatEmptySeq DEF head, s

\* The last file, with more in it.
LEMMA WrittenFiles ==
  ASSUME TypeOK, NEW k \in Kinds, NEW i \in Nat, i < Len(files[k]), NEW m \in Seq(Messages)
  PROVE  FlattenSeq(SubSeq([files[k] EXCEPT ![i + 1] = @ \o m], 1, i + 1))
           = FlattenSeq(SubSeq(files[k], 1, i + 1)) \o m
<1> DEFINE s == files[k]
           S == Seq(Messages)
           last == s[i + 1]
           f == [s EXCEPT ![i + 1] = last \o m]
           head == SubSeq(s, 1, i)
<1>1. s \in Seq(S) /\ Len(s) \in Nat /\ i + 1 \in 1 .. Len(s)
  BY LenProperties DEF TypeOK
<1>2. \A j \in 1 .. Len(s) : s[j] \in S
  BY <1>1, ElementOfSeq
<1>3. last \in S /\ last \o m \in S
  BY <1>1, <1>2, ConcatProperties
<1>4. /\ f \in Seq(S) /\ Len(f) = Len(s) /\ f[i + 1] = last \o m
      /\ \A j \in 1 .. Len(s) : j # i + 1 => f[j] = s[j]
  BY <1>1, <1>3, ExceptSeq
<1> HIDE DEF f, S, s, last
<1>5. head \in Seq(S) /\ Len(head) = i /\ \A j \in 1 .. i : head[j] = s[j]
  BY <1>1, <1>2, SubSeqProperties
<1>6. \A j \in 1 .. i + 1 : s[j] \in S /\ f[j] \in S
  BY <1>1, <1>2, <1>3, <1>4
<1> HIDE DEF head
<1>7. ASSUME NEW g \in Seq(S), Len(g) = Len(s), NEW e \in S, g[i + 1] = e,
             \A j \in 1 .. Len(s) : j # i + 1 => g[j] = s[j]
      PROVE  SubSeq(g, 1, i + 1) = Append(head, e)
  <2> DEFINE u == SubSeq(g, 1, i + 1)
             v == Append(head, e)
  <2>1. \A j \in 1 .. i + 1 : g[j] \in S
    BY <1>1, <1>2, <1>7
  <2>2. u \in Seq(S) /\ Len(u) = i + 1 /\ \A j \in 1 .. i + 1 : u[j] = g[j]
    BY <2>1, SubSeqProperties
  <2>3. v \in Seq(S) /\ Len(v) = i + 1 /\ v[i + 1] = e /\ \A j \in 1 .. i : v[j] = head[j]
    BY <1>5, <1>7, AppendProperties
  <2> HIDE DEF u, v
  <2>4. ASSUME NEW j \in 1 .. i + 1 PROVE u[j] = v[j]
    <3>1. u[j] = g[j]
      BY <2>2
    <3>2. CASE j = i + 1
      BY <1>7, <2>3, <3>1, <3>2
    <3>3. CASE j # i + 1
      <4>1. j \in 1 .. i /\ j \in 1 .. Len(s)
        BY <1>1, <3>3
      <4>2. g[j] = s[j]
        BY <1>7, <3>3, <4>1
      <4> QED
        BY <1>5, <2>3, <3>1, <4>1, <4>2
    <3> QED
      BY <3>2, <3>3
  <2>5. u = v
    BY <2>2, <2>3, <2>4, SeqEqual
  <2> QED
    BY <2>5 DEF u, v
<1>8. SubSeq(s, 1, i + 1) = Append(head, last)
  BY <1>1, <1>3, <1>7 DEF last
<1>9. SubSeq(f, 1, i + 1) = Append(head, last \o m)
  BY <1>3, <1>4, <1>7
<1>10. /\ FlattenSeq(head) \in Seq(Messages)
       /\ FlattenSeq(Append(head, last)) = FlattenSeq(head) \o last
       /\ FlattenSeq(Append(head, last \o m)) = FlattenSeq(head) \o (last \o m)
  BY <1>3, <1>5, FlattenAppend DEF S
<1>11. FlattenSeq(head) \o (last \o m) = (FlattenSeq(head) \o last) \o m
  BY <1>3, <1>10, ConcatAssociative DEF S
<1> QED
  BY <1>8, <1>9, <1>10, <1>11 DEF f, s, last

\* As loggers go on, what came before still did.
LEMMA BeforeStep ==
  ASSUME IInv, Next, NEW m \in Messages, Before(m)
  PROVE  Before(m)'
<1>1. m[1] \in Loggers /\ m[2] \in Nat
  BY Bounds DEF Messages
<1>2. sent \in [Loggers -> Nat] /\ logger \in [Loggers -> {"idle", "open", "sending"}]
  BY DEF IInv, TypeOK
<1>3. CASE \E l \in Loggers : OpenLogger(l) \/ LogMessage(l) \/ LogPacket(l) \/ QueueMsg(l)
  <2>1. PICK l \in Loggers : OpenLogger(l) \/ LogMessage(l) \/ LogPacket(l) \/ QueueMsg(l)
    BY <1>3
  <2>2. CASE OpenLogger(l)
    BY <1>1, <1>2, <2>2 DEF OpenLogger, Before
  <2>3. CASE LogMessage(l) \/ LogPacket(l)
    BY <1>1, <1>2, <2>3 DEF LogMessage, LogPacket, Sends, Before
  <2>4. CASE QueueMsg(l)
    BY <1>1, <1>2, <2>4 DEF QueueMsg, Before
  <2> QED
    BY <2>1, <2>2, <2>3, <2>4
<1>4. CASE ~\E l \in Loggers : OpenLogger(l) \/ LogMessage(l) \/ LogPacket(l) \/ QueueMsg(l)
  <2>1. UNCHANGED <<sent, logger>>
    BY <1>4 DEF Next, Thread, TelThread, Start, OpenQueue, RecordQueue, CreateBlock, MarkBlock,
       Listen, Receive, Check, Write, Rotate, Signal, Exit, Crash, ProcessEnds, Lock, Ctrl,
       SetLogging, KillCtrl, loggers
  <2> QED
    BY <2>1 DEF Before
<1> QED
  BY <1>3, <1>4

LEMMA OrderedStep ==
  ASSUME IInv, Next, NEW s \in Seq(Messages), Ordered(s)
  PROVE  Ordered(s)'
<1>1. \A i \in DOMAIN s : s[i] \in Messages
  BY LenProperties, ElementOfSeq
<1> QED
  BY <1>1, BeforeStep DEF Ordered, Distinct

LEMMA OrderedTail ==
  ASSUME NEW s \in Seq(Messages), s # << >>, Ordered(s)
  PROVE  Ordered(Tail(s)) /\ Before(Head(s))
<1> DEFINE t == Tail(s)
<1>1. t \in Seq(Messages) /\ Len(t) = Len(s) - 1 /\ \A i \in 1 .. Len(t) : t[i] = s[i + 1]
  BY HeadTailProperties
<1>2. DOMAIN t = 1 .. Len(t) /\ DOMAIN s = 1 .. Len(s) /\ Len(s) \in Nat \ {0}
  BY <1>1, LenProperties, EmptySeq
<1> HIDE DEF t
<1>3. \A i \in DOMAIN t : t[i] = s[i + 1] /\ i + 1 \in DOMAIN s /\ i \in Nat
  BY <1>1, <1>2
<1>4. Distinct(t)
  <2> SUFFICES ASSUME NEW i \in DOMAIN t, NEW j \in DOMAIN t, t[i] = t[j] PROVE i = j
    BY DEF Distinct
  <2>1. i + 1 = j + 1
    BY <1>3 DEF Ordered, Distinct
  <2> QED
    BY <1>3, <2>1
<1>5. Head(s) = s[1] /\ 1 \in DOMAIN s
  BY <1>2
<1> QED
  BY <1>3, <1>4, <1>5 DEF Ordered, t

\* A message that comes after all of them.
LEMMA OrderedAppend ==
  ASSUME NEW s \in Seq(Messages), Ordered(s), NEW m \in Messages, ~Before(m)
  PROVE  Distinct(Append(s, m)) /\ \A i \in DOMAIN s : s[i] # m
<1> DEFINE t == Append(s, m)
<1>1. /\ Len(s) \in Nat /\ DOMAIN s = 1 .. Len(s) /\ DOMAIN t = 1 .. Len(s) + 1
      /\ t[Len(s) + 1] = m /\ \A i \in 1 .. Len(s) : t[i] = s[i]
  BY AppendProperties, LenProperties
<1> HIDE DEF t
<1>2. \A i \in DOMAIN s : s[i] # m
  BY DEF Ordered
<1>3. Distinct(t)
  BY <1>1, <1>2 DEF Ordered, Distinct
<1> QED
  BY <1>2, <1>3 DEF t

LEMMA AppendOrdered ==
  ASSUME NEW s \in Seq(Messages), Ordered(s), Ordered(s)', NEW m \in Messages, ~Before(m),
         Before(m)'
  PROVE  Ordered(Append(s, m))'
<1> DEFINE t == Append(s, m)
<1>1. Distinct(t)
  BY OrderedAppend
<1>2. /\ DOMAIN s = 1 .. Len(s) /\ Len(s) \in Nat /\ DOMAIN t = 1 .. Len(s) + 1
      /\ t[Len(s) + 1] = m /\ \A i \in 1 .. Len(s) : t[i] = s[i]
  BY AppendProperties, LenProperties
<1>3. \A i \in DOMAIN s : Before(s[i])'
  BY DEF Ordered
<1>4. \A i \in DOMAIN t : t[i] = m \/ \E j \in DOMAIN s : t[i] = s[j]
  <2> HIDE DEF t
  <2> SUFFICES ASSUME NEW i \in DOMAIN t PROVE t[i] = m \/ \E j \in DOMAIN s : t[i] = s[j]
    OBVIOUS
  <2>1. i = Len(s) + 1 \/ i \in DOMAIN s
    BY <1>2
  <2> QED
    BY <1>2, <2>1
<1> HIDE DEF t
<1>5. \A i \in DOMAIN t : Before(t[i])'
  BY <1>3, <1>4 DEF Before
<1> QED
  BY <1>1, <1>5 DEF Ordered, t, Distinct

LEMMA QueueNumbered ==
  ASSUME IInv, Numbered, NEW l \in Loggers, QueueMsg(l), Next
  PROVE  Numbered'
<1>1. PICK k \in Kinds, m \in Messages : k = KindOf(l) /\ m = <<l, sent[l]>>
  BY InFlight, Bounds DEF IInv, QueueMsg
<1>2. /\ logger[l] = "sending" /\ logger' = [logger EXCEPT ![l] = IF k = "msg" THEN "idle" ELSE "open"]
      /\ queue' = [queue EXCEPT ![<<k, fd[l]>>] = Append(@, m)]
      /\ accepted' = accepted \/ accepted' = [accepted EXCEPT ![k] = Append(@, m)]
      /\ UNCHANGED <<sent, dropped, hand>>
  BY <1>1 DEF QueueMsg, threads
<1>3. /\ queue \in [Kinds \X (0 .. MaxStarts) -> Seq(Messages)] /\ accepted \in [Kinds -> Seq(Messages)]
      /\ dropped \in [Kinds -> SUBSET Messages] /\ hand \in [Kinds -> Seq(Messages)]
      /\ sent \in [Loggers -> Nat] /\ logger \in [Loggers -> {"idle", "open", "sending"}]
  BY DEF IInv, TypeOK
<1>4. ~Before(m) /\ Before(m)'
  BY <1>1, <1>2, <1>3 DEF Before
<1>5. ASSUME NEW s \in Seq(Messages), Ordered(s) PROVE Ordered(s)' /\ Ordered(Append(s, m))'
  BY <1>4, <1>5, OrderedStep, AppendOrdered
<1>6. ASSUME NEW j \in Kinds, NEW n \in 0 .. MaxStarts PROVE Ordered(queue[<<j, n>>])'
  <2>1. PICK s \in Seq(Messages) : s = queue[<<j, n>>]
    BY <1>3
  <2>2. Ordered(s)' /\ Ordered(Append(s, m))'
    BY <1>5, <2>1 DEF Numbered
  <2>3. queue'[<<j, n>>] = s \/ queue'[<<j, n>>] = Append(s, m)
    BY <1>2, <1>3, <2>1
  <2> QED
    BY <2>2, <2>3 DEF Ordered, Distinct
<1>7. ASSUME NEW j \in Kinds PROVE Ordered(accepted[j])'
  <2>1. PICK s \in Seq(Messages) : s = accepted[j]
    BY <1>3
  <2>2. Ordered(s)' /\ Ordered(Append(s, m))'
    BY <1>5, <2>1 DEF Numbered
  <2>3. accepted'[j] = s \/ accepted'[j] = Append(s, m)
    BY <1>2, <1>3, <2>1
  <2> QED
    BY <2>2, <2>3 DEF Ordered, Distinct
<1>8. ASSUME NEW j \in Kinds
      PROVE  (\A e \in dropped[j] : Before(e))' /\ (\A i \in DOMAIN hand[j] : Before(hand[j][i]))'
  <2>1. \A i \in DOMAIN hand[j] : hand[j][i] \in Messages
    BY <1>3, LenProperties, ElementOfSeq
  <2>2. \A e \in Messages : Before(e) => Before(e)'
    BY BeforeStep
  <2>3. UNCHANGED <<dropped, hand>> /\ dropped[j] \subseteq Messages
    BY <1>2, <1>3
  <2> QED
    BY <2>1, <2>2, <2>3 DEF Numbered, Before
<1> QED
  BY <1>6, <1>7, <1>8 DEF Numbered

\* No other step numbers a message or puts it anywhere for the first time.
LEMMA OtherNumbered ==
  ASSUME IInv, Numbered, Next, \A l \in Loggers : ~QueueMsg(l)
  PROVE  Numbered'
<1> USE TwoKinds
<1>1. /\ queue \in [Kinds \X (0 .. MaxStarts) -> Seq(Messages)] /\ accepted \in [Kinds -> Seq(Messages)]
      /\ dropped \in [Kinds -> SUBSET Messages] /\ hand \in [Kinds -> Seq(Messages)]
      /\ reads \in [Kinds -> 0 .. MaxStarts] /\ mq \in [Kinds -> 0 .. MaxStarts]
      /\ starts \in 0 .. MaxStarts
  BY DEF IInv, TypeOK
<1>2. \A m \in Messages : Before(m) => Before(m)'
  BY BeforeStep
<1>3. \A s \in Seq(Messages) : Ordered(s) => Ordered(s)'
  BY OrderedStep
<1>4. ASSUME NEW j \in Kinds, NEW n \in 0 .. MaxStarts PROVE Ordered(queue[<<j, n>>])'
  <2>1. PICK s \in Seq(Messages) : s = queue[<<j, n>>]
    BY <1>1
  <2>2. Ordered(s)
    BY <2>1 DEF Numbered
  <2>3. queue'[<<j, n>>] = s \/ (s # << >> /\ queue'[<<j, n>>] = Tail(s))
    <3>1. UNCHANGED queue \/ \E k \in Kinds : Receive(k)
      BY DEF Next, OpenLogger, LogMessage, LogPacket, Sends, Thread, TelThread, Start, OpenQueue,
         RecordQueue, CreateBlock, MarkBlock, Listen, Check, Write, Rotate, Signal, Exit, Crash,
         ProcessEnds, Lock, Ctrl, SetLogging, KillCtrl, names
    <3> QED
      BY <1>1, <2>1, <3>1 DEF Receive
  <2>4. s # << >> => Ordered(Tail(s)) /\ Tail(s) \in Seq(Messages)
    BY <2>2, OrderedTail, HeadTailProperties
  <2>5. Ordered(s)' /\ (s # << >> => Ordered(Tail(s))')
    BY <1>3, <2>2, <2>4
  <2> QED
    BY <2>3, <2>5 DEF Ordered, Distinct
<1>5. ASSUME NEW j \in Kinds PROVE Ordered(accepted[j])'
  <2>1. \/ accepted'[j] = accepted[j] \/ accepted'[j] = << >>
        \/ \E n \in 0 .. MaxStarts : accepted'[j] = queue[<<j, n>>]
    <3>1. CASE \E k \in Kinds : OpenQueue(k)
      <4>1. PICK k \in Kinds : OpenQueue(k)
        BY <3>1
      <4>2. PICK n \in 0 .. MaxStarts : n = IF mq[k] = 0 THEN starts ELSE mq[k]
        BY <1>1
      <4>3. accepted' = [accepted EXCEPT ![k] = queue[<<k, n>>]]
        BY <4>1, <4>2 DEF OpenQueue
      <4>4. j = k => accepted'[j] = queue[<<j, n>>]
        BY <1>1, <4>3
      <4>5. j # k => accepted'[j] = accepted[j]
        BY <1>1, <4>3
      <4> QED
        BY <4>4, <4>5
    <3>2. CASE Exit \/ Crash
      BY <3>2 DEF Exit, Crash, ProcessEnds
    <3>3. CASE ~(\E k \in Kinds : OpenQueue(k)) /\ ~Exit /\ ~Crash
      BY <3>3 DEF Next, OpenLogger, LogMessage, LogPacket, Sends, Thread, TelThread, Start,
         RecordQueue, CreateBlock, MarkBlock, Listen, Receive, Check, Write, Rotate, Signal,
         Lock, Ctrl, SetLogging, KillCtrl, history
    <3> QED
      BY <3>1, <3>2, <3>3
  <2>2. accepted'[j] \in Seq(Messages) /\ Ordered(accepted'[j])
    <3>1. CASE accepted'[j] = accepted[j]
      BY <1>1, <3>1 DEF Numbered
    <3>2. CASE accepted'[j] = << >>
      BY <3>2, EmptySeq DEF Ordered, Distinct
    <3>3. CASE \E n \in 0 .. MaxStarts : accepted'[j] = queue[<<j, n>>]
      BY <1>1, <3>3 DEF Numbered
    <3> QED
      BY <2>1, <3>1, <3>2, <3>3
  <2>3. PICK s \in Seq(Messages) : s = accepted'[j]
    BY <2>2
  <2>4. Ordered(s)'
    BY <1>3, <2>2, <2>3
  <2> QED
    BY <2>3, <2>4 DEF Ordered, Distinct
<1>6. ASSUME NEW j \in Kinds PROVE (\A i \in DOMAIN hand[j] : Before(hand[j][i]))'
  <2>1. \A i \in DOMAIN hand'[j] : hand'[j][i] \in Messages /\ Before(hand'[j][i])
    <3>1. CASE \E k \in Kinds : Receive(k)
      <4>1. PICK k \in Kinds : Receive(k)
        BY <3>1
      <4>2. PICK s \in Seq(Messages) : s = queue[<<k, reads[k]>>] /\ s # << >> /\ Ordered(s)
        BY <1>1, <4>1 DEF Receive, Numbered
      <4>3. Before(Head(s)) /\ Head(s) \in Messages
        BY <4>2, OrderedTail, HeadTailProperties
      <4>4. j = k => hand'[j] = <<Head(s)>>
        BY <1>1, <4>1, <4>2 DEF Receive
      <4>5. j # k => hand'[j] = hand[j]
        BY <1>1, <4>1 DEF Receive
      <4>6. \A i \in DOMAIN hand[j] : hand[j][i] \in Messages
        BY <1>1, LenProperties, ElementOfSeq
      <4> QED
        BY <4>3, <4>4, <4>5, <4>6 DEF Numbered
    <3>2. CASE ~\E k \in Kinds : Receive(k)
      <4>1. hand'[j] = hand[j] \/ hand'[j] = << >>
        BY <1>1, <3>2 DEF Next, OpenLogger, LogMessage, LogPacket, Sends, Thread, TelThread,
           Start, OpenQueue, RecordQueue, CreateBlock, MarkBlock, Listen, Check, Write, Rotate,
           Signal, Exit, Crash, ProcessEnds, Lock, Ctrl, SetLogging, KillCtrl, threads
      <4>2. \A i \in DOMAIN hand[j] : hand[j][i] \in Messages
        BY <1>1, LenProperties, ElementOfSeq
      <4> QED
        BY <4>1, <4>2, EmptySeq DEF Numbered
    <3> QED
      BY <3>1, <3>2
  <2> QED
    BY <1>2, <2>1 DEF Before
<1>7. ASSUME NEW j \in Kinds PROVE (\A m \in dropped[j] : Before(m))'
  <2>1. dropped'[j] \subseteq dropped[j] \cup {hand[j][i] : i \in DOMAIN hand[j]}
    <3>1. CASE Check
      <4>1. \/ dropped' = dropped
            \/ dropped' = [dropped EXCEPT !["tel"] = @ \cup ToSet(hand["tel"])]
        BY <3>1 DEF Check
      <4>2. CASE j = "tel" /\ dropped' # dropped
        <5>1. dropped'[j] = dropped[j] \cup ToSet(hand[j])
          BY <1>1, <4>1, <4>2
        <5> QED
          BY <5>1 DEF ToSet
      <4>3. CASE j # "tel" \/ dropped' = dropped
        BY <1>1, <4>1, <4>3
      <4> QED
        BY <4>2, <4>3
    <3>2. CASE Exit \/ Crash
      BY <3>2 DEF Exit, Crash, ProcessEnds
    <3>3. CASE ~Check /\ ~Exit /\ ~Crash
      <4>1. dropped' = dropped
        BY <3>3 DEF Next, OpenLogger, LogMessage, LogPacket, Sends, Thread, TelThread, Start,
           OpenQueue, RecordQueue, CreateBlock, MarkBlock, Listen, Receive, Write, Rotate,
           Signal, Lock, Ctrl, SetLogging, KillCtrl, history
      <4> QED
        BY <4>1
    <3> QED
      BY <3>1, <3>2, <3>3
  <2>2. \A i \in DOMAIN hand[j] : hand[j][i] \in Messages
    BY <1>1, LenProperties, ElementOfSeq
  <2>3. \A m \in dropped'[j] : m \in Messages /\ Before(m)
    BY <1>1, <2>1, <2>2 DEF Numbered
  <2> QED
    BY <1>2, <2>3 DEF Before
<1> QED
  BY <1>4, <1>5, <1>6, <1>7 DEF Numbered

LEMMA NumberedStep == IInv /\ Numbered /\ Next => Numbered'
  BY QueueNumbered, OtherNumbered

\* What is filed is messages.
LEMMA FiledType ==
  ASSUME IInv, NEW k \in Kinds, pc[k] \in Reading
  PROVE  FiledBy(k) \in Seq(Messages)
<1> DEFINE s == files[k]
           u == SubSeq(s, 1, index[k] + 1)
<1>1. s \in Seq(Seq(Messages)) /\ index[k] \in Nat /\ Len(s) \in Nat
  BY LenProperties DEF IInv, TypeOK
<1>2. index[k] + 1 \in 1 .. Len(s)
  BY <1>1 DEF IInv, Filing
<1>3. \A i \in 1 .. Len(s) : s[i] \in Seq(Messages)
  BY <1>1, ElementOfSeq
<1>4. u \in Seq(Seq(Messages))
  BY <1>1, <1>2, <1>3, SubSeqProperties
<1> QED
  BY <1>4, FlattenAppend, EmptySeq DEF FiledBy

\* One more at the end of what is in the files, in hand and in the queue.
AddLast(f, h, q, m) == Append((f \o h) \o q, m) = (f \o h) \o Append(q, m)

LEMMA AppendLast ==
  ASSUME NEW S, NEW f \in Seq(S), NEW h \in Seq(S), NEW q \in Seq(S), NEW m \in S
  PROVE  AddLast(f, h, q, m)
<1> DEFINE g == f \o h
           w == g \o q
<1>1. g \in Seq(S)
  BY ConcatProperties
<1> HIDE DEF g
<1>2. w \in Seq(S)
  BY <1>1, ConcatProperties
<1>3. Append(q, m) = q \o <<m>> /\ <<m>> \in Seq(S)
  BY AppendIsConcat
<1>4. w \o <<m>> = g \o (q \o <<m>>)
  BY <1>1, <1>3, ConcatAssociative
<1> HIDE DEF w
<1>5. Append(w, m) = w \o <<m>>
  BY <1>2, AppendIsConcat
<1> QED
  BY <1>3, <1>4, <1>5 DEF w, g, AddLast

\* A thread that moves without reading or filing anything.
Moves(k) ==
  \/ pc'[k] = pc[k]
  \/ pc[k] = "off" /\ pc'[k] = "begin"
  \/ pc[k] \in {"record", "create", "mark"} /\ pc'[k] \in {"create", "mark", "listen", "returned"}
  \/ pc[k] = "check" /\ pc'[k] = "write"

LEMMA QuietIntake ==
  ASSUME IInv, Intake, NEW k \in Kinds, Moves(k),
         accepted'[k] = accepted[k], dropped'[k] = dropped[k], files'[k] = files[k],
         index'[k] = index[k], hand'[k] = hand[k], reads'[k] = reads[k],
         queue'[<<k, reads[k]>>] = queue[<<k, reads[k]>>]
  PROVE  IntakeOf(k)'
<1> USE Places
<1>1. IntakeOf(k)
  BY DEF Intake
<1>2. FiledBy(k)' = FiledBy(k)
  BY DEF FiledBy
<1>3. CASE pc'[k] = pc[k]
  BY <1>1, <1>2, <1>3 DEF IntakeOf
<1>4. CASE pc'[k] # pc[k]
  BY <1>1, <1>2, <1>4 DEF IntakeOf, Moves
<1> QED
  BY <1>3, <1>4

LEMMA QueueIntake ==
  ASSUME IInv, Numbered, Intake, NEW l \in Loggers, QueueMsg(l), NEW k \in Kinds
  PROVE  IntakeOf(k)'
<1>1. PICK m \in Messages : m = <<l, sent[l]>>
  BY InFlight DEF IInv, QueueMsg
<1>2. /\ queue' = [queue EXCEPT ![<<KindOf(l), fd[l]>>] = Append(@, m)]
      /\ accepted' = IF reads[KindOf(l)] = fd[l]
                     THEN [accepted EXCEPT ![KindOf(l)] = Append(@, m)] ELSE accepted
      /\ logger[l] = "sending"
      /\ UNCHANGED <<pc, reads, hand, index, files, dropped>>
  BY <1>1 DEF QueueMsg, threads
<1>3. /\ queue \in [Kinds \X (0 .. MaxStarts) -> Seq(Messages)] /\ accepted \in [Kinds -> Seq(Messages)]
      /\ reads \in [Kinds -> 0 .. MaxStarts] /\ sent \in [Loggers -> Nat]
      /\ hand \in [Kinds -> Seq(Messages)]
  BY DEF IInv, TypeOK
<1>4. CASE k = KindOf(l) /\ reads[k] = fd[l]
  <2> DEFINE q == queue[<<k, reads[k]>>]
             a == accepted[k]
             D == dropped[k]
             f == FiledBy(k)
             h == hand[k]
  <2>1. q \in Seq(Messages) /\ a \in Seq(Messages)
    BY <1>3
  <2>2. queue'[<<k, reads'[k]>>] = Append(q, m) /\ accepted'[k] = Append(a, m)
    BY <1>2, <1>3, <1>4
  <2>3. m \notin D
    <3>1. ~Before(m)
      BY <1>1, <1>2, <1>3 DEF Before
    <3> QED
      BY <3>1 DEF Numbered
  <2>4. IntakeOf(k) /\ FiledBy(k)' = f
    BY <1>2 DEF Intake, FiledBy
  <2>5. CASE pc[k] \in Reading
    <3>1. f \in Seq(Messages) /\ h \in Seq(Messages)
      BY <1>3, <2>5, FiledType
    <3>2. Kept(Append(a, m), D) = Append(Kept(a, D), m)
      BY <2>1, <2>3, KeptAppend DEF KeptStep
    <3>3. Append((f \o h) \o q, m) = (f \o h) \o Append(q, m)
      <4> HIDE DEF f, h, q
      <4>1. AddLast(f, h, q, m)
        BY <2>1, <3>1, AppendLast
      <4> QED
        BY <4>1 DEF AddLast
    <3> QED
      BY <1>2, <2>2, <2>4, <2>5, <3>2, <3>3, Places DEF IntakeOf
  <2>6. CASE pc[k] \notin Reading
    BY <1>2, <2>2, <2>4, <2>6, Places DEF IntakeOf
  <2> QED
    BY <2>5, <2>6
<1>5. CASE ~(k = KindOf(l) /\ reads[k] = fd[l])
  <2>1. accepted'[k] = accepted[k] /\ queue'[<<k, reads[k]>>] = queue[<<k, reads[k]>>]
    BY <1>2, <1>3, <1>5
  <2> QED
    BY <1>2, <2>1, QuietIntake DEF Moves
<1> QED
  BY <1>4, <1>5

\* Loggers, the making of the block, the signal and log_ctrl leave the threads alone.
LEMMA RestIntake ==
  ASSUME IInv, Intake, NEW k \in Kinds,
         \/ \E l \in Loggers : OpenLogger(l) \/ LogMessage(l) \/ LogPacket(l)
         \/ \E j \in Kinds : RecordQueue(j)
         \/ Start \/ CreateBlock \/ MarkBlock \/ Signal \/ Lock \/ Ctrl \/ KillCtrl
  PROVE  IntakeOf(k)'
<1> USE TwoKinds
<1>1. UNCHANGED <<accepted, dropped, files, index, hand, reads, queue>>
  BY DEF OpenLogger, LogMessage, LogPacket, Sends, RecordQueue, Start, CreateBlock, MarkBlock,
     Signal, Lock, Ctrl, SetLogging, KillCtrl, names, threads, history
<1>2. pc \in [Kinds -> Locations] /\ (~Alive => pc[k] = "off")
  BY DEF IInv, TypeOK, Recorded
<1>3. Moves(k)
  <2>1. CASE \E j \in Kinds : RecordQueue(j)
    BY <1>2, <2>1 DEF RecordQueue, Moves
  <2>2. CASE CreateBlock
    BY <1>2, <2>2 DEF CreateBlock, Moves
  <2>3. CASE MarkBlock
    BY <1>2, <2>3 DEF MarkBlock, Moves
  <2>4. CASE Start
    BY <1>2, <2>4 DEF Start, Moves
  <2>5. CASE \/ \E l \in Loggers : OpenLogger(l) \/ LogMessage(l) \/ LogPacket(l)
             \/ Signal \/ Lock \/ Ctrl \/ KillCtrl
    BY <2>5 DEF OpenLogger, LogMessage, LogPacket, Sends, Signal, Lock, Ctrl, SetLogging,
       KillCtrl, threads, Moves
  <2> QED
    BY <2>1, <2>2, <2>3, <2>4, <2>5
<1> QED
  BY <1>1, <1>3, QuietIntake

LEMMA OpenIntake ==
  ASSUME IInv, Intake, NEW j \in Kinds, OpenQueue(j), NEW k \in Kinds
  PROVE  IntakeOf(k)'
<1> USE TwoKinds, Places
<1>1. PICK n \in 0 .. MaxStarts : n = IF mq[j] = 0 THEN starts ELSE mq[j]
  BY DEF IInv, TypeOK
<1>2. /\ pc[j] = "begin" /\ reads' = [reads EXCEPT ![j] = n]
      /\ accepted' = [accepted EXCEPT ![j] = queue[<<j, n>>]]
      /\ pc' = [pc EXCEPT ![j] = "record"]
      /\ UNCHANGED <<queue, hand, dropped, index, files>>
  BY <1>1 DEF OpenQueue
<1>3. /\ pc \in [Kinds -> Locations] /\ reads \in [Kinds -> 0 .. MaxStarts]
      /\ accepted \in [Kinds -> Seq(Messages)]
  BY DEF IInv, TypeOK
<1>4. CASE k = j
  <2>1. pc'[k] = "record" /\ accepted'[k] = queue'[<<k, reads'[k]>>]
    BY <1>2, <1>3, <1>4
  <2>2. hand'[k] = << >> /\ dropped'[k] = {}
    BY <1>2, <1>4 DEF Intake, IntakeOf
  <2> QED
    BY <2>1, <2>2 DEF IntakeOf
<1>5. CASE k # j
  BY <1>2, <1>3, <1>5, QuietIntake DEF Moves
<1> QED
  BY <1>4, <1>5

LEMMA ListenIntake ==
  ASSUME IInv, Intake, NEW j \in Kinds, Listen(j), NEW k \in Kinds
  PROVE  IntakeOf(k)'
<1> USE TwoKinds, Places
<1>1. /\ pc[j] = "listen" /\ files' = Truncate(j, 0) /\ pc' = [pc EXCEPT ![j] = "receive"]
      /\ UNCHANGED <<queue, reads, hand, index, accepted, dropped>>
  BY DEF Listen, names, history
<1>2. /\ pc \in [Kinds -> Locations] /\ reads \in [Kinds -> 0 .. MaxStarts]
      /\ queue \in [Kinds \X (0 .. MaxStarts) -> Seq(Messages)]
      /\ files \in [Kinds -> Seq(Seq(Messages))] /\ TypeOK
  BY DEF IInv, TypeOK
<1>3. Len(files[j]) \in Nat /\ 0 <= Len(files[j])
  BY <1>2, LenProperties
<1>4. CASE k = j
  <2>1. FiledBy(k)' = << >>
    <3>1. index[k] = 0
      BY <1>1, <1>4 DEF IInv, Filing
    <3>2. SubSeq(files[k], 1, 0) = << >>
      BY SubSeqEmpty
    <3>3. FlattenSeq(SubSeq(Truncate(k, 0)[k], 1, 0 + 1)) = FlattenSeq(SubSeq(files[k], 1, 0))
      BY <1>2, <1>3, <1>4, TruncatedFiles
    <3> QED
      BY <1>1, <1>4, <3>1, <3>2, <3>3, FlattenEmpty DEF FiledBy
  <2>2. PICK q \in Seq(Messages) : q = queue[<<k, reads[k]>>]
    BY <1>2
  <2>3. accepted[k] = q /\ hand[k] = << >> /\ dropped[k] = {}
    BY <1>1, <1>4, <2>2 DEF Intake, IntakeOf
  <2>4. Kept(q, {}) = q
    BY KeptAll
  <2>5. (<< >> \o << >>) \o q = q
    BY ConcatEmptySeq, EmptySeq
  <2>6. pc'[k] = "receive"
    BY <1>1, <1>2, <1>4
  <2> QED
    BY <1>1, <2>1, <2>2, <2>3, <2>4, <2>5, <2>6 DEF IntakeOf
<1>5. CASE k # j
  <2>1. files'[k] = files[k]
    BY <1>1, <1>2, <1>3, <1>5, TruncateTypes
  <2> QED
    BY <1>1, <1>2, <1>5, <2>1, QuietIntake DEF Moves
<1> QED
  BY <1>4, <1>5

\* What the head of the queue leaves it for, what is filed and what is discarded keep the
\* order of the three.
Joins(S, f, h, q) ==
  /\ q # << >> => (f \o << >>) \o q = (f \o <<Head(q)>>) \o Tail(q)
  /\ ((f \o h) \o << >>) \o q = (f \o h) \o q
  /\ (f \o << >>) \o q = f \o q

LEMMA JoinsAgree ==
  ASSUME NEW S, NEW f \in Seq(S), NEW h \in Seq(S), NEW q \in Seq(S)
  PROVE  Joins(S, f, h, q)
<1>1. f \o << >> = f /\ f \o h \in Seq(S)
  BY ConcatEmptySeq, ConcatProperties
<1>2. (f \o h) \o << >> = f \o h
  BY <1>1, ConcatEmptySeq
<1>3. ASSUME q # << >> PROVE f \o q = (f \o <<Head(q)>>) \o Tail(q)
  <2>1. Head(q) \in S /\ Tail(q) \in Seq(S) /\ Len(q) \in Nat \ {0}
    BY <1>3, HeadTailProperties, EmptySeq
  <2>2. q = <<Head(q)>> \o Tail(q)
    <3> DEFINE t == Tail(q)
               u == <<Head(q)>>
               w == u \o t
    <3>1. Len(t) = Len(q) - 1 /\ \A i \in 1 .. Len(t) : t[i] = q[i + 1]
      BY <1>3, HeadTailProperties
    <3>2. u \in Seq(S) /\ Len(u) = 1 /\ u[1] = q[1] /\ t \in Seq(S)
      BY <2>1
    <3> HIDE DEF t, u
    <3>3. /\ w \in Seq(S) /\ Len(w) = Len(u) + Len(t)
          /\ \A i \in 1 .. Len(u) + Len(t) : w[i] = IF i <= Len(u) THEN u[i] ELSE t[i - Len(u)]
      BY <3>2, ConcatProperties
    <3> HIDE DEF w
    <3>4. w \in Seq(S) /\ Len(w) = Len(q) /\ \A i \in 1 .. Len(q) : w[i] = IF i <= 1 THEN u[i] ELSE t[i - 1]
      BY <2>1, <3>1, <3>2, <3>3
    <3>5. ASSUME NEW i \in 1 .. Len(q) PROVE w[i] = q[i]
      <4>1. CASE i = 1
        BY <3>2, <3>4, <4>1
      <4>2. CASE i # 1
        <5>1. i - 1 \in 1 .. Len(t) /\ ~(i <= 1)
          BY <2>1, <3>1, <4>2
        <5>2. t[i - 1] = q[(i - 1) + 1]
          BY <3>1, <5>1
        <5> QED
          BY <3>4, <5>1, <5>2
      <4> QED
        BY <4>1, <4>2
    <3>6. w = q
      BY <3>4, <3>5, SeqEqual
    <3> QED
      BY <3>6 DEF w, t, u
  <2>3. <<Head(q)>> \in Seq(S)
    BY <2>1
  <2>4. (f \o <<Head(q)>>) \o Tail(q) = f \o (<<Head(q)>> \o Tail(q))
    BY <2>1, <2>3, ConcatAssociative
  <2> QED
    BY <2>2, <2>4
<1> QED
  BY <1>1, <1>2, <1>3 DEF Joins

LEMMA ReceiveIntake ==
  ASSUME IInv, Intake, NEW j \in Kinds, Receive(j), NEW k \in Kinds
  PROVE  IntakeOf(k)'
<1> USE TwoKinds, Places
<1>1. /\ pc[j] = "receive" /\ queue[<<j, reads[j]>>] # << >>
      /\ hand' = [hand EXCEPT ![j] = <<Head(queue[<<j, reads[j]>>])>>]
      /\ queue' = [queue EXCEPT ![<<j, reads[j]>>] = Tail(@)]
      /\ \E where \in {"check", "write"} : pc' = [pc EXCEPT ![j] = where]
      /\ UNCHANGED <<reads, index, files, accepted, dropped>>
  BY DEF Receive, history
<1>2. /\ pc \in [Kinds -> Locations] /\ reads \in [Kinds -> 0 .. MaxStarts]
      /\ queue \in [Kinds \X (0 .. MaxStarts) -> Seq(Messages)]
      /\ hand \in [Kinds -> Seq(Messages)]
  BY DEF IInv, TypeOK
<1>3. CASE k = j
  <2>1. PICK q \in Seq(Messages) : q = queue[<<k, reads[k]>>]
    BY <1>2
  <2>2. PICK f \in Seq(Messages) : f = FiledBy(k)
    BY <1>1, <1>3, FiledType
  <2>3. /\ Kept(accepted[k], dropped[k]) = (f \o hand[k]) \o q /\ hand[k] = << >>
        /\ FiledBy(k)' = f
    BY <1>1, <1>3, <2>1, <2>2 DEF Intake, IntakeOf, FiledBy
  <2>4. /\ hand'[k] = <<Head(q)>> /\ queue'[<<k, reads'[k]>>] = Tail(q)
        /\ pc'[k] \in {"check", "write"} /\ q # << >>
    BY <1>1, <1>2, <1>3, <2>1
  <2>5. Joins(Messages, f, << >>, q)
    BY JoinsAgree, EmptySeq
  <2>6. (f \o << >>) \o q = (f \o <<Head(q)>>) \o Tail(q)
    BY <2>4, <2>5 DEF Joins
  <2>7. Len(<<Head(q)>>) = 1
    OBVIOUS
  <2> QED
    BY <1>1, <2>3, <2>4, <2>6, <2>7 DEF IntakeOf
<1>4. CASE k # j
  BY <1>1, <1>2, <1>4, QuietIntake DEF Moves
<1> QED
  BY <1>3, <1>4

\* Only the packet in hand is discarded: no other is the same message.
LEMMA CheckIntake ==
  ASSUME IInv, Numbered, Intake, Check, NEW k \in Kinds
  PROVE  IntakeOf(k)'
<1> USE TwoKinds, Places
<1>1. pc["tel"] = "check" /\ UNCHANGED <<queue, reads, index, files, accepted>>
  BY DEF Check, names
<1>2. /\ pc \in [Kinds -> Locations] /\ reads \in [Kinds -> 0 .. MaxStarts]
      /\ queue \in [Kinds \X (0 .. MaxStarts) -> Seq(Messages)]
      /\ hand \in [Kinds -> Seq(Messages)] /\ accepted \in [Kinds -> Seq(Messages)]
      /\ dropped \in [Kinds -> SUBSET Messages]
  BY DEF IInv, TypeOK
<1>3. CASE block.enabled
  <2>1. pc' = [pc EXCEPT !["tel"] = "write"] /\ UNCHANGED <<hand, dropped>>
    BY <1>3 DEF Check
  <2> QED
    BY <1>1, <1>2, <2>1, QuietIntake DEF Moves
<1>4. CASE ~block.enabled
  <2>1. /\ pc' = [pc EXCEPT !["tel"] = "receive"] /\ hand' = [hand EXCEPT !["tel"] = << >>]
        /\ dropped' = [dropped EXCEPT !["tel"] = @ \cup ToSet(hand["tel"])]
    BY <1>4 DEF Check
  <2>2. CASE k = "tel"
    <3>1. PICK q \in Seq(Messages) : q = queue[<<k, reads[k]>>]
      BY <1>2
    <3>2. PICK f \in Seq(Messages) : f = FiledBy(k)
      BY <1>1, <2>2, FiledType
    <3>3. PICK h \in Messages : hand[k] = <<h>>
      <4>1. Len(hand[k]) = 1 /\ hand[k] \in Seq(Messages)
        BY <1>1, <1>2, <2>2 DEF Intake, IntakeOf
      <4>2. hand[k][1] \in Messages /\ hand[k] = <<hand[k][1]>>
        BY <4>1, ElementOfSeq
      <4> QED
        BY <4>2
    <3>4. PICK s \in Seq(Messages) : s = accepted[k]
      BY <1>2
    <3>5. PICK D \in SUBSET Messages : D = dropped[k]
      BY <1>2
    <3>6. Distinct(s) /\ Kept(s, D) = (f \o <<h>>) \o q
      BY <1>1, <2>2, <3>1, <3>2, <3>3, <3>4, <3>5 DEF Numbered, Ordered, Intake, IntakeOf
    <3>7. Kept(s, D \cup {h}) = f \o q
      <4>1. Without(s, D, f, h, q)
        BY <3>6, KeptWithout
      <4> QED
        BY <3>6, <4>1 DEF Without
    <3>8. Joins(Messages, f, << >>, q)
      BY JoinsAgree, EmptySeq
    <3>9. Kept(s, D \cup {h}) = (f \o << >>) \o q
      BY <3>7, <3>8 DEF Joins
    <3>10. dropped'[k] = D \cup {h}
      <4>1. ToSet(<<h>>) = {h}
        BY DEF ToSet
      <4> QED
        BY <1>2, <2>1, <2>2, <3>3, <3>5, <4>1
    <3>11. hand'[k] = << >> /\ pc'[k] = "receive" /\ FiledBy(k)' = f
      BY <1>1, <1>2, <2>1, <2>2, <3>2 DEF FiledBy
    <3> QED
      BY <1>1, <3>1, <3>4, <3>9, <3>10, <3>11 DEF IntakeOf
  <2>3. CASE k # "tel"
    BY <1>1, <1>2, <2>1, <2>3, QuietIntake DEF Moves
  <2> QED
    BY <2>2, <2>3
<1> QED
  BY <1>3, <1>4

LEMMA WriteIntake ==
  ASSUME IInv, Intake, NEW j \in Kinds, Write(j), NEW k \in Kinds
  PROVE  IntakeOf(k)'
<1> USE TwoKinds, Places
<1>1. /\ pc[j] = "write" /\ pc' = [pc EXCEPT ![j] = "receive"]
      /\ hand' = [hand EXCEPT ![j] = << >>]
      /\ files' = [files EXCEPT ![j][index[j] + 1] = @ \o hand[j]]
      /\ UNCHANGED <<queue, reads, index, accepted, dropped>>
  BY DEF Write, names
<1>2. /\ pc \in [Kinds -> Locations] /\ reads \in [Kinds -> 0 .. MaxStarts]
      /\ queue \in [Kinds \X (0 .. MaxStarts) -> Seq(Messages)]
      /\ hand \in [Kinds -> Seq(Messages)] /\ index \in [Kinds -> Nat]
      /\ files \in [Kinds -> Seq(Seq(Messages))] /\ TypeOK
  BY DEF IInv, TypeOK
<1>3. CASE k = j
  <2>1. PICK q \in Seq(Messages) : q = queue[<<k, reads[k]>>]
    BY <1>2
  <2>2. PICK f \in Seq(Messages) : f = FiledBy(k)
    BY <1>1, <1>3, FiledType
  <2>3. PICK h \in Seq(Messages) : h = hand[k]
    BY <1>2
  <2>4. Kept(accepted[k], dropped[k]) = (f \o h) \o q
    BY <1>1, <1>3, <2>1, <2>2, <2>3 DEF Intake, IntakeOf
  <2>5. FiledBy(k)' = f \o h
    <3>1. files'[k] = [files[k] EXCEPT ![index[k] + 1] = @ \o h]
      BY <1>1, <1>2, <1>3, <2>3
    <3>2. index[k] \in Nat /\ index[k] < Len(files[k]) /\ index' = index
      BY <1>1, <1>2, <1>3 DEF IInv, Filing
    <3>3. FlattenSeq(SubSeq([files[k] EXCEPT ![index[k] + 1] = @ \o h], 1, index[k] + 1))
            = FlattenSeq(SubSeq(files[k], 1, index[k] + 1)) \o h
      BY <1>2, <3>2, WrittenFiles
    <3> QED
      BY <2>2, <3>1, <3>2, <3>3 DEF FiledBy
  <2>6. hand'[k] = << >> /\ pc'[k] = "receive"
    BY <1>1, <1>2, <1>3
  <2>7. Joins(Messages, f, h, q)
    BY JoinsAgree
  <2>8. ((f \o h) \o << >>) \o q = (f \o h) \o q
    BY <2>7 DEF Joins
  <2> QED
    <3>1. Kept(accepted'[k], dropped'[k]) = (FiledBy(k)' \o hand'[k]) \o queue'[<<k, reads'[k]>>]
      BY <1>1, <2>1, <2>4, <2>5, <2>6, <2>8
    <3> QED
      BY <2>6, <3>1 DEF IntakeOf
<1>4. CASE k # j
  <2>1. files'[k] = files[k] /\ hand'[k] = hand[k] /\ pc'[k] = pc[k]
    BY <1>1, <1>2, <1>4
  <2> QED
    BY <1>1, <2>1, QuietIntake DEF Moves
<1> QED
  BY <1>3, <1>4

LEMMA RotateIntake ==
  ASSUME IInv, Intake, Rotate, NEW k \in Kinds
  PROVE  IntakeOf(k)'
<1> USE TwoKinds, Places
<1>1. /\ pc["msg"] = "receive" /\ index' = [index EXCEPT !["msg"] = @ + 1]
      /\ files' = Truncate("msg", index'["msg"])
      /\ UNCHANGED <<pc, queue, hand, reads, accepted, dropped>>
  BY DEF Rotate, names, history
<1>2. index \in [Kinds -> Nat] /\ files \in [Kinds -> Seq(Seq(Messages))] /\ TypeOK
  BY DEF IInv, TypeOK
<1>3. /\ index'["msg"] = index["msg"] + 1 /\ index["msg"] < Len(files["msg"])
      /\ index'["msg"] \in Nat /\ Len(files["msg"]) \in Nat
  BY <1>1, <1>2, LenProperties DEF IInv, Filing
<1>4. FiledBy(k)' = FiledBy(k)
  <2>1. CASE k = "msg"
    <3>1. PICK i \in Nat : i = index["msg"] + 1 /\ i <= Len(files["msg"])
      BY <1>2, <1>3
    <3>2. FlattenSeq(SubSeq(Truncate("msg", i)["msg"], 1, i + 1)) = FlattenSeq(SubSeq(files["msg"], 1, i))
      BY <1>2, <3>1, TruncatedFiles
    <3> QED
      BY <1>1, <1>3, <2>1, <3>1, <3>2 DEF FiledBy
  <2>2. CASE k # "msg"
    <3>1. PICK i \in Nat : i = index'["msg"] /\ i <= Len(files["msg"])
      BY <1>2, <1>3
    <3>2. files'[k] = files[k]
      BY <1>1, <1>2, <2>2, <3>1, TruncateTypes
    <3> QED
      BY <1>1, <1>2, <2>2, <3>2 DEF FiledBy
  <2> QED
    BY <2>1, <2>2
<1> QED
  BY <1>1, <1>4 DEF Intake, IntakeOf

LEMMA EndIntake ==
  ASSUME Exit \/ Crash, NEW k \in Kinds
  PROVE  IntakeOf(k)'
<1>1. pc'[k] = "off" /\ hand'[k] = << >> /\ dropped'[k] = {}
  BY DEF Exit, Crash, ProcessEnds
<1> QED
  BY <1>1, Places DEF IntakeOf

LEMMA IntakeStep == IInv /\ Numbered /\ Intake /\ Next => Intake'
<1> SUFFICES ASSUME IInv, Numbered, Intake, Next, NEW k \in Kinds PROVE IntakeOf(k)'
  BY DEF Intake
<1> QED
  BY RestIntake, QueueIntake, OpenIntake, ListenIntake, ReceiveIntake, CheckIntake, WriteIntake,
     RotateIntake, EndIntake, Steps

\* What dlp took over in a queue and what came to it since is in its files, in hand or in
\* the queue, once each and in this order: no message is lost, doubled or moved by the
\* rotation of files, by a signal or by log_ctrl, but for the packets dlp discards.
THEOREM NothingLost == Spec => []LogComplete
<1>1. Init => IInv /\ Numbered /\ Intake
  BY InitInv, InitIntake
<1>2. IInv /\ Numbered /\ Intake /\ [Next]_vars => (IInv /\ Numbered /\ Intake)'
  <2>1. CASE Next
    BY <2>1, Inductive, NumberedStep, IntakeStep
  <2>2. ASSUME UNCHANGED vars PROVE Numbered /\ Intake => (Numbered /\ Intake)'
    BY <2>2 DEF vars, names, threads, loggers, history, Numbered, Ordered, Distinct, Before,
       Intake, IntakeOf, FiledBy
  <2> QED
    BY <2>1, <2>2, Inductive
<1>3. Intake => LogComplete
  BY DEF Intake, IntakeOf, LogComplete
<1> QED
  BY <1>1, <1>2, <1>3, PTL DEF Spec

-----------------------------------------------------------------------------
(***************************************************************************)
(* What is read back from a log of packets is the packets: a record stands *)
(* at the place where the one before it ends, so that the reader, which    *)
(* searches for the brackets, never looks for them inside a record.        *)
(***************************************************************************)

\* What a logger logs.
Packets == {p \in [stamp : Seq(Nat), device : Seq(Nat), data : Seq(Nat)] :
              Len(p.stamp) = StampSize /\ \A i \in DOMAIN p.device : p.device[i] # Greater}

LEMMA FindBounds ==
  ASSUME NEW s, Len(s) \in Nat, NEW c, NEW i \in 0 .. Len(s) + 1
  PROVE  Find(s, i, c) \in i .. Len(s) + 1
<1> DEFINE places == {j \in i .. Len(s) : s[j] = c}
<1>1. CASE places = {}
  BY <1>1 DEF Find
<1>2. CASE places # {}
  <2>1. places \in SUBSET Nat
    OBVIOUS
  <2> DEFINE n == CHOOSE j \in places : \A k \in places : j <= k
  <2>2. \E j \in places : \A k \in places : j <= k
    <3> HIDE DEF places
    <3> QED
      BY <1>2, <2>1, Least
  <2>3. n \in places
    BY <2>2
  <2>4. Find(s, i, c) = n
    BY <1>2 DEF Find
  <2> QED
    BY <2>3, <2>4
<1> QED
  BY <1>1, <1>2

LEMMA FindIs ==
  ASSUME NEW s, Len(s) \in Nat, NEW c, NEW i \in Nat, NEW n \in i .. Len(s), s[n] = c,
         \A j \in i .. n - 1 : s[j] # c
  PROVE  Find(s, i, c) = n
<1> DEFINE places == {j \in i .. Len(s) : s[j] = c}
           m == CHOOSE j \in places : \A k \in places : j <= k
<1>1. n \in places
  OBVIOUS
<1>2. \A k \in places : n <= k
  OBVIOUS
<1>3. Find(s, i, c) = m
  BY <1>1 DEF Find
<1>4. m \in places /\ \A k \in places : m <= k
  BY <1>1, <1>2
<1>5. m <= n /\ n <= m /\ m \in Nat
  BY <1>1, <1>2, <1>4
<1> QED
  BY <1>3, <1>5

\* The reader goes on, and stops at the end at the latest.
LEMMA RetrieveNext ==
  ASSUME NEW s \in Seq(Nat), NEW i \in 1 .. Len(s)
  PROVE  Retrieve(s, i).next \in i + 1 .. Len(s) + 1
<1> DEFINE open == Find(s, i, LBracket)
           close == open + StampSize + 1
           greater == Find(s, close + 2, Greater)
           last == IF greater >= Len(s) THEN Len(s) + 1 ELSE greater + 1 + s[greater + 1]
<1>1. Len(s) \in Nat /\ StampSize \in Nat
  BY LenProperties, LogAssumption
<1>2. open \in i .. Len(s) + 1
  BY <1>1, FindBounds
<1> HIDE DEF open
<1>3. close \in Nat /\ close > i
  BY <1>1, <1>2
<1> HIDE DEF close
<1>4. CASE close + 1 > Len(s)
  BY <1>1, <1>4 DEF Retrieve, close, open
<1>5. CASE ~(close + 1 > Len(s))
  <2>1. greater \in close + 2 .. Len(s) + 1
    BY <1>1, <1>3, <1>5, FindBounds
  <2> HIDE DEF greater
  <2>2. last \in Nat /\ last > close
    <3>1. CASE greater >= Len(s)
      BY <1>1, <1>3, <1>5, <3>1
    <3>2. CASE ~(greater >= Len(s))
      <4>1. greater + 1 \in 1 .. Len(s)
        BY <1>1, <1>3, <2>1, <3>2
      <4>2. s[greater + 1] \in Nat
        BY <4>1, ElementOfSeq
      <4> QED
        BY <1>3, <2>1, <3>2, <4>2
    <3> QED
      BY <3>1, <3>2
  <2> HIDE DEF last
  <2>3. Retrieve(s, i).next \in {close + 1, close + 2, Len(s) + 1} \cup (IF last > Len(s) THEN {} ELSE {last + 1})
    BY <1>5 DEF Retrieve, close, open, greater, last
  <2> QED
    BY <1>1, <1>3, <1>5, <2>2, <2>3
<1> QED
  BY <1>4, <1>5

\* The records from each place on.
From(s, f) ==
  f = [i \in 1 .. Len(s) + 1 |->
         IF i > Len(s) THEN << >> ELSE Retrieve(s, i).found \o f[Retrieve(s, i).next]]

\* The same from place m on, of what is found at each place and where the next one is.
FromPlace(L, found, next, m, f) ==
  f = [i \in m .. L + 1 |-> IF i > L THEN << >> ELSE found[i] \o f[next[i]]]

\* There is such a function: it is defined from the end.
LEMMA FromPlaceExists ==
  ASSUME NEW L \in Nat, NEW found, NEW next, \A i \in 1 .. L : next[i] \in i + 1 .. L + 1
  PROVE  \E f : FromPlace(L, found, next, 1, f)
<1> DEFINE G == {n \in Nat : n <= L => \E f : FromPlace(L, found, next, L + 1 - n, f)}
<1>1. 0 \in G
  <2> DEFINE f == [i \in L + 1 .. L + 1 |-> << >>]
  <2>1. FromPlace(L, found, next, L + 1, f)
    <3>1. ASSUME NEW i \in L + 1 .. L + 1
          PROVE  f[i] = IF i > L THEN << >> ELSE found[i] \o f[next[i]]
      <4>1. f[i] = << >> /\ i > L
        OBVIOUS
      <4> HIDE DEF f
      <4> QED
        BY <4>1
    <3>2. f = [i \in L + 1 .. L + 1 |-> f[i]]
      OBVIOUS
    <3> HIDE DEF f
    <3> QED
      BY <3>1, <3>2 DEF FromPlace
  <2>2. L + 1 - 0 = L + 1
    OBVIOUS
  <2> QED
    BY <2>1, <2>2
<1>2. ASSUME NEW n \in Nat, n \in G PROVE n + 1 \in G
  <2> DEFINE m == L - n
  <2> SUFFICES ASSUME n + 1 <= L PROVE \E f : FromPlace(L, found, next, m, f)
    <3>1. L + 1 - (n + 1) = m
      OBVIOUS
    <3> QED
      BY <3>1
  <2>1. m \in 1 .. L /\ L + 1 - n = m + 1
    OBVIOUS
  <2>2. PICK f : FromPlace(L, found, next, m + 1, f)
    BY <1>2, <2>1
  <2> HIDE DEF m
  <2> DEFINE g == [i \in m .. L + 1 |-> IF i = m THEN found[i] \o f[next[i]] ELSE f[i]]
  <2>3. g[m] = found[m] \o f[next[m]] /\ \A j \in m + 1 .. L + 1 : g[j] = f[j]
    <3>1. m \in m .. L + 1 /\ \A j \in m + 1 .. L + 1 : j \in m .. L + 1 /\ j # m
      BY <2>1
    <3> QED
      BY <3>1
  <2>4. ASSUME NEW i \in m .. L + 1
        PROVE  g[i] = IF i > L THEN << >> ELSE found[i] \o g[next[i]]
    <3> HIDE DEF g
    <3>1. i > L \/ (i \in 1 .. L /\ next[i] \in m + 1 .. L + 1)
      BY <2>1
    <3>2. CASE i = m
      <4>1. ~(i > L) /\ next[i] \in m + 1 .. L + 1
        BY <2>1, <3>1, <3>2
      <4>2. g[next[i]] = f[next[i]]
        BY <2>3, <4>1
      <4> QED
        BY <2>3, <3>2, <4>1, <4>2
    <3>3. CASE i # m
      <4>1. i \in m + 1 .. L + 1
        BY <2>1, <3>3
      <4>2. f[i] = IF i > L THEN << >> ELSE found[i] \o f[next[i]]
        BY <2>2, <4>1 DEF FromPlace
      <4> QED
        BY <2>3, <3>1, <4>1, <4>2
    <3> QED
      BY <3>2, <3>3
  <2>5. g = [i \in m .. L + 1 |-> g[i]]
    OBVIOUS
  <2> HIDE DEF g
  <2>6. FromPlace(L, found, next, m, g)
    BY <2>4, <2>5 DEF FromPlace
  <2> QED
    BY <2>6
<1> HIDE DEF G
<1>3. \A n \in Nat : n \in G
  BY <1>1, <1>2, Induction
<1>4. L \in G /\ L + 1 - L = 1
  BY <1>3
<1> QED
  BY <1>4 DEF G

LEMMA FromExists ==
  ASSUME NEW s \in Seq(Nat)
  PROVE  \E f : From(s, f)
<1> DEFINE L == Len(s)
           found == [i \in 1 .. L |-> Retrieve(s, i).found]
           next == [i \in 1 .. L |-> Retrieve(s, i).next]
<1>1. L \in Nat /\ \A i \in 1 .. L : next[i] \in i + 1 .. L + 1
  BY LenProperties, RetrieveNext
<1>2. ASSUME NEW i \in 1 .. L + 1, ~(i > L)
      PROVE  found[i] = Retrieve(s, i).found /\ next[i] = Retrieve(s, i).next
  <2>1. i \in 1 .. L
    BY <1>1, <1>2
  <2> QED
    BY <2>1
<1> HIDE DEF found, next
<1>3. PICK f : FromPlace(L, found, next, 1, f)
  BY <1>1, FromPlaceExists
<1> QED
  BY <1>2, <1>3 DEF From, FromPlace

LEMMA ReadBackIs ==
  ASSUME NEW s \in Seq(Nat)
  PROVE  \E f : From(s, f) /\ ReadBack(s) = f[1]
<1> DEFINE f == CHOOSE f : f = [i \in 1 .. Len(s) + 1 |->
                                  IF i > Len(s) THEN << >>
                                  ELSE Retrieve(s, i).found \o f[Retrieve(s, i).next]]
<1>1. ReadBack(s) = f[1]
  BY DEF ReadBack
<1>2. f = [i \in 1 .. Len(s) + 1 |->
             IF i > Len(s) THEN << >> ELSE Retrieve(s, i).found \o f[Retrieve(s, i).next]]
  BY FromExists DEF From
<1> HIDE DEF f
<1>3. From(s, f)
  BY <1>2 DEF From
<1> QED
  BY <1>1, <1>3

\* Where the fields of a packet are in what is logged.
Framed(e, p) ==
  /\ e \in Seq(Nat) /\ Len(e) = Len(p.stamp) + Len(p.device) + Len(p.data) + 5
  /\ e[1] = LBracket /\ e[Len(p.stamp) + 2] = RBracket /\ e[Len(p.stamp) + 3] = Less
  /\ e[Len(p.stamp) + Len(p.device) + 4] = Greater
  /\ e[Len(p.stamp) + Len(p.device) + 5] = Len(p.data)
  /\ \A i \in 1 .. Len(p.stamp) : e[1 + i] = p.stamp[i]
  /\ \A i \in 1 .. Len(p.device) : e[Len(p.stamp) + 3 + i] = p.device[i]
  /\ \A i \in 1 .. Len(p.data) : e[Len(p.stamp) + Len(p.device) + 5 + i] = p.data[i]

\* w is u with v after it.
Joined(w, u, v) ==
  /\ w \in Seq(Nat) /\ Len(u) \in Nat /\ Len(v) \in Nat /\ Len(w) = Len(u) + Len(v)
  /\ \A i \in 1 .. Len(u) : w[i] = u[i]
  /\ \A i \in 1 .. Len(v) : w[Len(u) + i] = v[i]

LEMMA ConcatJoined ==
  ASSUME NEW u \in Seq(Nat), NEW v \in Seq(Nat)
  PROVE  Joined(u \o v, u, v)
  BY ConcatAt DEF Joined

LEMMA EncodeFramed ==
  ASSUME NEW p \in Packets
  PROVE  Framed(Encode(p), p)
<1> DEFINE e1 == <<LBracket>>
           e3 == <<RBracket, Less>>
           e5 == <<Greater, Len(p.data)>>
           w2 == e1 \o p.stamp
           w3 == w2 \o e3
           w4 == w3 \o p.device
           w5 == w4 \o e5
           w6 == w5 \o p.data
<1>1. p.stamp \in Seq(Nat) /\ p.device \in Seq(Nat) /\ p.data \in Seq(Nat)
  BY DEF Packets
<1>2. Len(p.stamp) \in Nat /\ Len(p.device) \in Nat /\ Len(p.data) \in Nat
  BY <1>1, LenProperties
<1>3. /\ e1 \in Seq(Nat) /\ Len(e1) = 1 /\ e1[1] = LBracket
      /\ e3 \in Seq(Nat) /\ Len(e3) = 2 /\ e3[1] = RBracket /\ e3[2] = Less
      /\ e5 \in Seq(Nat) /\ Len(e5) = 2 /\ e5[1] = Greater /\ e5[2] = Len(p.data)
  BY <1>2 DEF LBracket, RBracket, Less, Greater
<1>4. Encode(p) = w6
  BY DEF Encode
<1> HIDE DEF e1, e3, e5
<1>5. Joined(w2, e1, p.stamp)
  BY <1>1, <1>3, ConcatJoined
<1> HIDE DEF w2
<1>6. Joined(w3, w2, e3)
  BY <1>3, <1>5, ConcatJoined DEF Joined
<1> HIDE DEF w3
<1>7. Joined(w4, w3, p.device)
  BY <1>1, <1>6, ConcatJoined DEF Joined
<1> HIDE DEF w4
<1>8. Joined(w5, w4, e5)
  BY <1>3, <1>7, ConcatJoined DEF Joined
<1> HIDE DEF w5
<1>9. Joined(w6, w5, p.data)
  BY <1>1, <1>8, ConcatJoined DEF Joined
<1> HIDE DEF w6
<1> DEFINE S == Len(p.stamp)
           D == Len(p.device)
           N == Len(p.data)
<1>10. /\ Len(w2) = 1 + S /\ Len(w3) = S + 3 /\ Len(w4) = S + D + 3 /\ Len(w5) = S + D + 5
       /\ Len(w6) = S + D + N + 5 /\ w6 \in Seq(Nat)
  <2>1. /\ Len(w2) = Len(e1) + S /\ Len(w3) = Len(w2) + Len(e3) /\ Len(w4) = Len(w3) + D
        /\ Len(w5) = Len(w4) + Len(e5) /\ Len(w6) = Len(w5) + N /\ w6 \in Seq(Nat)
    BY <1>5, <1>6, <1>7, <1>8, <1>9 DEF Joined
  <2> HIDE DEF S, D, N
  <2>2. S \in Nat /\ D \in Nat /\ N \in Nat
    BY <1>2 DEF S, D, N
  <2> QED
    BY <1>3, <2>1, <2>2
<1> HIDE DEF S, D, N
<1>11. S \in Nat /\ D \in Nat /\ N \in Nat
  BY <1>2 DEF S, D, N
<1>12. /\ \A i \in 1 .. S + D + 5 : w6[i] = w5[i]
       /\ \A i \in 1 .. S + D + 3 : w5[i] = w4[i]
       /\ \A i \in 1 .. S + 3 : w4[i] = w3[i]
       /\ \A i \in 1 .. 1 + S : w3[i] = w2[i]
       /\ w2[1] = LBracket
  <2>1. w2[1] = e1[1]
    BY <1>3, <1>5 DEF Joined
  <2>2. /\ \A i \in 1 .. Len(w5) : w6[i] = w5[i]
        /\ \A i \in 1 .. Len(w4) : w5[i] = w4[i]
        /\ \A i \in 1 .. Len(w3) : w4[i] = w3[i]
        /\ \A i \in 1 .. Len(w2) : w3[i] = w2[i]
    BY <1>6, <1>7, <1>8, <1>9 DEF Joined
  <2> QED
    BY <1>3, <1>10, <2>1, <2>2
<1>13. /\ \A i \in 1 .. N : w6[S + D + 5 + i] = p.data[i]
       /\ w5[S + D + 4] = Greater /\ w5[S + D + 5] = N
       /\ \A i \in 1 .. D : w4[S + 3 + i] = p.device[i]
       /\ w3[S + 2] = RBracket /\ w3[S + 3] = Less
       /\ \A i \in 1 .. S : w2[1 + i] = p.stamp[i]
  <2>1. /\ \A i \in 1 .. N : w6[S + D + 5 + i] = p.data[i]
        /\ \A i \in 1 .. D : w4[S + 3 + i] = p.device[i]
        /\ \A i \in 1 .. S : w2[1 + i] = p.stamp[i]
    BY <1>3, <1>5, <1>7, <1>9, <1>10 DEF Joined, S, D, N
  <2>2. /\ \A i \in 1 .. 2 : w5[S + D + 3 + i] = e5[i]
        /\ \A i \in 1 .. 2 : w3[1 + S + i] = e3[i]
    BY <1>3, <1>6, <1>8, <1>10 DEF Joined
  <2>3. /\ w5[S + D + 3 + 1] = e5[1] /\ w5[S + D + 3 + 2] = e5[2]
        /\ w3[1 + S + 1] = e3[1] /\ w3[1 + S + 2] = e3[2]
    BY <2>2
  <2>4. S + D + 3 + 1 = S + D + 4 /\ S + D + 3 + 2 = S + D + 5 /\ 1 + S + 1 = S + 2 /\ 1 + S + 2 = S + 3
    BY <1>11
  <2> QED
    BY <1>3, <2>1, <2>3, <2>4 DEF N
<1>14. /\ \A i \in 1 .. S : w6[1 + i] = p.stamp[i]
       /\ \A i \in 1 .. D : w6[S + 3 + i] = p.device[i]
       /\ w6[1] = LBracket /\ w6[S + 2] = RBracket /\ w6[S + 3] = Less
       /\ w6[S + D + 4] = Greater /\ w6[S + D + 5] = N
  <2>1. \A i \in 1 .. 1 + S : w6[i] = w2[i]
    BY <1>11, <1>12
  <2>2. \A i \in 1 .. S + 3 : w6[i] = w3[i]
    BY <1>11, <1>12
  <2>3. \A i \in 1 .. S + D + 3 : w6[i] = w4[i]
    BY <1>11, <1>12
  <2> QED
    BY <1>11, <1>12, <1>13, <2>1, <2>2, <2>3
<1> QED
  BY <1>4, <1>10, <1>13, <1>14 DEF Framed, S, D, N

\* The record e of a packet stands in s after place o.
Stands(s, o, e) ==
  /\ s \in Seq(Nat) /\ Len(s) \in Nat /\ o \in Nat /\ Len(e) \in Nat /\ o + Len(e) <= Len(s)
  /\ \A i \in 1 .. Len(e) : s[o + i] = e[i]

\* It is read from there, and where it ends the reader goes on.
LEMMA RecordRead ==
  ASSUME NEW p \in Packets, NEW e, Framed(e, p), NEW s, NEW o, Stands(s, o, e)
  PROVE  Retrieve(s, o + 1) = [found |-> <<p>>, next |-> o + Len(e) + 1]
<1> DEFINE S == Len(p.stamp)
           D == Len(p.device)
           N == Len(p.data)
           open == Find(s, o + 1, LBracket)
           close == open + StampSize + 1
           greater == Find(s, close + 2, Greater)
           last == IF greater >= Len(s) THEN Len(s) + 1 ELSE greater + 1 + s[greater + 1]
<1>1. /\ p.stamp \in Seq(Nat) /\ p.device \in Seq(Nat) /\ p.data \in Seq(Nat)
      /\ S = StampSize /\ \A i \in DOMAIN p.device : p.device[i] # Greater
      /\ p = [stamp |-> p.stamp, device |-> p.device, data |-> p.data]
  BY DEF Packets
<1>2. S \in Nat /\ D \in Nat /\ N \in Nat /\ DOMAIN p.device = 1 .. D
  BY <1>1, LenProperties
<1>3. /\ Len(s) \in Nat /\ o \in Nat /\ Len(e) = S + D + N + 5 /\ o + S + D + N + 5 <= Len(s)
  <2>1. Len(e) = S + D + N + 5
    BY DEF Framed
  <2>2. Len(s) \in Nat /\ o \in Nat /\ o + Len(e) <= Len(s)
    BY DEF Stands
  <2> HIDE DEF S, D, N
  <2> QED
    BY <1>2, <2>1, <2>2
<1>4. \A i \in 1 .. S + D + N + 5 : s[o + i] = e[i]
  BY <1>3 DEF Stands
<1>5. /\ e[1] = LBracket /\ e[S + 2] = RBracket /\ e[S + 3] = Less
      /\ e[S + D + 4] = Greater /\ e[S + D + 5] = N
      /\ \A i \in 1 .. S : e[1 + i] = p.stamp[i]
      /\ \A i \in 1 .. D : e[S + 3 + i] = p.device[i]
      /\ \A i \in 1 .. N : e[S + D + 5 + i] = p.data[i]
  BY DEF Framed
<1> HIDE DEF S, D, N
<1>6. /\ s[o + 1] = LBracket /\ s[o + S + 2] = RBracket /\ s[o + S + 3] = Less
      /\ s[o + S + D + 4] = Greater /\ s[o + S + D + 5] = N
  <2>1. /\ s[o + 1] = e[1] /\ s[o + (S + 2)] = e[S + 2] /\ s[o + (S + 3)] = e[S + 3]
        /\ s[o + (S + D + 4)] = e[S + D + 4] /\ s[o + (S + D + 5)] = e[S + D + 5]
    BY <1>2, <1>4
  <2>2. /\ o + (S + 2) = o + S + 2 /\ o + (S + 3) = o + S + 3
        /\ o + (S + D + 4) = o + S + D + 4 /\ o + (S + D + 5) = o + S + D + 5
    BY <1>2, <1>3
  <2> QED
    BY <1>5, <2>1, <2>2
<1>7. /\ \A i \in 1 .. S : s[o + 1 + i] = p.stamp[i]
      /\ \A i \in 1 .. D : s[o + S + 3 + i] = p.device[i]
      /\ \A i \in 1 .. N : s[o + S + D + 5 + i] = p.data[i]
  <2>1. ASSUME NEW i \in 1 .. S PROVE s[o + 1 + i] = p.stamp[i]
    <3>1. 1 + i \in 1 .. S + D + N + 5 /\ o + (1 + i) = o + 1 + i
      BY <1>2, <1>3
    <3> QED
      BY <1>4, <1>5, <3>1
  <2>2. ASSUME NEW i \in 1 .. D PROVE s[o + S + 3 + i] = p.device[i]
    <3>1. S + 3 + i \in 1 .. S + D + N + 5 /\ o + (S + 3 + i) = o + S + 3 + i
      BY <1>2, <1>3
    <3> QED
      BY <1>4, <1>5, <3>1
  <2>3. ASSUME NEW i \in 1 .. N PROVE s[o + S + D + 5 + i] = p.data[i]
    <3>1. S + D + 5 + i \in 1 .. S + D + N + 5 /\ o + (S + D + 5 + i) = o + S + D + 5 + i
      BY <1>2, <1>3
    <3> QED
      BY <1>4, <1>5, <3>1
  <2> QED
    BY <2>1, <2>2, <2>3
<1> DEFINE bytes == \A i \in 1 .. Len(s) : s[i] \in Nat
<1>0. bytes
  BY ElementOfSeq DEF Stands
<1>8. open = o + 1
  <2>1. o + 1 \in o + 1 .. Len(s) /\ \A j \in o + 1 .. (o + 1) - 1 : s[j] # LBracket
    BY <1>2, <1>3
  <2> QED
    BY <1>3, <1>6, <2>1, FindIs
<1> HIDE DEF open
<1>9. close = o + S + 2
  BY <1>1, <1>2, <1>3, <1>8
<1> HIDE DEF close
<1>10. greater = o + S + D + 4
  <2> DEFINE i == close + 2
             n == o + S + D + 4
  <2>1. i \in Nat /\ n \in i .. Len(s) /\ i = o + S + 4
    BY <1>2, <1>3, <1>9
  <2>2. ASSUME NEW j \in i .. n - 1 PROVE s[j] # Greater
    <3>1. j - (o + S + 3) \in 1 .. D /\ o + S + 3 + (j - (o + S + 3)) = j
      BY <1>2, <1>3, <2>1
    <3>2. s[j] = p.device[j - (o + S + 3)]
      BY <1>7, <3>1
    <3> QED
      BY <1>1, <1>2, <3>1, <3>2
  <2>3. s[n] = Greater
    BY <1>6
  <2> HIDE DEF i, n
  <2>4. Find(s, i, Greater) = n
    BY <1>3, <2>1, <2>2, <2>3, FindIs
  <2> QED
    BY <2>4 DEF i, n
<1> HIDE DEF greater
<1>11. last = o + S + D + N + 5 /\ ~(last > Len(s))
  <2>1. ~(greater >= Len(s)) /\ greater + 1 = o + S + D + 5
    BY <1>2, <1>3, <1>10
  <2> QED
    BY <1>2, <1>3, <1>6, <1>10, <2>1
<1> HIDE DEF last
<1>12. SubSeq(s, open + 1, close - 1) = p.stamp
  <2> DEFINE t == SubSeq(s, o + 2, o + S + 1)
  <2>1. \A i \in o + 2 .. o + S + 1 : s[i] \in Nat
    BY <1>0, <1>2, <1>3
  <2>2. t \in Seq(Nat) /\ Len(t) = S /\ \A i \in 1 .. S : t[i] = s[o + 1 + i]
    <3>1. o + 2 \in Int /\ o + S + 1 \in Int /\ (o + S + 1) - (o + 2) + 1 = S
      BY <1>2, <1>3
    <3>2. /\ t \in Seq(Nat) /\ Len(t) = IF o + 2 <= o + S + 1 THEN (o + S + 1) - (o + 2) + 1 ELSE 0
          /\ \A i \in 1 .. (o + S + 1) - (o + 2) + 1 : t[i] = s[(o + 2) + i - 1]
      BY <2>1, <3>1, SubSeqProperties
    <3> HIDE DEF t
    <3>3. \A i \in 1 .. S : (o + 2) + i - 1 = o + 1 + i
      BY <1>2, <1>3
    <3> QED
      BY <1>2, <1>3, <3>1, <3>2, <3>3
  <2> HIDE DEF t
  <2>3. t = p.stamp
    <3>1. p.stamp \in Seq(Nat) /\ Len(p.stamp) = S /\ \A i \in 1 .. S : t[i] = p.stamp[i]
      BY <1>1, <1>7, <2>2 DEF S
    <3> QED
      BY <2>2, <3>1, SeqEqual
  <2>4. open + 1 = o + 2 /\ close - 1 = o + S + 1
    BY <1>2, <1>3, <1>8, <1>9
  <2> QED
    BY <2>3, <2>4 DEF t
<1>13. SubSeq(s, close + 2, greater - 1) = p.device
  <2> DEFINE t == SubSeq(s, o + S + 4, o + S + D + 3)
  <2>1. \A i \in o + S + 4 .. o + S + D + 3 : s[i] \in Nat
    BY <1>0, <1>2, <1>3
  <2>2. t \in Seq(Nat) /\ Len(t) = D /\ \A i \in 1 .. D : t[i] = s[o + S + 3 + i]
    <3>1. o + S + 4 \in Int /\ o + S + D + 3 \in Int /\ (o + S + D + 3) - (o + S + 4) + 1 = D
      BY <1>2, <1>3
    <3>2. /\ t \in Seq(Nat)
          /\ Len(t) = IF o + S + 4 <= o + S + D + 3 THEN (o + S + D + 3) - (o + S + 4) + 1 ELSE 0
          /\ \A i \in 1 .. (o + S + D + 3) - (o + S + 4) + 1 : t[i] = s[(o + S + 4) + i - 1]
      BY <2>1, <3>1, SubSeqProperties
    <3> HIDE DEF t
    <3>3. \A i \in 1 .. D : (o + S + 4) + i - 1 = o + S + 3 + i
      BY <1>2, <1>3
    <3> QED
      BY <1>2, <1>3, <3>1, <3>2, <3>3
  <2> HIDE DEF t
  <2>3. t = p.device
    <3>1. p.device \in Seq(Nat) /\ Len(p.device) = D /\ \A i \in 1 .. D : t[i] = p.device[i]
      BY <1>1, <1>7, <2>2 DEF D
    <3> QED
      BY <2>2, <3>1, SeqEqual
  <2>4. close + 2 = o + S + 4 /\ greater - 1 = o + S + D + 3
    BY <1>2, <1>3, <1>9, <1>10
  <2> QED
    BY <2>3, <2>4 DEF t
<1>14. SubSeq(s, greater + 2, last) = p.data
  <2> DEFINE t == SubSeq(s, o + S + D + 6, o + S + D + N + 5)
  <2>1. \A i \in o + S + D + 6 .. o + S + D + N + 5 : s[i] \in Nat
    BY <1>0, <1>2, <1>3
  <2>2. t \in Seq(Nat) /\ Len(t) = N /\ \A i \in 1 .. N : t[i] = s[o + S + D + 5 + i]
    <3>1. /\ o + S + D + 6 \in Int /\ o + S + D + N + 5 \in Int
          /\ (o + S + D + N + 5) - (o + S + D + 6) + 1 = N
      BY <1>2, <1>3
    <3>2. /\ t \in Seq(Nat)
          /\ Len(t) = IF o + S + D + 6 <= o + S + D + N + 5
                      THEN (o + S + D + N + 5) - (o + S + D + 6) + 1 ELSE 0
          /\ \A i \in 1 .. (o + S + D + N + 5) - (o + S + D + 6) + 1 :
               t[i] = s[(o + S + D + 6) + i - 1]
      BY <2>1, <3>1, SubSeqProperties
    <3> HIDE DEF t
    <3>3. \A i \in 1 .. N : (o + S + D + 6) + i - 1 = o + S + D + 5 + i
      BY <1>2, <1>3
    <3> QED
      BY <1>2, <1>3, <3>1, <3>2, <3>3
  <2> HIDE DEF t
  <2>3. t = p.data
    <3>1. p.data \in Seq(Nat) /\ Len(p.data) = N /\ \A i \in 1 .. N : t[i] = p.data[i]
      BY <1>1, <1>7, <2>2 DEF N
    <3> QED
      BY <2>2, <3>1, SeqEqual
  <2>4. greater + 2 = o + S + D + 6 /\ last = o + S + D + N + 5
    BY <1>2, <1>3, <1>10, <1>11
  <2> QED
    BY <2>3, <2>4 DEF t
<1>15. /\ ~(close + 1 > Len(s)) /\ s[close] = RBracket /\ s[close + 1] = Less
       /\ last + 1 = o + Len(e) + 1
  <2>1. close + 1 = o + S + 3
    BY <1>2, <1>3, <1>9
  <2>2. s[close] = RBracket /\ s[close + 1] = Less
    BY <1>6, <1>9, <2>1
  <2>3. ~(close + 1 > Len(s))
    BY <1>2, <1>3, <2>1
  <2>4. last + 1 = o + Len(e) + 1
    BY <1>2, <1>3, <1>11
  <2> QED
    BY <2>2, <2>3, <2>4
<1>16. Retrieve(s, o + 1) =
         [found |-> <<[stamp |-> SubSeq(s, open + 1, close - 1),
                       device |-> SubSeq(s, close + 2, greater - 1),
                       data |-> SubSeq(s, greater + 2, last)]>>,
          next |-> last + 1]
  BY <1>11, <1>15 DEF Retrieve, open, close, greater, last
<1> QED
  BY <1>1, <1>12, <1>13, <1>14, <1>15, <1>16

\* The log of the packets ps.
Log(ps) == FlattenSeq([j \in DOMAIN ps |-> Encode(ps[j])])

LogStep(ps, p) == Log(ps) \in Seq(Nat) /\ Log(Append(ps, p)) = Log(ps) \o Encode(p)

LEMMA LogAppend ==
  ASSUME NEW ps \in Seq(Packets), NEW p \in Packets
  PROVE  LogStep(ps, p)
<1> DEFINE E(qs) == [j \in DOMAIN qs |-> Encode(qs[j])]
           S == Seq(Nat)
           qs == Append(ps, p)
<1>1. \A q \in Packets : Encode(q) \in S
  BY EncodeFramed DEF Framed
<1>2. ASSUME NEW t \in Seq(Packets)
      PROVE  /\ E(t) \in Seq(S) /\ Len(E(t)) = Len(t) /\ Len(t) \in Nat
             /\ \A j \in 1 .. Len(t) : E(t)[j] = Encode(t[j])
  <2>1. DOMAIN t = 1 .. Len(t) /\ Len(t) \in Nat /\ \A j \in 1 .. Len(t) : t[j] \in Packets
    BY LenProperties, ElementOfSeq
  <2>2. \A j \in 1 .. Len(t) : Encode(t[j]) \in S
    BY <1>1, <2>1
  <2> HIDE DEF S
  <2> QED
    BY <2>1, <2>2
<1>3. /\ qs \in Seq(Packets) /\ Len(qs) = Len(ps) + 1 /\ qs[Len(ps) + 1] = p
      /\ \A j \in 1 .. Len(ps) : qs[j] = ps[j]
  BY AppendProperties
<1> HIDE DEF qs, S
<1>4. E(qs) = Append(E(ps), Encode(p))
  <2> DEFINE u == E(qs)
             v == E(ps)
             e == Encode(p)
             w == Append(v, e)
  <2>1. /\ u \in Seq(S) /\ Len(u) = Len(ps) + 1 /\ Len(ps) \in Nat
        /\ \A j \in 1 .. Len(ps) + 1 : u[j] = Encode(qs[j])
    BY <1>2, <1>3
  <2>2. /\ v \in Seq(S) /\ Len(v) = Len(ps)
        /\ \A j \in 1 .. Len(ps) : v[j] = Encode(ps[j])
    BY <1>2
  <2>3. e \in S
    BY <1>1
  <2> HIDE DEF u, v, e
  <2>4. /\ w \in Seq(S) /\ Len(w) = Len(ps) + 1 /\ w[Len(ps) + 1] = e
        /\ \A j \in 1 .. Len(ps) : w[j] = v[j]
    BY <2>2, <2>3, AppendProperties
  <2> HIDE DEF w
  <2>5. ASSUME NEW j \in 1 .. Len(u) PROVE u[j] = w[j]
    <3>1. CASE j = Len(ps) + 1
      BY <1>3, <2>1, <2>4, <3>1 DEF e
    <3>2. CASE j # Len(ps) + 1
      <4>1. j \in 1 .. Len(ps)
        BY <2>1, <3>2
      <4> QED
        BY <1>3, <2>1, <2>2, <2>4, <4>1
    <3> QED
      BY <3>1, <3>2
  <2>6. u = w
    BY <2>1, <2>4, <2>5, SeqEqual
  <2> QED
    BY <2>6 DEF u, v, e, w
<1>5. E(ps) \in Seq(S) /\ Encode(p) \in S
  BY <1>1, <1>2
<1>6. Log(ps) = FlattenSeq(E(ps)) /\ Log(qs) = FlattenSeq(E(qs))
  BY DEF Log
<1> HIDE DEF E
<1>7. FlattenSeq(E(ps)) \in Seq(Nat) /\ FlattenSeq(Append(E(ps), Encode(p))) = FlattenSeq(E(ps)) \o Encode(p)
  BY <1>5, FlattenAppend DEF S
<1> QED
  BY <1>4, <1>6, <1>7 DEF LogStep, qs

LEMMA LogEmpty == Log(<< >>) = << >>
<1>1. DOMAIN << >> = 1 .. 0
  OBVIOUS
<1>2. [j \in DOMAIN << >> |-> Encode(<< >>[j])] = << >>
  BY <1>1
<1> QED
  BY <1>2, FlattenEmpty DEF Log

LEMMA LogType ==
  ASSUME NEW ps \in Seq(Packets)
  PROVE  Log(ps) \in Seq(Nat)
<1>1. CASE ps = << >>
  BY <1>1, LogEmpty, EmptySeq
<1>2. CASE ps # << >>
  <2>1. PICK qs \in Seq(Packets), p \in Packets : ps = Append(qs, p)
    BY <1>2, SequenceEmptyOrAppend
  <2>2. LogStep(qs, p) /\ Encode(p) \in Seq(Nat)
    BY LogAppend, EncodeFramed DEF Framed
  <2> QED
    BY <2>1, <2>2, ConcatProperties DEF LogStep
<1> QED
  BY <1>1, <1>2

Associates(u, v, w) == (u \o v) \o w = u \o (v \o w)

LEMMA Associative ==
  ASSUME NEW S, NEW u \in Seq(S), NEW v \in Seq(S), NEW w \in Seq(S)
  PROVE  Associates(u, v, w)
  BY ConcatAssociative DEF Associates

\* s is the log of the first k of ps and more, and the rest of ps is read from there.
ReadFrom(s, f, ps, k) ==
  /\ \E r \in Seq(Nat) : s = Log(SubSeq(ps, 1, k)) \o r
  /\ f[Len(Log(SubSeq(ps, 1, k))) + 1] = SubSeq(ps, k + 1, Len(ps))

LEMMA LogReadBack ==
  ASSUME NEW ps \in Seq(Packets)
  PROVE  ReadBack(Log(ps)) = ps
<1> DEFINE s == Log(ps)
           n == Len(ps)
<1>1. s \in Seq(Nat) /\ n \in Nat /\ Len(s) \in Nat
  BY LogType, LenProperties
<1>2. PICK f : From(s, f) /\ ReadBack(s) = f[1]
  BY <1>1, ReadBackIs
<1>3. ReadFrom(s, f, ps, n)
  <2>1. SubSeq(ps, 1, n) = ps /\ SubSeq(ps, n + 1, n) = << >>
    BY <1>1, SubSeqFull, SubSeqEmpty
  <2>2. s = s \o << >> /\ << >> \in Seq(Nat)
    BY <1>1, ConcatEmptySeq, EmptySeq
  <2>3. f[Len(s) + 1] = << >>
    <3> HIDE DEF s
    <3> QED
      BY <1>1, <1>2 DEF From
  <2> QED
    BY <2>1, <2>2, <2>3 DEF ReadFrom
<1> HIDE DEF s, n
<1>4. ASSUME NEW k \in 1 .. n, ReadFrom(s, f, ps, k) PROVE ReadFrom(s, f, ps, k - 1)
  <2> DEFINE t == SubSeq(ps, 1, k - 1)
             p == ps[k]
             a == Log(t)
             e == Encode(p)
             o == Len(a)
             rest == SubSeq(ps, k + 1, n)
  <2>1. \A i \in 1 .. n : ps[i] \in Packets
    BY ElementOfSeq DEF n
  <2>2. k \in 1 .. Len(ps) /\ 1 \in 1 .. Len(ps) /\ k \in Nat /\ n = Len(ps)
    BY <1>1 DEF n
  <2>3. t \in Seq(Packets) /\ p \in Packets
    BY <1>1, <2>1, SubSeqProperties
  <2>4. SubSeq(ps, 1, k) = Append(t, p)
    <3>1. SubSeq(ps, 1, k) = t \o <<p>>
      BY <2>2, SubSeqRecursiveSecond
    <3> HIDE DEF t, p
    <3> QED
      BY <2>3, <3>1, AppendIsConcat
  <2>5. SubSeq(ps, k, n) = <<p>> \o rest
    <3>1. k \in 1 .. Len(ps) /\ n \in k .. Len(ps)
      BY <1>1, <2>2
    <3> QED
      BY <3>1, SubSeqRecursiveFirst
  <2> HIDE DEF t, p, rest
  <2>6. LogStep(t, p) /\ Framed(e, p)
    BY <2>3, LogAppend, EncodeFramed
  <2>7. a \in Seq(Nat) /\ Log(Append(t, p)) = a \o e /\ e \in Seq(Nat)
    BY <2>6 DEF LogStep, Framed
  <2> HIDE DEF a, e
  <2>8. PICK r \in Seq(Nat) : s = (a \o e) \o r
    BY <1>4, <2>4, <2>7 DEF ReadFrom
  <2>9. f[Len(a \o e) + 1] = rest
    BY <1>4, <2>4, <2>7 DEF ReadFrom, rest, n
  <2>10. Joined(a \o e, a, e)
    BY <2>7, ConcatJoined
  <2> DEFINE m == a \o e
  <2>11. m \in Seq(Nat) /\ Len(m) = o + Len(e) /\ o \in Nat /\ Len(e) \in Nat
    BY <2>10 DEF Joined
  <2>12. Stands(s, o, e)
    <3>1. Joined(m, a, e)
      BY <2>10
    <3> HIDE DEF m
    <3>2. Joined(m \o r, m, r)
      BY <2>11, ConcatJoined
    <3>3. s = m \o r
      BY <2>8 DEF m
    <3>4. /\ Len(s) = Len(m) + Len(r) /\ Len(r) \in Nat
          /\ \A i \in 1 .. Len(m) : s[i] = m[i]
          /\ \A i \in 1 .. Len(e) : m[o + i] = e[i]
      BY <3>1, <3>2, <3>3 DEF Joined
    <3>5. ASSUME NEW i \in 1 .. Len(e) PROVE s[o + i] = e[i]
      <4>1. o + i \in 1 .. Len(m)
        BY <2>11
      <4> QED
        BY <3>4, <4>1
    <3>6. o + Len(e) <= Len(s)
      BY <2>11, <3>4
    <3> QED
      BY <1>1, <2>11, <3>5, <3>6 DEF Stands
  <2>13. Retrieve(s, o + 1) = [found |-> <<p>>, next |-> o + Len(e) + 1]
    BY <2>3, <2>6, <2>12, RecordRead DEF e
  <2>14. f[o + 1] = <<p>> \o rest
    <3>1. o + 1 \in 1 .. Len(s) + 1 /\ ~(o + 1 > Len(s))
      <4>1. Len(e) \in Nat \ {0}
        BY <2>3, <2>6 DEF Framed, Packets, e
      <4> QED
        BY <1>1, <2>12, <4>1 DEF Stands
    <3>2. f[o + 1] = Retrieve(s, o + 1).found \o f[Retrieve(s, o + 1).next]
      BY <1>2, <3>1 DEF From
    <3>3. f[o + Len(e) + 1] = rest
      BY <2>9, <2>11
    <3>4. Retrieve(s, o + 1).found = <<p>> /\ Retrieve(s, o + 1).next = o + Len(e) + 1
      BY <2>13
    <3> QED
      BY <3>2, <3>3, <3>4
  <2>15. \E x \in Seq(Nat) : s = a \o x
    <3>1. e \o r \in Seq(Nat)
      BY <2>7, <2>8, ConcatProperties
    <3>2. (a \o e) \o r = a \o (e \o r)
      <4>1. a \in Seq(Nat) /\ e \in Seq(Nat) /\ r \in Seq(Nat)
        BY <2>7, <2>8
      <4>2. Associates(a, e, r)
        BY <4>1, Associative
      <4> QED
        BY <4>2 DEF Associates
    <3> QED
      BY <2>8, <3>1, <3>2
  <2>16. (k - 1) + 1 = k
    BY <2>2
  <2> QED
    BY <2>5, <2>14, <2>15, <2>16 DEF ReadFrom, a, t, n
<1> DEFINE G == {i \in Nat : i <= n => ReadFrom(s, f, ps, n - i)}
<1>5. 0 \in G
  BY <1>1, <1>3
<1>6. ASSUME NEW i \in Nat, i \in G PROVE i + 1 \in G
  <2>1. ASSUME i + 1 <= n PROVE ReadFrom(s, f, ps, n - (i + 1))
    <3>1. n - i \in 1 .. n /\ (n - i) - 1 = n - (i + 1)
      BY <1>1, <2>1
    <3>2. ReadFrom(s, f, ps, n - i)
      BY <1>1, <1>6, <3>1
    <3> QED
      BY <1>4, <3>1, <3>2
  <2> QED
    BY <2>1
<1> HIDE DEF G
<1>7. \A i \in Nat : i \in G
  BY <1>5, <1>6, Induction
<1>8. ReadFrom(s, f, ps, 0)
  <2>1. n \in G /\ n - n = 0
    BY <1>1, <1>7
  <2> QED
    BY <1>1, <2>1 DEF G
<1>9. f[1] = ps
  <2>1. SubSeq(ps, 1, 0) = << >> /\ Log(<< >>) = << >>
    BY SubSeqEmpty, LogEmpty
  <2>2. SubSeq(ps, 0 + 1, Len(ps)) = ps
    BY SubSeqFull
  <2>3. Len(Log(SubSeq(ps, 1, 0))) + 1 = 1
    <3>1. Len(<< >>) = 0
      BY EmptySeq
    <3>2. Log(SubSeq(ps, 1, 0)) = << >>
      BY <2>1, Zenon
    <3> QED
      BY <3>1, <3>2
  <2> QED
    BY <1>8, <2>2, <2>3 DEF ReadFrom
<1> QED
  BY <1>2, <1>9 DEF s

-----------------------------------------------------------------------------
(***************************************************************************)
(* The telemetry log holds packets only, so that it is read back.          *)
(***************************************************************************)

TelMessages == TelLoggers \X (1 .. MaxSends["tel"])

Packeted ==
  /\ \A n \in 0 .. MaxStarts : queue[<<"tel", n>>] \in Seq(TelMessages)
  /\ hand["tel"] \in Seq(TelMessages)
  /\ files["tel"] \in Seq(Seq(TelMessages))

LEMMA InitPacketed == Init => Packeted
<1> SUFFICES ASSUME Init PROVE Packeted
  OBVIOUS
<1>1. << >> \in Seq(TelMessages) /\ << >> \in Seq(Seq(TelMessages))
  BY EmptySeq
<1> QED
  BY <1>1, TwoKinds DEF Init, Packeted

\* A truncated file, among the others.
LEMMA CutType ==
  ASSUME NEW S, NEW s \in Seq(Seq(S)), NEW i \in Nat, i <= Len(s)
  PROVE  SubSeq(s, 1, i) \o <<<<>>>> \o SubSeq(s, i + 2, Len(s)) \in Seq(Seq(S))
<1> DEFINE head == SubSeq(s, 1, i)
           tail == SubSeq(s, i + 2, Len(s))
           T == Seq(S)
<1>1. s \in Seq(T) /\ Len(s) \in Nat
  BY LenProperties
<1>2. \A j \in 1 .. Len(s) : s[j] \in T
  BY <1>1, ElementOfSeq
<1>3. head \in Seq(T) /\ tail \in Seq(T)
  BY <1>1, <1>2, SubSeqProperties
<1>4. <<<<>>>> \in Seq(T)
  BY EmptySeq
<1> HIDE DEF head, tail, T
<1>5. head \o <<<<>>>> \in Seq(T)
  BY <1>3, <1>4, ConcatProperties
<1> QED
  BY <1>3, <1>5, ConcatProperties DEF head, tail, T

LEMMA FilesPacketed ==
  ASSUME IInv, Packeted, Next
  PROVE  files'["tel"] \in Seq(Seq(TelMessages))
<1> USE TwoKinds, Places
<1>1. /\ files["tel"] \in Seq(Seq(TelMessages)) /\ hand["tel"] \in Seq(TelMessages)
      /\ files \in [Kinds -> Seq(Seq(Messages))] /\ index \in [Kinds -> Nat] /\ TypeOK
      /\ Len(files["tel"]) \in Nat
  BY LenProperties DEF Packeted, IInv, TypeOK
<1>2. CASE \E k \in Kinds : Listen(k)
  <2>1. PICK k \in Kinds : Listen(k)
    BY <1>2
  <2>2. files' = Truncate(k, 0) /\ Len(files[k]) \in Nat /\ 0 <= Len(files[k])
    BY <1>1, <2>1, LenProperties DEF Listen
  <2>3. CASE k = "tel"
    <3>1. files'["tel"] = SubSeq(files["tel"], 1, 0) \o <<<<>>>> \o SubSeq(files["tel"], 0 + 2, Len(files["tel"]))
      BY <1>1, <2>2, <2>3 DEF Truncate
    <3>2. 0 \in Nat /\ 0 <= Len(files["tel"])
      BY <1>1
    <3> QED
      BY <1>1, <3>1, <3>2, CutType
  <2>4. CASE k # "tel"
    BY <1>1, <2>2, <2>4, TruncateTypes
  <2> QED
    BY <2>3, <2>4
<1>3. CASE \E k \in Kinds : Write(k)
  <2>1. PICK k \in Kinds : Write(k)
    BY <1>3
  <2>2. CASE k = "tel"
    <3> DEFINE s == files["tel"]
               i == index["tel"] + 1
               S == Seq(TelMessages)
    <3>1. files'["tel"] = [s EXCEPT ![i] = s[i] \o hand["tel"]]
      BY <1>1, <2>1, <2>2 DEF Write
    <3>2. s \in Seq(S) /\ hand["tel"] \in S
      BY <1>1
    <3>3. i \in 1 .. Len(s)
      BY <1>1, <2>1, <2>2 DEF Write, IInv, Filing
    <3> HIDE DEF i, s
    <3>4. s[i] \in S
      BY <3>2, <3>3, ElementOfSeq
    <3>5. s[i] \o hand["tel"] \in S
      BY <3>2, <3>4, ConcatProperties
    <3> HIDE DEF S
    <3> QED
      BY <3>1, <3>2, <3>3, <3>5, ExceptSeq DEF S
  <2>3. CASE k # "tel"
    BY <1>1, <2>1, <2>3 DEF Write
  <2> QED
    BY <2>2, <2>3
<1>4. CASE Rotate
  BY <1>1, <1>4, RotateTypes
<1>5. CASE Exit \/ Crash
  <2>1. files'["tel"] = << >>
    BY <1>5 DEF Exit, Crash, ProcessEnds
  <2>2. << >> \in Seq(Seq(TelMessages))
    BY EmptySeq
  <2> QED
    BY <2>1, <2>2
<1>6. CASE /\ ~(\E k \in Kinds : Listen(k) \/ Write(k))
           /\ ~Rotate /\ ~Exit /\ ~Crash
  <2>1. files' = files
    BY <1>6 DEF Next, OpenLogger, LogMessage, LogPacket, Sends, QueueMsg, Thread, TelThread, Start,
       OpenQueue, RecordQueue, CreateBlock, MarkBlock, Receive, Check, Signal, Lock, Ctrl,
       SetLogging, KillCtrl, threads
  <2> QED
    BY <1>1, <2>1
<1> QED
  BY <1>2, <1>3, <1>4, <1>5, <1>6

LEMMA QueuesPacketed ==
  ASSUME IInv, Packeted, Next
  PROVE  /\ \A n \in 0 .. MaxStarts : queue'[<<"tel", n>>] \in Seq(TelMessages)
         /\ hand'["tel"] \in Seq(TelMessages)
<1> USE TwoKinds, Places
<1>1. /\ queue \in [Kinds \X (0 .. MaxStarts) -> Seq(Messages)] /\ hand \in [Kinds -> Seq(Messages)]
      /\ reads \in [Kinds -> 0 .. MaxStarts] /\ sent \in [Loggers -> Nat]
  BY DEF IInv, TypeOK
<1>2. /\ \A n \in 0 .. MaxStarts : queue[<<"tel", n>>] \in Seq(TelMessages)
      /\ hand["tel"] \in Seq(TelMessages)
  BY DEF Packeted
<1>3. CASE \E l \in Loggers : QueueMsg(l)
  <2>1. PICK l \in Loggers : QueueMsg(l)
    BY <1>3
  <2>2. PICK m : m = <<l, sent[l]>>
    OBVIOUS
  <2>3. /\ queue' = [queue EXCEPT ![<<KindOf(l), fd[l]>>] = Append(@, m)] /\ hand' = hand
        /\ logger[l] = "sending"
    BY <2>1, <2>2 DEF QueueMsg, threads
  <2>4. KindOf(l) = "tel" => m \in TelMessages
    <3>1. sent[l] \in 1 .. MaxSends[KindOf(l)]
      BY <1>1, <2>3, Bounds DEF IInv, Filing
    <3> QED
      BY <2>2, <3>1 DEF KindOf, Loggers, TelMessages
  <2>5. ASSUME NEW n \in 0 .. MaxStarts PROVE queue'[<<"tel", n>>] \in Seq(TelMessages)
    <3>1. CASE KindOf(l) = "tel" /\ fd[l] = n
      <4>1. queue'[<<"tel", n>>] = Append(queue[<<"tel", n>>], m)
        BY <1>1, <2>3, <3>1
      <4> QED
        BY <1>2, <2>4, <3>1, <4>1, AppendProperties
    <3>2. CASE ~(KindOf(l) = "tel" /\ fd[l] = n)
      BY <1>1, <1>2, <2>3, <3>2
    <3> QED
      BY <3>1, <3>2
  <2> QED
    BY <1>2, <2>3, <2>5
<1>4. CASE \E k \in Kinds : Receive(k)
  <2>1. PICK k \in Kinds : Receive(k)
    BY <1>4
  <2>2. PICK r \in 0 .. MaxStarts : r = reads[k]
    BY <1>1
  <2>3. PICK q \in Seq(Messages) : q = queue[<<k, r>>]
    BY <1>1
  <2>4. /\ q # << >> /\ queue' = [queue EXCEPT ![<<k, r>>] = Tail(q)]
        /\ hand' = [hand EXCEPT ![k] = <<Head(q)>>]
    BY <2>1, <2>2, <2>3 DEF Receive
  <2>5. CASE k = "tel"
    <3>1. q \in Seq(TelMessages)
      BY <1>2, <2>3, <2>5
    <3>2. Head(q) \in TelMessages /\ Tail(q) \in Seq(TelMessages)
      BY <2>4, <3>1, HeadTailProperties
    <3>3. hand'["tel"] = <<Head(q)>>
      BY <1>1, <2>4, <2>5
    <3>4. \A n \in 0 .. MaxStarts : queue'[<<"tel", n>>] = Tail(q) \/ queue'[<<"tel", n>>] = queue[<<"tel", n>>]
      BY <1>1, <2>4, <2>5
    <3>5. <<Head(q)>> \in Seq(TelMessages)
      BY <3>2
    <3> QED
      BY <1>2, <3>2, <3>3, <3>4, <3>5
  <2>6. CASE k # "tel"
    BY <1>1, <1>2, <2>4, <2>6
  <2> QED
    BY <2>5, <2>6
<1>5. CASE ~(\E l \in Loggers : QueueMsg(l)) /\ ~(\E k \in Kinds : Receive(k))
  <2>1. queue' = queue
    BY <1>5 DEF Next, OpenLogger, LogMessage, LogPacket, Sends, Thread, TelThread, Start,
       OpenQueue, RecordQueue, CreateBlock, MarkBlock, Listen, Check, Write, Rotate, Signal, Exit,
       Crash, ProcessEnds, Lock, Ctrl, SetLogging, KillCtrl, names
  <2>2. hand'["tel"] = hand["tel"] \/ hand'["tel"] = << >>
    BY <1>1, <1>5 DEF Next, OpenLogger, LogMessage, LogPacket, Sends, Thread, TelThread, Start,
       OpenQueue, RecordQueue, CreateBlock, MarkBlock, Listen, Check, Write, Rotate, Signal, Exit,
       Crash, ProcessEnds, Lock, Ctrl, SetLogging, KillCtrl, threads
  <2> QED
    BY <1>2, <2>1, <2>2, EmptySeq
<1> QED
  BY <1>3, <1>4, <1>5

\* log2csv and log2influx read back from a file of telemetry the packets that were logged
\* there, whatever stamps, devices without '>' and data hold.
THEOREM LogsReadBack == Spec => []PacketsReadBack
<1>1. ASSUME Packeted, NEW i \in 1 .. Len(files["tel"])
      PROVE  LET packets == [j \in 1 .. Len(files["tel"][i]) |->
                               LET m == files["tel"][i][j] IN Packet(m[1], m[2])]
             IN  ReadBack(FlattenSeq([j \in DOMAIN packets |-> Encode(packets[j])])) = packets
  <2> DEFINE ps == [j \in 1 .. Len(files["tel"][i]) |->
                      LET m == files["tel"][i][j] IN Packet(m[1], m[2])]
  <2>1. PICK file \in Seq(TelMessages) : file = files["tel"][i]
    BY <1>1, ElementOfSeq DEF Packeted
  <2>2. Len(file) \in Nat /\ \A j \in 1 .. Len(file) : file[j] \in TelMessages
    BY LenProperties, ElementOfSeq
  <2>3. \A m \in TelMessages : Packet(m[1], m[2]) \in Packets
    BY PacketAssumption DEF Packets, TelMessages
  <2>4. ps \in Seq(Packets)
    BY <2>1, <2>2, <2>3
  <2> HIDE DEF ps
  <2>5. ReadBack(Log(ps)) = ps
    BY <2>4, LogReadBack
  <2> QED
    BY <2>5 DEF Log, ps
<1>2. Packeted => PacketsReadBack
  BY <1>1 DEF PacketsReadBack
<1>3. Init => IInv /\ Packeted
  BY InitInv, InitPacketed
<1>4. IInv /\ Packeted /\ [Next]_vars => (IInv /\ Packeted)'
  <2>1. IInv /\ Packeted /\ Next => Packeted'
    BY FilesPacketed, QueuesPacketed DEF Packeted
  <2>2. Packeted /\ UNCHANGED vars => Packeted'
    BY DEF vars, names, threads, Packeted
  <2> QED
    BY <2>1, <2>2, Inductive
<1> QED
  BY <1>2, <1>3, <1>4, PTL DEF Spec
=============================================================================
