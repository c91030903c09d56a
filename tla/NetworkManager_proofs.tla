----------------------- MODULE NetworkManager_proofs -----------------------
(***************************************************************************)
(* What holds of NetworkManager for any number of receivers and            *)
(* transmitters, any addresses and any block_count.                        *)
(*                                                                         *)
(* The inductive invariant has four parts over the types: one process at   *)
(* most is inside (SemaphoreExact); an address is in two halves only while *)
(* its one copier is between them (Untorn); a transmitter's copy is the    *)
(* address it saw the nonce of (Known); and a receiver's drops are among   *)
(* the failures it counts (DropsCounted).                                  *)
(***************************************************************************)
EXTENDS NetworkManager, FiniteSetTheorems, TLAPS

-----------------------------------------------------------------------------
(***************************************************************************)
(* Types.                                                                  *)
(***************************************************************************)

\* Every variable starts with its type.
LEMMA InitTypes == Init => TypeOK
  BY NetworkAssumption
  DEF Init, TypeOK, Pairs, Whole, Halves, Procs, Inside

\* An address is a pair of two like halves.
LEMMA WholeIsPair == \A a \in Halves : Whole(a) \in Pairs
  BY DEF Whole, Pairs

\* Replacing one half of a pair gives a pair.
LEMMA PutHalf ==
  \A d \in Pairs, h \in Halves :
    [d EXCEPT !.ip = h] \in Pairs /\ [d EXCEPT !.port = h] \in Pairs
  BY DEF Pairs

\* Moving one process keeps the type of pc and leaves the others where they are.
LEMMA GotoType ==
  ASSUME TypeOK, NEW p \in Procs,
         NEW l \in Inside \cup {"ready", "lock", "send", "dead"}, Goto(p, l)
  PROVE  /\ pc' \in [Procs -> Inside \cup {"ready", "lock", "send", "dead"}]
         /\ pc'[p] = l
         /\ \A q \in Procs : q # p => pc'[q] = pc[q]
  BY DEF TypeOK, Goto

\* No step of a receiver or transmitter breaks the types.
LEMMA StepTypes ==
  ASSUME TypeOK, NEW p \in Procs, Step(p)
  PROVE  TypeOK'
<1> USE DEF shm, local, process
<1>1. CASE Dequeue(p)
  <2>1. pc' \in [Procs -> Inside \cup {"ready", "lock", "send", "dead"}]
    BY <1>1, GotoType DEF Dequeue
  <2> QED
    BY <1>1, <2>1 DEF Dequeue, TypeOK
<1>2. CASE Enter(p)
  <2>1. pc' \in [Procs -> Inside \cup {"ready", "lock", "send", "dead"}]
    BY <1>2, GotoType DEF Enter, Inside
  <2> QED
    BY <1>2, <2>1 DEF Enter, TypeOK
<1>3. CASE Blocked(p)
  <2>1. pc' \in [Procs -> Inside \cup {"ready", "lock", "send", "dead"}]
    BY <1>3, GotoType DEF Blocked
  <2>2. blocked' \in [Procs -> 0 .. BlockCount]
    BY <1>3, NetworkAssumption DEF Blocked, TypeOK
  <2>3. drops' \in [Receivers -> Nat]
    BY <1>3 DEF Blocked, TypeOK
  <2> QED
    BY <1>3, <2>1, <2>2, <2>3 DEF Blocked, TypeOK
<1>4. CASE StoreIp(p)
  <2>1. pc' \in [Procs -> Inside \cup {"ready", "lock", "send", "dead"}]
    BY <1>4, GotoType DEF StoreIp, Inside
  <2>2. addr' \in Pairs
    BY <1>4, PutHalf DEF StoreIp, TypeOK
  <2> QED
    BY <1>4, <2>1, <2>2 DEF StoreIp, TypeOK
<1>5. CASE StorePort(p)
  <2>1. pc' \in [Procs -> Inside \cup {"ready", "lock", "send", "dead"}]
    BY <1>5, GotoType DEF StorePort, Inside
  <2>2. addr' \in Pairs
    BY <1>5, PutHalf DEF StorePort, TypeOK
  <2> QED
    BY <1>5, <2>1, <2>2 DEF StorePort, TypeOK
<1>6. CASE Count(p)
  <2>1. pc' \in [Procs -> Inside \cup {"ready", "lock", "send", "dead"}]
    BY <1>6, GotoType DEF Count, Inside
  <2> QED
    BY <1>6, <2>1 DEF Count, TypeOK
<1>7. CASE Compare(p)
  <2>1. pc' \in [Procs -> Inside \cup {"ready", "lock", "send", "dead"}]
    BY <1>7, GotoType DEF Compare, Inside
  <2> QED
    BY <1>7, <2>1 DEF Compare, TypeOK
<1>8. CASE FetchIp(p)
  <2>1. pc' \in [Procs -> Inside \cup {"ready", "lock", "send", "dead"}]
    BY <1>8, GotoType DEF FetchIp, Inside
  <2>2. dst' \in [Transmitters -> Pairs]
    <3>1. addr.ip \in Halves
      BY DEF TypeOK, Pairs
    <3>2. /\ p \in Transmitters
          /\ dst' = [dst EXCEPT ![p] = [dst[p] EXCEPT !.ip = addr.ip]]
      BY <1>8 DEF FetchIp
    <3>3. [dst[p] EXCEPT !.ip = addr.ip] \in Pairs
      BY <3>1, <3>2, PutHalf DEF TypeOK
    <3> QED
      BY <3>2, <3>3 DEF TypeOK
  <2> QED
    BY <1>8, <2>1, <2>2 DEF FetchIp, TypeOK
<1>9. CASE FetchPort(p)
  <2>1. pc' \in [Procs -> Inside \cup {"ready", "lock", "send", "dead"}]
    BY <1>9, GotoType DEF FetchPort, Inside
  <2>2. dst' \in [Transmitters -> Pairs]
    <3>1. addr.port \in Halves
      BY DEF TypeOK, Pairs
    <3>2. /\ p \in Transmitters
          /\ dst' = [dst EXCEPT ![p] = [dst[p] EXCEPT !.port = addr.port]]
      BY <1>9 DEF FetchPort
    <3>3. [dst[p] EXCEPT !.port = addr.port] \in Pairs
      BY <3>1, <3>2, PutHalf DEF TypeOK
    <3> QED
      BY <3>2, <3>3 DEF TypeOK
  <2> QED
    BY <1>9, <2>1, <2>2 DEF FetchPort, TypeOK
<1>10. CASE Post(p)
  <2>1. pc' \in [Procs -> Inside \cup {"ready", "lock", "send", "dead"}]
    BY <1>10, GotoType DEF Post
  <2>2. blocked' \in [Procs -> 0 .. BlockCount]
    BY <1>10, NetworkAssumption DEF Post, TypeOK
  <2>3. drops' \in [Receivers -> Nat] /\ up' \subseteq Transmitters
    BY <1>10 DEF Post, TypeOK
  <2> QED
    BY <1>10, <2>1, <2>2, <2>3 DEF Post, TypeOK
<1>11. CASE Send(p)
  <2>1. pc' \in [Procs -> Inside \cup {"ready", "lock", "send", "dead"}]
    BY <1>11, GotoType DEF Send
  <2>2. sentTo' \in [Transmitters -> Pairs]
    <3>1. p \in Transmitters => dst[p] \in Pairs
      BY DEF TypeOK
    <3> QED
      BY <1>11, <3>1 DEF Send, TypeOK
  <2> QED
    BY <1>11, <2>1, <2>2 DEF Send, TypeOK
<1> QED
  BY <1>1, <1>2, <1>3, <1>4, <1>5, <1>6, <1>7, <1>8, <1>9, <1>10, <1>11 DEF Step

\* Nor does a packet, a signal or a restart.
LEMMA OtherTypes ==
  ASSUME TypeOK,
         \/ \E r \in Receivers, a \in Addresses : Rx(r, a)
         \/ \E t \in Transmitters : Kill(t) \/ Restart(t)
         \/ UNCHANGED vars
  PROVE  TypeOK'
<1> USE DEF shm, local, process
<1>1. ASSUME NEW r \in Receivers, NEW a \in Addresses, Rx(r, a) PROVE TypeOK'
  <2>1. pc' \in [Procs -> Inside \cup {"ready", "lock", "send", "dead"}]
    BY <1>1, GotoType DEF Rx, Procs
  <2> QED
    BY <1>1, <2>1, NetworkAssumption DEF Rx, TypeOK, Halves
<1>2. ASSUME NEW t \in Transmitters, Kill(t) PROVE TypeOK'
  <2>1. pc' \in [Procs -> Inside \cup {"ready", "lock", "send", "dead"}]
    BY <1>2, GotoType DEF Kill, Procs
  <2> QED
    BY <1>2, <2>1 DEF Kill, TypeOK
<1>3. ASSUME NEW t \in Transmitters, Restart(t) PROVE TypeOK'
  <2>1. pc' \in [Procs -> Inside \cup {"ready", "lock", "send", "dead"}]
    BY <1>3, GotoType DEF Restart, Procs
  <2>2. blocked' \in [Procs -> 0 .. BlockCount]
    <3>1. BlockCount \in 0 .. BlockCount
      BY NetworkAssumption
    <3>2. blocked' = [blocked EXCEPT ![t] = BlockCount]
      BY <1>3 DEF Restart
    <3> QED
      BY <3>1, <3>2 DEF TypeOK
  <2>3. dst' \in [Transmitters -> Pairs]
    <3>1. PICK a \in {Zero, Junk} : dst' = [dst EXCEPT ![t] = Whole(a)]
      BY <1>3 DEF Restart
    <3>2. Whole(a) \in Pairs
      BY WholeIsPair DEF Halves
    <3> QED
      BY <3>1, <3>2 DEF TypeOK
  <2>4. restarts' \in 0 .. MaxRestarts
    BY <1>3, NetworkAssumption DEF Restart, TypeOK
  <2> QED
    BY <1>3, <2>1, <2>2, <2>3, <2>4 DEF Restart, TypeOK
<1>4. CASE UNCHANGED vars
  BY <1>4 DEF vars, TypeOK
<1> QED
  BY <1>1, <1>2, <1>3, <1>4

-----------------------------------------------------------------------------
(***************************************************************************)
(* The semaphore: one process at most is inside.                           *)
(***************************************************************************)

Insiders == {p \in Procs : pc[p] \in Inside}

\* SemaphoreExact without counting.
OneInside ==
  \/ sem = 1 /\ Insiders = {} /\ lost = {}
  \/ sem = 0 /\ lost = {} /\ \E p \in Procs : Insiders = {p}
  \/ sem = 0 /\ Insiders = {} /\ \E t \in Transmitters : lost = {t}

\* The three cases are the ones in which the count is one.
LEMMA OneInsideCounts == ASSUME OneInside PROVE SemaphoreExact
<1>1. \A S : (\E x : S = {x}) => Cardinality(S) = 1
  BY FS_Singleton
<1>2. Cardinality({}) = 0
  BY FS_EmptySet
<1>3. sem + Cardinality(Insiders) + Cardinality(lost) = 1
  <2>1. CASE sem = 1 /\ Insiders = {} /\ lost = {}
    BY <2>1, <1>2
  <2>2. CASE sem = 0 /\ lost = {} /\ \E p \in Procs : Insiders = {p}
    BY <2>2, <1>1, <1>2
  <2>3. CASE sem = 0 /\ Insiders = {} /\ \E t \in Transmitters : lost = {t}
    BY <2>3, <1>1, <1>2
  <2> QED
    BY <2>1, <2>2, <2>3 DEF OneInside
<1> QED
  BY <1>3 DEF SemaphoreExact, Insiders

\* The semaphore is created free.
LEMMA OneInsideInit == ASSUME Init PROVE OneInside
  BY DEF Init, OneInside, Insiders, Inside

\* A process enters only when the semaphore is free, and posts only from inside.
LEMMA OneInsideStep ==
  ASSUME TypeOK, OneInside, NEW p \in Procs, Step(p)
  PROVE  OneInside'
<1> USE DEF shm, local, process
<1>1. CASE Enter(p)
  <2>1. sem = 1 /\ sem' = 0 /\ lost' = lost
    BY <1>1 DEF Enter
  <2>2. PICK l \in Inside : pc' = [pc EXCEPT ![p] = l]
    BY <1>1 DEF Enter, Goto, Inside
  <2>3. Insiders' = {p}
    BY <2>1, <2>2 DEF OneInside, Insiders, TypeOK
  <2> QED
    BY <2>1, <2>3 DEF OneInside
<1>2. CASE Post(p)
  <2>1. p \in Insiders /\ sem' = 1 /\ lost' = lost
    BY <1>2 DEF Post, At, Insiders, Inside
  <2>2. PICK l \in {"send", "ready"} : pc' = [pc EXCEPT ![p] = l]
    BY <1>2 DEF Post, Goto
  <2>3. Insiders = {p} /\ lost = {}
    BY <2>1 DEF OneInside
  <2>4. Insiders' = {}
    BY <2>2, <2>3 DEF Insiders, TypeOK, Inside
  <2> QED
    BY <2>1, <2>3, <2>4 DEF OneInside
<1>3. CASE StoreIp(p) \/ StorePort(p) \/ Count(p) \/ Compare(p) \/ FetchIp(p) \/ FetchPort(p)
  <2>1. /\ UNCHANGED <<sem, lost>>
        /\ pc[p] \in Inside
        /\ \E l \in Inside : pc' = [pc EXCEPT ![p] = l]
    BY <1>3 DEF StoreIp, StorePort, Count, Compare, FetchIp, FetchPort, At, Goto, Inside
  <2>2. Insiders' = Insiders
    BY <2>1 DEF Insiders, TypeOK
  <2> QED
    BY <2>1, <2>2 DEF OneInside
<1>4. CASE Dequeue(p) \/ Blocked(p) \/ Send(p)
  <2>1. /\ UNCHANGED <<sem, lost>>
        /\ pc[p] \notin Inside
        /\ \E l \in {"ready", "lock", "send"} : pc' = [pc EXCEPT ![p] = l]
    BY <1>4 DEF Dequeue, Blocked, Send, At, Goto, Inside
  <2>2. Insiders' = Insiders
    BY <2>1 DEF Insiders, TypeOK, Inside
  <2> QED
    BY <2>1, <2>2 DEF OneInside
<1> QED
  BY <1>1, <1>2, <1>3, <1>4 DEF Step

\* A process ended inside is moved from Insiders to lost.
LEMMA OneInsideOther ==
  ASSUME TypeOK, OneInside,
         \/ \E r \in Receivers, a \in Addresses : Rx(r, a)
         \/ \E t \in Transmitters : Kill(t) \/ Restart(t)
         \/ UNCHANGED vars
  PROVE  OneInside'
<1> USE DEF shm, local, process
<1>1. ASSUME NEW r \in Receivers, NEW a \in Addresses, Rx(r, a) PROVE OneInside'
  <2>1. Insiders' = Insiders
    BY <1>1 DEF Rx, At, Goto, Insiders, Inside, TypeOK
  <2> QED
    BY <1>1, <2>1 DEF Rx, OneInside
<1>2. ASSUME NEW t \in Transmitters, Kill(t) PROVE OneInside'
  <2>1. pc' = [pc EXCEPT ![t] = "dead"] /\ sem' = sem /\ t \in Procs
    BY <1>2 DEF Kill, Goto, Procs
  <2>2. CASE pc[t] \in Inside
    <3>1. Insiders = {t} /\ lost = {} /\ sem = 0
      BY <2>1, <2>2 DEF OneInside, Insiders
    <3>2. Insiders' = {} /\ lost' = {t}
      BY <1>2, <2>1, <2>2, <3>1 DEF Kill, Insiders, Inside, TypeOK
    <3> QED
      BY <2>1, <3>1, <3>2 DEF OneInside
  <2>3. CASE pc[t] \notin Inside
    <3>1. Insiders' = Insiders /\ lost' = lost
      BY <1>2, <2>1, <2>3 DEF Kill, Insiders, Inside, TypeOK
    <3> QED
      BY <2>1, <3>1 DEF OneInside
  <2> QED
    BY <2>2, <2>3
<1>3. ASSUME NEW t \in Transmitters, Restart(t) PROVE OneInside'
  <2>1. Insiders' = Insiders
    BY <1>3 DEF Restart, At, Goto, Insiders, Inside, TypeOK
  <2> QED
    BY <1>3, <2>1 DEF Restart, OneInside
<1>4. CASE UNCHANGED vars
  BY <1>4 DEF vars, OneInside, Insiders
<1> QED
  BY <1>1, <1>2, <1>3, <1>4

\* Two processes are never inside together.
LEMMA Alone ==
  ASSUME OneInside, NEW p \in Procs, NEW q \in Procs, pc[p] \in Inside, pc[q] \in Inside
  PROVE  p = q
  BY DEF OneInside, Insiders

-----------------------------------------------------------------------------
(***************************************************************************)
(* An address is in two halves only while its copier is between them.      *)
(***************************************************************************)

Untorn ==
  /\ (\A r \in Receivers : ~At(r, "port")) => addr.ip = addr.port
  /\ \A r \in Receivers : At(r, "port") => addr.ip = remote[r]
  /\ \A t \in Transmitters :
       /\ pc[t] \notin {"port", "dead"} => dst[t].ip = dst[t].port
       /\ At(t, "port") => dst[t].ip = addr.ip
  /\ NeverTorn

\* Before anything is copied, addresses are whole.
LEMMA UntornInit == ASSUME Init PROVE Untorn
  BY NetworkAssumption DEF Init, Untorn, At, NeverTorn, Whole, Procs

\* Every copy is in two steps, and nobody else is inside between them.
LEMMA UntornStep ==
  ASSUME TypeOK, OneInside, Untorn, NEW p \in Procs, Step(p)
  PROVE  Untorn'
<1> USE DEF shm, local, process
<1>0. Receivers \cap Transmitters = {} /\ Procs = Receivers \cup Transmitters
  BY NetworkAssumption DEF Procs
<1>1. CASE Dequeue(p) \/ Enter(p) \/ Blocked(p) \/ Count(p) \/ Compare(p) \/ Post(p)
  <2>1. /\ UNCHANGED <<addr, remote, dst, sentTo>>
        /\ pc[p] \notin {"port", "dead"}
        /\ \E l \in {"ready", "lock", "send", "ip", "compare", "post"} : pc' = [pc EXCEPT ![p] = l]
    BY <1>1 DEF Dequeue, Enter, Blocked, Count, Compare, Post, At, Goto
  <2> QED
    BY <1>0, <2>1 DEF Untorn, NeverTorn, At, TypeOK
<1>2. CASE StoreIp(p)
  <2>1. /\ UNCHANGED <<remote, dst, sentTo>>
        /\ p \in Receivers /\ pc[p] = "ip"
        /\ addr' = [addr EXCEPT !.ip = remote[p]]
        /\ pc' = [pc EXCEPT ![p] = "port"]
    BY <1>2 DEF StoreIp, At, Goto
  <2>2. addr'.ip = remote[p]
    BY <2>1 DEF TypeOK, Pairs
  <2>3. \A q \in Procs : q # p => pc[q] \notin Inside
    BY <2>1, Alone DEF Inside
  <2> QED
    BY <1>0, <2>1, <2>2, <2>3 DEF Untorn, NeverTorn, At, TypeOK, Inside
<1>3. CASE StorePort(p)
  <2>1. /\ UNCHANGED <<remote, dst, sentTo>>
        /\ p \in Receivers /\ pc[p] = "port"
        /\ addr' = [addr EXCEPT !.port = remote[p]]
        /\ pc' = [pc EXCEPT ![p] = "count"]
    BY <1>3 DEF StorePort, At, Goto
  <2>2. addr'.ip = remote[p] /\ addr'.port = remote[p]
    BY <2>1 DEF TypeOK, Pairs, Untorn, At
  <2>3. \A q \in Procs : q # p => pc[q] \notin Inside
    BY <2>1, Alone DEF Inside
  <2> QED
    BY <1>0, <2>1, <2>2, <2>3 DEF Untorn, NeverTorn, At, TypeOK, Inside
<1>4. CASE FetchIp(p)
  <2>1. /\ UNCHANGED <<addr, remote, sentTo>>
        /\ p \in Transmitters /\ pc[p] = "ip"
        /\ dst' = [dst EXCEPT ![p] = [dst[p] EXCEPT !.ip = addr.ip]]
        /\ pc' = [pc EXCEPT ![p] = "port"]
    BY <1>4 DEF FetchIp, At, Goto
  <2>2. dst'[p].ip = addr.ip
    BY <2>1 DEF TypeOK, Pairs
  <2>3. \A t \in Transmitters : t # p => dst'[t] = dst[t] /\ pc'[t] = pc[t]
    BY <1>0, <2>1 DEF TypeOK
  <2> QED
    BY <1>0, <2>1, <2>2, <2>3 DEF Untorn, NeverTorn, At, TypeOK
<1>5. CASE FetchPort(p)
  <2>1. /\ UNCHANGED <<addr, remote, sentTo>>
        /\ p \in Transmitters /\ pc[p] = "port"
        /\ dst' = [dst EXCEPT ![p] = [dst[p] EXCEPT !.port = addr.port]]
        /\ pc' = [pc EXCEPT ![p] = "post"]
    BY <1>5 DEF FetchPort, At, Goto
  <2>2. \A r \in Receivers : ~At(r, "port")
    BY <1>0, <2>1, Alone DEF Inside, At
  <2>3. dst'[p].ip = addr.ip /\ dst'[p].port = addr.port /\ addr.ip = addr.port
    BY <2>1, <2>2 DEF TypeOK, Pairs, Untorn, At
  <2>4. \A t \in Transmitters : t # p => dst'[t] = dst[t] /\ pc'[t] = pc[t]
    BY <1>0, <2>1 DEF TypeOK
  <2> QED
    BY <1>0, <2>1, <2>2, <2>3, <2>4 DEF Untorn, NeverTorn, At, TypeOK
<1>6. CASE Send(p)
  <2>1. /\ UNCHANGED <<addr, remote, dst>>
        /\ pc[p] = "send"
        /\ sentTo' = sentTo \/ sentTo' = [sentTo EXCEPT ![p] = dst[p]]
        /\ pc' = [pc EXCEPT ![p] = "ready"]
    BY <1>6 DEF Send, At, Goto
  <2>2. p \in Transmitters => dst[p].ip = dst[p].port
    BY <2>1 DEF Untorn
  <2>3. NeverTorn'
    BY <2>1, <2>2 DEF Untorn, NeverTorn, TypeOK
  <2> QED
    BY <1>0, <2>1, <2>3 DEF Untorn, At, TypeOK
<1> QED
  BY <1>1, <1>2, <1>3, <1>4, <1>5, <1>6 DEF Step

\* A transmitter ended between the two steps never sends again, and starts anew.
LEMMA UntornOther ==
  ASSUME TypeOK, OneInside, Untorn,
         \/ \E r \in Receivers, a \in Addresses : Rx(r, a)
         \/ \E t \in Transmitters : Kill(t) \/ Restart(t)
         \/ UNCHANGED vars
  PROVE  Untorn'
<1> USE DEF shm, local, process
<1>0. Receivers \cap Transmitters = {} /\ Procs = Receivers \cup Transmitters
  BY NetworkAssumption DEF Procs
<1>1. ASSUME NEW r \in Receivers, NEW a \in Addresses, Rx(r, a) PROVE Untorn'
  <2>1. /\ UNCHANGED <<addr, dst, sentTo>>
        /\ pc[r] = "ready" /\ pc' = [pc EXCEPT ![r] = "lock"]
        /\ remote' = [remote EXCEPT ![r] = a]
    BY <1>1 DEF Rx, At, Goto
  <2> QED
    BY <1>0, <2>1 DEF Untorn, NeverTorn, At, TypeOK
<1>2. ASSUME NEW t \in Transmitters, Kill(t) PROVE Untorn'
  <2>1. UNCHANGED <<addr, remote, dst, sentTo>> /\ pc' = [pc EXCEPT ![t] = "dead"]
    BY <1>2 DEF Kill, Goto
  <2> QED
    BY <1>0, <2>1 DEF Untorn, NeverTorn, At, TypeOK
<1>3. ASSUME NEW t \in Transmitters, Restart(t) PROVE Untorn'
  <2>1. UNCHANGED <<addr, remote, sentTo>> /\ pc[t] = "dead" /\ pc' = [pc EXCEPT ![t] = "lock"]
    BY <1>3 DEF Restart, At, Goto
  <2>2. PICK a \in {Zero, Junk} : dst' = [dst EXCEPT ![t] = Whole(a)]
    BY <1>3 DEF Restart
  <2>3. dst'[t].ip = dst'[t].port
    BY <2>2 DEF TypeOK, Whole
  <2>4. \A s \in Transmitters : s # t => dst'[s] = dst[s] /\ pc'[s] = pc[s]
    BY <1>0, <2>1, <2>2 DEF TypeOK
  <2> QED
    BY <1>0, <2>1, <2>3, <2>4 DEF Untorn, NeverTorn, At, TypeOK
<1>4. CASE UNCHANGED vars
  BY <1>4 DEF vars, Untorn, NeverTorn, At
<1> QED
  BY <1>1, <1>2, <1>3, <1>4

-----------------------------------------------------------------------------
(***************************************************************************)
(* A transmitter's copy is the address whose nonce it saw.                 *)
(***************************************************************************)

\* A receiver has changed the address and not yet counted it.
Unannounced == \E r \in Receivers : pc[r] \in {"port", "count"}

\* A process that has no address yet takes the first one it finds.
Uninitialised(t) ==
  /\ pc[t] \in {"lock", "compare", "ip", "port", "post", "dead"}
  /\ At(t, "lock") => blocked[t] = BlockCount
  /\ pc[t] \in {"lock", "compare"} => last[t] = 0

Current(t) ==
  /\ t \in up \/ At(t, "post")
  /\ pc[t] \notin {"ip", "port"}
  /\ last[t] = nonce /\ nonce # 0
  /\ lost = {} /\ ~Unannounced

Known ==
  \A t \in Transmitters :
    /\ last[t] <= nonce
    /\ t \notin up => Uninitialised(t)
    /\ Current(t) => dst[t] = addr

\* Nobody has an address yet.
LEMMA KnownInit == ASSUME Init PROVE Known
  BY NetworkAssumption DEF Init, Known, Uninitialised, Current, At, Procs

\* A copy ends with the address whose nonce was taken, and a new address has a new nonce.
LEMMA KnownStep ==
  ASSUME TypeOK, OneInside, Untorn, Known, NEW p \in Procs, Step(p)
  PROVE  Known'
<1> USE DEF shm, local, process
<1>0. /\ Receivers \cap Transmitters = {} /\ Procs = Receivers \cup Transmitters
      /\ BlockCount \in Nat
  BY NetworkAssumption DEF Procs
<1>a. /\ pc \in [Procs -> Inside \cup {"ready", "lock", "send", "dead"}]
      /\ nonce \in Nat /\ last \in [Transmitters -> Nat] /\ dst \in [Transmitters -> Pairs]
      /\ blocked \in [Procs -> 0 .. BlockCount] /\ addr \in Pairs
  BY DEF TypeOK
<1>1. CASE Dequeue(p) \/ Send(p)
  <2>1. /\ UNCHANGED <<nonce, addr, last, dst, up, lost, blocked>>
        /\ pc[p] \in {"ready", "send"}
        /\ \E l \in {"ready", "lock", "send"} : pc' = [pc EXCEPT ![p] = l]
    BY <1>1 DEF Dequeue, Send, At, Goto
  <2>2. Unannounced' <=> Unannounced
    BY <1>0, <1>a, <2>1 DEF Unannounced
  <2> QED
    BY <1>0, <1>a, <2>1, <2>2 DEF Known, Uninitialised, Current, At
<1>2. CASE Enter(p)
  <2>1. /\ UNCHANGED <<nonce, addr, last, dst, up, lost, blocked>>
        /\ pc[p] = "lock"
        /\ pc' = [pc EXCEPT ![p] = IF p \in Receivers THEN "ip" ELSE "compare"]
    BY <1>2 DEF Enter, At, Goto
  <2>2. Unannounced' <=> Unannounced
    BY <1>0, <1>a, <2>1 DEF Unannounced
  <2> QED
    BY <1>0, <1>a, <2>1, <2>2 DEF Known, Uninitialised, Current, At
<1>3. CASE Blocked(p)
  <2>1. /\ UNCHANGED <<nonce, addr, last, dst, up, lost>>
        /\ pc[p] = "lock" /\ blocked[p] < BlockCount
        /\ blocked' = [blocked EXCEPT ![p] = @ + 1]
        /\ \E l \in {"ready", "send"} : pc' = [pc EXCEPT ![p] = l]
    BY <1>3 DEF Blocked, At, Goto
  <2>2. Unannounced' <=> Unannounced
    BY <1>0, <1>a, <2>1 DEF Unannounced
  <2>3. p \in Transmitters => p \in up
    BY <1>0, <1>a, <2>1 DEF Known, Uninitialised, At
  <2> QED
    BY <1>0, <1>a, <2>1, <2>2, <2>3 DEF Known, Uninitialised, Current, At
<1>4. CASE StoreIp(p) \/ StorePort(p)
  <2>1. /\ UNCHANGED <<nonce, last, dst, up, lost, blocked>>
        /\ p \in Receivers
        /\ \E l \in {"port", "count"} : pc' = [pc EXCEPT ![p] = l]
    BY <1>4 DEF StoreIp, StorePort, Goto
  <2>2. Unannounced'
    BY <1>0, <1>a, <2>1 DEF Unannounced
  <2> QED
    BY <1>0, <1>a, <2>1, <2>2 DEF Known, Uninitialised, Current, At
<1>5. CASE Count(p)
  <2>1. /\ UNCHANGED <<last, up, blocked>>
        /\ nonce' = nonce + 1
        /\ pc[p] = "count" /\ pc' = [pc EXCEPT ![p] = "post"]
    BY <1>5 DEF Count, At, Goto
  <2>2. \A t \in Transmitters : last'[t] < nonce'
    BY <1>a, <2>1 DEF Known
  <2> QED
    BY <1>0, <1>a, <2>1, <2>2 DEF Known, Uninitialised, Current, At
<1>6. CASE Compare(p)
  <2>1. /\ UNCHANGED <<nonce, addr, dst, up, lost, blocked>>
        /\ pc[p] = "compare"
        /\ last' = [last EXCEPT ![p] = nonce]
        /\ pc' = [pc EXCEPT ![p] = IF nonce # last[p] THEN "ip" ELSE "post"]
    BY <1>6 DEF Compare, At, Goto
  <2>2. Unannounced' <=> Unannounced
    BY <1>0, <1>a, <2>1 DEF Unannounced
  <2>3. \A t \in Transmitters \ {p} : last'[t] = last[t] /\ pc'[t] = pc[t]
    BY <1>0, <1>a, <2>1
  <2>4. ASSUME p \in Transmitters
        PROVE  /\ last'[p] <= nonce'
               /\ p \notin up' => Uninitialised(p)'
               /\ Current(p)' => dst'[p] = addr'
    <3>1. last'[p] = nonce
      BY <1>a, <2>1, <2>4
    <3>2. ASSUME Current(p)' PROVE dst'[p] = addr'
      <4>1. nonce = last[p] /\ nonce # 0
        BY <1>a, <2>1, <3>2 DEF Current
      <4>2. p \in up
        BY <1>a, <2>1, <2>4, <4>1 DEF Known, Uninitialised
      <4> QED
        BY <2>1, <2>2, <2>4, <3>2, <4>1, <4>2 DEF Known, Current
    <3> QED
      BY <1>a, <2>1, <3>1, <3>2 DEF Uninitialised, At
  <2>5. \A t \in Transmitters \ {p} :
          /\ last'[t] <= nonce'
          /\ t \notin up' => Uninitialised(t)'
          /\ Current(t)' => dst'[t] = addr'
    BY <2>1, <2>2, <2>3 DEF Known, Uninitialised, Current, At
  <2> QED
    BY <2>4, <2>5 DEF Known
<1>7. CASE FetchIp(p)
  <2>1. /\ UNCHANGED <<nonce, addr, last, up, lost, blocked>>
        /\ p \in Transmitters /\ pc[p] = "ip"
        /\ dst' = [dst EXCEPT ![p] = [dst[p] EXCEPT !.ip = addr.ip]]
        /\ pc' = [pc EXCEPT ![p] = "port"]
    BY <1>7 DEF FetchIp, At, Goto
  <2>2. Unannounced' <=> Unannounced
    BY <1>0, <1>a, <2>1 DEF Unannounced
  <2>3. \A t \in Transmitters \ {p} : dst'[t] = dst[t] /\ pc'[t] = pc[t]
    BY <1>0, <1>a, <2>1
  <2> QED
    BY <1>0, <1>a, <2>1, <2>2, <2>3 DEF Known, Uninitialised, Current, At
<1>8. CASE FetchPort(p)
  <2>1. /\ UNCHANGED <<nonce, addr, last, up, lost, blocked>>
        /\ p \in Transmitters /\ pc[p] = "port"
        /\ dst' = [dst EXCEPT ![p] = [dst[p] EXCEPT !.port = addr.port]]
        /\ pc' = [pc EXCEPT ![p] = "post"]
    BY <1>8 DEF FetchPort, At, Goto
  <2>2. Unannounced' <=> Unannounced
    BY <1>0, <1>a, <2>1 DEF Unannounced
  <2>3. \A t \in Transmitters \ {p} : dst'[t] = dst[t] /\ pc'[t] = pc[t]
    BY <1>0, <1>a, <2>1
  <2>4. dst[p].ip = addr.ip
    BY <2>1 DEF Untorn, At
  <2>5. dst'[p] = addr
    BY <1>a, <2>1, <2>4 DEF Pairs
  <2> QED
    BY <1>0, <1>a, <2>1, <2>2, <2>3, <2>5 DEF Known, Uninitialised, Current, At
<1>9. CASE Post(p)
  <2>1. /\ UNCHANGED <<nonce, addr, last, dst, lost>>
        /\ pc[p] = "post"
        /\ blocked' = [blocked EXCEPT ![p] = 0]
        /\ up' = IF p \in Transmitters THEN up \cup {p} ELSE up
        /\ \E l \in {"ready", "send"} : pc' = [pc EXCEPT ![p] = l]
    BY <1>9 DEF Post, At, Goto
  <2>2. Unannounced' <=> Unannounced
    BY <1>0, <1>a, <2>1 DEF Unannounced
  <2> QED
    BY <1>0, <1>a, <2>1, <2>2 DEF Known, Uninitialised, Current, At
<1> QED
  BY <1>1, <1>2, <1>3, <1>4, <1>5, <1>6, <1>7, <1>8, <1>9 DEF Step

\* After a restart an address has to be taken anew.
LEMMA KnownOther ==
  ASSUME TypeOK, OneInside, Known,
         \/ \E r \in Receivers, a \in Addresses : Rx(r, a)
         \/ \E t \in Transmitters : Kill(t) \/ Restart(t)
         \/ UNCHANGED vars
  PROVE  Known'
<1> USE DEF shm, local, process
<1>0. /\ Receivers \cap Transmitters = {} /\ Procs = Receivers \cup Transmitters
      /\ BlockCount \in Nat
  BY NetworkAssumption DEF Procs
<1>a. /\ pc \in [Procs -> Inside \cup {"ready", "lock", "send", "dead"}]
      /\ nonce \in Nat /\ last \in [Transmitters -> Nat] /\ dst \in [Transmitters -> Pairs]
      /\ blocked \in [Procs -> 0 .. BlockCount] /\ up \subseteq Transmitters
  BY DEF TypeOK
<1>1. ASSUME NEW r \in Receivers, NEW a \in Addresses, Rx(r, a) PROVE Known'
  <2>1. /\ UNCHANGED <<nonce, addr, last, dst, up, lost, blocked>>
        /\ pc[r] = "ready" /\ pc' = [pc EXCEPT ![r] = "lock"]
    BY <1>1 DEF Rx, At, Goto
  <2>2. Unannounced' <=> Unannounced
    BY <1>0, <1>a, <2>1 DEF Unannounced
  <2> QED
    BY <1>0, <1>a, <2>1, <2>2 DEF Known, Uninitialised, Current, At
<1>2. ASSUME NEW t \in Transmitters, Kill(t) PROVE Known'
  <2>1. /\ UNCHANGED <<nonce, addr, last, dst, up, blocked>>
        /\ pc' = [pc EXCEPT ![t] = "dead"]
        /\ lost' = IF pc[t] \in Inside THEN lost \cup {t} ELSE lost
    BY <1>2 DEF Kill, Goto
  <2>2. Unannounced' <=> Unannounced
    BY <1>0, <1>a, <2>1 DEF Unannounced
  <2>3. lost' = {} => pc[t] \notin {"ip", "port", "post"} /\ lost = {}
    BY <2>1 DEF Inside
  <2> QED
    BY <1>0, <1>a, <2>1, <2>2, <2>3 DEF Known, Uninitialised, Current, At
<1>3. ASSUME NEW t \in Transmitters, Restart(t) PROVE Known'
  <2>1. /\ UNCHANGED <<nonce, addr, lost>>
        /\ up' = up \ {t}
        /\ pc[t] = "dead" /\ pc' = [pc EXCEPT ![t] = "lock"]
        /\ blocked' = [blocked EXCEPT ![t] = BlockCount]
        /\ last' = [last EXCEPT ![t] = 0]
        /\ \E a \in {Zero, Junk} : dst' = [dst EXCEPT ![t] = Whole(a)]
    BY <1>3 DEF Restart, At, Goto
  <2>2. Unannounced' <=> Unannounced
    BY <1>0, <1>a, <2>1 DEF Unannounced
  <2>3. \A s \in Transmitters \ {t} :
          dst'[s] = dst[s] /\ pc'[s] = pc[s] /\ last'[s] = last[s] /\ blocked'[s] = blocked[s]
    BY <1>0, <1>a, <2>1
  <2> QED
    BY <1>0, <1>a, <2>1, <2>2, <2>3 DEF Known, Uninitialised, Current, At
<1>4. CASE UNCHANGED vars
  BY <1>4 DEF vars, Known, Uninitialised, Current, Unannounced, At
<1> QED
  BY <1>1, <1>2, <1>3, <1>4

-----------------------------------------------------------------------------
(***************************************************************************)
(* What a receiver drops in a row are failures it has counted.             *)
(***************************************************************************)

DropsCounted == \A r \in Receivers : drops[r] <= blocked[r]

\* Nothing is dropped yet.
LEMMA DropsInit == ASSUME Init PROVE DropsCounted
  BY NetworkAssumption DEF Init, DropsCounted, Procs

\* A drop is counted, and both counts start anew together.
LEMMA DropsStep ==
  ASSUME TypeOK, DropsCounted, [Next]_vars
  PROVE  DropsCounted'
<1> USE DEF shm, local, process
<1>a. /\ blocked \in [Procs -> 0 .. BlockCount] /\ drops \in [Receivers -> Nat]
      /\ Receivers \subseteq Procs /\ Receivers \cap Transmitters = {} /\ BlockCount \in Nat
  BY NetworkAssumption DEF TypeOK, Procs
<1>1. ASSUME NEW p \in Procs, Blocked(p) PROVE DropsCounted'
  <2>1. /\ blocked' = [blocked EXCEPT ![p] = @ + 1]
        /\ IF p \in Receivers THEN drops' = [drops EXCEPT ![p] = @ + 1] ELSE drops' = drops
    BY <1>1 DEF Blocked
  <2> QED
    BY <1>a, <2>1 DEF DropsCounted
<1>2. ASSUME NEW p \in Procs, Post(p) PROVE DropsCounted'
  <2>1. /\ blocked' = [blocked EXCEPT ![p] = 0]
        /\ drops' = IF p \in Receivers THEN [drops EXCEPT ![p] = 0] ELSE drops
    BY <1>2 DEF Post
  <2> QED
    BY <1>a, <2>1 DEF DropsCounted
<1>3. ASSUME NEW t \in Transmitters, Restart(t) PROVE DropsCounted'
  <2>1. blocked' = [blocked EXCEPT ![t] = BlockCount] /\ drops' = drops
    BY <1>3 DEF Restart
  <2> QED
    BY <1>a, <2>1 DEF DropsCounted
<1>4. ASSUME UNCHANGED <<blocked, drops>> PROVE DropsCounted'
  BY <1>4 DEF DropsCounted
<1>5. ASSUME NEW p \in Procs, Step(p), ~Blocked(p), ~Post(p) PROVE UNCHANGED <<blocked, drops>>
  BY <1>5 DEF Step, Dequeue, Enter, StoreIp, StorePort, Count, Compare, FetchIp, FetchPort, Send
<1>6. ASSUME \/ \E r \in Receivers, a \in Addresses : Rx(r, a)
             \/ \E t \in Transmitters : Kill(t)
             \/ UNCHANGED vars
      PROVE  UNCHANGED <<blocked, drops>>
  BY <1>6 DEF Rx, Kill, vars
<1> QED
  BY <1>1, <1>2, <1>3, <1>4, <1>5, <1>6 DEF Next, Stop

-----------------------------------------------------------------------------
(***************************************************************************)
(* The invariant, and the theorems.                                        *)
(***************************************************************************)

Inv == TypeOK /\ OneInside /\ Untorn /\ Known /\ DropsCounted

\* The parts hold at first.
LEMMA InvInit == Init => Inv
  BY InitTypes, OneInsideInit, UntornInit, KnownInit, DropsInit DEF Inv

\* Every step keeps them.
LEMMA InvStep == Inv /\ [Next]_vars => Inv'
<1> SUFFICES ASSUME Inv, [Next]_vars PROVE Inv'
  OBVIOUS
<1>1. DropsCounted'
  BY DropsStep DEF Inv
<1>2. ASSUME NEW p \in Procs, Step(p) PROVE Inv'
  BY <1>1, <1>2, StepTypes, OneInsideStep, UntornStep, KnownStep DEF Inv
<1>3. ASSUME \/ \E r \in Receivers, a \in Addresses : Rx(r, a)
             \/ \E t \in Transmitters : Kill(t) \/ Restart(t)
             \/ UNCHANGED vars
      PROVE  Inv'
  BY <1>1, <1>3, OtherTypes, OneInsideOther, UntornOther, KnownOther DEF Inv
<1> QED
  BY <1>2, <1>3 DEF Next, Stop

\* The type invariant of NmShm's blocks and of the processes that use them.
THEOREM TypeCorrect == Spec => []TypeOK
<1>1. Inv => TypeOK
  BY DEF Inv
<1> QED
  BY InvInit, InvStep, <1>1, PTL DEF Spec

\* get_addr and update_addr: the semaphore of a device is free, or one process
\* is between its wait and its post, or one ended there.
THEOREM Exact == Spec => []SemaphoreExact
<1>1. Inv => SemaphoreExact
  BY OneInsideCounts DEF Inv
<1> QED
  BY InvInit, InvStep, <1>1, PTL DEF Spec

\* tx: no message goes to the address of one device with the port of another,
\* though the address is copied in two parts and processes are killed between.
THEOREM AddressesWhole == Spec => []NeverTorn
<1>1. Inv => NeverTorn
  BY DEF Inv, Untorn
<1> QED
  BY InvInit, InvStep, <1>1, PTL DEF Spec

\* get_addr: a transmitter that has seen the nonce has the address.
THEOREM Knows == Spec => []KnowsWhatItSaw
<1>1. Inv => KnowsWhatItSaw
  <2> SUFFICES ASSUME Inv, NEW t \in up, sem = 1, last[t] = nonce, nonce # 0
               PROVE  dst[t] = addr
    BY DEF KnowsWhatItSaw
  <2>1. Insiders = {} /\ lost = {}
    BY DEF Inv, OneInside
  <2>2. \A p \in Procs : pc[p] \notin Inside
    BY <2>1 DEF Insiders
  <2>3. t \in Transmitters
    BY DEF Inv, TypeOK
  <2>4. Current(t)
    BY <2>1, <2>2, <2>3 DEF Current, Unannounced, Procs, Inside
  <2> QED
    BY <2>3, <2>4 DEF Inv, Known
<1> QED
  BY InvInit, InvStep, <1>1, PTL DEF Spec

\* update_addr: a receiver drops no more than block_count addresses in a row.
THEOREM Bounded == Spec => []DropsBounded
<1>1. Inv => DropsBounded
  BY NetworkAssumption DEF Inv, DropsCounted, DropsBounded, TypeOK, Procs
<1> QED
  BY InvInit, InvStep, <1>1, PTL DEF Spec
=============================================================================
