------------------------ MODULE ShmLifecycle_proofs ------------------------
(***************************************************************************)
(* Proofs about the life of the shared memory, for any number of packets,  *)
(* of other libraries and of processes: a client that has opened the       *)
(* telemetry blocks finds them initialised, racing runs of shmctl leave    *)
(* every block or none, and a failed creation leaves the beginning of a    *)
(* part.                                                                   *)
(*                                                                         *)
(* First come the shapes of the scripts, read off their definitions; then  *)
(* what each step does to the kernel and to the position of the process;   *)
(* then one invariant after the other, each from those before it.          *)
(***************************************************************************)
EXTENDS ShmLifecycle, SequenceTheorems, TLAPS

\* The calls of a script at a part, and the blocks of that part.
Calls(s, P) == Parts[s][P]
PartBlocks(P) ==
  IF P = 1 THEN PacketBlocks \cup {Master} ELSE {<<"other", Others[P - 1]>>}
NumParts == Len(Others) + 1
PartsOf(s) == IF s = "open" THEN 1 ELSE NumParts

At(p, P) == script[p] # "idle" /\ pos[p][1] = P
CallsOf(p) == Calls(script[p], pos[p][1])

-----------------------------------------------------------------------------
\* Where each process is, and which segments there are.
Placed ==
  /\ script \in [Procs -> {"on", "off", "open", "idle"}]
  /\ \A p \in Controllers : script[p] # "open"
  /\ \A p \in Clients : script[p] \in {"open", "idle"}
  /\ pos \in [Procs -> Nat \X Nat]
  /\ \A p \in Procs : script[p] # "idle" =>
       pos[p][1] \in 1 .. PartsOf(script[p]) /\ pos[p][2] \in 1 .. Len(CallsOf(p))
  /\ opened \subseteq Clients /\ \A p \in opened : script[p] = "idle"

Numbers ==
  /\ segment \in [Blocks -> Nat] /\ made \in [Blocks -> Nat]
  /\ \A b \in Blocks : segment[b] \in {0, made[b]}
  /\ ready \subseteq Blocks \X Nat
  /\ got \in [Procs -> [Blocks -> Nat]]
  /\ \A p \in Procs, b \in Blocks : got[p][b] <= made[b]
  /\ faults \in Nat

Exclusive == ~(Running("on") /\ Running("off"))

\* What the calls a process has done in its part still say of the blocks.
Holds(p, c) ==
  /\ c.op \in {"create", "init"} => segment[c.block] # 0
  /\ c.op = "init" => <<c.block, segment[c.block]>> \in ready
  /\ c.op = "attach" => got[p][c.block] # 0
  /\ c.op = "attach" /\ script[p] = "off" => segment[c.block] \in {0, got[p][c.block]}
  /\ c.op = "destroy" => segment[c.block] = 0
Done ==
  \A p \in Procs : script[p] # "idle" =>
    \A k \in 1 .. pos[p][2] - 1 : Holds(p, CallsOf(p)[k])

\* A process that destroys the blocks of a part.
Leaves(p, P) == At(p, P) /\ script[p] = "off" /\ CallsOf(p)[pos[p][2]].op = "destroy"

InOrder ==
  \A i, j \in {k \in DOMAIN CreateTelemetry : CreateTelemetry[k].op = "create"} :
    i < j /\ segment[CreateTelemetry[j].block] # 0 => segment[CreateTelemetry[i].block] # 0
Orderly == (\E p \in Procs : Leaves(p, 1)) \/ InOrder

NonceBlocks == {b \in PacketBlocks : b[1] # "data"}
Readiness ==
  segment[Master] # 0 \/ (\E p \in Procs : Leaves(p, 1)) =>
    \A b \in NonceBlocks : segment[b] # 0 => <<b, segment[b]>> \in ready
Past == \A b \in NonceBlocks : \A n \in 1 .. made[b] : n # segment[b] => <<b, n>> \in ready

-----------------------------------------------------------------------------
\* A process that has created a part up to where it is.
Owns(p, P) == At(p, P) /\ script[p] = "on" /\ pos[p][2] > 1
Untouched(P) == \A b \in PartBlocks(P) : segment[b] = 0
Complete(P) ==
  \A b \in PartBlocks(P) : segment[b] # 0 /\ (b[1] # "data" => <<b, segment[b]>> \in ready)

Single == \A p, q \in Procs, P \in 1 .. NumParts : Owns(p, P) /\ Owns(q, P) => p = q
Ahead ==
  \A p \in Procs, P \in 1 .. NumParts : Owns(p, P) =>
    \A k \in pos[p][2] .. Len(Calls("on", P)) :
      Calls("on", P)[k].op = "create" => segment[Calls("on", P)[k].block] = 0
Settled ==
  \A P \in 1 .. NumParts :
    \/ Untouched(P) \/ Complete(P)
    \/ \E p \in Procs : Owns(p, P) \/ Leaves(p, P)
Behind ==
  \A p \in Procs : \A P \in 1 .. pos[p][1] - 1 :
    /\ script[p] = "on" => ~Untouched(P)
    /\ script[p] = "off" => ~Complete(P)
AtRest ==
  ~Running("on") /\ ~Running("off") =>
    (\A P \in 1 .. NumParts : Untouched(P)) \/ (\A P \in 1 .. NumParts : Complete(P))
Whole == faults = 0 => Single /\ Ahead /\ Settled /\ Behind /\ AtRest


-----------------------------------------------------------------------------
(***************************************************************************)
(* The shapes of the scripts.  The parts are read off their definitions    *)
(* once, in these lemmas; the rest of the module uses the shapes alone.    *)
(***************************************************************************)
Made(c, B) ==
  /\ Len(c) \in Nat \ {0} /\ DOMAIN c = 1 .. Len(c)
  /\ \A k \in 1 .. Len(c) : c[k].op \in {"create", "init"} /\ c[k].block \in B
  /\ c[1].op = "create"
  /\ \A j, k \in 1 .. Len(c) :
       c[j].op = "create" /\ c[k].op = "create" /\ c[j].block = c[k].block => j = k
  /\ \A k \in 1 .. Len(c) : c[k].op = "init" =>
       \E j \in 1 .. k - 1 : c[j].op = "create" /\ c[j].block = c[k].block
  /\ \A b \in B : \E k \in 1 .. Len(c) : c[k].op = "create" /\ c[k].block = b
  /\ \A b \in B : b[1] # "data" => \E k \in 1 .. Len(c) : c[k].op = "init" /\ c[k].block = b

Unmade(c, B) ==
  /\ Len(c) \in Nat \ {0} /\ DOMAIN c = 1 .. Len(c)
  /\ \A k \in 1 .. Len(c) : c[k].op \in {"attach", "destroy"} /\ c[k].block \in B
  /\ c[1].op = "attach"
  /\ \A j, k \in 1 .. Len(c) : j <= k /\ c[j].op = "destroy" => c[k].op = "destroy"
  /\ \A b \in B : \E k \in 1 .. Len(c) : c[k].op = "attach" /\ c[k].block = b
  /\ \A b \in B : \E k \in 1 .. Len(c) : c[k].op = "destroy" /\ c[k].block = b
  /\ c[Len(c)].op = "destroy"

Reached(c, B) ==
  /\ Len(c) \in Nat \ {0} /\ DOMAIN c = 1 .. Len(c)
  /\ \A k \in 1 .. Len(c) : c[k].op = "attach" /\ c[k].block \in B
  /\ \A b \in B : \E k \in 1 .. Len(c) : c[k].block = b
  /\ c[Len(c)].block = Master

LEMMA Joined ==
  ASSUME NEW s, NEW t, NEW m \in Nat, NEW n \in Nat,
         s = [k \in 1 .. m |-> s[k]], t = [k \in 1 .. n |-> t[k]]
  PROVE  /\ Len(s \o t) = m + n
         /\ DOMAIN (s \o t) = 1 .. m + n
         /\ \A k \in 1 .. m + n : (s \o t)[k] = IF k <= m THEN s[k] ELSE t[k - m]
<1> DEFINE S == {s[k] : k \in 1 .. m} \cup {t[k] : k \in 1 .. n}
<1>1. s \in Seq(S) /\ t \in Seq(S)
  <2>1. s \in [1 .. m -> S] /\ t \in [1 .. n -> S]
    OBVIOUS
  <2> QED
    BY <2>1
<1>2. Len(s) = m /\ Len(t) = n
  <2>1. DOMAIN s = 1 .. m /\ DOMAIN t = 1 .. n
    OBVIOUS
  <2> HIDE DEF S
  <2> QED
    BY <1>1, <2>1
<1> HIDE DEF S
<1>3. /\ s \o t \in Seq(S)
      /\ Len(s \o t) = m + n
      /\ \A k \in 1 .. m + n : (s \o t)[k] = IF k <= m THEN s[k] ELSE t[k - m]
  BY <1>1, <1>2, ConcatProperties
<1> QED
  BY <1>3

LEMMA Longer ==
  ASSUME NEW s, NEW x, NEW n \in Nat, s = [k \in 1 .. n |-> s[k]]
  PROVE  /\ Append(s, x) = [k \in 1 .. n + 1 |-> Append(s, x)[k]]
         /\ \A k \in 1 .. n : Append(s, x)[k] = s[k]
         /\ Append(s, x)[n + 1] = x
<1> DEFINE S == {s[k] : k \in 1 .. n} \cup {x}
           a == Append(s, x)
<1>1. s \in Seq(S) /\ x \in S
  <2>1. s \in [1 .. n -> S]
    OBVIOUS
  <2> QED
    BY <2>1
<1>2. Len(s) = n
  <2>1. DOMAIN s = 1 .. n
    OBVIOUS
  <2> HIDE DEF S
  <2> QED
    BY <1>1, <2>1
<1> HIDE DEF S
<1>3. /\ a \in Seq(S) /\ Len(a) = n + 1
      /\ \A k \in 1 .. n : a[k] = s[k]
      /\ a[n + 1] = x
  BY <1>1, <1>2, AppendProperties
<1> HIDE DEF a
<1>4. a = [k \in 1 .. n + 1 |-> a[k]]
  BY <1>3
<1> QED
  BY <1>3, <1>4 DEF a

\* The calls for the packets, and those for the master block after them.
LEMMA CreateShape ==
  /\ Len(CreateTelemetry) = 5 * NumPackets + 2
  /\ DOMAIN CreateTelemetry = 1 .. 5 * NumPackets + 2
  /\ \A i \in 1 .. NumPackets, m \in 1 .. 5 : CreateTelemetry[5 * i - 5 + m] = NewPacket(i)[m]
  /\ \A k \in 1 .. 5 * NumPackets : \E i \in 1 .. NumPackets, m \in 1 .. 5 : k = 5 * i - 5 + m
  /\ CreateTelemetry[5 * NumPackets + 1] = Call("create", Master)
  /\ CreateTelemetry[5 * NumPackets + 2] = Call("init", Master)
<1> DEFINE e == Each(5, NewPacket)
           m2 == <<Call("create", Master), Call("init", Master)>>
<1>1. NumPackets \in Nat
  BY LifecycleAssumption
<1>2. e = [k \in 1 .. 5 * NumPackets |-> NewPacket(((k - 1) \div 5) + 1)[((k - 1) % 5) + 1]]
  BY DEF Each
<1>3. /\ Len(e \o m2) = 5 * NumPackets + 2
      /\ DOMAIN (e \o m2) = 1 .. 5 * NumPackets + 2
      /\ \A k \in 1 .. 5 * NumPackets : (e \o m2)[k] = e[k]
      /\ (e \o m2)[5 * NumPackets + 1] = m2[1] /\ (e \o m2)[5 * NumPackets + 2] = m2[2]
  <2> HIDE DEF e, m2
  <2>1. e = [k \in 1 .. 5 * NumPackets |-> e[k]] /\ m2 = [k \in 1 .. 2 |-> m2[k]]
    <3>1. m2 = [k \in 1 .. 2 |-> m2[k]]
      BY DEF m2
    <3> QED
      BY <1>2, <3>1
  <2>2. 5 * NumPackets \in Nat
    BY <1>1
  <2>3. /\ Len(e \o m2) = 5 * NumPackets + 2
        /\ DOMAIN (e \o m2) = 1 .. 5 * NumPackets + 2
        /\ \A k \in 1 .. 5 * NumPackets + 2 :
             (e \o m2)[k] = IF k <= 5 * NumPackets THEN e[k] ELSE m2[k - 5 * NumPackets]
    BY <2>1, <2>2, Joined
  <2>4. /\ (e \o m2)[5 * NumPackets + 1] = m2[1] /\ (e \o m2)[5 * NumPackets + 2] = m2[2]
    <3> DEFINE z == 5 * NumPackets
    <3>1. z \in Nat /\ z + 1 \in 1 .. z + 2 /\ z + 2 \in 1 .. z + 2 /\ ~(z + 1 <= z) /\ ~(z + 2 <= z)
          /\ z + 1 - z = 1 /\ z + 2 - z = 2
      BY <2>2
    <3>2. \A k \in 1 .. z + 2 : (e \o m2)[k] = IF k <= z THEN e[k] ELSE m2[k - z]
      BY <2>3
    <3> HIDE DEF z
    <3> DEFINE y == e \o m2
               u == z + 1
               v == z + 2
    <3> HIDE DEF y, u, v
    <3>3. (u \in 1 .. z + 2 => y[u] = IF u <= z THEN e[u] ELSE m2[u - z])
          /\ (v \in 1 .. z + 2 => y[v] = IF v <= z THEN e[v] ELSE m2[v - z])
      BY <3>2 DEF y
    <3>4. y[u] = m2[1] /\ y[v] = m2[2]
      BY <3>1, <3>3 DEF u, v
    <3> QED
      BY <3>4 DEF z, y, u, v
  <2>5. \A k \in 1 .. 5 * NumPackets : (e \o m2)[k] = e[k]
    BY <2>2, <2>3
  <2> QED
    BY <2>3, <2>4, <2>5
<1>4. \A i \in 1 .. NumPackets, m \in 1 .. 5 :
        /\ 5 * i - 5 + m \in 1 .. 5 * NumPackets
        /\ ((5 * i - 5 + m - 1) \div 5) + 1 = i /\ ((5 * i - 5 + m - 1) % 5) + 1 = m
  BY <1>1
<1>5. \A k \in 1 .. 5 * NumPackets : \E i \in 1 .. NumPackets, m \in 1 .. 5 : k = 5 * i - 5 + m
  <2> SUFFICES ASSUME NEW k \in 1 .. 5 * NumPackets
               PROVE  \E i \in 1 .. NumPackets, m \in 1 .. 5 : k = 5 * i - 5 + m
    OBVIOUS
  <2> DEFINE i == ((k - 1) \div 5) + 1
             m == ((k - 1) % 5) + 1
  <2>1. i \in 1 .. NumPackets /\ m \in 1 .. 5 /\ k = 5 * i - 5 + m
    BY <1>1
  <2> QED
    BY <2>1
<1>6. m2[1] = Call("create", Master) /\ m2[2] = Call("init", Master) /\ CreateTelemetry = e \o m2
  BY DEF CreateTelemetry
<1>7. \A i \in 1 .. NumPackets, m \in 1 .. 5 : e[5 * i - 5 + m] = NewPacket(i)[m]
  <2> TAKE i \in 1 .. NumPackets, m \in 1 .. 5
  <2>1. e[5 * i - 5 + m] = NewPacket(((5 * i - 5 + m - 1) \div 5) + 1)[((5 * i - 5 + m - 1) % 5) + 1]
    <3> HIDE DEF e
    <3>1. 5 * i - 5 + m \in 1 .. 5 * NumPackets
      BY <1>4
    <3> QED
      BY <1>2, <3>1
  <2> QED
    BY <1>4, <2>1
<1> HIDE DEF e, m2
<1> QED
  BY <1>3, <1>4, <1>5, <1>6, <1>7

\* The same for a loop that makes one call for each block.
LEMMA TelemetryShape ==
  ASSUME NEW op
  PROVE  /\ Telemetry(op) = [k \in 1 .. 3 * NumPackets + 1 |-> Telemetry(op)[k]]
         /\ \A i \in 1 .. NumPackets, m \in 1 .. 3 : Telemetry(op)[3 * i - 3 + m] = Packet(op, i)[m]
         /\ \A k \in 1 .. 3 * NumPackets : \E i \in 1 .. NumPackets, m \in 1 .. 3 : k = 3 * i - 3 + m
         /\ Telemetry(op)[3 * NumPackets + 1] = Call(op, Master)
<1> DEFINE e == EachPacket(op)
           z == 3 * NumPackets
<1>1. NumPackets \in Nat /\ z \in Nat
  BY LifecycleAssumption
<1>2. e = [k \in 1 .. z |-> Packet(op, ((k - 1) \div 3) + 1)[((k - 1) % 3) + 1]]
  BY DEF EachPacket, Each
<1>3. \A i \in 1 .. NumPackets, m \in 1 .. 3 :
        /\ 3 * i - 3 + m \in 1 .. z
        /\ ((3 * i - 3 + m - 1) \div 3) + 1 = i /\ ((3 * i - 3 + m - 1) % 3) + 1 = m
  BY <1>1
<1>4. \A k \in 1 .. z : \E i \in 1 .. NumPackets, m \in 1 .. 3 : k = 3 * i - 3 + m
  <2> SUFFICES ASSUME NEW k \in 1 .. z
               PROVE  \E i \in 1 .. NumPackets, m \in 1 .. 3 : k = 3 * i - 3 + m
    OBVIOUS
  <2> DEFINE i == ((k - 1) \div 3) + 1
             m == ((k - 1) % 3) + 1
  <2>1. i \in 1 .. NumPackets /\ m \in 1 .. 3 /\ k = 3 * i - 3 + m
    BY <1>1
  <2> QED
    BY <2>1
<1>5. \A i \in 1 .. NumPackets, m \in 1 .. 3 : e[3 * i - 3 + m] = Packet(op, i)[m]
  <2> TAKE i \in 1 .. NumPackets, m \in 1 .. 3
  <2> HIDE DEF e, z
  <2>1. 3 * i - 3 + m \in 1 .. z
    BY <1>3
  <2>2. e[3 * i - 3 + m]
          = Packet(op, ((3 * i - 3 + m - 1) \div 3) + 1)[((3 * i - 3 + m - 1) % 3) + 1]
    BY <1>2, <2>1
  <2> QED
    BY <1>3, <2>2
<1>6. Telemetry(op) = Append(e, Call(op, Master))
  BY DEF Telemetry
<1>7. e = [k \in 1 .. z |-> e[k]]
  BY <1>2
<1> HIDE DEF e, z
<1>8. /\ Telemetry(op) = [k \in 1 .. z + 1 |-> Telemetry(op)[k]]
      /\ \A k \in 1 .. z : Telemetry(op)[k] = e[k]
      /\ Telemetry(op)[z + 1] = Call(op, Master)
  BY <1>1, <1>6, <1>7, Longer
<1>9. \A i \in 1 .. NumPackets, m \in 1 .. 3 : Telemetry(op)[3 * i - 3 + m] = Packet(op, i)[m]
  BY <1>3, <1>5, <1>8
<1> QED
  BY <1>4, <1>8, <1>9 DEF z

\* Switching off attaches to every block before it destroys the first.
LEMMA DestroyShape ==
  LET c == Telemetry("attach") \o DestroyTelemetry
      n == 3 * NumPackets + 1
  IN  /\ Len(c) = n + n /\ DOMAIN c = 1 .. n + n
      /\ \A k \in 1 .. n : c[k] = Telemetry("attach")[k] /\ c[n + k] = Telemetry("destroy")[k]
      /\ \A k \in 1 .. n + n : k \in 1 .. n \/ \E j \in 1 .. n : k = n + j
<1> DEFINE s == Telemetry("attach")
           t == DestroyTelemetry
           n == 3 * NumPackets + 1
           c == s \o t
<1>1. n \in Nat
  BY LifecycleAssumption
<1>2. s = [k \in 1 .. n |-> s[k]] /\ t = [k \in 1 .. n |-> t[k]] /\ t = Telemetry("destroy")
  BY TelemetryShape DEF DestroyTelemetry
<1> HIDE DEF s, t, n
<1>3. /\ Len(c) = n + n /\ DOMAIN c = 1 .. n + n
      /\ \A k \in 1 .. n + n : c[k] = IF k <= n THEN s[k] ELSE t[k - n]
  BY <1>1, <1>2, Joined
<1> HIDE DEF c
<1>4. \A k \in 1 .. n : c[k] = s[k] /\ c[n + k] = t[k]
  <2> TAKE k \in 1 .. n
  <2> DEFINE j == n + k
  <2>1. k \in 1 .. n + n /\ k <= n /\ j \in 1 .. n + n /\ ~(j <= n) /\ j - n = k
    BY <1>1
  <2> HIDE DEF j
  <2>2. c[k] = s[k] /\ c[j] = t[k]
    BY <1>3, <2>1
  <2> QED
    BY <2>2 DEF j
<1>5. \A k \in 1 .. n + n : k \in 1 .. n \/ \E j \in 1 .. n : k = n + j
  <2> TAKE k \in 1 .. n + n
  <2>1. CASE k <= n
    BY <1>1, <2>1
  <2>2. CASE k > n
    <3>1. k - n \in 1 .. n /\ k = n + (k - n)
      BY <1>1, <2>2
    <3> QED
      BY <3>1
  <2> QED
    BY <1>1, <2>1, <2>2
<1> QED
  BY <1>2, <1>3, <1>4, <1>5 DEF c, n, s, t

\* The calls for each packet, one by one.
LEMMA PacketCalls ==
  /\ \A i : /\ NewPacket(i)[1] = Call("create", <<"data", i>>)
            /\ NewPacket(i)[2] = Call("create", <<"info", i>>)
            /\ NewPacket(i)[3] = Call("create", <<"lock", i>>)
            /\ NewPacket(i)[4] = Call("init", <<"info", i>>)
            /\ NewPacket(i)[5] = Call("init", <<"lock", i>>)
  /\ \A op, i : /\ Packet(op, i)[1] = Call(op, <<"data", i>>)
                /\ Packet(op, i)[2] = Call(op, <<"info", i>>)
                /\ Packet(op, i)[3] = Call(op, <<"lock", i>>)
  /\ \A op, b : Call(op, b).op = op /\ Call(op, b).block = b
BY DEF NewPacket, Packet, Call

LEMMA PacketBlock ==
  /\ \A b \in PacketBlocks :
       b[1] \in {"data", "info", "lock"} /\ b[2] \in 1 .. NumPackets /\ b = <<b[1], b[2]>>
  /\ \A i \in 1 .. NumPackets :
       /\ <<"data", i>> \in PacketBlocks /\ <<"info", i>> \in PacketBlocks
       /\ <<"lock", i>> \in PacketBlocks
  /\ Master \notin PacketBlocks /\ Master[1] # "data"
BY DEF PacketBlocks, Master

\* What each call of a loop is.
LEMMA CreateCalls ==
  LET c == CreateTelemetry
  IN  /\ \A i \in 1 .. NumPackets :
           /\ c[5 * i - 4] = Call("create", <<"data", i>>)
           /\ c[5 * i - 3] = Call("create", <<"info", i>>)
           /\ c[5 * i - 2] = Call("create", <<"lock", i>>)
           /\ c[5 * i - 1] = Call("init", <<"info", i>>)
           /\ c[5 * i] = Call("init", <<"lock", i>>)
      /\ \A k \in 1 .. 5 * NumPackets : \E i \in 1 .. NumPackets :
           k \in {5 * i - 4, 5 * i - 3, 5 * i - 2, 5 * i - 1, 5 * i}
<1>1. NumPackets \in Nat
  BY LifecycleAssumption
<1>2. ASSUME NEW i \in 1 .. NumPackets
      PROVE  /\ CreateTelemetry[5 * i - 4] = Call("create", <<"data", i>>)
             /\ CreateTelemetry[5 * i - 3] = Call("create", <<"info", i>>)
             /\ CreateTelemetry[5 * i - 2] = Call("create", <<"lock", i>>)
             /\ CreateTelemetry[5 * i - 1] = Call("init", <<"info", i>>)
             /\ CreateTelemetry[5 * i] = Call("init", <<"lock", i>>)
  <2>1. \A m \in 1 .. 5 : CreateTelemetry[5 * i - 5 + m] = NewPacket(i)[m]
    BY CreateShape
  <2>2. /\ CreateTelemetry[5 * i - 5 + 1] = NewPacket(i)[1]
        /\ CreateTelemetry[5 * i - 5 + 2] = NewPacket(i)[2]
        /\ CreateTelemetry[5 * i - 5 + 3] = NewPacket(i)[3]
        /\ CreateTelemetry[5 * i - 5 + 4] = NewPacket(i)[4]
        /\ CreateTelemetry[5 * i - 5 + 5] = NewPacket(i)[5]
    <3>1. 1 \in 1 .. 5 /\ 2 \in 1 .. 5 /\ 3 \in 1 .. 5 /\ 4 \in 1 .. 5 /\ 5 \in 1 .. 5
      OBVIOUS
    <3> QED
      BY <2>1, <3>1
  <2>3. /\ 5 * i - 5 + 1 = 5 * i - 4 /\ 5 * i - 5 + 2 = 5 * i - 3 /\ 5 * i - 5 + 3 = 5 * i - 2
        /\ 5 * i - 5 + 4 = 5 * i - 1 /\ 5 * i - 5 + 5 = 5 * i
    BY <1>1
  <2> QED
    BY <2>2, <2>3, PacketCalls
<1>3. ASSUME NEW k \in 1 .. 5 * NumPackets
      PROVE  \E i \in 1 .. NumPackets : k \in {5 * i - 4, 5 * i - 3, 5 * i - 2, 5 * i - 1, 5 * i}
  <2>1. PICK i \in 1 .. NumPackets, m \in 1 .. 5 : k = 5 * i - 5 + m
    BY CreateShape
  <2>2. k \in {5 * i - 4, 5 * i - 3, 5 * i - 2, 5 * i - 1, 5 * i}
    BY <1>1, <2>1
  <2> QED
    BY <2>2
<1> QED
  BY <1>2, <1>3

LEMMA TelemetryCalls ==
  ASSUME NEW op
  PROVE  /\ \A i \in 1 .. NumPackets :
              /\ Telemetry(op)[3 * i - 2] = Call(op, <<"data", i>>)
              /\ Telemetry(op)[3 * i - 1] = Call(op, <<"info", i>>)
              /\ Telemetry(op)[3 * i] = Call(op, <<"lock", i>>)
         /\ \A k \in 1 .. 3 * NumPackets : \E i \in 1 .. NumPackets :
              k \in {3 * i - 2, 3 * i - 1, 3 * i}
<1>1. NumPackets \in Nat
  BY LifecycleAssumption
<1>2. ASSUME NEW i \in 1 .. NumPackets
      PROVE  /\ Telemetry(op)[3 * i - 2] = Call(op, <<"data", i>>)
             /\ Telemetry(op)[3 * i - 1] = Call(op, <<"info", i>>)
             /\ Telemetry(op)[3 * i] = Call(op, <<"lock", i>>)
  <2>1. \A m \in 1 .. 3 : Telemetry(op)[3 * i - 3 + m] = Packet(op, i)[m]
    BY TelemetryShape
  <2>2. /\ Telemetry(op)[3 * i - 3 + 1] = Packet(op, i)[1]
        /\ Telemetry(op)[3 * i - 3 + 2] = Packet(op, i)[2]
        /\ Telemetry(op)[3 * i - 3 + 3] = Packet(op, i)[3]
    <3>1. 1 \in 1 .. 3 /\ 2 \in 1 .. 3 /\ 3 \in 1 .. 3
      OBVIOUS
    <3> QED
      BY <2>1, <3>1
  <2>3. 3 * i - 3 + 1 = 3 * i - 2 /\ 3 * i - 3 + 2 = 3 * i - 1 /\ 3 * i - 3 + 3 = 3 * i
    BY <1>1
  <2> QED
    BY <2>2, <2>3, PacketCalls
<1>3. ASSUME NEW k \in 1 .. 3 * NumPackets
      PROVE  \E i \in 1 .. NumPackets : k \in {3 * i - 2, 3 * i - 1, 3 * i}
  <2>1. PICK i \in 1 .. NumPackets, m \in 1 .. 3 : k = 3 * i - 3 + m
    BY TelemetryShape
  <2>2. k \in {3 * i - 2, 3 * i - 1, 3 * i}
    BY <1>1, <2>1
  <2> QED
    BY <2>2
<1> QED
  BY <1>2, <1>3

\* Each block of a packet is called for once in each loop, at its own place.
LEMMA Attached ==
  ASSUME NEW op
  PROVE  LET c == Telemetry(op)
             n == 3 * NumPackets + 1
         IN  /\ n \in Nat \ {0}
             /\ \A k \in 1 .. n : c[k].op = op /\ c[k].block \in PartBlocks(1)
             /\ \A b \in PartBlocks(1) : \E k \in 1 .. n : c[k].block = b
             /\ c[n].block = Master
<1> DEFINE c == Telemetry(op)
           n == 3 * NumPackets + 1
<1>1. NumPackets \in Nat /\ n \in Nat \ {0} /\ n \in 1 .. n
  BY LifecycleAssumption
<1>2. c[n].op = op /\ c[n].block = Master
  BY TelemetryShape, PacketCalls
<1>3. ASSUME NEW k \in 1 .. n
      PROVE  c[k].op = op /\ c[k].block \in PartBlocks(1)
  <2>1. CASE k = n
    BY <1>2, <2>1 DEF PartBlocks
  <2>2. CASE k # n
    <3>1. k \in 1 .. 3 * NumPackets
      BY <1>1, <2>2
    <3>2. PICK i \in 1 .. NumPackets : k \in {3 * i - 2, 3 * i - 1, 3 * i}
      BY <3>1, TelemetryCalls
    <3>3. c[k] \in {Call(op, <<"data", i>>), Call(op, <<"info", i>>), Call(op, <<"lock", i>>)}
      BY <3>2, TelemetryCalls
    <3> QED
      BY <3>3, PacketCalls, PacketBlock DEF PartBlocks
  <2> QED
    BY <2>1, <2>2
<1>4. ASSUME NEW b \in PartBlocks(1)
      PROVE  \E k \in 1 .. n : c[k].block = b
  <2>1. CASE b = Master
    BY <1>1, <1>2, <2>1
  <2>2. CASE b \in PacketBlocks
    <3>1. PICK i \in 1 .. NumPackets : b \in {<<"data", i>>, <<"info", i>>, <<"lock", i>>}
      BY <2>2, PacketBlock
    <3>2. 3 * i - 2 \in 1 .. n /\ 3 * i - 1 \in 1 .. n /\ 3 * i \in 1 .. n
      BY <1>1
    <3>3. /\ c[3 * i - 2].block = <<"data", i>> /\ c[3 * i - 1].block = <<"info", i>>
          /\ c[3 * i].block = <<"lock", i>>
      <4>1. /\ c[3 * i - 2] = Call(op, <<"data", i>>) /\ c[3 * i - 1] = Call(op, <<"info", i>>)
            /\ c[3 * i] = Call(op, <<"lock", i>>)
        BY TelemetryCalls
      <4> QED
        BY <4>1, PacketCalls
    <3> HIDE DEF c, n
    <3> QED
      BY <3>1, <3>2, <3>3
  <2> QED
    BY <2>1, <2>2 DEF PartBlocks
<1> QED
  BY <1>1, <1>2, <1>3, <1>4

\* Telemetry is switched on: every block is created, every nonce and lock is
\* initialised after its block, and the master block comes after all of them.
LEMMA TelemetryMade == Made(CreateTelemetry, PartBlocks(1))
<1> DEFINE c == CreateTelemetry
           z == 5 * NumPackets
<1>1. NumPackets \in Nat /\ z \in Nat
  BY LifecycleAssumption
<1>2. /\ Len(c) = z + 2 /\ DOMAIN c = 1 .. z + 2
      /\ c[z + 1] = Call("create", Master) /\ c[z + 2] = Call("init", Master)
  BY CreateShape
<1>3. \A k \in 1 .. z + 2 : k \in 1 .. z \/ k = z + 1 \/ k = z + 2
  BY <1>1
<1>4. /\ \A i \in 1 .. NumPackets :
           /\ c[5 * i - 4] = Call("create", <<"data", i>>)
           /\ c[5 * i - 3] = Call("create", <<"info", i>>)
           /\ c[5 * i - 2] = Call("create", <<"lock", i>>)
           /\ c[5 * i - 1] = Call("init", <<"info", i>>)
           /\ c[5 * i] = Call("init", <<"lock", i>>)
      /\ \A k \in 1 .. z : \E i \in 1 .. NumPackets :
           k \in {5 * i - 4, 5 * i - 3, 5 * i - 2, 5 * i - 1, 5 * i}
  BY CreateCalls
<1>5. \A i \in 1 .. NumPackets :
        /\ 5 * i - 4 \in 1 .. z + 2 /\ 5 * i - 3 \in 1 .. z + 2 /\ 5 * i - 2 \in 1 .. z + 2
        /\ 5 * i - 1 \in 1 .. z + 2 /\ 5 * i \in 1 .. z + 2
        /\ 5 * i - 3 \in 1 .. (5 * i - 1) - 1 /\ 5 * i - 2 \in 1 .. 5 * i - 1
  BY <1>1
<1> HIDE DEF c, z
<1>6. \A k \in 1 .. z + 2 : c[k].op \in {"create", "init"} /\ c[k].block \in PartBlocks(1)
  <2> SUFFICES ASSUME NEW k \in 1 .. z + 2
               PROVE  c[k].op \in {"create", "init"} /\ c[k].block \in PartBlocks(1)
    OBVIOUS
  <2>1. CASE k \in 1 .. z
    <3>1. PICK i \in 1 .. NumPackets : k \in {5 * i - 4, 5 * i - 3, 5 * i - 2, 5 * i - 1, 5 * i}
      BY <1>4, <2>1
    <3>2. c[k] \in {Call("create", <<"data", i>>), Call("create", <<"info", i>>),
                    Call("create", <<"lock", i>>), Call("init", <<"info", i>>),
                    Call("init", <<"lock", i>>)}
      BY <1>4, <3>1
    <3> QED
      BY <3>2, PacketCalls, PacketBlock DEF PartBlocks
  <2>2. CASE k = z + 1 \/ k = z + 2
    BY <1>2, <2>2, PacketCalls DEF PartBlocks
  <2> QED
    BY <1>3, <2>1, <2>2
<1>7. c[1].op = "create"
  <2>1. CASE NumPackets = 0
    <3>1. z + 1 = 1
      BY <2>1 DEF z
    <3> QED
      BY <1>2, <3>1, PacketCalls
  <2>2. CASE NumPackets # 0
    <3>1. 1 \in 1 .. NumPackets /\ 5 * 1 - 4 = 1
      BY <1>1, <2>2
    <3>2. c[5 * 1 - 4] = Call("create", <<"data", 1>>)
      BY <1>4, <3>1
    <3> QED
      BY <3>1, <3>2, PacketCalls
  <2> QED
    BY <2>1, <2>2
<1>8. ASSUME NEW b \in PartBlocks(1)
      PROVE  \E j \in 1 .. z + 2 : c[j].op = "create" /\ c[j].block = b
  <2>1. CASE b = Master
    <3>1. z + 1 \in 1 .. z + 2
      BY <1>1
    <3> QED
      BY <1>2, <2>1, <3>1, PacketCalls
  <2>2. CASE b \in PacketBlocks
    <3>1. PICK i \in 1 .. NumPackets : b \in {<<"data", i>>, <<"info", i>>, <<"lock", i>>}
      BY <2>2, PacketBlock
    <3>2. \E j \in 1 .. z + 2 : c[j] = Call("create", b)
      BY <1>4, <1>5, <3>1
    <3> QED
      BY <3>2, PacketCalls
  <2> QED
    BY <2>1, <2>2 DEF PartBlocks
<1>9. ASSUME NEW b \in PartBlocks(1), b[1] # "data"
      PROVE  \E j \in 1 .. z + 2 : c[j].op = "init" /\ c[j].block = b
  <2>1. CASE b = Master
    <3>1. z + 2 \in 1 .. z + 2
      BY <1>1
    <3> QED
      BY <1>2, <2>1, <3>1, PacketCalls
  <2>2. CASE b \in PacketBlocks
    <3>1. PICK i \in 1 .. NumPackets : b \in {<<"info", i>>, <<"lock", i>>}
      BY <1>9, <2>2, PacketBlock
    <3>2. \E j \in 1 .. z + 2 : c[j] = Call("init", b)
      BY <1>4, <1>5, <3>1
    <3> QED
      BY <3>2, PacketCalls
  <2> QED
    BY <2>1, <2>2 DEF PartBlocks
<1>10. ASSUME NEW k \in 1 .. z + 2, c[k].op = "init"
       PROVE  \E j \in 1 .. k - 1 : c[j].op = "create" /\ c[j].block = c[k].block
  <2>1. CASE k \in 1 .. z
    <3>1. PICK i \in 1 .. NumPackets : k \in {5 * i - 4, 5 * i - 3, 5 * i - 2, 5 * i - 1, 5 * i}
      BY <1>4, <2>1
    <3>2. /\ c[5 * i - 4].op = "create" /\ c[5 * i - 4].block = <<"data", i>>
          /\ c[5 * i - 3].op = "create" /\ c[5 * i - 3].block = <<"info", i>>
          /\ c[5 * i - 2].op = "create" /\ c[5 * i - 2].block = <<"lock", i>>
          /\ c[5 * i - 1].op = "init" /\ c[5 * i - 1].block = <<"info", i>>
          /\ c[5 * i].op = "init" /\ c[5 * i].block = <<"lock", i>>
      <4>1. /\ c[5 * i - 4] = Call("create", <<"data", i>>)
            /\ c[5 * i - 3] = Call("create", <<"info", i>>)
            /\ c[5 * i - 2] = Call("create", <<"lock", i>>)
            /\ c[5 * i - 1] = Call("init", <<"info", i>>)
            /\ c[5 * i] = Call("init", <<"lock", i>>)
        BY <1>4
      <4> QED
        BY <4>1, PacketCalls
    <3>3. k = 5 * i - 1 \/ k = 5 * i
      BY <1>10, <3>1, <3>2
    <3>4. CASE k = 5 * i - 1
      <4>1. c[5 * i - 3].op = "create" /\ c[5 * i - 3].block = c[k].block
        BY <3>4, <3>2
      <4> QED
        BY <1>5, <3>4, <4>1
    <3>5. CASE k = 5 * i
      <4>1. c[5 * i - 2].op = "create" /\ c[5 * i - 2].block = c[k].block
        BY <3>5, <3>2
      <4> QED
        BY <1>5, <3>5, <4>1
    <3> QED
      BY <3>3, <3>4, <3>5
  <2>2. CASE k = z + 1
    BY <1>2, <1>10, <2>2, PacketCalls
  <2>3. CASE k = z + 2
    <3>1. z + 1 \in 1 .. k - 1
      BY <1>1, <2>3
    <3> QED
      BY <1>2, <2>3, <3>1, PacketCalls
  <2> QED
    BY <1>3, <2>1, <2>2, <2>3
<1>11. ASSUME NEW j \in 1 .. z + 2, NEW k \in 1 .. z + 2,
              c[j].op = "create", c[k].op = "create", c[j].block = c[k].block
       PROVE  j = k
  <2>1. \A n \in 1 .. z + 2 : c[n].op = "create" =>
          \/ n = z + 1 /\ c[n].block = Master
          \/ \E i \in 1 .. NumPackets :
               \/ n = 5 * i - 4 /\ c[n].block = <<"data", i>>
               \/ n = 5 * i - 3 /\ c[n].block = <<"info", i>>
               \/ n = 5 * i - 2 /\ c[n].block = <<"lock", i>>
    <3> SUFFICES ASSUME NEW n \in 1 .. z + 2, c[n].op = "create", n # z + 1
                 PROVE  \E i \in 1 .. NumPackets :
                          \/ n = 5 * i - 4 /\ c[n].block = <<"data", i>>
                          \/ n = 5 * i - 3 /\ c[n].block = <<"info", i>>
                          \/ n = 5 * i - 2 /\ c[n].block = <<"lock", i>>
      BY <1>2, PacketCalls
    <3>1. n \in 1 .. z
      BY <1>2, <1>3, PacketCalls
    <3>2. PICK i \in 1 .. NumPackets : n \in {5 * i - 4, 5 * i - 3, 5 * i - 2, 5 * i - 1, 5 * i}
      BY <1>4, <3>1
    <3>3. /\ c[5 * i - 4].op = "create" /\ c[5 * i - 4].block = <<"data", i>>
          /\ c[5 * i - 3].op = "create" /\ c[5 * i - 3].block = <<"info", i>>
          /\ c[5 * i - 2].op = "create" /\ c[5 * i - 2].block = <<"lock", i>>
          /\ c[5 * i - 1].op = "init" /\ c[5 * i - 1].block = <<"info", i>>
          /\ c[5 * i].op = "init" /\ c[5 * i].block = <<"lock", i>>
      <4>1. /\ c[5 * i - 4] = Call("create", <<"data", i>>)
            /\ c[5 * i - 3] = Call("create", <<"info", i>>)
            /\ c[5 * i - 2] = Call("create", <<"lock", i>>)
            /\ c[5 * i - 1] = Call("init", <<"info", i>>)
            /\ c[5 * i] = Call("init", <<"lock", i>>)
        BY <1>4
      <4> QED
        BY <4>1, PacketCalls
    <3> QED
      BY <3>2, <3>3
  <2>2. c[j].block # Master => c[j].block \in PacketBlocks
    BY <1>6 DEF PartBlocks
  <2>3. CASE c[j].block = Master
    <3>1. \A i \in 1 .. NumPackets :
            Master # <<"data", i>> /\ Master # <<"info", i>> /\ Master # <<"lock", i>>
      BY PacketBlock
    <3> QED
      BY <1>11, <2>1, <2>3, <3>1
  <2>4. CASE c[j].block # Master
    <3>1. PICK i \in 1 .. NumPackets : \/ j = 5 * i - 4 /\ c[j].block = <<"data", i>>
                                       \/ j = 5 * i - 3 /\ c[j].block = <<"info", i>>
                                       \/ j = 5 * i - 2 /\ c[j].block = <<"lock", i>>
      BY <1>11, <2>1, <2>4
    <3>2. PICK h \in 1 .. NumPackets : \/ k = 5 * h - 4 /\ c[k].block = <<"data", h>>
                                       \/ k = 5 * h - 3 /\ c[k].block = <<"info", h>>
                                       \/ k = 5 * h - 2 /\ c[k].block = <<"lock", h>>
      BY <1>11, <2>1, <2>4
    <3> QED
      BY <1>11, <3>1, <3>2
  <2> QED
    BY <2>3, <2>4
<1> QED
  BY <1>1, <1>2, <1>6, <1>7, <1>8, <1>9, <1>10, <1>11 DEF Made, c

\* The master block is the last to be created, after the last nonce and lock.
MasterLast(c) ==
  \A k \in 1 .. Len(c) : c[k].op = "create" /\ c[k].block = Master =>
    /\ \A b \in NonceBlocks : \E j \in 1 .. k - 1 : c[j].op = "init" /\ c[j].block = b
    /\ \A b \in PacketBlocks : \E j \in 1 .. k - 1 : c[j].op = "create" /\ c[j].block = b

LEMMA MasterMadeLast == MasterLast(CreateTelemetry)
<1> DEFINE c == CreateTelemetry
           z == 5 * NumPackets
<1>1. z \in Nat /\ Len(c) = z + 2 /\ DOMAIN c = 1 .. z + 2
      /\ c[z + 1] = Call("create", Master) /\ c[z + 2] = Call("init", Master)
  BY LifecycleAssumption, CreateShape
<1>2. \A k \in z + 1 .. z + 2 : k = z + 1 \/ k = z + 2
  BY <1>1
<1> HIDE DEF c, z
<1>3. \A j \in 1 .. z + 2 : c[j].block \in PacketBlocks => j \in 1 .. z
  <2> SUFFICES ASSUME NEW j \in 1 .. z + 2, c[j].block \in PacketBlocks
               PROVE  j \in 1 .. z
    OBVIOUS
  <2>1. j # z + 1 /\ j # z + 2
    BY <1>1, PacketCalls, PacketBlock
  <2> QED
    BY <1>1, <2>1
<1>4. ASSUME NEW k \in 1 .. Len(c), c[k].op = "create", c[k].block = Master
      PROVE  k = z + 1
  <2>1. z + 1 \in 1 .. Len(c) /\ c[z + 1].op = "create" /\ c[z + 1].block = Master
    BY <1>1, PacketCalls
  <2> QED
    BY <1>4, <2>1, TelemetryMade DEF Made, c
<1>5. (z + 1) - 1 = z
  BY <1>1
<1>6. \A b \in PacketBlocks : \E j \in 1 .. z : c[j].op = "create" /\ c[j].block = b
  BY <1>1, <1>3, TelemetryMade DEF Made, PartBlocks, c
<1>7. \A b \in NonceBlocks : \E j \in 1 .. z : c[j].op = "init" /\ c[j].block = b
  BY <1>1, <1>3, TelemetryMade DEF Made, PartBlocks, NonceBlocks, c
<1> QED
  BY <1>4, <1>5, <1>6, <1>7 DEF MasterLast, c

\* Telemetry is switched off: every block is attached, the master block last,
\* and then every block is destroyed.
LEMMA TelemetryUnmade ==
  LET c == Telemetry("attach") \o DestroyTelemetry
  IN  /\ Unmade(c, PartBlocks(1))
      /\ \A k \in 1 .. Len(c) - 1 :
           c[k].op = "attach" /\ c[k + 1].op = "destroy" => c[k].block = Master
<1> DEFINE c == Telemetry("attach") \o DestroyTelemetry
           n == 3 * NumPackets + 1
           B == PartBlocks(1)
<1>1. /\ n \in Nat \ {0} /\ Len(c) = n + n /\ DOMAIN c = 1 .. n + n
      /\ \A k \in 1 .. n : c[k] = Telemetry("attach")[k] /\ c[n + k] = Telemetry("destroy")[k]
      /\ \A k \in 1 .. n + n : k \in 1 .. n \/ \E j \in 1 .. n : k = n + j
  <2>1. n \in Nat \ {0}
    BY LifecycleAssumption
  <2>2. /\ Len(c) = n + n /\ DOMAIN c = 1 .. n + n
        /\ \A k \in 1 .. n : c[k] = Telemetry("attach")[k] /\ c[n + k] = Telemetry("destroy")[k]
        /\ \A k \in 1 .. n + n : k \in 1 .. n \/ \E j \in 1 .. n : k = n + j
    BY DestroyShape
  <2> QED
    BY <2>1, <2>2
<1>2. /\ \A k \in 1 .. n : c[k].op = "attach" /\ c[k].block \in B
      /\ \A b \in B : \E k \in 1 .. n : c[k].block = b
      /\ c[n].block = Master
  <2>1. n \in 1 .. n
    BY <1>1
  <2> HIDE DEF c, n
  <2>2. \A k \in 1 .. n : c[k] = Telemetry("attach")[k]
    BY <1>1
  <2>3. /\ \A k \in 1 .. n : Telemetry("attach")[k].op = "attach" /\ Telemetry("attach")[k].block \in B
        /\ \A b \in B : \E k \in 1 .. n : Telemetry("attach")[k].block = b
        /\ Telemetry("attach")[n].block = Master
    BY Attached DEF n
  <2> QED
    BY <2>1, <2>2, <2>3
<1>3. /\ \A k \in 1 .. n : c[n + k].op = "destroy" /\ c[n + k].block \in B
      /\ \A b \in B : \E k \in 1 .. n : c[n + k].block = b
  <2> HIDE DEF c, n
  <2>2. \A k \in 1 .. n : c[n + k] = Telemetry("destroy")[k]
    BY <1>1
  <2>3. /\ \A k \in 1 .. n : Telemetry("destroy")[k].op = "destroy" /\ Telemetry("destroy")[k].block \in B
        /\ \A b \in B : \E k \in 1 .. n : Telemetry("destroy")[k].block = b
    BY Attached DEF n
  <2> QED
    BY <2>2, <2>3
<1> HIDE DEF c, n, B
<1>4. \A k \in 1 .. n + n : c[k].op \in {"attach", "destroy"} /\ c[k].block \in B
  <2> SUFFICES ASSUME NEW k \in 1 .. n + n
               PROVE  c[k].op \in {"attach", "destroy"} /\ c[k].block \in B
    OBVIOUS
  <2>1. CASE k \in 1 .. n
    BY <1>2, <2>1
  <2>2. CASE \E j \in 1 .. n : k = n + j
    BY <1>3, <2>2
  <2> QED
    BY <1>1, <2>1, <2>2
<1>5. \A k \in 1 .. n + n : c[k].op = "destroy" <=> k > n
  <2> SUFFICES ASSUME NEW k \in 1 .. n + n PROVE c[k].op = "destroy" <=> k > n
    OBVIOUS
  <2>1. CASE k \in 1 .. n
    BY <1>1, <1>2, <2>1
  <2>2. CASE \E j \in 1 .. n : k = n + j
    <3>1. PICK j \in 1 .. n : k = n + j
      BY <2>2
    <3>2. c[k].op = "destroy"
      BY <1>3, <3>1
    <3>3. k > n
      BY <1>1, <3>1
    <3> QED
      BY <3>2, <3>3
  <2> QED
    BY <1>1, <2>1, <2>2
<1>6. \A b \in B : \E k \in 1 .. n + n : c[k].op = "attach" /\ c[k].block = b
  <2>1. \A k \in 1 .. n : k \in 1 .. n + n
    BY <1>1
  <2> QED
    BY <1>2, <2>1
<1>7. \A b \in B : \E k \in 1 .. n + n : c[k].op = "destroy" /\ c[k].block = b
  <2>1. \A k \in 1 .. n : n + k \in 1 .. n + n
    BY <1>1
  <2> QED
    BY <1>3, <2>1
<1>8. c[1].op = "attach" /\ c[n + n].op = "destroy" /\ n + n \in Nat \ {0}
  <2>1. 1 \in 1 .. n /\ n + n \in 1 .. n + n /\ n + n > n
    BY <1>1
  <2> QED
    BY <1>2, <1>5, <2>1
<1>9. \A k \in 1 .. (n + n) - 1 : c[k].op = "attach" /\ c[k + 1].op = "destroy" => c[k].block = Master
  <2> SUFFICES ASSUME NEW k \in 1 .. (n + n) - 1, c[k].op = "attach", c[k + 1].op = "destroy"
               PROVE  c[k].block = Master
    OBVIOUS
  <2>1. k \in 1 .. n + n /\ k + 1 \in 1 .. n + n
    BY <1>1
  <2>2. c[k].op # "destroy"
    OBVIOUS
  <2>3. ~(k > n) /\ k + 1 > n
    BY <1>5, <2>1, <2>2
  <2>4. k = n
    BY <1>1, <2>1, <2>3
  <2> QED
    BY <1>2, <2>4
<1>10. \A j, k \in 1 .. n + n : j <= k /\ c[j].op = "destroy" => c[k].op = "destroy"
  <2> SUFFICES ASSUME NEW j \in 1 .. n + n, NEW k \in 1 .. n + n, j <= k, c[j].op = "destroy"
               PROVE  c[k].op = "destroy"
    OBVIOUS
  <2>1. j > n
    BY <1>5
  <2>2. k > n
    BY <1>1, <2>1
  <2> QED
    BY <1>5, <2>2
<1> QED
  BY <1>1, <1>4, <1>6, <1>7, <1>8, <1>9, <1>10 DEF Unmade, c, B

\* What each part of each script is.
LEMMA OthersType ==
  /\ Len(Others) \in Nat /\ DOMAIN Others = 1 .. Len(Others)
  /\ \A i, j \in 1 .. Len(Others) : Others[i] = Others[j] => i = j
  /\ \A i \in 1 .. Len(Others) : Others[i] \in Range(Others)
  /\ \A l \in Range(Others) : \E i \in 1 .. Len(Others) : Others[i] = l
<1>1. Others \in Seq(Range(Others)) /\ IsInjective(Others)
  BY LifecycleAssumption
<1>2. Len(Others) \in Nat /\ DOMAIN Others = 1 .. Len(Others)
  BY <1>1
<1>3. \A i, j \in DOMAIN Others : Others[i] = Others[j] => i = j
  BY <1>1 DEF IsInjective
<1> QED
  BY <1>2, <1>3 DEF Range

LEMMA LibraryCalls ==
  ASSUME NEW l, NEW op1, NEW op2
  PROVE  LET c == Library(l, op1, op2)
         IN  /\ Len(c) = 2 /\ DOMAIN c = 1 .. 2
             /\ c[1].op = op1 /\ c[1].block = <<"other", l>>
             /\ c[2].op = op2 /\ c[2].block = <<"other", l>>
BY DEF Library, Call

LEMMA LibraryMade ==
  ASSUME NEW l
  PROVE  /\ Made(Library(l, "create", "init"), {<<"other", l>>})
         /\ Unmade(Library(l, "attach", "destroy"), {<<"other", l>>})
<1>1. 1 .. 2 = {1, 2} /\ 1 .. (2 - 1) = {1} /\ 2 \in Nat \ {0}
  OBVIOUS
<1>2. Made(Library(l, "create", "init"), {<<"other", l>>})
  <2> DEFINE c == Library(l, "create", "init")
  <2>1. /\ Len(c) = 2 /\ DOMAIN c = 1 .. 2
        /\ c[1].op = "create" /\ c[1].block = <<"other", l>>
        /\ c[2].op = "init" /\ c[2].block = <<"other", l>>
    BY LibraryCalls
  <2> HIDE DEF c
  <2>2. \A k \in 1 .. 2 : k = 1 \/ k = 2
    BY <1>1
  <2>3. \A k \in 1 .. 2 : c[k].op = "init" =>
          \E j \in 1 .. k - 1 : c[j].op = "create" /\ c[j].block = c[k].block
    <3> SUFFICES ASSUME NEW k \in 1 .. 2, c[k].op = "init"
                 PROVE  \E j \in 1 .. k - 1 : c[j].op = "create" /\ c[j].block = c[k].block
      OBVIOUS
    <3>1. k = 2
      BY <2>1, <2>2
    <3>2. 1 \in 1 .. k - 1
      BY <3>1
    <3> QED
      BY <2>1, <3>1, <3>2
  <2>4. \A j, k \in 1 .. 2 :
          c[j].op = "create" /\ c[k].op = "create" /\ c[j].block = c[k].block => j = k
    BY <2>1, <2>2
  <2>5. 1 \in 1 .. 2 /\ 2 \in 1 .. 2
    OBVIOUS
  <2> QED
    BY <1>1, <2>1, <2>2, <2>3, <2>4, <2>5 DEF Made, c
<1>3. Unmade(Library(l, "attach", "destroy"), {<<"other", l>>})
  <2> DEFINE c == Library(l, "attach", "destroy")
  <2>1. /\ Len(c) = 2 /\ DOMAIN c = 1 .. 2
        /\ c[1].op = "attach" /\ c[1].block = <<"other", l>>
        /\ c[2].op = "destroy" /\ c[2].block = <<"other", l>>
    BY LibraryCalls
  <2> HIDE DEF c
  <2>2. \A k \in 1 .. 2 : k = 1 \/ k = 2
    BY <1>1
  <2>3. \A j, k \in 1 .. 2 : j <= k /\ c[j].op = "destroy" => c[k].op = "destroy"
    BY <2>1, <2>2
  <2>4. 1 \in 1 .. 2 /\ 2 \in 1 .. 2
    OBVIOUS
  <2> QED
    BY <1>1, <2>1, <2>2, <2>3, <2>4 DEF Unmade, c
<1> QED
  BY <1>2, <1>3

LEMMA FirstAndRest ==
  ASSUME NEW x, NEW f, f = [i \in 1 .. Len(Others) |-> f[i]]
  PROVE  LET c == <<x>> \o f
         IN  /\ Len(c) = NumParts
             /\ c[1] = x
             /\ \A P \in 2 .. NumParts : c[P] = f[P - 1]
<1> DEFINE n == Len(Others)
           s == <<x>>
           t == f
           c == s \o t
<1>1. n \in Nat /\ s = [k \in 1 .. 1 |-> s[k]] /\ t = [k \in 1 .. n |-> t[k]] /\ s[1] = x
  BY OthersType
<1> HIDE DEF n, s, t
<1>2. Len(c) = 1 + n /\ \A k \in 1 .. 1 + n : c[k] = IF k <= 1 THEN s[k] ELSE t[k - 1]
  BY <1>1, Joined
<1> HIDE DEF c
<1>3. 1 \in 1 .. 1 + n /\ 1 + n = n + 1 /\ 1 <= 1
  BY <1>1
<1>4. c[1] = x
  BY <1>1, <1>2, <1>3
<1>5. \A P \in 2 .. n + 1 : c[P] = t[P - 1]
  <2> TAKE P \in 2 .. n + 1
  <2>1. P \in 1 .. 1 + n /\ ~(P <= 1) /\ P - 1 \in 1 .. n
    BY <1>1
  <2> QED
    BY <1>1, <1>2, <2>1
<1> QED
  BY <1>2, <1>3, <1>4, <1>5 DEF c, n, s, t, NumParts

LEMMA OnParts ==
  /\ Len(Parts["on"]) = NumParts /\ NumParts \in Nat \ {0}
  /\ Calls("on", 1) = CreateTelemetry
  /\ \A P \in 1 .. NumParts : Made(Calls("on", P), PartBlocks(P))
<1> DEFINE f == [i \in 1 .. Len(Others) |-> Library(Others[i], "create", "init")]
<1>1. Parts["on"] = <<CreateTelemetry>> \o f
  BY DEF Parts
<1>6. f = [i \in 1 .. Len(Others) |-> f[i]]
  OBVIOUS
<1> HIDE DEF f
<1>2. /\ Len(Parts["on"]) = NumParts
      /\ Parts["on"][1] = CreateTelemetry
      /\ \A P \in 2 .. NumParts : Parts["on"][P] = f[P - 1]
  BY <1>1, <1>6, FirstAndRest
<1>3. NumParts \in Nat \ {0} /\ \A P \in 1 .. NumParts : P = 1 \/ P \in 2 .. NumParts
  BY OthersType DEF NumParts
<1>4. \A P \in 2 .. NumParts : Made(Calls("on", P), PartBlocks(P))
  <2> TAKE P \in 2 .. NumParts
  <2>1. Calls("on", P) = Library(Others[P - 1], "create", "init")
    <3>1. P - 1 \in 1 .. Len(Others)
      BY OthersType DEF NumParts
    <3> QED
      BY <1>2, <3>1 DEF Calls, f
  <2>2. PartBlocks(P) = {<<"other", Others[P - 1]>>}
    BY DEF PartBlocks
  <2> QED
    BY <2>1, <2>2, LibraryMade
<1> QED
  BY <1>2, <1>3, <1>4, TelemetryMade DEF Calls

LEMMA OffParts ==
  /\ Len(Parts["off"]) = NumParts /\ NumParts \in Nat \ {0}
  /\ \A P \in 1 .. NumParts : Unmade(Calls("off", P), PartBlocks(P))
  /\ \A k \in 1 .. Len(Calls("off", 1)) - 1 :
       Calls("off", 1)[k].op = "attach" /\ Calls("off", 1)[k + 1].op = "destroy" =>
         Calls("off", 1)[k].block = Master
<1> DEFINE f == [i \in 1 .. Len(Others) |-> Library(Others[i], "attach", "destroy")]
           t == Telemetry("attach") \o DestroyTelemetry
<1>1. Parts["off"] = <<t>> \o f
  BY DEF Parts
<1>6. f = [i \in 1 .. Len(Others) |-> f[i]]
  OBVIOUS
<1>5. /\ Unmade(t, PartBlocks(1))
      /\ \A k \in 1 .. Len(t) - 1 : t[k].op = "attach" /\ t[k + 1].op = "destroy" => t[k].block = Master
  BY TelemetryUnmade
<1> HIDE DEF f, t
<1>2. /\ Len(Parts["off"]) = NumParts
      /\ Parts["off"][1] = t
      /\ \A P \in 2 .. NumParts : Parts["off"][P] = f[P - 1]
  BY <1>1, <1>6, FirstAndRest
<1>3. NumParts \in Nat \ {0} /\ \A P \in 1 .. NumParts : P = 1 \/ P \in 2 .. NumParts
  BY OthersType DEF NumParts
<1>4. \A P \in 2 .. NumParts : Unmade(Calls("off", P), PartBlocks(P))
  <2> TAKE P \in 2 .. NumParts
  <2>1. Calls("off", P) = Library(Others[P - 1], "attach", "destroy")
    <3>1. P - 1 \in 1 .. Len(Others)
      BY OthersType DEF NumParts
    <3> QED
      BY <1>2, <3>1 DEF Calls, f
  <2>2. PartBlocks(P) = {<<"other", Others[P - 1]>>}
    BY DEF PartBlocks
  <2> QED
    BY <2>1, <2>2, LibraryMade
<1> QED
  BY <1>2, <1>3, <1>4, <1>5 DEF Calls

LEMMA OpenParts ==
  Len(Parts["open"]) = 1 /\ Reached(Calls("open", 1), PartBlocks(1))
<1> DEFINE c == Telemetry("attach")
           n == 3 * NumPackets + 1
<1>1. Parts["open"] = <<c>>
  BY DEF Parts
<1>2. /\ n \in Nat \ {0}
      /\ \A k \in 1 .. n : c[k].op = "attach" /\ c[k].block \in PartBlocks(1)
      /\ \A b \in PartBlocks(1) : \E k \in 1 .. n : c[k].block = b
      /\ c[n].block = Master
  BY Attached
<1>3. c = [k \in 1 .. n |-> c[k]]
  BY TelemetryShape
<1> HIDE DEF c, n
<1>4. Len(c) = n /\ DOMAIN c = 1 .. n
  <2>1. DOMAIN c = 1 .. n
    BY <1>3
  <2>2. c \in Seq({c[k] : k \in 1 .. n})
    <3>1. c \in [1 .. n -> {c[k] : k \in 1 .. n}]
      BY <1>3
    <3>2. n \in Nat
      BY <1>2
    <3> QED
      BY <3>1, <3>2
  <2> QED
    BY <1>2, <2>1, <2>2
<1>5. Reached(c, PartBlocks(1))
  BY <1>2, <1>4 DEF Reached
<1>6. Len(<<c>>) = 1 /\ <<c>>[1] = c
  OBVIOUS
<1> QED
  BY <1>1, <1>5, <1>6 DEF Calls

\* The parts share no block, and together they have every block.
LEMMA BlocksOfParts ==
  /\ \A P \in 1 .. NumParts : PartBlocks(P) \subseteq Blocks /\ PartBlocks(P) # {}
  /\ \A P, Q \in 1 .. NumParts : \A b \in PartBlocks(P) : b \in PartBlocks(Q) => P = Q
  /\ \A b \in Blocks : \E P \in 1 .. NumParts : b \in PartBlocks(P)
  /\ Master \in Blocks /\ PacketBlocks \subseteq Blocks
<1>1. NumParts \in Nat \ {0} /\ 1 \in 1 .. NumParts
  BY OnParts
<1>2. \A P \in 1 .. NumParts : P # 1 => P - 1 \in 1 .. Len(Others)
  BY OthersType DEF NumParts
<1>3. \A i \in 1 .. Len(Others) : i + 1 \in 1 .. NumParts /\ i + 1 # 1 /\ (i + 1) - 1 = i
  BY OthersType DEF NumParts
<1>4. \A i \in 1 .. Len(Others) :
        <<"other", Others[i]>> \in OtherBlocks /\ <<"other", Others[i]>> \notin PacketBlocks \cup {Master}
  BY OthersType DEF OtherBlocks, PacketBlocks, Master
<1>5. ASSUME NEW P \in 1 .. NumParts, NEW Q \in 1 .. NumParts, NEW b \in PartBlocks(P),
             b \in PartBlocks(Q)
      PROVE  P = Q
  <2>1. CASE P = 1 /\ Q = 1
    BY <2>1
  <2>2. CASE P # 1 /\ Q # 1
    <3>1. P - 1 \in 1 .. Len(Others) /\ Q - 1 \in 1 .. Len(Others)
      BY <1>2, <2>2
    <3>2. b = <<"other", Others[P - 1]>> /\ b = <<"other", Others[Q - 1]>>
      BY <1>5, <2>2 DEF PartBlocks
    <3>3. Others[P - 1] = Others[Q - 1]
      BY <3>2
    <3>4. P - 1 = Q - 1
      BY <3>1, <3>3, OthersType
    <3> QED
      BY <3>4, <1>1
  <2>3. CASE P = 1 /\ Q # 1
    BY <1>2, <1>4, <1>5, <2>3 DEF PartBlocks
  <2>4. CASE P # 1 /\ Q = 1
    BY <1>2, <1>4, <1>5, <2>4 DEF PartBlocks
  <2> QED
    BY <2>1, <2>2, <2>3, <2>4
<1>6. \A b \in Blocks : \E P \in 1 .. NumParts : b \in PartBlocks(P)
  <2> SUFFICES ASSUME NEW b \in Blocks PROVE \E P \in 1 .. NumParts : b \in PartBlocks(P)
    OBVIOUS
  <2>1. CASE b \in PacketBlocks \cup {Master}
    BY <1>1, <2>1 DEF PartBlocks
  <2>2. CASE b \in OtherBlocks
    <3>1. PICK i \in 1 .. Len(Others) : b = <<"other", Others[i]>>
      BY <2>2, OthersType DEF OtherBlocks
    <3>2. b \in PartBlocks(i + 1)
      BY <1>3, <3>1 DEF PartBlocks
    <3> QED
      BY <1>3, <3>2
  <2> QED
    BY <2>1, <2>2 DEF Blocks
<1>7. \A P \in 1 .. NumParts : PartBlocks(P) \subseteq Blocks /\ PartBlocks(P) # {}
  BY <1>2, <1>4 DEF PartBlocks, Blocks
<1> QED
  BY <1>5, <1>6, <1>7 DEF Blocks

-----------------------------------------------------------------------------
(***************************************************************************)
(* What a step does: how the process moves, and what happens to the kernel *)
(***************************************************************************)
OpsOf(s) ==
  IF s = "on" THEN {"create", "init"} ELSE IF s = "off" THEN {"attach", "destroy"} ELSE {"attach"}

LEMMA ScriptShape ==
  ASSUME NEW s \in {"on", "off", "open"}, NEW P \in 1 .. PartsOf(s)
  PROVE  /\ P \in 1 .. NumParts
         /\ Len(Calls(s, P)) \in Nat \ {0}
         /\ \A k \in 1 .. Len(Calls(s, P)) :
              Calls(s, P)[k].op \in OpsOf(s) /\ Calls(s, P)[k].block \in PartBlocks(P)
         /\ Calls(s, P)[1].op # "destroy"
<1>1. PartsOf("open") = 1 /\ PartsOf("on") = NumParts /\ PartsOf("off") = NumParts
      /\ NumParts \in Nat \ {0}
  BY OnParts DEF PartsOf
<1>2. P \in 1 .. NumParts
  BY <1>1
<1>3. CASE s = "on"
  BY <1>2, <1>3, OnParts DEF Made, OpsOf
<1>4. CASE s = "off"
  BY <1>2, <1>4, OffParts DEF Unmade, OpsOf
<1>5. CASE s = "open"
  <2>1. P = 1
    BY <1>1, <1>5
  <2>2. 1 \in 1 .. Len(Calls("open", 1)) /\ Calls("open", 1)[1].op = "attach"
    BY OpenParts DEF Reached
  <2> QED
    BY <1>2, <1>5, <2>1, <2>2, OpenParts DEF Reached, OpsOf
<1> QED
  BY <1>3, <1>4, <1>5

LEMMA NumPartsType == NumParts \in Nat \ {0} /\ \A s : PartsOf(s) \in Nat \ {0} /\ PartsOf(s) <= NumParts
BY OnParts DEF PartsOf

LEMMA PartsLength == \A s \in {"on", "off", "open"} : Len(Parts[s]) = PartsOf(s)
BY OnParts, OffParts, OpenParts DEF PartsOf

\* The process goes to its next part, or ends its run.
Skips(p) ==
  \/ /\ pos[p][1] < PartsOf(script[p])
     /\ pos' = [pos EXCEPT ![p] = <<pos[p][1] + 1, 1>>]
     /\ script' = script
  \/ /\ pos[p][1] = PartsOf(script[p])
     /\ script' = [script EXCEPT ![p] = "idle"]
     /\ pos' = pos

\* It goes to its next call, if it has one in its part.
Passes(p) ==
  \/ /\ pos[p][2] < Len(CallsOf(p))
     /\ pos' = [pos EXCEPT ![p] = <<pos[p][1], pos[p][2] + 1>>]
     /\ script' = script /\ opened' = opened
  \/ /\ pos[p][2] = Len(CallsOf(p))
     /\ Skips(p)
     /\ opened' = IF script[p] = "open" THEN opened \cup {p} ELSE opened

Current(p) == CallsOf(p)[pos[p][2]]

Creates(p, b) ==
  /\ Current(p).op = "create" /\ Current(p).block = b /\ script[p] = "on"
  /\ segment[b] = 0
  /\ made' = [made EXCEPT ![b] = made[b] + 1]
  /\ segment' = [segment EXCEPT ![b] = made[b] + 1]
  /\ Passes(p) /\ UNCHANGED <<ready, got, faults>>

Initialises(p, b) ==
  /\ Current(p).op = "init" /\ Current(p).block = b /\ script[p] = "on"
  /\ segment[b] # 0
  /\ ready' = ready \cup {<<b, segment[b]>>}
  /\ Passes(p) /\ UNCHANGED <<segment, made, got, faults>>

Attaches(p, b) ==
  /\ Current(p).op = "attach" /\ Current(p).block = b /\ script[p] \in {"off", "open"}
  /\ segment[b] # 0
  /\ got' = [got EXCEPT ![p][b] = segment[b]]
  /\ Passes(p) /\ UNCHANGED <<kernel, faults>>

Destroys(p, b) ==
  /\ Current(p).op = "destroy" /\ Current(p).block = b /\ script[p] = "off"
  /\ segment' = IF segment[b] = got[p][b] THEN [segment EXCEPT ![b] = 0] ELSE segment
  /\ Passes(p) /\ UNCHANGED <<made, ready, got, faults>>

GivesUp(p, b) ==
  /\ Current(p).block = b
  /\ \/ Current(p).op = "create" /\ segment[b] # 0 /\ faults' = faults
     \/ Current(p).op = "create" /\ segment[b] = 0 /\ faults' = faults + 1
     \/ Current(p).op \in {"init", "attach"} /\ segment[b] = 0 /\ faults' = faults
  /\ Skips(p) /\ UNCHANGED <<kernel, got, opened>>

Starts(p, s) ==
  /\ script[p] = "idle" /\ p \notin opened
  /\ \/ p \in Clients /\ s = "open"
     \/ p \in Controllers /\ s = "on" /\ ~Running("off")
     \/ p \in Controllers /\ s = "off" /\ ~Running("on")
  /\ script' = [script EXCEPT ![p] = s]
  /\ pos' = [pos EXCEPT ![p] = Start]
  /\ got' = [got EXCEPT ![p] = Nowhere]
  /\ UNCHANGED <<kernel, opened, faults>>

\* What every process knows about where it is.
LEMMA WhereItIs ==
  ASSUME Placed, NEW p \in Procs, script[p] # "idle"
  PROVE  /\ script[p] \in {"on", "off", "open"}
         /\ pos[p][1] \in 1 .. PartsOf(script[p]) /\ pos[p][1] \in 1 .. NumParts
         /\ pos[p][2] \in 1 .. Len(CallsOf(p)) /\ Len(CallsOf(p)) \in Nat \ {0}
         /\ Current(p).op \in OpsOf(script[p])
         /\ Current(p).block \in PartBlocks(pos[p][1]) /\ Current(p).block \in Blocks
         /\ pos[p] = <<pos[p][1], pos[p][2]>>
<1>1. script[p] \in {"on", "off", "open"}
  BY DEF Placed
<1>2. pos[p][1] \in 1 .. PartsOf(script[p]) /\ pos[p][2] \in 1 .. Len(CallsOf(p))
      /\ pos[p] = <<pos[p][1], pos[p][2]>>
  BY DEF Placed
<1>3. /\ pos[p][1] \in 1 .. NumParts
      /\ Len(CallsOf(p)) \in Nat \ {0}
      /\ Current(p).op \in OpsOf(script[p]) /\ Current(p).block \in PartBlocks(pos[p][1])
  BY <1>1, <1>2, ScriptShape DEF CallsOf, Current
<1> QED
  BY <1>1, <1>2, <1>3, BlocksOfParts

LEMMA FailsSkips ==
  ASSUME Placed, NEW p \in Procs, script[p] # "idle"
  PROVE  NextPart(p) => Skips(p)
<1>1. /\ script[p] \in {"on", "off", "open"} /\ pos[p][1] \in 1 .. PartsOf(script[p])
      /\ Len(Parts[script[p]]) = PartsOf(script[p]) /\ PartsOf(script[p]) \in Nat
  BY WhereItIs, PartsLength, NumPartsType
<1> QED
  BY <1>1 DEF NextPart, Skips

LEMMA SucceedsPasses ==
  ASSUME Placed, NEW p \in Procs, script[p] # "idle"
  PROVE  Succeeds(p) => Passes(p)
<1>1. /\ Parts[script[p]][pos[p][1]] = CallsOf(p) /\ pos \in [Procs -> Nat \X Nat]
      /\ pos[p][2] \in 1 .. Len(CallsOf(p)) /\ Len(CallsOf(p)) \in Nat
      /\ pos[p] = <<pos[p][1], pos[p][2]>>
  BY WhereItIs DEF CallsOf, Calls, Placed
<1>2. CASE pos[p][2] < Len(CallsOf(p))
  <2> SUFFICES ASSUME Succeeds(p) PROVE Passes(p)
    OBVIOUS
  <2>1. pos' = [pos EXCEPT ![p][2] = @ + 1] /\ script' = script /\ opened' = opened
    BY <1>1, <1>2 DEF Succeeds
  <2>2. [pos[p] EXCEPT ![2] = @ + 1] = <<pos[p][1], pos[p][2] + 1>>
    BY <1>1
  <2>3. pos' = [pos EXCEPT ![p] = <<pos[p][1], pos[p][2] + 1>>]
    BY <1>1, <2>1, <2>2
  <2> QED
    BY <1>2, <2>1, <2>3 DEF Passes
<1>3. CASE pos[p][2] = Len(CallsOf(p))
  <2> SUFFICES ASSUME Succeeds(p) PROVE Passes(p)
    OBVIOUS
  <2>1. NextPart(p) /\ opened' = IF script[p] = "open" THEN opened \cup {p} ELSE opened
    BY <1>1, <1>3 DEF Succeeds
  <2>2. Skips(p)
    BY <2>1, FailsSkips
  <2> QED
    BY <1>3, <2>1, <2>2 DEF Passes
<1> QED
  BY <1>1, <1>2, <1>3

\* Each step is one of these.
LEMMA Steps ==
  ASSUME Placed, Numbers, [Next]_vars
  PROVE  \/ \E p \in Procs, s \in {"on", "off", "open"} : Starts(p, s)
         \/ \E p \in Procs, b \in Blocks :
              /\ script[p] # "idle"
              /\ \/ Creates(p, b) \/ Initialises(p, b) \/ Attaches(p, b) \/ Destroys(p, b)
                 \/ GivesUp(p, b)
         \/ UNCHANGED <<segment, made, ready, script, pos, got, opened, faults>>
<1>1. ASSUME NEW c \in Controllers, NEW s \in {"on", "off"}, Run(c, s)
      PROVE  Starts(c, s)
  <2>1. c \notin opened
    BY LifecycleAssumption DEF Placed
  <2> QED
    BY <1>1, <2>1 DEF Run, Starts
<1>2. ASSUME NEW p \in Clients, OpenTelemetry(p)
      PROVE  Starts(p, "open")
  BY <1>2 DEF OpenTelemetry, Starts
<1>3. ASSUME NEW p \in Procs, NEW b \in Blocks, NEW op, Calling(p, op, b)
      PROVE  /\ script[p] # "idle" /\ Current(p).op = op /\ Current(p).block = b
             /\ script[p] \in {"on", "off", "open"} /\ op \in OpsOf(script[p])
  <2>1. script[p] # "idle" /\ Current(p) = Call(op, b)
    BY <1>3 DEF Calling, Here, Current, CallsOf, Calls
  <2> QED
    BY <2>1, PacketCalls, WhereItIs
<1>4. ASSUME NEW p \in Procs, NEW b \in Blocks, Create(p, b)
      PROVE  script[p] # "idle" /\ (Creates(p, b) \/ GivesUp(p, b))
  <2>1. /\ script[p] # "idle" /\ Current(p).op = "create" /\ Current(p).block = b
        /\ script[p] = "on"
    BY <1>3, <1>4 DEF Create, OpsOf
  <2>2. Fails(p) => Skips(p) /\ UNCHANGED <<kernel, got, opened>>
    BY <2>1, FailsSkips DEF Fails
  <2>3. CASE /\ segment[b] = 0
             /\ made' = [made EXCEPT ![b] = @ + 1]
             /\ segment' = [segment EXCEPT ![b] = made'[b]]
             /\ Succeeds(p)
             /\ UNCHANGED <<ready, got, faults>>
    <3>1. made'[b] = made[b] + 1
      BY <2>3 DEF Numbers
    <3>2. segment' = [segment EXCEPT ![b] = made[b] + 1] /\ made' = [made EXCEPT ![b] = made[b] + 1]
      BY <2>3, <3>1
    <3>3. Passes(p)
      BY <2>1, <2>3, SucceedsPasses
    <3> QED
      BY <2>1, <2>3, <3>2, <3>3 DEF Creates
  <2>4. CASE segment[b] # 0 /\ Fails(p) /\ UNCHANGED faults
    BY <2>1, <2>2, <2>4 DEF GivesUp
  <2>5. CASE segment[b] = 0 /\ faults' = faults + 1 /\ Fails(p)
    BY <2>1, <2>2, <2>5 DEF GivesUp
  <2> QED
    BY <1>4, <2>3, <2>4, <2>5 DEF Create
<1>5. ASSUME NEW p \in Procs, NEW b \in Blocks, Initialise(p, b)
      PROVE  script[p] # "idle" /\ (Initialises(p, b) \/ GivesUp(p, b))
  <2>1. /\ script[p] # "idle" /\ Current(p).op = "init" /\ Current(p).block = b
        /\ script[p] = "on"
    BY <1>3, <1>5 DEF Initialise, OpsOf
  <2>2. Fails(p) => Skips(p) /\ UNCHANGED <<kernel, got, opened>>
    BY <2>1, FailsSkips DEF Fails
  <2>3. Succeeds(p) => Passes(p)
    BY <2>1, SucceedsPasses
  <2> QED
    BY <1>5, <2>1, <2>2, <2>3 DEF Initialise, Initialises, GivesUp
<1>6. ASSUME NEW p \in Procs, NEW b \in Blocks, Attach(p, b)
      PROVE  script[p] # "idle" /\ (Attaches(p, b) \/ GivesUp(p, b))
  <2>1. /\ script[p] # "idle" /\ Current(p).op = "attach" /\ Current(p).block = b
        /\ script[p] \in {"off", "open"}
    BY <1>3, <1>6 DEF Attach, OpsOf
  <2>2. Fails(p) => Skips(p) /\ UNCHANGED <<kernel, got, opened>>
    BY <2>1, FailsSkips DEF Fails
  <2>3. Succeeds(p) => Passes(p)
    BY <2>1, SucceedsPasses
  <2> QED
    BY <1>6, <2>1, <2>2, <2>3 DEF Attach, Attaches, GivesUp
<1>7. ASSUME NEW p \in Procs, NEW b \in Blocks, Destroy(p, b)
      PROVE  script[p] # "idle" /\ Destroys(p, b)
  <2>1. /\ script[p] # "idle" /\ Current(p).op = "destroy" /\ Current(p).block = b
        /\ script[p] = "off"
    BY <1>3, <1>7 DEF Destroy, OpsOf
  <2>2. Passes(p)
    BY <1>7, <2>1, SucceedsPasses DEF Destroy
  <2> QED
    BY <1>7, <2>1, <2>2 DEF Destroy, Destroys
<1>8. Controllers \subseteq Procs /\ Clients \subseteq Procs
  BY DEF Procs
<1>9. CASE UNCHANGED vars
  BY <1>9 DEF vars, kernel
<1> QED
  BY <1>1, <1>2, <1>4, <1>5, <1>6, <1>7, <1>8, <1>9 DEF Next, Step

-----------------------------------------------------------------------------
\* Where the processes are, and the numbers of the segments.
LEMMA Movement ==
  ASSUME Placed, NEW p \in Procs, script[p] # "idle",
         Passes(p) \/ (Skips(p) /\ opened' = opened)
  PROVE  /\ Placed'
         /\ \A q \in Procs : q # p =>
              script'[q] = script[q] /\ pos'[q] = pos[q] /\ (CallsOf(q))' = CallsOf(q)
         /\ \/ /\ script'[p] = script[p] /\ pos[p][2] < Len(CallsOf(p))
               /\ pos'[p][1] = pos[p][1] /\ pos'[p][2] = pos[p][2] + 1
               /\ (CallsOf(p))' = CallsOf(p) /\ Passes(p)
            \/ /\ script'[p] = script[p] /\ pos[p][1] < PartsOf(script[p])
               /\ pos'[p][1] = pos[p][1] + 1 /\ pos'[p][2] = 1
            \/ /\ script'[p] = "idle" /\ pos[p][1] = PartsOf(script[p]) /\ pos'[p] = pos[p]
<1>1. /\ script[p] \in {"on", "off", "open"}
      /\ pos[p][1] \in 1 .. PartsOf(script[p]) /\ pos[p][2] \in 1 .. Len(CallsOf(p))
      /\ Len(CallsOf(p)) \in Nat \ {0} /\ PartsOf(script[p]) \in Nat
  BY WhereItIs, NumPartsType
<1>2. script \in [Procs -> {"on", "off", "open", "idle"}] /\ pos \in [Procs -> Nat \X Nat]
      /\ opened \subseteq Clients /\ Clients \subseteq Procs
  BY DEF Placed, Procs
<1>3. opened' = opened \/ (opened' = opened \cup {p} /\ script[p] = "open" /\ script'[p] = "idle")
  <2>1. script[p] = "open" => PartsOf(script[p]) = 1
    BY DEF PartsOf
  <2> QED
    BY <1>1, <1>2, <2>1 DEF Passes, Skips
<1>4. CASE /\ pos[p][2] < Len(CallsOf(p)) /\ script' = script /\ opened' = opened
           /\ pos' = [pos EXCEPT ![p] = <<pos[p][1], pos[p][2] + 1>>] /\ Passes(p)
  <2>1. /\ pos'[p][1] = pos[p][1] /\ pos'[p][2] = pos[p][2] + 1
        /\ \A q \in Procs : q # p => pos'[q] = pos[q]
        /\ pos' \in [Procs -> Nat \X Nat]
    BY <1>1, <1>2, <1>4
  <2>2. \A q \in Procs : (CallsOf(q))' = CallsOf(q)
    BY <1>4, <2>1 DEF CallsOf
  <2>3. pos'[p][1] \in 1 .. PartsOf(script[p]) /\ pos'[p][2] \in 1 .. Len(CallsOf(p))
    BY <1>1, <1>4, <2>1
  <2>4. Placed'
    BY <1>4, <2>1, <2>2, <2>3 DEF Placed
  <2> QED
    BY <1>4, <2>1, <2>2, <2>4
<1>5. CASE /\ pos[p][1] < PartsOf(script[p]) /\ script' = script
           /\ pos' = [pos EXCEPT ![p] = <<pos[p][1] + 1, 1>>]
  <2>1. /\ pos'[p][1] = pos[p][1] + 1 /\ pos'[p][2] = 1
        /\ \A q \in Procs : q # p => pos'[q] = pos[q]
        /\ pos' \in [Procs -> Nat \X Nat]
    BY <1>1, <1>2, <1>5
  <2>2. \A q \in Procs : q # p => (CallsOf(q))' = CallsOf(q)
    BY <1>5, <2>1 DEF CallsOf
  <2>3. pos'[p][1] \in 1 .. PartsOf(script[p])
    BY <1>1, <1>5, <2>1
  <2>4. (CallsOf(p))' = Calls(script[p], pos[p][1] + 1)
    BY <1>5, <2>1 DEF CallsOf
  <2>5. Len((CallsOf(p))') \in Nat \ {0}
    BY <1>1, <2>1, <2>3, <2>4, ScriptShape
  <2>6. pos'[p][2] \in 1 .. Len((CallsOf(p))')
    BY <2>1, <2>5
  <2>7. opened' = opened
    BY <1>1, <1>3, <1>5
  <2>8. Placed'
    BY <1>5, <2>1, <2>2, <2>3, <2>6, <2>7 DEF Placed
  <2> QED
    BY <1>5, <2>1, <2>2, <2>8
<1>6. CASE /\ pos[p][1] = PartsOf(script[p]) /\ pos' = pos
           /\ script' = [script EXCEPT ![p] = "idle"]
  <2>1. script'[p] = "idle" /\ \A q \in Procs : q # p => script'[q] = script[q]
    BY <1>2, <1>6
  <2>2. \A q \in Procs : q # p => (CallsOf(q))' = CallsOf(q)
    BY <1>6, <2>1 DEF CallsOf
  <2>3. script[p] = "open" => p \in Clients
    BY DEF Placed, Procs
  <2>4. opened' \subseteq Clients /\ \A q \in opened' : script'[q] = "idle"
    <3>1. \A q \in opened : script'[q] = "idle"
      BY <1>2, <2>1 DEF Placed
    <3> QED
      BY <1>2, <1>3, <2>1, <2>3, <3>1
  <2>5. /\ script' \in [Procs -> {"on", "off", "open", "idle"}]
        /\ \A q \in Controllers : script'[q] # "open"
        /\ \A q \in Clients : script'[q] \in {"open", "idle"}
    BY <1>2, <1>6, <2>1 DEF Placed, Procs
  <2>6. \A q \in Procs : script'[q] # "idle" =>
          pos'[q][1] \in 1 .. PartsOf(script'[q]) /\ pos'[q][2] \in 1 .. Len((CallsOf(q))')
    BY <1>6, <2>1, <2>2 DEF Placed
  <2>7. Placed'
    BY <1>2, <1>6, <2>4, <2>5, <2>6 DEF Placed
  <2> QED
    BY <1>6, <2>1, <2>2, <2>7
<1> QED
  BY <1>4, <1>5, <1>6 DEF Passes, Skips

LEMMA StartPlace ==
  ASSUME Placed, NEW p \in Procs, NEW s \in {"on", "off", "open"}, Starts(p, s)
  PROVE  /\ Placed'
         /\ script'[p] = s /\ pos'[p][1] = 1 /\ pos'[p][2] = 1
         /\ (CallsOf(p))' = Calls(s, 1)
         /\ \A q \in Procs : q # p =>
              script'[q] = script[q] /\ pos'[q] = pos[q] /\ (CallsOf(q))' = CallsOf(q)
<1>1. /\ script'[p] = s /\ pos'[p] = <<1, 1>> /\ opened' = opened /\ p \notin opened
      /\ \A q \in Procs : q # p => script'[q] = script[q] /\ pos'[q] = pos[q]
      /\ script' \in [Procs -> {"on", "off", "open", "idle"}] /\ pos' \in [Procs -> Nat \X Nat]
  <2>1. Start \in Nat \X Nat /\ Start = <<1, 1>>
    BY DEF Start
  <2>2. script \in [Procs -> {"on", "off", "open", "idle"}] /\ pos \in [Procs -> Nat \X Nat]
    BY DEF Placed
  <2>3. script' = [script EXCEPT ![p] = s] /\ pos' = [pos EXCEPT ![p] = Start]
        /\ opened' = opened /\ p \notin opened
    BY DEF Starts
  <2> QED
    BY <2>1, <2>2, <2>3
<1>2. pos'[p][1] = 1 /\ pos'[p][2] = 1
  BY <1>1
<1>3. (CallsOf(p))' = Calls(s, 1)
  BY <1>1, <1>2 DEF CallsOf
<1>4. \A q \in Procs : q # p => (CallsOf(q))' = CallsOf(q)
  BY <1>1 DEF CallsOf
<1>5. 1 \in 1 .. PartsOf(s)
  BY NumPartsType
<1>6. 1 \in 1 .. Len(Calls(s, 1))
  BY <1>5, ScriptShape
<1>7. /\ \A q \in Controllers : script'[q] # "open"
      /\ \A q \in Clients : script'[q] \in {"open", "idle"}
  <2>1. \/ p \in Clients /\ s = "open" /\ p \notin Controllers
        \/ p \in Controllers /\ s # "open" /\ p \notin Clients
    BY LifecycleAssumption DEF Starts
  <2> QED
    BY <1>1, <2>1 DEF Placed, Procs
<1>8. Placed'
  BY <1>1, <1>2, <1>3, <1>4, <1>5, <1>6, <1>7 DEF Placed, Procs
<1> QED
  BY <1>1, <1>2, <1>3, <1>4, <1>8

\* Every step is a start, a stutter, or a call that one process makes.
Moves(p, b) ==
  /\ script[p] # "idle" /\ Current(p).block = b
  /\ \/ Creates(p, b) \/ Initialises(p, b) \/ Attaches(p, b) \/ Destroys(p, b) \/ GivesUp(p, b)
  /\ Passes(p) \/ (Skips(p) /\ opened' = opened)
Stutters == UNCHANGED <<segment, made, ready, script, pos, got, opened, faults>>

LEMMA Kinds ==
  ASSUME Placed, Numbers, [Next]_vars
  PROVE  \/ \E p \in Procs, s \in {"on", "off", "open"} : Starts(p, s)
         \/ \E p \in Procs, b \in Blocks : Moves(p, b)
         \/ Stutters
BY Steps DEF Moves, Stutters, Creates, Initialises, Attaches, Destroys, GivesUp

LEMMA PlacedStep ==
  ASSUME Placed, Numbers, [Next]_vars
  PROVE  Placed'
<1>1. CASE \E p \in Procs, s \in {"on", "off", "open"} : Starts(p, s)
  BY <1>1, StartPlace
<1>2. CASE \E p \in Procs, b \in Blocks : Moves(p, b)
  BY <1>2, Movement DEF Moves
<1>3. CASE Stutters
  BY <1>3 DEF Stutters, Placed, CallsOf
<1> QED
  BY <1>1, <1>2, <1>3, Kinds

LEMMA NumbersStep ==
  ASSUME Placed, Numbers, [Next]_vars
  PROVE  Numbers'
<1>1. ASSUME NEW p \in Procs, NEW s \in {"on", "off", "open"}, Starts(p, s)
      PROVE  Numbers'
  <2>1. UNCHANGED <<segment, made, ready, faults>> /\ got' = [got EXCEPT ![p] = Nowhere]
    BY <1>1 DEF Starts, kernel
  <2>2. Nowhere \in [Blocks -> Nat] /\ \A b \in Blocks : Nowhere[b] = 0
    BY DEF Nowhere
  <2>3. got' \in [Procs -> [Blocks -> Nat]]
    BY <2>1, <2>2 DEF Numbers
  <2>4. \A q \in Procs, b \in Blocks : got'[q][b] <= made[b]
    BY <2>1, <2>2 DEF Numbers
  <2> QED
    BY <2>1, <2>3, <2>4 DEF Numbers
<1>2. ASSUME NEW p \in Procs, NEW b \in Blocks, Creates(p, b)
      PROVE  Numbers'
  <2>1. /\ made' = [made EXCEPT ![b] = made[b] + 1]
        /\ segment' = [segment EXCEPT ![b] = made[b] + 1]
        /\ UNCHANGED <<ready, got, faults>>
    BY <1>2 DEF Creates
  <2>2. made' \in [Blocks -> Nat] /\ segment' \in [Blocks -> Nat]
    BY <2>1 DEF Numbers
  <2>3. \A x \in Blocks : segment'[x] \in {0, made'[x]} /\ made[x] <= made'[x]
    BY <2>1 DEF Numbers
  <2>4. \A q \in Procs, x \in Blocks : got'[q][x] <= made'[x]
    <3> TAKE q \in Procs, x \in Blocks
    <3>1. got[q][x] \in Nat /\ made[x] \in Nat /\ made'[x] \in Nat /\ got[q][x] <= made[x]
      BY <2>2 DEF Numbers
    <3> QED
      BY <2>1, <2>3, <3>1
  <2> QED
    BY <2>1, <2>2, <2>3, <2>4 DEF Numbers
<1>3. ASSUME NEW p \in Procs, NEW b \in Blocks, Initialises(p, b)
      PROVE  Numbers'
  BY <1>3 DEF Initialises, Numbers
<1>4. ASSUME NEW p \in Procs, NEW b \in Blocks, Attaches(p, b)
      PROVE  Numbers'
  <2>1. UNCHANGED <<segment, made, ready, faults>> /\ got' = [got EXCEPT ![p][b] = segment[b]]
    BY <1>4 DEF Attaches, kernel
  <2>2. segment[b] \in Nat /\ segment[b] <= made[b]
    BY DEF Numbers
  <2>3. got' \in [Procs -> [Blocks -> Nat]]
    BY <2>1, <2>2 DEF Numbers
  <2>4. \A q \in Procs, x \in Blocks : got'[q][x] <= made[x]
    BY <2>1, <2>2 DEF Numbers
  <2> QED
    BY <2>1, <2>3, <2>4 DEF Numbers
<1>5. ASSUME NEW p \in Procs, NEW b \in Blocks, Destroys(p, b)
      PROVE  Numbers'
  BY <1>5 DEF Destroys, Numbers
<1>6. ASSUME NEW p \in Procs, NEW b \in Blocks, GivesUp(p, b)
      PROVE  Numbers'
  BY <1>6 DEF GivesUp, Numbers, kernel
<1>7. CASE Stutters
  BY <1>7 DEF Stutters, Numbers
<1> QED
  BY <1>1, <1>2, <1>3, <1>4, <1>5, <1>6, <1>7, Kinds DEF Moves

\* No run switches on while another switches off.
LEMMA ExclusiveStep ==
  ASSUME Placed, Numbers, Exclusive, [Next]_vars
  PROVE  Exclusive'
<1>1. ASSUME NEW p \in Procs, NEW s \in {"on", "off", "open"}, Starts(p, s)
      PROVE  Exclusive'
  <2>1. script'[p] = s /\ \A q \in Procs : q # p => script'[q] = script[q]
    BY <1>1, StartPlace
  <2>2. (s = "on" => ~Running("off")) /\ (s = "off" => ~Running("on"))
    BY <1>1 DEF Starts
  <2> QED
    BY <2>1, <2>2 DEF Exclusive, Running
<1>2. ASSUME NEW p \in Procs, NEW b \in Blocks, Moves(p, b)
      PROVE  Exclusive'
  <2>1. \A q \in Procs : script'[q] \in {script[q], "idle"}
    BY <1>2, Movement DEF Moves
  <2> QED
    BY <2>1 DEF Exclusive, Running
<1>3. CASE Stutters
  BY <1>3 DEF Stutters, Exclusive, Running
<1> QED
  BY <1>1, <1>2, <1>3, Kinds

Base == Placed /\ Numbers /\ Exclusive /\ Done

LEMMA Apart ==
  ASSUME Exclusive, NEW p \in Procs, NEW q \in Procs
  PROVE  ~(script[p] = "on" /\ script[q] = "off")
BY DEF Exclusive, Running

\* A process that destroys a block has attached to it, and whatever has been
\* destroyed since, nothing has been created.
LEMMA DestroyGone ==
  ASSUME Base, NEW p \in Procs, NEW b \in Blocks, script[p] # "idle", Destroys(p, b)
  PROVE  /\ segment[b] \in {0, got[p][b]}
         /\ segment' = [segment EXCEPT ![b] = 0]
<1>1. /\ script[p] = "off" /\ pos[p][1] \in 1 .. NumParts /\ pos[p][2] \in 1 .. Len(CallsOf(p))
      /\ b \in PartBlocks(pos[p][1]) /\ CallsOf(p) = Calls("off", pos[p][1])
      /\ Len(CallsOf(p)) \in Nat /\ CallsOf(p)[pos[p][2]].op = "destroy"
  <2>1. script[p] = "off" /\ Current(p).block = b /\ Current(p).op = "destroy"
    BY DEF Destroys
  <2> QED
    BY <2>1, WhereItIs DEF Base, CallsOf, Current
<1>2. Unmade(CallsOf(p), PartBlocks(pos[p][1]))
  BY <1>1, OffParts
<1>3. PICK j \in 1 .. Len(CallsOf(p)) : CallsOf(p)[j].op = "attach" /\ CallsOf(p)[j].block = b
  BY <1>1, <1>2 DEF Unmade
<1>4. j < pos[p][2]
  <2>1. ~(pos[p][2] <= j)
    BY <1>1, <1>2, <1>3 DEF Unmade
  <2> QED
    BY <1>1, <2>1
<1>5. j \in 1 .. pos[p][2] - 1
  BY <1>1, <1>3, <1>4
<1>6. Holds(p, CallsOf(p)[j])
  BY <1>1, <1>5 DEF Base, Done
<1>7. segment[b] \in {0, got[p][b]}
  BY <1>1, <1>3, <1>6 DEF Holds
<1>8. segment \in [Blocks -> Nat]
  BY DEF Base, Numbers
<1>9. segment' = [segment EXCEPT ![b] = 0]
  BY <1>7, <1>8 DEF Destroys
<1> QED
  BY <1>7, <1>9

\* While nobody switches off, segments stay and more become ready; otherwise
\* segments go and nothing else changes.
LEMMA KernelStep ==
  ASSUME Base, NEW p \in Procs, NEW b \in Blocks, Moves(p, b)
  PROVE  /\ script[p] # "off" => \A x \in Blocks : segment[x] # 0 => segment'[x] = segment[x]
         /\ script[p] # "on" => \A x \in Blocks : segment'[x] \in {0, segment[x]}
         /\ ready \subseteq ready' /\ (script[p] # "on" => ready' = ready /\ made' = made)
         /\ \A q \in Procs : q # p => got'[q] = got[q]
<1>1. segment \in [Blocks -> Nat] /\ got \in [Procs -> [Blocks -> Nat]] /\ script[p] # "idle"
  BY DEF Base, Numbers, Moves
<1>2. CASE Creates(p, b)
  BY <1>1, <1>2 DEF Creates
<1>3. CASE Initialises(p, b)
  BY <1>1, <1>3 DEF Initialises
<1>4. CASE Attaches(p, b)
  BY <1>1, <1>4 DEF Attaches, kernel
<1>5. CASE Destroys(p, b)
  <2>1. segment' = [segment EXCEPT ![b] = 0] /\ script[p] = "off" /\ UNCHANGED <<made, ready, got>>
    BY <1>1, <1>5, DestroyGone DEF Destroys
  <2> QED
    BY <1>1, <2>1
<1>6. CASE GivesUp(p, b)
  BY <1>1, <1>6 DEF GivesUp, kernel
<1> QED
  BY <1>2, <1>3, <1>4, <1>5, <1>6 DEF Moves

\* What a call has done holds after it, and after the steps of the others.
LEMMA CallHolds ==
  ASSUME Base, NEW p \in Procs, NEW b \in Blocks, Moves(p, b), ~GivesUp(p, b),
         NEW c, c = Current(p), script'[p] \in {script[p], "idle"}
  PROVE  Holds(p, c)'
<1>1. /\ segment \in [Blocks -> Nat] /\ made \in [Blocks -> Nat] /\ c.block = b
      /\ got \in [Procs -> [Blocks -> Nat]] /\ script[p] # "idle"
  BY DEF Base, Numbers, Moves
<1>2. CASE Creates(p, b)
  <2>1. c.op = "create" /\ segment'[b] = made[b] + 1 /\ made[b] \in Nat
    BY <1>1, <1>2 DEF Creates
  <2> QED
    BY <1>1, <2>1 DEF Holds
<1>3. CASE Initialises(p, b)
  BY <1>1, <1>3 DEF Initialises, Holds
<1>4. CASE Attaches(p, b)
  <2>1. c.op = "attach" /\ got'[p][b] = segment[b] /\ segment' = segment /\ segment[b] # 0
    BY <1>1, <1>4 DEF Attaches, kernel
  <2> QED
    BY <1>1, <2>1 DEF Holds
<1>5. CASE Destroys(p, b)
  <2>1. c.op = "destroy" /\ segment'[b] = 0
    BY <1>1, <1>5, DestroyGone DEF Destroys
  <2> QED
    BY <1>1, <2>1 DEF Holds
<1> QED
  BY <1>2, <1>3, <1>4, <1>5 DEF Moves

LEMMA StillHolds ==
  ASSUME Base, NEW p \in Procs, NEW b \in Blocks, Moves(p, b),
         NEW q \in Procs, script[q] # "idle", script'[q] = script[q],
         NEW c, c.op \in OpsOf(script[q]), c.block \in Blocks, Holds(q, c)
  PROVE  Holds(q, c)'
<1>1. /\ segment \in [Blocks -> Nat] /\ got \in [Procs -> [Blocks -> Nat]]
      /\ script[p] \in {"on", "off", "open"} /\ script[q] \in {"on", "off", "open"}
      /\ ~(script[p] = "on" /\ script[q] = "off") /\ ~(script[q] = "on" /\ script[p] = "off")
  BY Apart DEF Base, Numbers, Placed, Moves
<1>2. /\ script[p] # "off" => \A x \in Blocks : segment[x] # 0 => segment'[x] = segment[x]
      /\ script[p] # "on" => \A x \in Blocks : segment'[x] \in {0, segment[x]}
      /\ ready \subseteq ready'
      /\ q # p => got'[q] = got[q]
  BY KernelStep
<1>3. CASE script[q] = "on"
  <2>1. c.op \in {"create", "init"}
    BY <1>3 DEF OpsOf
  <2>2. segment[c.block] # 0 /\ segment'[c.block] = segment[c.block]
    BY <1>1, <1>2, <1>3, <2>1 DEF Holds
  <2> QED
    BY <1>2, <2>1, <2>2 DEF Holds
<1>4. q = p => \/ got' = got
               \/ got' = [got EXCEPT ![p][b] = segment[b]] /\ segment' = segment /\ segment[b] # 0
  BY DEF Moves, Creates, Initialises, Attaches, Destroys, GivesUp, kernel
<1>5. CASE script[q] = "off"
  <2>1. c.op \in {"attach", "destroy"}
    BY <1>5 DEF OpsOf
  <2>2. segment'[c.block] \in {0, segment[c.block]}
    BY <1>1, <1>2, <1>5
  <2>3. CASE c.op = "destroy"
    BY <2>2, <2>3 DEF Holds
  <2>4. CASE c.op = "attach"
    <3>1. got[q][c.block] # 0 /\ segment[c.block] \in {0, got[q][c.block]}
      BY <1>5, <2>4 DEF Holds
    <3>2. got'[q][c.block] # 0 /\ segment'[c.block] \in {0, got'[q][c.block]}
      <4>1. CASE got'[q] = got[q]
        BY <2>2, <3>1, <4>1
      <4>2. CASE q = p /\ got' = [got EXCEPT ![p][b] = segment[b]] /\ segment' = segment /\ segment[b] # 0
        <5>1. got'[q][c.block] = IF c.block = b THEN segment[b] ELSE got[q][c.block]
          BY <1>1, <4>2
        <5> QED
          BY <3>1, <4>2, <5>1
      <4> QED
        BY <1>2, <1>4, <4>1, <4>2
    <3> QED
      BY <2>4, <3>2 DEF Holds
  <2> QED
    BY <2>1, <2>3, <2>4
<1>6. CASE script[q] = "open"
  <2>1. c.op = "attach" /\ got[q][c.block] # 0
    BY <1>6 DEF OpsOf, Holds
  <2>2. got'[q][c.block] # 0
    <3>1. CASE got'[q] = got[q]
      BY <2>1, <3>1
    <3>2. CASE q = p /\ got' = [got EXCEPT ![p][b] = segment[b]] /\ segment[b] # 0
      <4>1. got'[q][c.block] = IF c.block = b THEN segment[b] ELSE got[q][c.block]
        BY <1>1, <3>2
      <4> QED
        BY <2>1, <3>2, <4>1
    <3> QED
      BY <1>2, <1>4, <3>1, <3>2
  <2> QED
    BY <1>6, <2>1, <2>2 DEF Holds
<1> QED
  BY <1>1, <1>3, <1>5, <1>6

LEMMA CallType ==
  ASSUME Placed, NEW p \in Procs, script[p] # "idle", NEW k \in 1 .. Len(CallsOf(p))
  PROVE  CallsOf(p)[k].op \in OpsOf(script[p]) /\ CallsOf(p)[k].block \in PartBlocks(pos[p][1])
         /\ CallsOf(p)[k].block \in Blocks
<1>1. script[p] \in {"on", "off", "open"} /\ pos[p][1] \in 1 .. PartsOf(script[p])
      /\ pos[p][1] \in 1 .. NumParts
  BY WhereItIs
<1> QED
  BY <1>1, ScriptShape, BlocksOfParts DEF CallsOf

LEMMA DoneStep ==
  ASSUME Base, [Next]_vars
  PROVE  Done'
<1>1. ASSUME NEW p \in Procs, NEW s \in {"on", "off", "open"}, Starts(p, s)
      PROVE  Done'
  <2>1. /\ pos'[p][2] = 1
        /\ \A q \in Procs : q # p =>
             script'[q] = script[q] /\ pos'[q] = pos[q] /\ (CallsOf(q))' = CallsOf(q)
    BY <1>1, StartPlace DEF Base
  <2>2. UNCHANGED <<segment, ready>> /\ \A q \in Procs : q # p => got'[q] = got[q]
    BY <1>1 DEF Starts, kernel, Base, Numbers
  <2> SUFFICES ASSUME NEW q \in Procs, script'[q] # "idle", NEW k \in 1 .. pos'[q][2] - 1
               PROVE  Holds(q, CallsOf(q)[k])'
    BY DEF Done
  <2>3. q # p
    BY <2>1
  <2>4. Holds(q, CallsOf(q)[k])
    BY <2>1, <2>3 DEF Base, Done
  <2> QED
    BY <2>1, <2>2, <2>3, <2>4 DEF Holds
<1>2. ASSUME NEW p \in Procs, NEW b \in Blocks, Moves(p, b)
      PROVE  Done'
  <2>1. /\ \A q \in Procs : q # p =>
             script'[q] = script[q] /\ pos'[q] = pos[q] /\ (CallsOf(q))' = CallsOf(q)
        /\ \/ /\ script'[p] = script[p] /\ pos[p][2] < Len(CallsOf(p))
              /\ pos'[p][1] = pos[p][1] /\ pos'[p][2] = pos[p][2] + 1
              /\ (CallsOf(p))' = CallsOf(p) /\ Passes(p)
           \/ script'[p] = script[p] /\ pos'[p][1] = pos[p][1] + 1 /\ pos'[p][2] = 1
           \/ script'[p] = "idle"
    BY <1>2, Movement DEF Moves, Base
  <2>2. /\ script[p] # "idle" /\ pos[p][2] \in 1 .. Len(CallsOf(p)) /\ pos[p][1] \in Nat
        /\ Len(CallsOf(p)) \in Nat /\ script[p] \in {"on", "off", "open"}
    <3>1. script[p] # "idle" /\ Placed
      BY <1>2 DEF Moves, Base
    <3> QED
      BY <3>1, WhereItIs
  <2> SUFFICES ASSUME NEW q \in Procs, script'[q] # "idle", NEW k \in 1 .. pos'[q][2] - 1
               PROVE  Holds(q, CallsOf(q)[k])'
    BY DEF Done
  <2>3. CASE script'[q] = script[q] /\ (CallsOf(q))' = CallsOf(q) /\ k \in 1 .. pos[q][2] - 1
    <3>1. Holds(q, CallsOf(q)[k])
      BY <2>3 DEF Base, Done
    <3>2. PICK c : c = CallsOf(q)[k]
      OBVIOUS
    <3>3. pos[q][2] \in 1 .. Len(CallsOf(q)) /\ Len(CallsOf(q)) \in Nat
      BY <2>3, WhereItIs DEF Base
    <3>4. k \in 1 .. Len(CallsOf(q))
      BY <2>3, <3>3
    <3>5. c.op \in OpsOf(script[q]) /\ c.block \in Blocks
      BY <2>3, <3>2, <3>4, CallType DEF Base
    <3>6. Holds(q, c)'
      BY <1>2, <2>3, <3>1, <3>2, <3>5, StillHolds
    <3>7. (CallsOf(q)[k])' = c
      BY <2>3, <3>2
    <3> QED
      BY <3>6, <3>7 DEF Holds
  <2>4. CASE q # p
    <3>1. pos'[q] = pos[q]
      BY <2>1, <2>4
    <3> QED
      BY <2>1, <2>3, <2>4, <3>1
  <2>5. CASE /\ q = p /\ script'[p] = script[p] /\ (CallsOf(p))' = CallsOf(p)
             /\ pos'[p][1] = pos[p][1] /\ pos'[p][2] = pos[p][2] + 1
    <3>1. CASE k # pos[p][2]
      <4>1. k \in 1 .. pos[p][2] - 1
        BY <2>2, <2>5, <3>1
      <4> QED
        BY <2>3, <2>5, <4>1
    <3>2. CASE k = pos[p][2]
      <4>1. ~GivesUp(p, b)
        <5>1. SUFFICES ASSUME GivesUp(p, b) PROVE FALSE
          OBVIOUS
        <5>2. Skips(p) /\ pos \in [Procs -> Nat \X Nat]
          BY <5>1 DEF GivesUp, Base, Placed
        <5>3. pos'[p][1] = pos[p][1] + 1 \/ pos' = pos
          BY <5>2 DEF Skips
        <5> QED
          BY <2>2, <2>5, <5>3
      <4>2. PICK c : c = Current(p)
        OBVIOUS
      <4>3. Holds(p, c)'
        BY <1>2, <2>5, <4>1, <4>2, CallHolds
      <4>4. (CallsOf(p)[k])' = c
        BY <2>5, <3>2, <4>2 DEF Current
      <4> QED
        BY <2>5, <4>3, <4>4 DEF Holds
    <3> QED
      BY <3>1, <3>2
  <2>6. CASE q = p /\ pos'[p][2] = 1
    BY <2>6
  <2> QED
    BY <2>1, <2>4, <2>5, <2>6
<1>3. CASE Stutters
  <2>1. \A q \in Procs : (CallsOf(q))' = CallsOf(q)
    BY <1>3 DEF Stutters, CallsOf
  <2> QED
    BY <1>3, <2>1 DEF Stutters, Done, Base, Holds
<1> QED
  BY <1>1, <1>2, <1>3, Kinds DEF Base

LEMMA BaseStep ==
  ASSUME Base, [Next]_vars
  PROVE  Base'
BY PlacedStep, NumbersStep, ExclusiveStep, DoneStep DEF Base

LEMMA BaseInit ==
  ASSUME Init
  PROVE  Base
<1>1. \A p \in Procs : script[p] = "idle" /\ pos[p] = Start
  BY DEF Init
<1>2. Start \in Nat \X Nat /\ Nowhere \in [Blocks -> Nat] /\ \A b \in Blocks : Nowhere[b] = 0
  BY DEF Start, Nowhere
<1>3. Placed
  BY <1>1, <1>2 DEF Init, Placed, Procs
<1>4. Numbers
  BY <1>2 DEF Init, Numbers
<1> QED
  BY <1>1, <1>3, <1>4 DEF Base, Exclusive, Running, Done

-----------------------------------------------------------------------------
(***************************************************************************)
(* The order of creation, and what is ready.                               *)
(***************************************************************************)
LEMMA MoverPlace ==
  ASSUME Base, NEW p \in Procs, NEW b \in Blocks, Moves(p, b)
  PROVE  /\ script[p] # "idle" /\ script[p] \in {"on", "off", "open"}
         /\ pos[p][1] \in 1 .. PartsOf(script[p]) /\ pos[p][1] \in 1 .. NumParts
         /\ pos[p][2] \in 1 .. Len(CallsOf(p)) /\ Len(CallsOf(p)) \in Nat \ {0}
         /\ Current(p).op \in OpsOf(script[p])
         /\ Current(p).block = b /\ b \in PartBlocks(pos[p][1])
         /\ CallsOf(p) = Calls(script[p], pos[p][1]) /\ Current(p) = CallsOf(p)[pos[p][2]]
BY WhereItIs DEF Moves, Base, CallsOf, Current

LEMMA MoverNext ==
  ASSUME Base, NEW p \in Procs, NEW b \in Blocks, Moves(p, b)
  PROVE  /\ \A q \in Procs : q # p =>
              script'[q] = script[q] /\ pos'[q] = pos[q] /\ (CallsOf(q))' = CallsOf(q)
         /\ \/ /\ script'[p] = script[p] /\ pos[p][2] < Len(CallsOf(p))
               /\ pos'[p][1] = pos[p][1] /\ pos'[p][2] = pos[p][2] + 1
               /\ (CallsOf(p))' = CallsOf(p) /\ ~GivesUp(p, b)
            \/ /\ script'[p] = script[p] /\ pos[p][1] < PartsOf(script[p])
               /\ pos'[p][1] = pos[p][1] + 1 /\ pos'[p][2] = 1
               /\ GivesUp(p, b) \/ pos[p][2] = Len(CallsOf(p))
            \/ /\ script'[p] = "idle" /\ pos[p][1] = PartsOf(script[p]) /\ pos'[p] = pos[p]
               /\ GivesUp(p, b) \/ pos[p][2] = Len(CallsOf(p))
<1>1. /\ script[p] \in {"on", "off", "open"} /\ pos[p][1] \in Nat /\ pos[p][2] \in Nat
      /\ pos \in [Procs -> Nat \X Nat] /\ Len(CallsOf(p)) \in Nat
      /\ PartsOf(script[p]) \in Nat
  BY MoverPlace, NumPartsType DEF Base, Placed
<1>2. GivesUp(p, b) => Skips(p)
  BY DEF GivesUp
<1>3. Skips(p) => \/ pos'[p][1] = pos[p][1] + 1
                  \/ script'[p] = "idle"
  BY <1>1 DEF Skips, Base, Placed
<1>4. Passes(p) => \/ pos[p][2] = Len(CallsOf(p))
                   \/ /\ pos[p][2] < Len(CallsOf(p)) /\ script' = script
                      /\ pos' = [pos EXCEPT ![p] = <<pos[p][1], pos[p][2] + 1>>]
  BY DEF Passes
<1>5. ~GivesUp(p, b) => Passes(p)
  BY DEF Moves, Creates, Initialises, Attaches, Destroys
<1>6. pos' = [pos EXCEPT ![p] = <<pos[p][1], pos[p][2] + 1>>] => pos'[p][1] = pos[p][1]
  BY <1>1
<1>7. /\ \A q \in Procs : q # p =>
           script'[q] = script[q] /\ pos'[q] = pos[q] /\ (CallsOf(q))' = CallsOf(q)
      /\ \/ /\ script'[p] = script[p] /\ pos[p][2] < Len(CallsOf(p))
            /\ pos'[p][1] = pos[p][1] /\ pos'[p][2] = pos[p][2] + 1
            /\ (CallsOf(p))' = CallsOf(p)
         \/ /\ script'[p] = script[p] /\ pos[p][1] < PartsOf(script[p])
            /\ pos'[p][1] = pos[p][1] + 1 /\ pos'[p][2] = 1
         \/ /\ script'[p] = "idle" /\ pos[p][1] = PartsOf(script[p]) /\ pos'[p] = pos[p]
  BY Movement DEF Moves, Base
<1>8. ASSUME pos'[p][1] = pos[p][1] + 1 \/ script'[p] = "idle"
      PROVE  GivesUp(p, b) \/ pos[p][2] = Len(CallsOf(p))
  <2>1. SUFFICES ASSUME ~GivesUp(p, b), pos[p][2] # Len(CallsOf(p)) PROVE FALSE
    OBVIOUS
  <2>2. script' = script /\ pos' = [pos EXCEPT ![p] = <<pos[p][1], pos[p][2] + 1>>]
    BY <1>4, <1>5, <2>1
  <2> QED
    BY <1>1, <1>6, <1>8, <2>2
<1>9. ASSUME script'[p] = script[p], pos'[p][1] = pos[p][1]
      PROVE  ~GivesUp(p, b)
  BY <1>1, <1>2, <1>3, <1>9
<1> QED
  BY <1>7, <1>8, <1>9

\* A process comes to destroy a part only by attaching to its blocks; the last
\* one of telemetry is the master block.
LEMMA LeavesFrom ==
  ASSUME Base, NEW p \in Procs, NEW b \in Blocks, Moves(p, b),
         NEW q \in Procs, Leaves(q, 1)'
  PROVE  Leaves(q, 1) \/ (q = p /\ Attaches(p, b) /\ b = Master)
<1>1. CASE q # p
  BY <1>1, MoverNext DEF Leaves, At
<1>2. CASE q = p
  <2>1. pos'[p][1] = 1 /\ script'[p] = "off" /\ (CallsOf(p))'[pos'[p][2]].op = "destroy"
    BY <1>2 DEF Leaves, At
  <2>2. /\ script[p] # "idle" /\ pos[p][1] \in 1 .. NumParts /\ NumParts \in Nat
        /\ pos[p][2] \in 1 .. Len(CallsOf(p)) /\ Len(CallsOf(p)) \in Nat
        /\ CallsOf(p) = Calls(script[p], pos[p][1]) /\ Current(p) = CallsOf(p)[pos[p][2]]
        /\ Current(p).op \in OpsOf(script[p]) /\ Current(p).block = b
    BY MoverPlace, NumPartsType
  <2>3. /\ script[p] = "off" /\ pos[p][2] < Len(CallsOf(p)) /\ pos[p][1] = 1
        /\ pos'[p][2] = pos[p][2] + 1 /\ (CallsOf(p))' = CallsOf(p) /\ ~GivesUp(p, b)
    BY <2>1, <2>2, MoverNext
  <2>4. Current(p).op = "destroy" => Leaves(q, 1)
    BY <1>2, <2>2, <2>3 DEF Leaves, At
  <2>5. CASE Current(p).op = "attach"
    <3>1. CallsOf(p) = Calls("off", 1) /\ pos[p][2] \in 1 .. Len(Calls("off", 1)) - 1
      BY <2>2, <2>3
    <3>2. Calls("off", 1)[pos[p][2]].op = "attach" /\ Calls("off", 1)[pos[p][2] + 1].op = "destroy"
      BY <2>1, <2>2, <2>3, <2>5, <3>1
    <3>3. b = Master
      BY <2>2, <3>1, <3>2, OffParts
    <3>4. Attaches(p, b)
      BY <2>3, <2>5 DEF Moves, Creates, Initialises, Destroys
    <3> QED
      BY <1>2, <3>3, <3>4
  <2> QED
    BY <2>2, <2>3, <2>4, <2>5 DEF OpsOf
<1> QED
  BY <1>1, <1>2

\* When it has destroyed the last block of a part, none is left.
LEMMA LeavesEnd ==
  ASSUME Base, NEW p \in Procs, NEW b \in Blocks, Moves(p, b),
         NEW q \in Procs, NEW P \in 1 .. NumParts, Leaves(q, P), ~Leaves(q, P)'
  PROVE  Untouched(P)'
<1>1. q = p
  BY MoverNext DEF Leaves, At
<1>2. /\ script[p] = "off" /\ pos[p][1] = P /\ CallsOf(p) = Calls("off", P)
      /\ pos[p][2] \in 1 .. Len(CallsOf(p)) /\ Len(CallsOf(p)) \in Nat
      /\ Current(p) = CallsOf(p)[pos[p][2]] /\ Current(p).op = "destroy" /\ Current(p).block = b
  <2>1. script[p] = "off" /\ pos[p][1] = P /\ CallsOf(p)[pos[p][2]].op = "destroy"
    BY <1>1 DEF Leaves, At
  <2> QED
    BY <2>1, MoverPlace
<1>3. Unmade(CallsOf(p), PartBlocks(P))
  BY <1>2, OffParts
<1>4. Destroys(p, b)
  BY <1>2 DEF Moves, Creates, Initialises, Attaches, GivesUp
<1>5. ~GivesUp(p, b)
  BY <1>2 DEF GivesUp
<1>6. pos[p][2] = Len(CallsOf(p))
  <2>1. SUFFICES ASSUME pos[p][2] # Len(CallsOf(p)) PROVE FALSE
    OBVIOUS
  <2>2. /\ script'[p] = script[p] /\ pos[p][2] < Len(CallsOf(p)) /\ pos'[p][1] = pos[p][1]
        /\ pos'[p][2] = pos[p][2] + 1 /\ (CallsOf(p))' = CallsOf(p)
    BY <1>5, <2>1, MoverNext
  <2>3. pos[p][2] + 1 \in 1 .. Len(CallsOf(p)) /\ pos[p][2] <= pos[p][2] + 1
    BY <1>2, <2>2
  <2>4. CallsOf(p)[pos[p][2] + 1].op = "destroy"
    BY <1>2, <1>3, <2>3 DEF Unmade
  <2>5. Leaves(p, P)'
    BY <1>2, <2>2, <2>4 DEF Leaves, At
  <2> QED
    BY <1>1, <2>5
<1>7. segment' = [segment EXCEPT ![b] = 0] /\ segment \in [Blocks -> Nat]
  BY <1>2, <1>4, DestroyGone DEF Base, Numbers
<1>8. ASSUME NEW x \in PartBlocks(P) PROVE segment'[x] = 0
  <2>1. PICK k \in 1 .. Len(CallsOf(p)) : CallsOf(p)[k].op = "destroy" /\ CallsOf(p)[k].block = x
    BY <1>3 DEF Unmade
  <2>2. x \in Blocks
    BY BlocksOfParts
  <2>3. CASE k = pos[p][2]
    BY <1>2, <1>7, <2>1, <2>2, <2>3
  <2>4. CASE k # pos[p][2]
    <3>1. k \in 1 .. pos[p][2] - 1
      BY <1>2, <1>6, <2>1, <2>4
    <3>2. segment[x] = 0
      BY <1>2, <2>1, <3>1 DEF Base, Done, Holds
    <3> QED
      BY <1>7, <2>2, <3>2
  <2> QED
    BY <2>3, <2>4
<1> QED
  BY <1>8 DEF Untouched, PartBlocks

LEMMA StartLeaves ==
  ASSUME Base, NEW p \in Procs, NEW s \in {"on", "off", "open"}, Starts(p, s),
         NEW q \in Procs, NEW P \in 1 .. NumParts
  PROVE  /\ Leaves(q, P)' <=> Leaves(q, P)
         /\ Owns(q, P)' <=> Owns(q, P)
<1>1. /\ script'[p] = s /\ pos'[p][1] = 1 /\ pos'[p][2] = 1 /\ (CallsOf(p))' = Calls(s, 1)
      /\ \A r \in Procs : r # p =>
           script'[r] = script[r] /\ pos'[r] = pos[r] /\ (CallsOf(r))' = CallsOf(r)
  BY StartPlace DEF Base
<1>2. CASE q # p
  BY <1>1, <1>2 DEF Leaves, Owns, At
<1>3. CASE q = p
  <2>1. script[p] = "idle"
    BY DEF Starts
  <2>2. Calls(s, 1)[1].op # "destroy"
    BY ScriptShape, NumPartsType
  <2>3. ~Leaves(p, P)' /\ ~Owns(p, P)'
    BY <1>1, <2>2 DEF Leaves, Owns, At
  <2> QED
    BY <1>3, <2>1, <2>3 DEF Leaves, Owns, At
<1> QED
  BY <1>2, <1>3

\* The blocks that CreateTelemetry creates.
LEMMA Order ==
  /\ \A k \in DOMAIN CreateTelemetry :
       k \in 1 .. Len(CreateTelemetry) /\ CreateTelemetry[k].block \in PartBlocks(1)
       /\ CreateTelemetry[k].block \in Blocks
  /\ Calls("on", 1) = CreateTelemetry /\ 1 \in 1 .. NumParts
BY OnParts, TelemetryMade, BlocksOfParts, NumPartsType DEF Made

\* Telemetry's blocks are created in order, one after the other.
LEMMA OrderlyStep ==
  ASSUME Base, Orderly, [Next]_vars
  PROVE  Orderly'
<1>1. ASSUME NEW p \in Procs, NEW s \in {"on", "off", "open"}, Starts(p, s)
      PROVE  Orderly'
  <2>1. segment' = segment
    BY <1>1 DEF Starts, kernel
  <2>2. \A q \in Procs : Leaves(q, 1)' <=> Leaves(q, 1)
    BY <1>1, StartLeaves, Order
  <2> QED
    BY <2>1, <2>2 DEF Orderly, InOrder
<1>2. ASSUME NEW p \in Procs, NEW b \in Blocks, Moves(p, b)
      PROVE  Orderly'
  <2>1. CASE \E q \in Procs : Leaves(q, 1)
    <3>1. PICK q \in Procs : Leaves(q, 1)
      BY <2>1
    <3>2. CASE Leaves(q, 1)'
      BY <3>2 DEF Orderly
    <3>3. CASE ~Leaves(q, 1)'
      <4>1. Untouched(1)'
        BY <1>2, <3>1, <3>3, LeavesEnd, Order
      <4>2. \A k \in DOMAIN CreateTelemetry : segment'[CreateTelemetry[k].block] = 0
        BY <4>1, Order DEF Untouched, PartBlocks
      <4> QED
        BY <4>2 DEF Orderly, InOrder
    <3> QED
      BY <3>2, <3>3
  <2>2. CASE InOrder /\ ~(\E q \in Procs : Leaves(q, 1))
    <3>1. segment \in [Blocks -> Nat] /\ made \in [Blocks -> Nat]
      BY DEF Base, Numbers
    <3>2. CASE segment' = segment
      BY <2>2, <3>2 DEF Orderly, InOrder
    <3>3. CASE Destroys(p, b)
      <4>1. /\ script[p] = "off" /\ pos[p][1] \in 1 .. NumParts
            /\ CallsOf(p)[pos[p][2]].op = "destroy" /\ b \in PartBlocks(pos[p][1])
        BY <1>2, <3>3, MoverPlace DEF Destroys
      <4>2. pos[p][1] # 1
        BY <2>2, <4>1 DEF Leaves, At
      <4>3. \A k \in DOMAIN CreateTelemetry : CreateTelemetry[k].block # b
        BY <4>1, <4>2, Order, BlocksOfParts
      <4>4. \A x \in Blocks : x # b => segment'[x] = segment[x]
        BY <1>2, <3>1, <3>3, DestroyGone DEF Moves
      <4>5. \A k \in DOMAIN CreateTelemetry :
              segment'[CreateTelemetry[k].block] = segment[CreateTelemetry[k].block]
        BY <4>3, <4>4, Order
      <4> QED
        BY <2>2, <4>5 DEF Orderly, InOrder
    <3>4. CASE Creates(p, b)
      <4>1. /\ script[p] = "on" /\ pos[p][1] \in 1 .. NumParts /\ b \in PartBlocks(pos[p][1])
            /\ CallsOf(p) = Calls("on", pos[p][1]) /\ pos[p][2] \in 1 .. Len(CallsOf(p))
            /\ CallsOf(p)[pos[p][2]].op = "create" /\ CallsOf(p)[pos[p][2]].block = b
            /\ Len(CallsOf(p)) \in Nat
        BY <1>2, <3>4, MoverPlace DEF Creates
      <4>2. /\ \A x \in Blocks : x # b => segment'[x] = segment[x]
            /\ segment'[b] # 0 /\ segment[b] = 0
        BY <3>1, <3>4 DEF Creates
      <4> SUFFICES ASSUME NEW i \in DOMAIN CreateTelemetry, NEW j \in DOMAIN CreateTelemetry,
                          CreateTelemetry[i].op = "create", CreateTelemetry[j].op = "create",
                          i < j, segment'[CreateTelemetry[j].block] # 0
                   PROVE  segment'[CreateTelemetry[i].block] # 0
        BY DEF Orderly, InOrder
      <4>3. CreateTelemetry[i].block \in Blocks /\ CreateTelemetry[j].block \in Blocks
        BY Order
      <4>4. CASE CreateTelemetry[j].block # b
        BY <2>2, <4>2, <4>3, <4>4 DEF InOrder
      <4>5. CASE CreateTelemetry[j].block = b
        <5>1. pos[p][1] = 1
          BY <4>1, <4>5, Order, BlocksOfParts
        <5>2. CallsOf(p) = CreateTelemetry
          BY <4>1, <5>1, Order
        <5>3. j = pos[p][2]
          BY <4>1, <4>5, <5>2, TelemetryMade, Order DEF Made
        <5>4. i \in 1 .. pos[p][2] - 1
          BY <4>1, <5>2, <5>3, Order
        <5>5. segment[CreateTelemetry[i].block] # 0
          BY <4>1, <5>2, <5>4 DEF Base, Done, Holds
        <5> QED
          BY <4>2, <4>3, <5>5
      <4> QED
        BY <4>4, <4>5
    <3> QED
      BY <1>2, <3>2, <3>3, <3>4 DEF Moves, Initialises, Attaches, GivesUp, kernel
  <2> QED
    BY <2>1, <2>2 DEF Orderly
<1>3. CASE Stutters
  <2>1. \A q \in Procs : Leaves(q, 1)' <=> Leaves(q, 1)
    BY <1>3 DEF Stutters, Leaves, At, CallsOf
  <2> QED
    BY <1>3, <2>1 DEF Stutters, Orderly, InOrder
<1> QED
  BY <1>1, <1>2, <1>3, Kinds DEF Base

LEMMA NonceBlock ==
  /\ NonceBlocks \subseteq PacketBlocks /\ NonceBlocks \subseteq Blocks
  /\ NonceBlocks \subseteq PartBlocks(1) /\ Master \notin NonceBlocks
  /\ PacketBlocks \subseteq PartBlocks(1) /\ Master \in PartBlocks(1)
BY PacketBlock, BlocksOfParts DEF NonceBlocks, PartBlocks

\* While the master block exists, or telemetry's blocks are being destroyed,
\* every nonce and lock there is has been initialised.
LEMMA ReadinessStep ==
  ASSUME Base, Orderly, Readiness, [Next]_vars
  PROVE  Readiness'
<1>1. ASSUME NEW p \in Procs, NEW s \in {"on", "off", "open"}, Starts(p, s)
      PROVE  Readiness'
  <2>1. segment' = segment /\ ready' = ready
    BY <1>1 DEF Starts, kernel
  <2>2. \A q \in Procs : Leaves(q, 1)' <=> Leaves(q, 1)
    BY <1>1, StartLeaves, Order
  <2> QED
    BY <2>1, <2>2 DEF Readiness
<1>2. ASSUME NEW p \in Procs, NEW b \in Blocks, Moves(p, b)
      PROVE  Readiness'
  <2>1. \A q \in Procs : Leaves(q, 1)' => Leaves(q, 1) \/ (q = p /\ Attaches(p, b) /\ b = Master)
    BY <1>2, LeavesFrom
  <2>2. segment \in [Blocks -> Nat] /\ made \in [Blocks -> Nat] /\ Master \in Blocks
    BY BlocksOfParts DEF Base, Numbers
  <2>3. CASE Creates(p, b)
    <3>1. /\ script[p] = "on" /\ pos[p][1] \in 1 .. NumParts /\ b \in PartBlocks(pos[p][1])
          /\ CallsOf(p) = Calls("on", pos[p][1]) /\ pos[p][2] \in 1 .. Len(CallsOf(p))
          /\ CallsOf(p)[pos[p][2]].op = "create" /\ CallsOf(p)[pos[p][2]].block = b
          /\ Len(CallsOf(p)) \in Nat
      BY <1>2, <2>3, MoverPlace DEF Creates
    <3>2. /\ \A x \in Blocks : x # b => segment'[x] = segment[x]
          /\ segment[b] = 0 /\ ready' = ready
      BY <2>2, <2>3 DEF Creates
    <3>3. ~(\E q \in Procs : Leaves(q, 1))
      BY <3>1, Apart DEF Base, Leaves
    <3>4. \A q \in Procs : ~Leaves(q, 1)'
      <4>1. ~Attaches(p, b)
        BY <3>1 DEF Attaches
      <4> QED
        BY <2>1, <3>3, <4>1
    <3>5. CASE b = Master
      <4>1. pos[p][1] = 1
        BY <3>1, <3>5, NonceBlock, Order, BlocksOfParts
      <4>2. CallsOf(p) = CreateTelemetry
        BY <3>1, <4>1, Order
      <4>3. \A x \in NonceBlocks : \E j \in 1 .. pos[p][2] - 1 :
              CallsOf(p)[j].op = "init" /\ CallsOf(p)[j].block = x
        BY <3>1, <3>5, <4>2, MasterMadeLast DEF MasterLast
      <4>4. \A x \in NonceBlocks : <<x, segment[x]>> \in ready
        BY <3>1, <4>3 DEF Base, Done, Holds
      <4>5. \A x \in NonceBlocks : segment'[x] = segment[x]
        BY <3>2, <3>5, NonceBlock
      <4> QED
        BY <3>2, <4>4, <4>5 DEF Readiness
    <3>6. CASE b # Master /\ segment[Master] = 0
      BY <2>2, <3>2, <3>4, <3>6 DEF Readiness
    <3>7. CASE b # Master /\ segment[Master] # 0
      <4>1. b \notin PacketBlocks
        <5>1. SUFFICES ASSUME b \in PacketBlocks PROVE FALSE
          OBVIOUS
        <5>2. PICK k \in 1 .. Len(CreateTelemetry) :
                CreateTelemetry[k].op = "create" /\ CreateTelemetry[k].block = Master
          BY TelemetryMade, NonceBlock DEF Made
        <5>3. PICK j \in 1 .. k - 1 :
                CreateTelemetry[j].op = "create" /\ CreateTelemetry[j].block = b
          BY <5>1, <5>2, MasterMadeLast DEF MasterLast
        <5>4. j \in DOMAIN CreateTelemetry /\ k \in DOMAIN CreateTelemetry /\ j < k
          BY <5>2, <5>3, TelemetryMade DEF Made
        <5>5. InOrder
          BY <3>3 DEF Orderly
        <5> QED
          BY <3>2, <3>7, <5>2, <5>3, <5>4, <5>5 DEF InOrder
      <4>2. \A x \in NonceBlocks : segment'[x] = segment[x]
        BY <3>2, <4>1, NonceBlock
      <4> QED
        BY <3>2, <3>7, <4>2 DEF Readiness
    <3> QED
      BY <3>5, <3>6, <3>7
  <2>4. CASE Initialises(p, b)
    <3>1. segment' = segment /\ ready \subseteq ready' /\ ~Attaches(p, b)
      BY <2>4 DEF Initialises, Attaches
    <3> QED
      BY <2>1, <3>1 DEF Readiness
  <2>5. CASE Attaches(p, b)
    <3>1. segment' = segment /\ ready' = ready /\ segment[b] # 0
      BY <2>5 DEF Attaches, kernel
    <3> QED
      BY <2>1, <3>1 DEF Readiness
  <2>6. CASE Destroys(p, b)
    <3>1. \A x \in Blocks : segment'[x] \in {0, segment[x]}
      BY <1>2, <2>2, <2>6, DestroyGone DEF Moves
    <3>2. ready' = ready /\ ~Attaches(p, b)
      BY <2>6 DEF Destroys, Attaches
    <3>3. segment'[Master] # 0 => segment[Master] # 0
      BY <2>2, <3>1
    <3>4. SUFFICES ASSUME segment'[Master] # 0 \/ (\E q \in Procs : Leaves(q, 1)'),
                          NEW x \in NonceBlocks, segment'[x] # 0
                   PROVE  <<x, segment'[x]>> \in ready'
      BY DEF Readiness
    <3>5. segment'[x] = segment[x]
      BY <3>1, <3>4, NonceBlock
    <3> QED
      BY <2>1, <3>2, <3>3, <3>4, <3>5 DEF Readiness
  <2>7. CASE GivesUp(p, b)
    <3>1. segment' = segment /\ ready' = ready
      BY <2>7 DEF GivesUp, kernel
    <3>2. \A q \in Procs : Leaves(q, 1)' => Leaves(q, 1)
      <4>1. \A q \in Procs : q # p => (Leaves(q, 1)' => Leaves(q, 1))
        BY <2>1
      <4>2. ~Leaves(p, 1)'
        <5>1. pos'[p][1] = pos[p][1] + 1 \/ script'[p] = "idle"
          BY <1>2, <2>7, MoverNext
        <5>2. pos[p][1] \in Nat \ {0}
          BY <1>2, MoverPlace, NumPartsType
        <5> QED
          BY <5>1, <5>2 DEF Leaves, At
      <4> QED
        BY <4>1, <4>2
    <3> QED
      BY <3>1, <3>2 DEF Readiness
  <2> QED
    BY <1>2, <2>3, <2>4, <2>5, <2>6, <2>7 DEF Moves
<1>3. CASE Stutters
  <2>1. \A q \in Procs : Leaves(q, 1)' <=> Leaves(q, 1)
    BY <1>3 DEF Stutters, Leaves, At, CallsOf
  <2> QED
    BY <1>3, <2>1 DEF Stutters, Readiness
<1> QED
  BY <1>1, <1>2, <1>3, Kinds DEF Base

\* Segments that are gone had been initialised: telemetry is switched off only
\* through its master block.
LEMMA PastStep ==
  ASSUME Base, Readiness, Past, [Next]_vars
  PROVE  Past'
<1>1. ASSUME NEW p \in Procs, NEW s \in {"on", "off", "open"}, Starts(p, s)
      PROVE  Past'
  BY <1>1 DEF Starts, kernel, Past
<1>2. ASSUME NEW p \in Procs, NEW b \in Blocks, Moves(p, b)
      PROVE  Past'
  <2>1. segment \in [Blocks -> Nat] /\ made \in [Blocks -> Nat]
    BY DEF Base, Numbers
  <2>2. CASE Creates(p, b)
    <3>1. /\ \A x \in Blocks : x # b => segment'[x] = segment[x] /\ made'[x] = made[x]
          /\ segment'[b] = made[b] + 1 /\ made'[b] = made[b] + 1
          /\ segment[b] = 0 /\ ready' = ready
      BY <2>1, <2>2 DEF Creates
    <3> SUFFICES ASSUME NEW x \in NonceBlocks, NEW n \in 1 .. made'[x], n # segment'[x]
                 PROVE  <<x, n>> \in ready'
      BY DEF Past
    <3>2. n \in 1 .. made[x] /\ n # segment[x]
      <4>1. x \in Blocks /\ made[x] \in Nat /\ made[b] \in Nat
        BY <2>1, NonceBlock
      <4>2. CASE x = b
        BY <3>1, <4>1, <4>2
      <4>3. CASE x # b
        BY <3>1, <4>1, <4>3
      <4> QED
        BY <4>2, <4>3
    <3> QED
      BY <3>1, <3>2 DEF Past
  <2>3. CASE Initialises(p, b)
    BY <2>3 DEF Initialises, Past
  <2>4. CASE Attaches(p, b) \/ GivesUp(p, b)
    BY <2>4 DEF Attaches, GivesUp, kernel, Past
  <2>5. CASE Destroys(p, b)
    <3>1. made' = made /\ ready' = ready /\ segment' = [segment EXCEPT ![b] = 0]
      BY <1>2, <2>5, DestroyGone DEF Destroys, Moves
    <3> SUFFICES ASSUME NEW x \in NonceBlocks, NEW n \in 1 .. made[x], n # segment'[x]
                 PROVE  <<x, n>> \in ready
      BY <3>1 DEF Past
    <3>2. CASE n # segment[x]
      BY <3>2 DEF Past
    <3>3. CASE n = segment[x]
      <4>1. x = b
        BY <2>1, <3>1, <3>3, NonceBlock
      <4>2. /\ script[p] = "off" /\ pos[p][1] \in 1 .. NumParts
            /\ CallsOf(p)[pos[p][2]].op = "destroy" /\ b \in PartBlocks(pos[p][1])
        BY <1>2, <2>5, MoverPlace DEF Destroys
      <4>3. pos[p][1] = 1
        BY <4>1, <4>2, NonceBlock, Order, BlocksOfParts
      <4>4. Leaves(p, 1)
        BY <4>2, <4>3 DEF Leaves, At
      <4>5. segment[x] # 0
        BY <2>1, <3>3, NonceBlock
      <4> QED
        BY <3>3, <4>4, <4>5 DEF Readiness
    <3> QED
      BY <3>2, <3>3
  <2> QED
    BY <1>2, <2>2, <2>3, <2>4, <2>5 DEF Moves
<1>3. CASE Stutters
  BY <1>3 DEF Stutters, Past
<1> QED
  BY <1>1, <1>2, <1>3, Kinds DEF Base

\* open ends with the master block, and every block it attached to before was
\* ready by then or had been.
LEMMA OpenedStep ==
  ASSUME Base, Readiness, Past, OpenedReady, [Next]_vars
  PROVE  OpenedReady'
<1>1. ASSUME NEW p \in Procs, NEW s \in {"on", "off", "open"}, Starts(p, s)
      PROVE  OpenedReady'
  <2>1. opened' = opened /\ ready' = ready /\ p \notin opened /\ got' = [got EXCEPT ![p] = Nowhere]
    BY <1>1 DEF Starts, kernel
  <2>2. \A q \in opened : got'[q] = got[q]
    BY <2>1 DEF Base, Numbers, Placed, Procs
  <2> QED
    BY <2>1, <2>2 DEF OpenedReady
<1>2. ASSUME NEW p \in Procs, NEW b \in Blocks, Moves(p, b)
      PROVE  OpenedReady'
  <2>1. script[p] # "idle" /\ opened \subseteq Procs
        /\ ready \subseteq ready' /\ \A q \in Procs : q # p => got'[q] = got[q]
    BY <1>2, KernelStep DEF Base, Placed, Procs, Moves
  <2>2. p \notin opened
    BY <2>1 DEF Base, Placed
  <2>3. \A q \in opened : got'[q] = got[q]
    BY <2>1, <2>2
  <2>4. CASE opened' = opened
    BY <2>1, <2>3, <2>4 DEF OpenedReady
  <2>5. CASE opened' # opened
    <3>1. opened' = opened \cup {p} /\ script[p] = "open" /\ pos[p][2] = Len(CallsOf(p))
      BY <1>2, <2>5 DEF Moves, Passes
    <3>2. /\ pos[p][1] \in 1 .. PartsOf("open") /\ pos[p][2] \in Nat
          /\ Current(p).op = "attach" /\ Current(p).block = b
          /\ CallsOf(p) = Calls("open", pos[p][1]) /\ Current(p) = CallsOf(p)[pos[p][2]]
      BY <1>2, <3>1, MoverPlace DEF OpsOf
    <3>3. CallsOf(p) = Calls("open", 1)
      BY <3>2 DEF PartsOf
    <3>4. Reached(CallsOf(p), PartBlocks(1))
      BY <3>3, OpenParts
    <3>5. b = Master
      BY <3>1, <3>2, <3>4 DEF Reached
    <3>6. Attaches(p, b)
      <4>1. ~GivesUp(p, b)
        BY <2>5 DEF GivesUp
      <4> QED
        BY <1>2, <3>2, <4>1 DEF Moves, Creates, Initialises, Destroys
    <3>7. segment[Master] # 0 /\ ready' = ready /\ got' = [got EXCEPT ![p][b] = segment[b]]
      BY <3>5, <3>6 DEF Attaches, kernel
    <3>8. ASSUME NEW x \in NonceBlocks PROVE <<x, got'[p][x]>> \in ready'
      <4>1. x \in Blocks /\ x # b /\ x \in PartBlocks(1)
        BY <3>5, NonceBlock
      <4>2. got'[p][x] = got[p][x]
        BY <3>7, <4>1 DEF Base, Numbers
      <4>3. PICK k \in 1 .. Len(CallsOf(p)) : CallsOf(p)[k].block = x
        BY <3>4, <4>1 DEF Reached
      <4>4. k # pos[p][2]
        BY <3>2, <4>1, <4>3
      <4>5. k \in 1 .. pos[p][2] - 1
        BY <3>1, <3>2, <4>3, <4>4
      <4>6. CallsOf(p)[k].op = "attach"
        BY <3>4, <4>3 DEF Reached
      <4>7. got[p][x] # 0
        BY <2>1, <4>3, <4>5, <4>6 DEF Base, Done, Holds
      <4>8. got[p][x] \in 1 .. made[x]
        BY <4>1, <4>7 DEF Base, Numbers
      <4>9. CASE got[p][x] = segment[x]
        BY <3>7, <4>2, <4>7, <4>9 DEF Readiness
      <4>10. CASE got[p][x] # segment[x]
        BY <3>7, <4>2, <4>8, <4>10 DEF Past
      <4> QED
        BY <4>9, <4>10
    <3> QED
      BY <2>1, <2>3, <3>1, <3>8 DEF OpenedReady, NonceBlocks
  <2> QED
    BY <2>4, <2>5
<1>3. CASE Stutters
  BY <1>3 DEF Stutters, OpenedReady
<1> QED
  BY <1>1, <1>2, <1>3, Kinds DEF Base

Sound == Base /\ Orderly /\ Readiness /\ Past /\ OpenedReady

LEMMA SoundAlways == Spec => []Sound
<1>1. ASSUME Init PROVE Sound
  <2>1. Base
    BY <1>1, BaseInit
  <2>2. \A b \in Blocks : segment[b] = 0 /\ made[b] = 0
    BY <1>1 DEF Init, Nowhere
  <2>3. Orderly
    BY <2>2, Order DEF Orderly, InOrder
  <2>4. Readiness /\ Past
    BY <2>2, NonceBlock DEF Readiness, Past
  <2>5. OpenedReady
    BY <1>1 DEF Init, OpenedReady
  <2> QED
    BY <2>1, <2>3, <2>4, <2>5 DEF Sound
<1>2. ASSUME Sound, [Next]_vars PROVE Sound'
  BY <1>2, BaseStep, OrderlyStep, ReadinessStep, PastStep, OpenedStep DEF Sound
<1> QED
  BY <1>1, <1>2, PTL DEF Spec

\* TelemetryShm::open returns only with nonces and write locks that have been
\* initialised, whatever runs of shmctl it races with: create makes the master
\* block last, open attaches to it last, and destroy removes it last.
THEOREM OpenedAreReady == Spec => []OpenedReady
<1>1. Sound => OpenedReady
  BY DEF Sound
<1> QED
  BY <1>1, SoundAlways, PTL

\* TelemetryShm::create stops at its first failure and nothing but destroy
\* removes a block, so what there is when nobody switches off is a beginning of
\* the list of blocks.
THEOREM NoHoles == Spec => []CreatedInOrder
<1>1. Sound => CreatedInOrder
  <2> SUFFICES ASSUME Sound, ~Running("off") PROVE InOrder
    BY DEF CreatedInOrder, InOrder
  <2>1. \A p \in Procs : ~Leaves(p, 1)
    BY DEF Running, Leaves
  <2> QED
    BY <2>1 DEF Sound, Orderly
<1> QED
  BY <1>1, SoundAlways, PTL

-----------------------------------------------------------------------------
(***************************************************************************)
(* Racing runs leave every block or none, as long as no creation fails.    *)
(***************************************************************************)
Tidy == Single /\ Ahead /\ Settled /\ Behind /\ AtRest

\* An owner has made the first block of its part.
LEMMA OwnerStarted ==
  ASSUME Base, NEW q \in Procs, NEW P \in 1 .. NumParts, Owns(q, P)
  PROVE  /\ script[q] = "on" /\ CallsOf(q) = Calls("on", P) /\ pos[q][1] = P
         /\ pos[q][2] \in 1 .. Len(Calls("on", P))
         /\ Calls("on", P)[1].op = "create" /\ Calls("on", P)[1].block \in PartBlocks(P)
         /\ segment[Calls("on", P)[1].block] # 0
         /\ ~Untouched(P)
<1>1. script[q] = "on" /\ pos[q][1] = P /\ pos[q][2] > 1 /\ script[q] # "idle"
  BY DEF Owns, At
<1>2. CallsOf(q) = Calls("on", P) /\ pos[q][2] \in 1 .. Len(Calls("on", P))
  BY <1>1, WhereItIs DEF Base, CallsOf
<1>3. Made(Calls("on", P), PartBlocks(P))
  BY OnParts
<1>4. Calls("on", P)[1].op = "create" /\ Calls("on", P)[1].block \in PartBlocks(P)
  BY <1>3 DEF Made
<1>5. 1 \in 1 .. pos[q][2] - 1
  BY <1>1, <1>2
<1>6. segment[Calls("on", P)[1].block] # 0
  BY <1>1, <1>2, <1>4, <1>5 DEF Base, Done, Holds
<1> QED
  BY <1>1, <1>2, <1>4, <1>6 DEF Untouched

LEMMA OwnsFrom ==
  ASSUME Base, NEW p \in Procs, NEW b \in Blocks, Moves(p, b),
         NEW q \in Procs, NEW P \in 1 .. NumParts, Owns(q, P)'
  PROVE  \/ Owns(q, P)
         \/ q = p /\ Creates(p, b) /\ pos[p][1] = P /\ pos[p][2] = 1
<1>1. CASE q # p
  BY <1>1, MoverNext DEF Owns, At
<1>2. CASE q = p
  <2>1. pos'[p][1] = P /\ script'[p] = "on" /\ pos'[p][2] > 1
    BY <1>2 DEF Owns, At
  <2>2. /\ script[p] # "idle" /\ pos[p][1] \in 1 .. NumParts
        /\ pos[p][2] \in 1 .. Len(CallsOf(p)) /\ Len(CallsOf(p)) \in Nat
        /\ CallsOf(p) = Calls(script[p], pos[p][1]) /\ Current(p) = CallsOf(p)[pos[p][2]]
    BY MoverPlace
  <2>3. script[p] = "on" /\ pos[p][1] = P /\ ~GivesUp(p, b)
    BY <2>1, MoverNext
  <2>4. CASE pos[p][2] > 1
    BY <1>2, <2>2, <2>3, <2>4 DEF Owns, At
  <2>5. CASE pos[p][2] = 1
    <3>1. Current(p).op = "create"
      BY <2>2, <2>3, <2>5, OnParts DEF Made
    <3> QED
      BY <1>2, <2>3, <2>5, <3>1 DEF Moves, Initialises, Attaches, Destroys
  <2> QED
    BY <2>2, <2>4, <2>5
<1> QED
  BY <1>1, <1>2

\* A process that makes the first block of a part finds none of the others.
LEMMA FirstCreates ==
  ASSUME Base, Settled, NEW p \in Procs, NEW b \in Blocks, Moves(p, b), Creates(p, b),
         pos[p][2] = 1
  PROVE  Untouched(pos[p][1])
<1> DEFINE P == pos[p][1]
<1>1. /\ script[p] = "on" /\ P \in 1 .. NumParts /\ segment[b] = 0 /\ b \in PartBlocks(P)
      /\ Calls("on", P)[1].block = b
  BY MoverPlace DEF Creates
<1>2. ~Complete(P)
  BY <1>1 DEF Complete
<1>3. \A q \in Procs : ~Leaves(q, P)
  BY <1>1, Apart DEF Leaves, Base
<1>4. \A q \in Procs : ~Owns(q, P)
  BY <1>1, OwnerStarted
<1> QED
  BY <1>1, <1>2, <1>3, <1>4 DEF Settled

\* An owner does not fail.
LEMMA OwnerGoesOn ==
  ASSUME Base, Ahead, NEW p \in Procs, NEW b \in Blocks, Moves(p, b), faults' = 0,
         NEW P \in 1 .. NumParts, Owns(p, P)
  PROVE  ~GivesUp(p, b)
<1>1. SUFFICES ASSUME GivesUp(p, b) PROVE FALSE
  OBVIOUS
<1>2. /\ script[p] = "on" /\ CallsOf(p) = Calls("on", P) /\ pos[p][1] = P
      /\ pos[p][2] \in 1 .. Len(Calls("on", P)) /\ Len(Calls("on", P)) \in Nat
      /\ Current(p) = Calls("on", P)[pos[p][2]] /\ Current(p).block = b
      /\ Current(p).op \in {"create", "init"}
  BY OwnerStarted, MoverPlace DEF OpsOf
<1>3. faults + 1 # 0
  BY DEF Base, Numbers
<1>4. CASE Current(p).op = "create"
  <2>1. segment[b] # 0
    BY <1>1, <1>3, <1>4 DEF GivesUp
  <2>2. pos[p][2] \in pos[p][2] .. Len(Calls("on", P))
    BY <1>2
  <2>3. segment[b] = 0
    BY <1>2, <1>4, <2>2 DEF Ahead
  <2> QED
    BY <2>1, <2>3
<1>5. CASE Current(p).op = "init"
  <2>1. segment[b] = 0
    BY <1>1, <1>5 DEF GivesUp
  <2>2. PICK j \in 1 .. pos[p][2] - 1 :
          Calls("on", P)[j].op = "create" /\ Calls("on", P)[j].block = b
    <3>1. Made(Calls("on", P), PartBlocks(P))
      BY OnParts
    <3> QED
      BY <1>2, <1>5, <3>1 DEF Made
  <2>3. segment[b] # 0
    BY <1>2, <2>2 DEF Base, Done, Holds
  <2> QED
    BY <2>1, <2>3
<1> QED
  BY <1>2, <1>4, <1>5

\* A part whose last call has been made is complete.
LEMMA Finished ==
  ASSUME Base, NEW p \in Procs, NEW b \in Blocks, Moves(p, b), script[p] = "on",
         ~GivesUp(p, b), pos[p][2] = Len(CallsOf(p)), NEW P, P = pos[p][1]
  PROVE  Complete(P)'
<1> DEFINE c == Calls("on", P)
<1>1. /\ P \in 1 .. NumParts /\ CallsOf(p) = c /\ Len(c) \in Nat /\ pos[p][2] = Len(c)
      /\ Current(p) = c[pos[p][2]] /\ Current(p).block = b
  BY MoverPlace
<1>2. Made(c, PartBlocks(P))
  BY <1>1, OnParts
<1>3. /\ \A x \in Blocks : segment[x] # 0 => segment'[x] = segment[x]
      /\ ready \subseteq ready'
  BY KernelStep
<1>4. \A k \in 1 .. Len(c) : k # pos[p][2] => Holds(p, c[k])
  BY <1>1 DEF Base, Done
<1>5. segment \in [Blocks -> Nat] /\ made \in [Blocks -> Nat]
  BY DEF Base, Numbers
<1>6. CASE Creates(p, b)
  <2>1. Current(p).op = "create" /\ segment'[b] = made[b] + 1 /\ made[b] + 1 # 0
    BY <1>5, <1>6 DEF Creates
  <2>2. ASSUME NEW x \in PartBlocks(P) PROVE segment'[x] # 0
    <3>1. PICK k \in 1 .. Len(c) : c[k].op = "create" /\ c[k].block = x
      BY <1>2 DEF Made
    <3>2. x \in Blocks
      BY <1>1, BlocksOfParts
    <3>3. CASE k = pos[p][2]
      BY <1>1, <2>1, <3>1, <3>3
    <3>4. CASE k # pos[p][2]
      <4>1. segment[x] # 0
        BY <1>4, <3>1, <3>4 DEF Holds
      <4> QED
        BY <1>3, <3>2, <4>1
    <3> QED
      BY <3>3, <3>4
  <2>3. ASSUME NEW x \in PartBlocks(P), x[1] # "data" PROVE <<x, segment'[x]>> \in ready'
    <3>1. PICK k \in 1 .. Len(c) : c[k].op = "init" /\ c[k].block = x
      BY <1>2, <2>3 DEF Made
    <3>2. Holds(p, c[k])
      BY <1>1, <1>4, <2>1, <3>1
    <3> QED
      BY <1>1, <1>3, <3>1, <3>2, BlocksOfParts DEF Holds
  <2> QED
    BY <2>2, <2>3 DEF Complete, PartBlocks
<1>7. CASE Initialises(p, b)
  <2>1. /\ Current(p).op = "init" /\ segment' = segment /\ segment[b] # 0
        /\ <<b, segment[b]>> \in ready'
    BY <1>7 DEF Initialises
  <2>2. ASSUME NEW x \in PartBlocks(P) PROVE segment'[x] # 0
    <3>1. PICK k \in 1 .. Len(c) : c[k].op = "create" /\ c[k].block = x
      BY <1>2 DEF Made
    <3>2. Holds(p, c[k])
      BY <1>1, <1>4, <2>1, <3>1
    <3> QED
      BY <2>1, <3>1, <3>2 DEF Holds
  <2>3. ASSUME NEW x \in PartBlocks(P), x[1] # "data" PROVE <<x, segment'[x]>> \in ready'
    <3>1. PICK k \in 1 .. Len(c) : c[k].op = "init" /\ c[k].block = x
      BY <1>2, <2>3 DEF Made
    <3> QED
      BY <1>1, <1>3, <1>4, <2>1, <3>1 DEF Holds
  <2> QED
    BY <2>2, <2>3 DEF Complete, PartBlocks
<1> QED
  BY <1>6, <1>7 DEF Moves, Attaches, Destroys

\* A run that switches on leaves no part without a block, one that switches off
\* leaves none complete.
LEMMA LeavesBehind ==
  ASSUME Base, Ahead, NEW p \in Procs, NEW b \in Blocks, Moves(p, b), faults' = 0,
         GivesUp(p, b) \/ pos[p][2] = Len(CallsOf(p)), NEW P, P = pos[p][1]
  PROVE  /\ script[p] = "on" => ~Untouched(P)'
         /\ script[p] = "off" => ~Complete(P)'
<1>1. /\ P \in 1 .. NumParts /\ CallsOf(p) = Calls(script[p], P) /\ Len(CallsOf(p)) \in Nat
      /\ Current(p) = CallsOf(p)[pos[p][2]] /\ Current(p).block = b /\ script[p] # "idle"
      /\ b \in PartBlocks(P) /\ pos[p][2] \in 1 .. Len(CallsOf(p))
      /\ Current(p).op \in OpsOf(script[p])
  BY MoverPlace
<1>2. PartBlocks(P) # {}
  BY <1>1, BlocksOfParts
<1>3. ASSUME script[p] = "on" PROVE ~Untouched(P)'
  <2>1. CASE GivesUp(p, b)
    <3>1. ~Owns(p, P)
      BY <1>1, <2>1, OwnerGoesOn
    <3>2. pos[p][2] = 1
      BY <1>1, <1>3, <3>1 DEF Owns, At
    <3>3. Current(p).op = "create"
      BY <1>1, <1>3, <3>2, OnParts DEF Made
    <3>4. faults + 1 # 0
      BY DEF Base, Numbers
    <3>5. segment'[b] # 0
      BY <2>1, <3>3, <3>4 DEF GivesUp, kernel
    <3> QED
      BY <1>1, <3>5 DEF Untouched, PartBlocks
  <2>2. CASE ~GivesUp(p, b)
    <3>1. Complete(P)'
      BY <1>3, <2>2, Finished
    <3> QED
      BY <1>1, <1>2, <3>1 DEF Complete, Untouched, PartBlocks
  <2> QED
    BY <2>1, <2>2
<1>4. ASSUME script[p] = "off" PROVE ~Complete(P)'
  <2>1. CASE GivesUp(p, b)
    <3>1. segment'[b] = 0
      BY <1>1, <1>4, <2>1 DEF GivesUp, kernel, OpsOf
    <3> QED
      BY <1>1, <3>1 DEF Complete, PartBlocks
  <2>2. CASE ~GivesUp(p, b)
    <3>1. pos[p][2] = Len(CallsOf(p))
      BY <2>2
    <3>2. Leaves(p, P)
      BY <1>1, <1>4, <3>1, OffParts DEF Leaves, At, Unmade
    <3>3. ~Leaves(p, P)'
      <4>1. \/ pos'[p][1] = P + 1
            \/ script'[p] = "idle"
        BY <1>1, <3>1, MoverNext
      <4> QED
        BY <1>1, <4>1, NumPartsType DEF Leaves, At
    <3>4. Untouched(P)'
      BY <1>1, <3>2, <3>3, LeavesEnd
    <3> QED
      BY <1>1, <1>2, <3>4 DEF Complete, Untouched, PartBlocks
  <2> QED
    BY <2>1, <2>2
<1> QED
  BY <1>3, <1>4

LEMMA SingleStep ==
  ASSUME Base, Settled, Single, NEW p \in Procs, NEW b \in Blocks, Moves(p, b)
  PROVE  Single'
<1> SUFFICES ASSUME NEW q \in Procs, NEW r \in Procs, NEW P \in 1 .. NumParts,
                    Owns(q, P)', Owns(r, P)', q # r
             PROVE  FALSE
  BY DEF Single, NumParts
<1>1. \A s \in Procs : Owns(s, P)' =>
        Owns(s, P) \/ (s = p /\ Creates(p, b) /\ pos[p][1] = P /\ pos[p][2] = 1)
  BY OwnsFrom
<1>2. ~(Owns(q, P) /\ Owns(r, P))
  BY DEF Single
<1>3. Creates(p, b) /\ pos[p][1] = P /\ pos[p][2] = 1 /\ (Owns(q, P) \/ Owns(r, P))
  BY <1>1, <1>2
<1>4. Untouched(P)
  BY <1>3, FirstCreates
<1> QED
  BY <1>3, <1>4, OwnerStarted

\* The blocks of other parts stay as they are.
LEMMA OtherParts ==
  ASSUME Base, NEW p \in Procs, NEW b \in Blocks, Moves(p, b),
         NEW P \in 1 .. NumParts, NEW x \in PartBlocks(P), x # b
  PROVE  segment'[x] = segment[x]
<1>1. x \in Blocks /\ segment \in [Blocks -> Nat] /\ script[p] # "idle"
  BY BlocksOfParts DEF Base, Numbers, Moves
<1>2. Destroys(p, b) => segment' = [segment EXCEPT ![b] = 0]
  BY <1>1, DestroyGone
<1> QED
  BY <1>1, <1>2 DEF Moves, Creates, Initialises, Attaches, GivesUp, kernel

LEMMA AheadStep ==
  ASSUME Base, Single, Settled, Ahead, NEW p \in Procs, NEW b \in Blocks, Moves(p, b)
  PROVE  Ahead'
<1> SUFFICES ASSUME NEW q \in Procs, NEW P \in 1 .. NumParts, Owns(q, P)',
                    NEW k \in pos'[q][2] .. Len(Calls("on", P)), Calls("on", P)[k].op = "create"
             PROVE  segment'[Calls("on", P)[k].block] = 0
  BY DEF Ahead, NumParts, Calls
<1> DEFINE c == Calls("on", P)
<1>1. Made(c, PartBlocks(P))
  BY OnParts
<1>2. segment \in [Blocks -> Nat]
  BY DEF Base, Numbers
<1>3. CASE q = p
  <2>1. /\ Owns(p, P) \/ (Creates(p, b) /\ pos[p][1] = P /\ pos[p][2] = 1)
        /\ pos'[p][1] = P /\ script'[p] = "on" /\ pos'[p][2] > 1
    BY <1>3, OwnsFrom DEF Owns, At
  <2>2. /\ script[p] = "on" /\ pos[p][1] = P /\ pos[p][2] \in 1 .. Len(c)
        /\ CallsOf(p) = c /\ Current(p) = c[pos[p][2]] /\ Current(p).block = b
    BY <2>1, MoverPlace DEF Owns, At, Creates
  <2>3. pos'[p][2] = pos[p][2] + 1
    BY <2>1, <2>2, MoverNext
  <2>4. k \in pos[p][2] .. Len(c) /\ k \in 1 .. Len(c) /\ k # pos[p][2]
    BY <1>1, <1>3, <2>2, <2>3 DEF Made
  <2>5. c[k].block \in PartBlocks(P)
    BY <1>1, <2>4 DEF Made
  <2>6. segment[c[k].block] = 0
    <3>1. CASE Owns(p, P)
      BY <2>4, <3>1 DEF Ahead
    <3>2. CASE Creates(p, b) /\ pos[p][2] = 1
      BY <2>2, <2>5, <3>2, FirstCreates DEF Untouched
    <3> QED
      BY <2>1, <3>1, <3>2
  <2>7. CASE c[k].block # b
    BY <2>5, <2>6, <2>7, OtherParts
  <2>8. CASE c[k].block = b
    <3>1. Current(p).op # "create"
      BY <1>1, <2>2, <2>4, <2>8 DEF Made
    <3>2. segment' = segment
      BY <2>2, <3>1 DEF Moves, Creates, Initialises, Attaches, Destroys, GivesUp, kernel
    <3> QED
      BY <2>6, <3>2
  <2> QED
    BY <2>7, <2>8
<1>4. CASE q # p
  <2>1. Owns(q, P) /\ pos'[q] = pos[q]
    BY <1>4, OwnsFrom, MoverNext
  <2>2. /\ pos[q][2] \in 1 .. Len(c) /\ script[q] = "on"
    BY <2>1, OwnerStarted
  <2>3. k \in pos[q][2] .. Len(c) /\ k \in 1 .. Len(c)
    BY <1>1, <2>1, <2>2 DEF Made
  <2>4. segment[c[k].block] = 0 /\ c[k].block \in PartBlocks(P)
    BY <1>1, <2>1, <2>3 DEF Ahead, Made
  <2>5. CASE c[k].block # b
    BY <2>4, <2>5, OtherParts
  <2>6. CASE c[k].block = b
    <3>1. ~Creates(p, b)
      <4>1. SUFFICES ASSUME Creates(p, b) PROVE FALSE
        OBVIOUS
      <4>2. pos[p][1] = P /\ script[p] = "on" /\ script[p] # "idle" /\ pos[p][2] \in Nat \ {0}
        BY <2>4, <2>6, <4>1, MoverPlace, BlocksOfParts DEF Creates
      <4>3. CASE pos[p][2] = 1
        BY <2>1, <4>1, <4>2, <4>3, FirstCreates, OwnerStarted
      <4>4. CASE pos[p][2] > 1
        BY <1>4, <2>1, <4>2, <4>4 DEF Owns, At, Single
      <4> QED
        BY <4>2, <4>3, <4>4
    <3>2. segment'[b] \in {0, segment[b]}
      <4>1. Destroys(p, b) => segment' = [segment EXCEPT ![b] = 0]
        BY DestroyGone DEF Moves
      <4> QED
        BY <1>2, <3>1, <4>1 DEF Moves, Initialises, Attaches, GivesUp, kernel
    <3> QED
      BY <2>4, <2>6, <3>2
  <2> QED
    BY <2>5, <2>6
<1> QED
  BY <1>3, <1>4

LEMMA SettledStep ==
  ASSUME Base, Ahead, Settled, NEW p \in Procs, NEW b \in Blocks, Moves(p, b), faults' = 0
  PROVE  Settled'
<1> SUFFICES ASSUME NEW P \in 1 .. NumParts
             PROVE  \/ Untouched(P)' \/ Complete(P)'
                    \/ \E q \in Procs : Owns(q, P)' \/ Leaves(q, P)'
  BY DEF Settled, NumParts
<1>1. /\ script[p] \in {"on", "off", "open"} /\ pos[p][1] \in 1 .. NumParts
      /\ b \in PartBlocks(pos[p][1]) /\ CallsOf(p) = Calls(script[p], pos[p][1])
      /\ pos[p][2] \in 1 .. Len(CallsOf(p)) /\ Len(CallsOf(p)) \in Nat
      /\ Current(p) = CallsOf(p)[pos[p][2]]
  BY MoverPlace
<1>2. segment \in [Blocks -> Nat] /\ made \in [Blocks -> Nat]
      /\ PartBlocks(P) \subseteq Blocks
  BY BlocksOfParts DEF Base, Numbers
<1>3. CASE \E q \in Procs : Owns(q, P)
  <2>1. PICK q \in Procs : Owns(q, P)
    BY <1>3
  <2>2. CASE q # p
    <3>1. Owns(q, P)'
      BY <2>1, <2>2, MoverNext DEF Owns, At
    <3> QED
      BY <3>1
  <2>3. CASE q = p
    <3>1. script[p] = "on" /\ pos[p][1] = P /\ ~GivesUp(p, b) /\ pos[p][2] > 1
      BY <2>1, <2>3, OwnerGoesOn DEF Owns, At
    <3>2. CASE pos[p][2] = Len(CallsOf(p))
      BY <3>1, <3>2, Finished
    <3>3. CASE pos[p][2] # Len(CallsOf(p))
      <4>1. script'[p] = "on" /\ pos'[p][1] = P /\ pos'[p][2] = pos[p][2] + 1
        BY <3>1, <3>3, MoverNext
      <4>2. Owns(p, P)'
        BY <1>1, <3>1, <4>1 DEF Owns, At
      <4> QED
        BY <4>2
    <3> QED
      BY <3>2, <3>3
  <2> QED
    BY <2>2, <2>3
<1>4. CASE \E q \in Procs : Leaves(q, P)
  BY <1>4, LeavesEnd
<1>5. CASE Complete(P) /\ ~(\E q \in Procs : Leaves(q, P))
  <2>1. ~(Creates(p, b) /\ b \in PartBlocks(P))
    BY <1>5 DEF Complete, Creates
  <2>2. ~(Destroys(p, b) /\ b \in PartBlocks(P))
    <3>1. SUFFICES ASSUME Destroys(p, b), b \in PartBlocks(P) PROVE FALSE
      OBVIOUS
    <3>2. pos[p][1] = P
      BY <1>1, <3>1, BlocksOfParts
    <3>3. Leaves(p, P)
      BY <1>1, <3>1, <3>2 DEF Leaves, At, Destroys
    <3> QED
      BY <1>5, <3>3
  <2>3. \A x \in PartBlocks(P) : segment'[x] = segment[x]
    <3> TAKE x \in PartBlocks(P)
    <3>1. CASE x # b
      BY <3>1, OtherParts
    <3>2. CASE x = b
      BY <2>1, <2>2, <3>2 DEF Moves, Initialises, Attaches, GivesUp, kernel
    <3> QED
      BY <3>1, <3>2
  <2>4. ready \subseteq ready'
    BY KernelStep
  <2>5. Complete(P)'
    BY <1>5, <2>3, <2>4 DEF Complete, PartBlocks
  <2> QED
    BY <2>5
<1>6. CASE Untouched(P)
  <2>1. CASE Creates(p, b) /\ b \in PartBlocks(P)
    <3>1. pos[p][1] = P /\ script[p] = "on"
      BY <1>1, <2>1, BlocksOfParts DEF Creates
    <3>2. ~GivesUp(p, b)
      <4>1. Current(p).op = "create" /\ segment[b] = 0 /\ faults' = faults /\ faults + 1 # faults
        BY <2>1 DEF Creates, Base, Numbers
      <4> QED
        BY <4>1 DEF GivesUp
    <3>3. CASE pos[p][2] = Len(CallsOf(p))
      BY <3>1, <3>2, <3>3, Finished
    <3>4. CASE pos[p][2] # Len(CallsOf(p))
      <4>1. script'[p] = "on" /\ pos'[p][1] = P /\ pos'[p][2] = pos[p][2] + 1
        BY <3>1, <3>2, <3>4, MoverNext
      <4>2. Owns(p, P)'
        BY <1>1, <3>1, <4>1 DEF Owns, At
      <4> QED
        BY <4>2
    <3> QED
      BY <3>3, <3>4
  <2>2. CASE ~(Creates(p, b) /\ b \in PartBlocks(P))
    <3>1. \A x \in PartBlocks(P) : segment'[x] = 0
      <4> TAKE x \in PartBlocks(P)
      <4>1. CASE x # b
        BY <1>6, <4>1, OtherParts DEF Untouched
      <4>2. CASE x = b
        <5>1. segment[b] = 0 /\ ~Creates(p, b)
          BY <1>6, <2>2, <4>2 DEF Untouched
        <5>2. Destroys(p, b) => segment' = [segment EXCEPT ![b] = 0]
          BY DestroyGone DEF Moves
        <5>3. segment'[b] = 0
          BY <1>2, <5>1, <5>2 DEF Moves, Initialises, Attaches, GivesUp, kernel
        <5> QED
          BY <4>2, <5>3
      <4> QED
        BY <4>1, <4>2
    <3>2. Untouched(P)'
      BY <3>1 DEF Untouched, PartBlocks
    <3> QED
      BY <3>2
  <2> QED
    BY <2>1, <2>2
<1> QED
  BY <1>3, <1>4, <1>5, <1>6 DEF Settled

\* What a run has left behind stays: nobody destroys while it switches on, and
\* nobody creates while it switches off.
LEMMA LeftBehind ==
  ASSUME Base, NEW p \in Procs, NEW b \in Blocks, Moves(p, b), NEW q \in Procs,
         NEW P \in 1 .. NumParts
  PROVE  /\ script[q] = "on" /\ ~Untouched(P) => ~Untouched(P)'
         /\ script[q] = "off" /\ ~Complete(P) => ~Complete(P)'
<1>1. /\ script[p] # "off" => \A x \in Blocks : segment[x] # 0 => segment'[x] = segment[x]
      /\ script[p] # "on" => \A x \in Blocks : segment'[x] \in {0, segment[x]}
      /\ script[p] # "on" => ready' = ready
      /\ PartBlocks(P) \subseteq Blocks
  BY KernelStep, BlocksOfParts
<1>2. ~(script[p] = "on" /\ script[q] = "off") /\ ~(script[q] = "on" /\ script[p] = "off")
  BY Apart DEF Base
<1>3. ASSUME script[q] = "on", ~Untouched(P) PROVE ~Untouched(P)'
  BY <1>1, <1>2, <1>3 DEF Untouched, PartBlocks
<1>4. ASSUME script[q] = "off", ~Complete(P) PROVE ~Complete(P)'
  <2>1. PICK x \in PartBlocks(P) :
          ~(segment[x] # 0 /\ (x[1] # "data" => <<x, segment[x]>> \in ready))
    BY <1>4 DEF Complete
  <2>2. segment'[x] \in {0, segment[x]} /\ ready' = ready
    BY <1>1, <1>2, <1>4
  <2>3. ~(segment'[x] # 0 /\ (x[1] # "data" => <<x, segment'[x]>> \in ready'))
    BY <2>1, <2>2
  <2> QED
    BY <2>3 DEF Complete, PartBlocks
<1> QED
  BY <1>3, <1>4

LEMMA BehindStep ==
  ASSUME Base, Ahead, Behind, NEW p \in Procs, NEW b \in Blocks, Moves(p, b), faults' = 0
  PROVE  Behind'
<1> SUFFICES ASSUME NEW q \in Procs, NEW P \in 1 .. pos'[q][1] - 1,
                    script'[q] \in {"on", "off"}
             PROVE  /\ script'[q] = "on" => ~Untouched(P)'
                    /\ script'[q] = "off" => ~Complete(P)'
  BY DEF Behind
<1>1. /\ \A r \in Procs : r # p => script'[r] = script[r] /\ pos'[r] = pos[r]
      /\ \/ script'[p] = script[p] /\ pos'[p][1] = pos[p][1]
         \/ /\ script'[p] = script[p] /\ pos'[p][1] = pos[p][1] + 1
            /\ GivesUp(p, b) \/ pos[p][2] = Len(CallsOf(p))
         \/ script'[p] = "idle"
  BY MoverNext
<1>2. script'[q] = script[q]
  BY <1>1
<1>3. CASE P \in 1 .. pos[q][1] - 1
  <2>1. P \in 1 .. NumParts
    <3>1. pos[q][1] \in 1 .. NumParts /\ NumParts \in Nat
      BY <1>2, WhereItIs, NumPartsType DEF Base
    <3> QED
      BY <1>3, <3>1
  <2> QED
    BY <1>2, <1>3, <2>1, LeftBehind DEF Behind
<1>4. CASE P \notin 1 .. pos[q][1] - 1
  <2>1. pos[q][1] \in Nat
    BY DEF Base, Placed
  <2>2. /\ q = p /\ pos'[p][1] = pos[p][1] + 1
        /\ GivesUp(p, b) \/ pos[p][2] = Len(CallsOf(p))
    BY <1>1, <1>2, <1>4, <2>1
  <2>3. P = pos[p][1]
    BY <1>4, <2>1, <2>2
  <2> QED
    BY <1>2, <2>2, <2>3, LeavesBehind
<1> QED
  BY <1>3, <1>4

\* The last run to end has passed every part.
LEMMA AtRestStep ==
  ASSUME Base, Ahead, Behind, AtRest, Settled', NEW p \in Procs, NEW b \in Blocks, Moves(p, b),
         faults' = 0
  PROVE  AtRest'
<1> SUFFICES ASSUME ~Running("on")', ~Running("off")'
             PROVE  \/ \A P \in 1 .. NumParts : Untouched(P)'
                    \/ \A P \in 1 .. NumParts : Complete(P)'
  BY DEF AtRest, NumParts
<1>1. /\ \A r \in Procs : r # p => script'[r] = script[r]
      /\ script[p] \in {"on", "off", "open"} /\ NumParts \in Nat
  BY MoverNext, MoverPlace, NumPartsType
<1>2. \A r \in Procs : script'[r] # "on" /\ script'[r] # "off"
  BY DEF Running
<1>3. \A P \in 1 .. NumParts : \A r \in Procs : ~Owns(r, P)' /\ ~Leaves(r, P)'
  BY <1>2 DEF Owns, Leaves
<1>4. \A P \in 1 .. NumParts : Untouched(P)' \/ Complete(P)'
  BY <1>3 DEF Settled, NumParts
<1>5. CASE script[p] \in {"on", "off"}
  <2>1. /\ script'[p] = "idle" /\ pos[p][1] = NumParts
        /\ GivesUp(p, b) \/ pos[p][2] = Len(CallsOf(p))
    <3>1. PartsOf(script[p]) = NumParts
      BY <1>5 DEF PartsOf
    <3> QED
      BY <1>2, <1>5, <3>1, MoverNext
  <2>2. ASSUME NEW P \in 1 .. NumParts
        PROVE  /\ script[p] = "on" => ~Untouched(P)'
               /\ script[p] = "off" => ~Complete(P)'
    <3>1. CASE P = pos[p][1]
      BY <2>1, <3>1, LeavesBehind
    <3>2. CASE P # pos[p][1]
      <4>1. P \in 1 .. pos[p][1] - 1
        BY <1>1, <2>1, <3>2
      <4> QED
        BY <4>1, LeftBehind DEF Behind
    <3> QED
      BY <3>1, <3>2
  <2> QED
    BY <1>4, <1>5, <2>2
<1>6. CASE script[p] = "open"
  <2>1. segment' = segment /\ ready' = ready
    BY <1>6 DEF Moves, Creates, Initialises, Attaches, Destroys, GivesUp, kernel
  <2>2. ~Running("on") /\ ~Running("off")
    BY <1>1, <1>2, <1>6 DEF Running
  <2> QED
    BY <2>1, <2>2 DEF AtRest, Untouched, Complete, PartBlocks
<1> QED
  BY <1>1, <1>5, <1>6

LEMMA TidyStep ==
  ASSUME Base, Whole, [Next]_vars
  PROVE  Whole'
<1> SUFFICES ASSUME faults' = 0 PROVE Tidy'
  BY DEF Whole, Tidy
<1>1. faults = 0 /\ Tidy
  <2>1. faults' = faults \/ faults' = faults + 1
    BY Kinds DEF Base, Moves, Stutters, Starts, Creates, Initialises, Attaches, Destroys, GivesUp
  <2>2. faults \in Nat
    BY DEF Base, Numbers
  <2> QED
    BY <2>1, <2>2 DEF Whole, Tidy
<1>2. ASSUME NEW p \in Procs, NEW s \in {"on", "off", "open"}, Starts(p, s)
      PROVE  Tidy'
  <2>1. UNCHANGED <<segment, ready>> /\ script[p] = "idle"
    BY <1>2 DEF Starts, kernel
  <2>2. \A q \in Procs, P \in 1 .. NumParts :
          (Leaves(q, P)' <=> Leaves(q, P)) /\ (Owns(q, P)' <=> Owns(q, P))
    BY <1>2, StartLeaves
  <2>3. /\ script'[p] = s /\ pos'[p][1] = 1
        /\ \A q \in Procs : q # p => script'[q] = script[q] /\ pos'[q] = pos[q]
    BY <1>2, StartPlace DEF Base
  <2>4. Single'
    BY <1>1, <2>2 DEF Tidy, Single, NumParts
  <2>5. Ahead'
    <3> SUFFICES ASSUME NEW q \in Procs, NEW P \in 1 .. NumParts, Owns(q, P)',
                        NEW k \in pos'[q][2] .. Len(Calls("on", P)),
                        Calls("on", P)[k].op = "create"
                 PROVE  segment'[Calls("on", P)[k].block] = 0
      BY DEF Ahead, NumParts, Calls
    <3>1. Owns(q, P) /\ q # p
      BY <2>1, <2>2 DEF Owns, At
    <3> QED
      BY <1>1, <2>1, <2>3, <3>1 DEF Tidy, Ahead
  <2>6. Settled'
    BY <1>1, <2>1, <2>2 DEF Tidy, Settled, Untouched, Complete, PartBlocks, NumParts
  <2>7. Behind'
    BY <1>1, <2>1, <2>3 DEF Tidy, Behind, Untouched, Complete, PartBlocks
  <2>8. AtRest'
    <3> SUFFICES ASSUME ~Running("on")', ~Running("off")'
                 PROVE  \/ \A P \in 1 .. NumParts : Untouched(P)'
                        \/ \A P \in 1 .. NumParts : Complete(P)'
      BY DEF AtRest, NumParts
    <3>1. ~Running("on") /\ ~Running("off")
      BY <2>1, <2>3 DEF Running
    <3> QED
      BY <1>1, <2>1, <3>1 DEF Tidy, AtRest, Untouched, Complete, PartBlocks
  <2> QED
    BY <2>4, <2>5, <2>6, <2>7, <2>8 DEF Tidy
<1>3. ASSUME NEW p \in Procs, NEW b \in Blocks, Moves(p, b)
      PROVE  Tidy'
  BY <1>1, <1>3, SingleStep, AheadStep, SettledStep, BehindStep, AtRestStep DEF Tidy
<1>4. CASE Stutters
  <2>1. \A q \in Procs : (CallsOf(q))' = CallsOf(q)
    BY <1>4 DEF Stutters, CallsOf
  <2>2. \A q \in Procs, P \in 1 .. NumParts :
          (Leaves(q, P)' <=> Leaves(q, P)) /\ (Owns(q, P)' <=> Owns(q, P))
    BY <1>4, <2>1 DEF Stutters, Leaves, Owns, At
  <2>3. Single' /\ Settled'
    BY <1>1, <1>4, <2>2 DEF Stutters, Tidy, Single, Settled, Untouched, Complete, PartBlocks, NumParts
  <2>4. Ahead'
    BY <1>1, <1>4, <2>2 DEF Stutters, Tidy, Ahead, NumParts, Calls
  <2>5. Behind' /\ AtRest'
    BY <1>1, <1>4 DEF Stutters, Tidy, Behind, AtRest, Running, Untouched, Complete, PartBlocks, NumParts
  <2> QED
    BY <2>3, <2>4, <2>5 DEF Tidy
<1> QED
  BY <1>2, <1>3, <1>4, Kinds DEF Base

\* shmctl: once every run has ended and no creation has failed, all the blocks
\* exist, initialised, or none does, whatever the races, so that -on after -off
\* and -off after -on find what they expect.
THEOREM AllOrNone == Spec => []AllOrNothing
<1>1. ASSUME Init PROVE Base /\ Whole
  <2>1. \A b \in Blocks : segment[b] = 0
    BY <1>1 DEF Init, Nowhere
  <2>2. \A p \in Procs : script[p] = "idle" /\ pos[p][1] = 1
    BY <1>1 DEF Init, Start
  <2>3. \A P \in 1 .. NumParts : Untouched(P)
    BY <2>1, BlocksOfParts DEF Untouched
  <2>4. \A q \in Procs, P \in 1 .. NumParts : ~Owns(q, P)
    BY <2>2 DEF Owns, At
  <2>5. Whole
    BY <2>2, <2>3, <2>4 DEF Whole, Single, Ahead, Settled, Behind, AtRest
  <2> QED
    BY <1>1, <2>5, BaseInit
<1>2. ASSUME Base, Whole, [Next]_vars PROVE Base' /\ Whole'
  BY <1>2, BaseStep, TidyStep
<1>3. ASSUME Base, Whole PROVE AllOrNothing
  <2> SUFFICES ASSUME Quiet, faults = 0
               PROVE  \/ Live = {}
                      \/ /\ Live = Blocks
                         /\ \A b \in Blocks : b[1] # "data" => <<b, segment[b]>> \in ready
    BY DEF AllOrNothing
  <2>1. ~Running("on") /\ ~Running("off")
    BY <1>3 DEF Quiet, Running, Base, Placed, Procs
  <2>2. (\A P \in 1 .. NumParts : Untouched(P)) \/ (\A P \in 1 .. NumParts : Complete(P))
    BY <1>3, <2>1 DEF Whole, AtRest
  <2>3. CASE \A P \in 1 .. NumParts : Untouched(P)
    BY <2>3, BlocksOfParts DEF Untouched, Live
  <2>4. CASE \A P \in 1 .. NumParts : Complete(P)
    BY <2>4, BlocksOfParts DEF Complete, Live
  <2> QED
    BY <2>2, <2>3, <2>4
<1> QED
  BY <1>1, <1>2, <1>3, PTL DEF Spec
=============================================================================
