------------------------ MODULE VehiclePrograms_proofs ------------------------
(***************************************************************************)
(* What VCM::init, the masters of decom and uplink, viewers and trigger    *)
(* functions promise, for any file and any number of packets, devices,     *)
(* children, signals, writes, updates and measurements.                    *)
(***************************************************************************)
EXTENDS VehiclePrograms, SequenceTheorems, FiniteSetTheorems, WellFoundedInduction, TLAPS

\* A sequence of anything is one whose elements are in some set.
IsSeq(s) == \E S : s \in Seq(S)

LEMMA AppendIsSeq ==
  ASSUME NEW s, IsSeq(s), NEW e
  PROVE  /\ IsSeq(Append(s, e)) /\ Len(s) \in Nat /\ Len(Append(s, e)) = Len(s) + 1
         /\ Append(s, e)[Len(s) + 1] = e
         /\ \A i \in 1 .. Len(s) : Append(s, e)[i] = s[i]
<1>1. PICK S : s \in Seq(S)
  BY DEF IsSeq
<1>2. s \in Seq(S \cup {e})
  <2>1. /\ Len(s) \in Nat /\ s = [i \in 1 .. Len(s) |-> s[i]]
        /\ \A i \in 1 .. Len(s) : s[i] \in S \cup {e}
    BY <1>1
  <2> QED
    BY <2>1, <1>1
<1>3. Append(s, e) \in Seq(S \cup {e})
  BY <1>2
<1> QED
  BY <1>1, <1>2, <1>3 DEF IsSeq

-----------------------------------------------------------------------------
(***************************************************************************)
(* The devices and the packets of a file.                                  *)
(***************************************************************************)

\* The devices read so far are numbered as their lines come, and each number is
\* that of one port.
Devices ==
  /\ IsSeq(net_devices)
  /\ IsInjective(auto_port_map)
  /\ Range(auto_port_map) = 0 .. Len(net_devices) - 1
  /\ \A d \in DOMAIN net_map : /\ net_map[d] \in 0 .. Len(net_devices) - 1
                               /\ net_devices[net_map[d] + 1] = d

LEMMA DevicesInit == Init => Devices
<1> SUFFICES ASSUME Init PROVE Devices
  OBVIOUS
<1>1. net_devices = <<>> /\ auto_port_map = <<>> /\ net_map = <<>>
  BY DEF Init, ConfigInit
<1>2. IsSeq(net_devices) /\ Len(net_devices) = 0
  BY <1>1 DEF IsSeq
<1> QED
  BY <1>1, <1>2 DEF Devices, IsInjective, Range

LEMMA NetLineDevices ==
  ASSUME Devices, NEW line, NetLine(line)
  PROVE  Devices'
<1>1. CASE UNCHANGED network
  BY <1>1 DEF network, Devices
<1>2. CASE ~UNCHANGED network
  <2> DEFINE name == Token(line, 2)
             port == Stoi(Token(line, 4)).value % PortModulus
             n == Len(net_devices)
  <2>1. /\ port \notin DOMAIN auto_port_map
        /\ auto_port_map' = With(auto_port_map, port, n)
        /\ net_map' = With(net_map, name, n)
        /\ net_devices' = Append(net_devices, name)
    BY <1>2 DEF NetLine, NotANumber, Fail, Throw, network
  <2> HIDE DEF port, name
  <2>2. n \in Nat
    BY AppendIsSeq DEF Devices
  <2>3. /\ IsSeq(net_devices') /\ Len(net_devices') = n + 1
        /\ net_devices'[n + 1] = name
        /\ \A i \in 1 .. n : net_devices'[i] = net_devices[i]
    BY <2>1, AppendIsSeq DEF Devices
  <2>4. /\ DOMAIN auto_port_map' = DOMAIN auto_port_map \cup {port}
        /\ auto_port_map'[port] = n
        /\ \A z \in DOMAIN auto_port_map : auto_port_map'[z] = auto_port_map[z]
    BY <2>1 DEF With
  <2>5. \A z \in DOMAIN auto_port_map : auto_port_map[z] \in 0 .. n - 1
    BY DEF Devices, Range
  <2>6. IsInjective(auto_port_map')
    BY <2>2, <2>4, <2>5 DEF Devices, IsInjective
  <2>7. Range(auto_port_map') = 0 .. Len(net_devices') - 1
    <3>1. Range(auto_port_map') = Range(auto_port_map) \cup {n}
      BY <2>4 DEF Range
    <3> QED
      BY <2>2, <2>3, <3>1 DEF Devices
  <2>8. ASSUME NEW d \in DOMAIN net_map'
        PROVE  /\ net_map'[d] \in 0 .. Len(net_devices') - 1
               /\ net_devices'[net_map'[d] + 1] = d
    <3>1. CASE d = name
      BY <2>1, <2>2, <2>3, <3>1 DEF With
    <3>2. CASE d # name
      <4>1. d \in DOMAIN net_map /\ net_map'[d] = net_map[d]
        BY <2>1, <3>2 DEF With
      <4>2. net_map[d] \in 0 .. n - 1 /\ net_devices[net_map[d] + 1] = d
        BY <4>1 DEF Devices
      <4> QED
        BY <2>2, <2>3, <4>1, <4>2
    <3> QED
      BY <3>1, <3>2
  <2> QED
    BY <2>3, <2>6, <2>7, <2>8 DEF Devices
<1> QED
  BY <1>1, <1>2

\* Only a line that begins with net changes the devices.
LEMMA StepDevices ==
  ASSUME Devices, [Next]_vars
  PROVE  Devices'
<1>1. CASE UNCHANGED network
  BY <1>1 DEF network, Devices
<1>2. ASSUME NEW line, NetLine(line) PROVE Devices'
  BY <1>2, NetLineDevices
<1>3. ASSUME NEW line, ReadLine(line) PROVE Devices'
  BY <1>1, <1>2, <1>3 DEF ReadLine, Skip, SettingLine, PacketLine, MeasurementLine, FieldLine,
     EndPacket, NotANumber, Fail, Throw
<1> QED
  BY <1>1, <1>3 DEF Next, Configure, ConfigNext, EndOfFile, RunTree, View, Trigger, configVars,
     vars

\* At most one packet is open, and its port is of none of those before it.
PacketRecord(r) == r = [size |-> r.size, port |-> r.port]

Downlinks ==
  /\ IsSeq(packets)
  /\ packet # Nowhere => \E r : /\ PacketRecord(r) /\ packet = <<r>>
                                /\ r.port \in Ports => r.port = Virtual
  /\ \A i, j \in 1 .. Len(packets) :
       i # j /\ packets[i].port = packets[j].port => packets[i].port = Virtual

LEMMA DownlinksInit == Init => Downlinks
<1> SUFFICES ASSUME Init PROVE Downlinks
  OBVIOUS
<1>1. packets = <<>> /\ packet = Nowhere
  BY DEF Init, ConfigInit
<1>2. IsSeq(packets) /\ Len(packets) = 0
  BY <1>1 DEF IsSeq
<1> QED
  BY <1>1, <1>2 DEF Downlinks

\* } closes the packet and puts it behind the others.
LEMMA EndPacketDownlinks ==
  ASSUME Downlinks, packet # Nowhere, NEW line, EndPacket(line)
  PROVE  Downlinks'
<1>1. PICK r : packet = <<r>> /\ (r.port \in Ports => r.port = Virtual)
  BY DEF Downlinks
<1>2. PICK S : packets \in Seq(S)
  BY DEF Downlinks, IsSeq
<1>3. packets \in Seq(S \cup {r}) /\ <<r>> \in Seq(S \cup {r})
  <2>1. /\ Len(packets) \in Nat /\ packets = [i \in 1 .. Len(packets) |-> packets[i]]
        /\ \A i \in 1 .. Len(packets) : packets[i] \in S \cup {r}
    BY <1>2
  <2> QED
    BY <2>1, <1>2
<1>4. packets' = packets \o <<r>> /\ packet' = Nowhere
  BY <1>1 DEF EndPacket
<1>5. /\ packets' \in Seq(S \cup {r}) /\ Len(packets') = Len(packets) + 1
      /\ packets'[Len(packets) + 1] = r
      /\ \A i \in 1 .. Len(packets) : packets'[i] = packets[i]
  BY <1>3, <1>4
<1>6. Len(packets) \in Nat /\ \A i \in 1 .. Len(packets) : packets[i].port \in Ports \cup {Virtual}
  BY <1>2 DEF Ports
<1>7. ASSUME NEW i \in 1 .. Len(packets'), NEW j \in 1 .. Len(packets'), i # j,
             packets'[i].port = packets'[j].port
      PROVE  packets'[i].port = Virtual
  <2>1. CASE i \in 1 .. Len(packets) /\ j \in 1 .. Len(packets)
    BY <1>5, <1>7, <2>1 DEF Downlinks
  <2>2. CASE i = Len(packets) + 1 /\ j \in 1 .. Len(packets)
    BY <1>1, <1>5, <1>6, <1>7, <2>2
  <2>3. CASE j = Len(packets) + 1 /\ i \in 1 .. Len(packets)
    BY <1>1, <1>5, <1>6, <1>7, <2>3
  <2> QED
    BY <1>5, <1>6, <1>7, <2>1, <2>2, <2>3
<1>8. IsSeq(packets')
  BY <1>5 DEF IsSeq
<1> QED
  BY <1>4, <1>7, <1>8 DEF Downlinks

\* A measurement is added to the open packet.
LEMMA FieldLineDownlinks ==
  ASSUME Downlinks, packet # Nowhere, NEW line, FieldLine(line)
  PROVE  Downlinks'
<1>1. UNCHANGED packets
  BY DEF FieldLine, Fail
<1>2. CASE UNCHANGED packet
  BY <1>1, <1>2 DEF Downlinks, Ports
<1>3. CASE ~UNCHANGED packet
  <2> DEFINE size == (packet[1].size + addr_map[Token(line, 1)].size) % SizeModulus
  <2>1. packet' = [packet EXCEPT ![1].size = size]
    BY <1>3 DEF FieldLine, Fail
  <2> HIDE DEF size
  <2>2. PICK r : /\ PacketRecord(r) /\ packet = <<r>>
                 /\ r.port \in Ports => r.port = Virtual
    BY DEF Downlinks
  <2> DEFINE q == [r EXCEPT !.size = size]
  <2>3. PacketRecord(q) /\ q.port = r.port
    BY <2>2 DEF PacketRecord
  <2>4. packet' = <<q>>
    BY <2>1, <2>2
  <2> HIDE DEF q
  <2>5. packet' # Nowhere
    BY <2>4 DEF Nowhere
  <2> QED
    BY <1>1, <2>2, <2>3, <2>4 DEF Downlinks, Ports
<1> QED
  BY <1>2, <1>3

LEMMA PacketLineDownlinks ==
  ASSUME Downlinks, packet = Nowhere, NEW line, PacketLine(line)
  PROVE  Downlinks'
<1>1. UNCHANGED packets
  BY DEF PacketLine, NotANumber, Fail, Throw
<1>2. CASE UNCHANGED packet
  BY <1>1, <1>2 DEF Downlinks, Ports
<1>3. CASE ~UNCHANGED packet
  <2>1. PICK port : /\ packet' = <<[size |-> 0, port |-> port]>>
                    /\ port \in Ports => port = Virtual
    BY <1>3 DEF PacketLine, NotANumber, Fail, Throw
  <2> DEFINE r == [size |-> 0, port |-> port]
  <2>2. PacketRecord(r) /\ r.port = port
    BY DEF PacketRecord
  <2> QED
    BY <1>1, <2>1, <2>2 DEF Downlinks, Ports
<1> QED
  BY <1>2, <1>3

LEMMA StepDownlinks ==
  ASSUME Downlinks, [Next]_vars
  PROVE  Downlinks'
<1>1. CASE UNCHANGED <<packets, packet>>
  BY <1>1 DEF Downlinks, Ports
<1>2. ASSUME NEW line, ReadLine(line) PROVE Downlinks'
  BY <1>1, <1>2, EndPacketDownlinks, FieldLineDownlinks, PacketLineDownlinks
  DEF ReadLine, Skip, NetLine, SettingLine, MeasurementLine, NotANumber, Fail, Throw
<1> QED
  BY <1>1, <1>2 DEF Next, Configure, ConfigNext, EndOfFile, RunTree, View, Trigger, configVars,
     vars

\* For any file: telemetry packets have ports of their own, a port belongs to one
\* device, and the devices' ids are the slots of the shared block of addresses.
THEOREM PortsUnique == Spec => []PortsAndIdsUnique
<1>1. Devices /\ Downlinks => PortsAndIdsUnique
  <2> SUFFICES ASSUME Devices, Downlinks PROVE PortsAndIdsUnique
    OBVIOUS
  <2>1. DOMAIN packets = 1 .. Len(packets)
    BY DEF Downlinks, IsSeq
  <2> QED
    BY <2>1 DEF Devices, Downlinks, PortsAndIdsUnique
<1> QED
  BY DevicesInit, StepDevices, DownlinksInit, StepDownlinks, <1>1, PTL DEF Spec

-----------------------------------------------------------------------------
(***************************************************************************)
(* The masters of decom and uplink and their children.                     *)
(***************************************************************************)

TreeTypes ==
  /\ state = [p \in Procs |-> state[p]] /\ reaping \in [Procs -> Nat]
  /\ ignore_kill \in [Procs -> BOOLEAN] /\ child_proc \in [Procs -> BOOLEAN]
  /\ job \in Nat \ {0} /\ pids \in Seq(Int)

\* The master knows all children but, between a fork and its push, the last.
Known ==
  /\ Len(pids) \in {job - 1, job - 2}
  /\ Len(pids) = job - 2 => state[0] = "forking"
  /\ \A c \in Children : state[c] # "none" => c < job
  /\ \A c \in Children : state[c] # "none" /\ c <= Len(pids) => pids[c] = c

\* Who is made ignores signals until it is marked as a child, and the master
\* ignores them while it makes others.
Guarded ==
  /\ state[0] = "forking" => ignore_kill[0]
  /\ \A c \in Children : /\ state[c] = "marked" => child_proc[c]
                         /\ state[c] # "none" => child_proc[c] \/ ignore_kill[c]

OnlyMasterReaps ==
  /\ \A c \in Children : reaping[c] = 0
  /\ reaping[0] # 0 => state[0] # "forking"

Tree == TreeTypes /\ Known /\ Guarded /\ OnlyMasterReaps

LEMMA Processes ==
  0 \in Procs /\ Children \subseteq Procs \ {0} /\ Procs = Children \cup {0} /\ Procs \subseteq Nat
  BY TreeAssumption DEF Procs, Children

LEMMA TreeStarts == Init => Tree
  BY Processes, EmptySeq
  DEF Init, TreeInit, Tree, TreeTypes, Known, Guarded, OnlyMasterReaps

LEMMA TreeSteps ==
  ASSUME Tree, [Next]_vars
  PROVE  Tree'
<1> USE Processes DEF Tree
<1> USE DEF TreeTypes, Known, Guarded, OnlyMasterReaps
<1>1. CASE UNCHANGED treeVars
  BY <1>1 DEF treeVars, flags
<1>2. CASE Begin
  <2>1. /\ state[0] = "reading" /\ UNCHANGED <<job, child_proc, pids, reaping>>
        /\ state'[0] \in {"forking", "exited"} /\ (state'[0] = "forking" => ignore_kill'[0])
        /\ \A c \in Children : state'[c] = state[c] /\ ignore_kill'[c] = ignore_kill[c]
        /\ reaping[0] = 0
    <3>1. \/ /\ state' = [state EXCEPT ![0] = "forking"]
             /\ ignore_kill' = [ignore_kill EXCEPT ![0] = TRUE]
          \/ state' = [state EXCEPT ![0] = "exited"] /\ UNCHANGED ignore_kill
      BY <1>2 DEF Begin, Goto
    <3>2. /\ state[0] = "reading" /\ reaping[0] = 0
          /\ UNCHANGED <<job, child_proc, pids, reaping>>
      BY <1>2 DEF Begin, At
    <3> QED
      BY <3>1, <3>2
  <2>2. TreeTypes'
    BY <1>2, <2>1 DEF Begin, Goto
  <2>3. Known'
    BY <2>1
  <2>4. Guarded' /\ OnlyMasterReaps'
    BY <2>1
  <2> QED
    BY <2>2, <2>3, <2>4
<1>3. CASE Fork
  <2>1. /\ state[0] = "forking" /\ Len(pids) = job - 1 /\ job' = job + 1 /\ job # 0
        /\ state' = [state EXCEPT ![job] = "born"]
        /\ ignore_kill' = [ignore_kill EXCEPT ![job] = TRUE]
        /\ UNCHANGED <<child_proc, pids, reaping>>
    BY <1>3 DEF Fork, At, Goto
  <2>2. TreeTypes'
    <3>1. state' = [p \in Procs |-> state'[p]] /\ ignore_kill' \in [Procs -> BOOLEAN]
      BY <2>1
    <3> QED
      BY <2>1, <3>1
  <2>3. state'[0] = state[0] /\ ignore_kill'[0] = ignore_kill[0]
    BY <2>1
  <2>4. ASSUME NEW c \in Children
        PROVE  /\ c = job => state'[c] = "born" /\ ignore_kill'[c]
               /\ c # job => state'[c] = state[c] /\ ignore_kill'[c] = ignore_kill[c]
    BY <2>1
  <2>5. Known'
    BY <2>1, <2>3, <2>4
  <2>6. Guarded' /\ OnlyMasterReaps'
    BY <2>1, <2>3, <2>4
  <2> QED
    BY <2>2, <2>5, <2>6
<1>4. CASE PushPid
  <2>1. /\ Len(pids) = job - 2 /\ pids' = Append(pids, job - 1)
        /\ UNCHANGED <<state, job, ignore_kill, child_proc, reaping>>
    BY <1>4 DEF PushPid, flags
  <2>2. /\ pids' \in Seq(Int) /\ Len(pids') = job - 1 /\ pids'[job - 1] = job - 1
        /\ \A k \in 1 .. Len(pids) : pids'[k] = pids[k]
    BY <2>1
  <2>3. Known'
    <3>1. state'[0] = state[0] /\ \A c \in Children : state'[c] = state[c] /\ c \in Nat /\ c >= 1
      BY <2>1 DEF Children
    <3>2. ASSUME NEW c \in Children, state[c] # "none", c <= Len(pids') PROVE pids'[c] = c
      BY <2>1, <2>2, <3>1, <3>2
    <3> QED
      BY <2>1, <2>2, <3>1, <3>2
  <2> QED
    BY <2>1, <2>2, <2>3
<1>5. CASE ForkFails
  <2>1. /\ Len(pids) = job - 1 /\ pids' = Append(pids, Failed) /\ job' = job + 1
        /\ UNCHANGED <<state, ignore_kill, child_proc, reaping>>
    BY <1>5 DEF ForkFails, flags
  <2>2. /\ pids' \in Seq(Int) /\ Len(pids') = job
        /\ \A k \in 1 .. Len(pids) : pids'[k] = pids[k]
    BY <2>1 DEF Failed
  <2>3. Known'
    <3>1. state'[0] = state[0] /\ \A c \in Children : state'[c] = state[c] /\ c \in Nat /\ c >= 1
      BY <2>1 DEF Children
    <3>2. ASSUME NEW c \in Children, state[c] # "none", c <= Len(pids') PROVE pids'[c] = c
      BY <2>1, <2>2, <3>1, <3>2
    <3> QED
      BY <2>1, <2>2, <3>1, <3>2
  <2> QED
    BY <2>1, <2>2, <2>3
<1>6. CASE Forked
  BY <1>6 DEF Forked, At, Goto
<1>7. CASE Wait
  BY <1>7 DEF Wait, At, Goto, flags
<1>8. ASSUME NEW c \in Children, MarkChild(c) PROVE Tree'
  BY <1>8 DEF MarkChild, At, Goto
<1>9. ASSUME NEW c \in Children, ListenChild(c) PROVE Tree'
  BY <1>9 DEF ListenChild, At, Goto
<1>10. ASSUME NEW c \in Children, InitChild(c) \/ LoopEnds(c) PROVE Tree'
  <2>1. /\ \E l \in {"looping", "exited"} : state' = [state EXCEPT ![c] = l]
        /\ state[c] \in {"initialising", "looping"}
        /\ UNCHANGED <<job, ignore_kill, child_proc, pids, reaping>>
    BY <1>10 DEF InitChild, LoopEnds, At, Goto, flags
  <2> QED
    BY <2>1
<1>11. ASSUME NEW p \in Procs, Deliver(p) PROVE Tree'
  <2>1. CASE UNCHANGED <<state, reaping>>
    BY <1>11, <2>1 DEF Deliver
  <2>2. CASE reaping' = [reaping EXCEPT ![p] = 1] /\ UNCHANGED state /\ ~ignore_kill[p] /\ ~child_proc[p]
    <3>1. p = 0
      BY <1>11, <2>2 DEF Deliver, Alive
    <3> QED
      BY <1>11, <2>2, <3>1 DEF Deliver
  <2>3. CASE Goto(p, "exited") /\ child_proc[p] /\ UNCHANGED reaping /\ state[p] # "none"
    BY <1>11, <2>3 DEF Deliver, Goto
  <2> QED
    BY <1>11, <2>1, <2>2, <2>3 DEF Deliver, Alive
<1>12. ASSUME NEW p \in Procs, KillNext(p) PROVE Tree'
  <2>1. reaping[p] # 0
    BY <1>12 DEF KillNext
  <2> QED
    BY <1>12, <2>1 DEF KillNext, flags
<1>13. ASSUME NEW p \in Procs, EndHandler(p) PROVE Tree'
  <2>1. p = 0 => reaping[0] # 0
    BY <1>13 DEF EndHandler, PidsOf
  <2> QED
    BY <1>13, <2>1 DEF EndHandler, Alive, Goto, flags
<1>14. ASSUME NEW to, SendSignal(to) PROVE Tree'
  BY <1>14 DEF SendSignal, flags
<1>15. ASSUME NEW p \in Procs, Stick(p) PROVE Tree'
  BY <1>15 DEF Stick, flags
<1>16. TreeNext => Tree'
  BY <1>2, <1>3, <1>4, <1>5, <1>6, <1>7, <1>8, <1>9, <1>10, <1>11, <1>12, <1>13, <1>14, <1>15
  DEF TreeNext, TreeProgress, MasterStep, ChildStep, HandlerStep
<1> QED
  BY <1>1, <1>16 DEF Next, Configure, RunTree, View, Trigger, vars

\* "we don't want to get killed while spawning children, we may lose track of a
\* child" (uplink.cpp:143): for any number of packets, devices, forks that fail
\* and signals, only the master reaps, and it then knows every child.
THEOREM Reaping == Spec => []MasterReapsAll
<1>1. Tree => MasterReapsAll
  <2> SUFFICES ASSUME Tree, NEW p \in Procs, reaping[p] # 0
               PROVE  p = 0 /\ {c \in Children : state[c] # "none"} \subseteq Range(pids)
    BY DEF MasterReapsAll
  <2>1. p = 0 /\ Len(pids) = job - 1
    BY Processes DEF Tree, TreeTypes, Known, OnlyMasterReaps
  <2>2. ASSUME NEW c \in Children, state[c] # "none" PROVE c \in DOMAIN pids /\ pids[c] = c
    <3>1. pids \in Seq(Int) /\ c \in Nat /\ c >= 1 /\ job \in Nat /\ c < job
      BY <2>2, TreeAssumption DEF Tree, TreeTypes, Known, Children
    <3>2. c \in 1 .. Len(pids)
      BY <2>1, <3>1
    <3> QED
      BY <2>2, <3>1, <3>2 DEF Tree, Known
  <2> QED
    BY <2>1, <2>2 DEF Range
<1> QED
  BY TreeStarts, TreeSteps, <1>1, PTL DEF Spec

-----------------------------------------------------------------------------
(***************************************************************************)
(* Sums over finite sets, which the places of measurements in a packet are *)
(* compared with its size by.  SumOf is a fold, that is a function defined *)
(* by recursion over the subsets; what it returns is shown by induction    *)
(* over their cardinality, stated for a set of numbers.                    *)
(***************************************************************************)

\* Induction over the naturals, for a set instead of an operator.
LEMMA Least ==
  ASSUME NEW S \in SUBSET Nat, S # {}
  PROVE  \E n \in S : \A k \in S : n <= k
<1>1. IsWellFoundedOn(OpToRel(<, Nat), Nat)
  BY NatLessThanWellFounded
<1>2. PICK n \in S : \A y \in S : <<y, n>> \notin OpToRel(<, Nat)
  BY <1>1, WFMin, Zenon
<1>3. \A y \in S : ~(y < n)
  BY <1>2, Zenon DEF OpToRel
<1> QED
  BY <1>3

LEMMA Induction ==
  ASSUME NEW S, 0 \in S, \A n \in Nat : n \in S => n + 1 \in S
  PROVE  \A n \in Nat : n \in S
<1> SUFFICES ASSUME NEW n \in Nat, n \notin S PROVE FALSE
  OBVIOUS
<1> DEFINE T == {i \in Nat : i \notin S}
<1>1. PICK m \in T : \A k \in T : m <= k
  BY Least
<1>2. m # 0 /\ m - 1 \in Nat /\ m - 1 \notin T
  BY <1>1
<1> QED
  BY <1>1, <1>2

\* The element a fold takes next, and the sizes summed over the subsets of D.
Chosen(s) == CHOOSE x \in s : TRUE
Sums(D, f) == f = [s \in D |-> IF s = {} THEN 0 ELSE Chosen(s).size + f[s \ {Chosen(s)}]]

LEMMA SumsOverSubsets ==
  ASSUME NEW S
  PROVE  SumOf(S) = (CHOOSE f : Sums(SUBSET S, f))[S]
  BY DEF SumOf, FoldSet, MapThenFoldSet, Sums, Chosen

LEMMA ChosenRemoved ==
  ASSUME NEW S, IsFiniteSet(S), NEW s \in SUBSET S, s # {}
  PROVE  /\ Chosen(s) \in s /\ s \ {Chosen(s)} \in SUBSET S
         /\ IsFiniteSet(s) /\ Cardinality(s) \in Nat /\ Cardinality(s) # 0
         /\ Cardinality(s \ {Chosen(s)}) = Cardinality(s) - 1
<1>1. Chosen(s) \in s
  BY DEF Chosen
<1>2. IsFiniteSet(s)
  BY FS_Subset
<1> QED
  BY <1>1, <1>2, FS_RemoveElement, FS_CardinalityType, FS_EmptySet

\* There is such a function.
LEMMA SumsExist ==
  ASSUME NEW S, IsFiniteSet(S)
  PROVE  \E f : Sums(SUBSET S, f)
<1> DEFINE Small(n) == {s \in SUBSET S : Cardinality(s) <= n}
           A == {n \in Nat : \E f : Sums(Small(n), f)}
<1>0. \A s \in SUBSET S : Cardinality(s) \in Nat /\ (Cardinality(s) = 0 => s = {})
  BY FS_Subset, FS_CardinalityType, FS_EmptySet
<1>1. 0 \in A
  <2> DEFINE f == [s \in Small(0) |-> 0]
  <2>1. \A s \in Small(0) : s = {}
    BY <1>0
  <2>2. Sums(Small(0), f)
    BY <2>1 DEF Sums
  <2> QED
    BY <2>2
<1>2. ASSUME NEW n \in Nat, n \in A PROVE n + 1 \in A
  <2>1. PICK f : Sums(Small(n), f)
    BY <1>2
  <2> DEFINE g == [s \in Small(n + 1) |->
                     IF s = {} THEN 0 ELSE Chosen(s).size + f[s \ {Chosen(s)}]]
  <2>2. \A s \in Small(n) : s \in Small(n + 1) /\ g[s] = f[s]
    <3>1. \A s \in Small(n) : s \in Small(n + 1)
      BY <1>0
    <3>2. \A s \in Small(n) : f[s] = IF s = {} THEN 0 ELSE Chosen(s).size + f[s \ {Chosen(s)}]
      <4> HIDE DEF Small
      <4> QED
        BY <2>1 DEF Sums
    <3> HIDE DEF Small
    <3> QED
      BY <3>1, <3>2
  <2>3. ASSUME NEW s \in Small(n + 1), s # {} PROVE s \ {Chosen(s)} \in Small(n)
    BY <2>3, ChosenRemoved
  <2>4. ASSUME NEW s \in Small(n + 1)
        PROVE  g[s] = IF s = {} THEN 0 ELSE Chosen(s).size + g[s \ {Chosen(s)}]
    BY <2>2, <2>3
  <2>5. Sums(Small(n + 1), g)
    <3> HIDE DEF Small
    <3> QED
      BY <2>4 DEF Sums
  <2> QED
    BY <2>5
<1>3. Cardinality(S) \in A
  <2> HIDE DEF A
  <2>1. \A n \in Nat : n \in A
    BY <1>1, <1>2, Induction
  <2> QED
    BY <2>1, FS_CardinalityType
<1>4. Small(Cardinality(S)) = SUBSET S
  BY FS_Subset
<1> QED
  BY <1>3, <1>4

\* Two such functions agree where both are defined.
LEMMA SumsUnique ==
  ASSUME NEW S, IsFiniteSet(S), NEW T \in SUBSET S, NEW D, D = SUBSET S, NEW E, E = SUBSET T,
         NEW f, NEW g, Sums(D, f), Sums(E, g)
  PROVE  f[T] = g[T]
<1> DEFINE A == {n \in Nat : \A s \in SUBSET T : Cardinality(s) = n => f[s] = g[s]}
<1>0. IsFiniteSet(T) /\ SUBSET T \subseteq SUBSET S
  BY FS_Subset
<1>1. \A s \in SUBSET T :
        /\ f[s] = IF s = {} THEN 0 ELSE Chosen(s).size + f[s \ {Chosen(s)}]
        /\ g[s] = IF s = {} THEN 0 ELSE Chosen(s).size + g[s \ {Chosen(s)}]
  BY <1>0 DEF Sums
<1>2. 0 \in A
  <2> SUFFICES ASSUME NEW s \in SUBSET T, Cardinality(s) = 0 PROVE f[s] = g[s]
    OBVIOUS
  <2>1. s = {}
    BY <1>0, FS_Subset, FS_EmptySet
  <2> QED
    BY <1>1, <2>1
<1>3. ASSUME NEW n \in Nat, n \in A PROVE n + 1 \in A
  <2> SUFFICES ASSUME NEW s \in SUBSET T, Cardinality(s) = n + 1 PROVE f[s] = g[s]
    OBVIOUS
  <2>0. Cardinality(s) # 0
    BY <1>3
  <2>1. s # {}
    BY <2>0, FS_EmptySet, Zenon
  <2>2. s \ {Chosen(s)} \in SUBSET T /\ Cardinality(s \ {Chosen(s)}) = n
    BY <1>0, <2>1, ChosenRemoved
  <2>3. f[s \ {Chosen(s)}] = g[s \ {Chosen(s)}]
    BY <1>3, <2>2
  <2> QED
    BY <1>1, <2>1, <2>3
<1>4. \A n \in Nat : n \in A
  <2> HIDE DEF A
  <2> QED
    BY <1>2, <1>3, Induction
<1> QED
  BY <1>0, <1>4, FS_Subset, FS_CardinalityType

LEMMA SumIsSums ==
  ASSUME NEW S, IsFiniteSet(S)
  PROVE  \E D, f : D = SUBSET S /\ Sums(D, f) /\ SumOf(S) = f[S]
<1> DEFINE f == CHOOSE h : Sums(SUBSET S, h)
<1>1. Sums(SUBSET S, f)
  BY SumsExist
<1>2. SumOf(S) = f[S]
  BY SumsOverSubsets
<1> QED
  BY <1>1, <1>2, Zenon

LEMMA SumEmpty == SumOf({}) = 0
<1>1. PICK D, f : D = SUBSET {} /\ Sums(D, f) /\ SumOf({}) = f[{}]
  BY SumIsSums, FS_EmptySet
<1> QED
  BY <1>1 DEF Sums

LEMMA SumChosen ==
  ASSUME NEW S, IsFiniteSet(S), S # {}
  PROVE  SumOf(S) = Chosen(S).size + SumOf(S \ {Chosen(S)})
<1>1. PICK T : T = S \ {Chosen(S)}
  OBVIOUS
<1>2. IsFiniteSet(T) /\ T \in SUBSET S
  BY <1>1, FS_Subset
<1>3. PICK D, f : D = SUBSET S /\ Sums(D, f) /\ SumOf(S) = f[S]
  BY SumIsSums
<1>4. PICK E, g : E = SUBSET T /\ Sums(E, g) /\ SumOf(T) = g[T]
  BY <1>2, SumIsSums
<1>5. f[T] = g[T]
  BY <1>2, <1>3, <1>4, SumsUnique
<1>6. f[S] = Chosen(S).size + f[T]
  BY <1>1, <1>3 DEF Sums
<1> QED
  BY <1>1, <1>3, <1>4, <1>5, <1>6

\* The sum of a set is that without one of its elements, and this one: no matter which.
Sizes(S) == IsFiniteSet(S) /\ \A e \in S : e.size \in Nat

LEMMA SumRemove ==
  ASSUME NEW S, Sizes(S)
  PROVE  SumOf(S) \in Nat /\ \A e \in S : SumOf(S) = e.size + SumOf(S \ {e})
<1> DEFINE Right(T) == SumOf(T) \in Nat /\ \A e \in T : SumOf(T) = e.size + SumOf(T \ {e})
           A == {n \in Nat : \A T \in SUBSET S : Cardinality(T) = n => Right(T)}
<1>0. \A T \in SUBSET S : IsFiniteSet(T) /\ \A e \in T : e.size \in Nat
  BY FS_Subset DEF Sizes
<1>1. 0 \in A
  <2> SUFFICES ASSUME NEW T \in SUBSET S, Cardinality(T) = 0 PROVE Right(T)
    OBVIOUS
  <2>1. T = {}
    BY <1>0, FS_EmptySet
  <2> QED
    BY <2>1, SumEmpty
<1>2. ASSUME NEW n \in Nat, \A m \in 0 .. n : m \in A PROVE n + 1 \in A
  <2> SUFFICES ASSUME NEW T \in SUBSET S, Cardinality(T) = n + 1 PROVE Right(T)
    OBVIOUS
  <2> DEFINE c == Chosen(T)
  <2>1. T # {}
    BY FS_EmptySet
  <2>2. c \in T /\ T \ {c} \in SUBSET S /\ Cardinality(T \ {c}) = n
    BY <1>0, <2>1, ChosenRemoved
  <2>3. SumOf(T) = c.size + SumOf(T \ {c})
    BY <1>0, <2>1, SumChosen
  <2> HIDE DEF c, Right
  <2>4. Right(T \ {c})
    BY <1>2, <2>2
  <2>5. SumOf(T) \in Nat
    BY <1>0, <2>2, <2>3, <2>4 DEF Right
  <2>6. ASSUME NEW e \in T PROVE SumOf(T) = e.size + SumOf(T \ {e})
    <3>1. CASE e = c
      BY <2>3, <3>1
    <3>2. CASE e # c
      <4>1. e \in T \ {c} /\ c \in T \ {e}
        BY <2>2, <3>2
      <4>2. SumOf(T \ {c}) = e.size + SumOf((T \ {c}) \ {e})
        BY <2>4, <4>1 DEF Right
      <4>3. T \ {e} \in SUBSET S /\ Cardinality(T \ {e}) = n
        BY <1>0, FS_RemoveElement
      <4>4. Right(T \ {e})
        BY <1>2, <4>3
      <4>5. SumOf(T \ {e}) = c.size + SumOf((T \ {e}) \ {c})
        BY <4>1, <4>4 DEF Right
      <4>6. (T \ {e}) \ {c} = (T \ {c}) \ {e}
        OBVIOUS
      <4>7. n # 0
        <5>1. IsFiniteSet(T \ {c}) /\ T \ {c} # {}
          BY <1>0, <2>2, <4>1
        <5> QED
          BY <2>2, <5>1, FS_EmptySet
      <4>8. (T \ {c}) \ {e} \in SUBSET S /\ Cardinality((T \ {c}) \ {e}) = n - 1
        <5>1. IsFiniteSet(T \ {c})
          BY <1>0, <2>2
        <5> QED
          BY <2>2, <4>1, <5>1, FS_RemoveElement
      <4>9. Right((T \ {c}) \ {e})
        BY <1>2, <4>7, <4>8
      <4>10. c.size \in Nat /\ e.size \in Nat /\ SumOf((T \ {c}) \ {e}) \in Nat
        BY <1>0, <2>2, <4>9 DEF Right
      <4>11. SumOf(T) = c.size + (e.size + SumOf((T \ {c}) \ {e}))
        BY <2>3, <4>2
      <4>12. SumOf(T \ {e}) = c.size + SumOf((T \ {c}) \ {e})
        BY <4>5, <4>6
      <4> QED
        BY <4>10, <4>11, <4>12
    <3> QED
      BY <3>1, <3>2
  <2> QED
    BY <2>5, <2>6 DEF Right
<1>3. \A n \in Nat : n \in A
  <2> DEFINE B == {n \in Nat : \A m \in 0 .. n : m \in A}
  <2> HIDE DEF A
  <2>1. 0 \in B
    BY <1>1
  <2>2. ASSUME NEW n \in Nat, n \in B PROVE n + 1 \in B
    BY <2>2, <1>2
  <2>3. \A n \in Nat : n \in B
    <3> HIDE DEF B
    <3> QED
      BY <2>1, <2>2, Induction
  <2> QED
    BY <2>3
<1>4. Right(S)
  BY <1>3, FS_CardinalityType DEF Sizes
<1> QED
  BY <1>4

LEMMA SumAdd ==
  ASSUME NEW S, Sizes(S), NEW e, e.size \in Nat, e \notin S
  PROVE  SumOf(S \cup {e}) = SumOf(S) + e.size /\ SumOf(S) \in Nat
<1>1. Sizes(S \cup {e})
  BY FS_AddElement DEF Sizes
<1>2. SumOf(S \cup {e}) = e.size + SumOf((S \cup {e}) \ {e})
  BY <1>1, SumRemove
<1>3. (S \cup {e}) \ {e} = S
  OBVIOUS
<1>4. SumOf(S) \in Nat
  BY SumRemove
<1>5. SumOf(S \cup {e}) = e.size + SumOf(S)
  BY <1>2, <1>3, Zenon
<1> QED
  BY <1>4, <1>5

-----------------------------------------------------------------------------
(***************************************************************************)
(* Where the measurements of a file lie.                                   *)
(***************************************************************************)

\* The packets of the file so far, the open one included.
Current == IF packet = Nowhere THEN Len(packets) ELSE Len(packets) + 1

Entry(e, n) ==
  /\ e = [size |-> e.size, type |-> e.type, locations |-> e.locations]
  /\ IsSeq(e.locations)
  /\ \A k \in 1 .. Len(e.locations) : e.locations[k].packet_index \in 1 .. n

\* Every location is in a packet there is, and no packet is open at the end.
Located ==
  /\ \A m \in DOMAIN addr_map : Entry(addr_map[m], Current)
  /\ status = "ok" => packet = Nowhere

LEMMA LocatedInit == Init => Located
  BY DEF Init, ConfigInit, Located, Nowhere

\* What a line in a packet does: a measurement gets a location in the open packet.
FieldAdded(name) ==
  LET e == addr_map[name]
      loc == [packet_index |-> Len(packets) + 1, offset |-> packet[1].size]
  IN  /\ name \in DOMAIN addr_map /\ DOMAIN addr_map' = DOMAIN addr_map
      /\ \A m \in DOMAIN addr_map \ {name} : addr_map'[m] = addr_map[m]
      /\ addr_map'[name] = [size |-> e.size, type |-> e.type, locations |-> Append(e.locations, loc)]
      /\ \E r : packet = <<r>> /\ PacketRecord(r)
                /\ packet' = <<[size |-> (r.size + e.size) % SizeModulus, port |-> r.port]>>
      /\ UNCHANGED <<status, measurements, negative, packets>>

LEMMA FieldAdds ==
  ASSUME Located, Downlinks, packet # Nowhere, NEW line, FieldLine(line)
  PROVE  (Fail /\ status' = "failed") \/ FieldAdded(Token(line, 1))
<1> DEFINE name == Token(line, 1)
<1>1. CASE name \notin DOMAIN addr_map
  BY <1>1 DEF FieldLine, Fail
<1>2. CASE name \in DOMAIN addr_map
  <2> DEFINE e == addr_map[name]
             loc == [packet_index |-> Len(packets) + 1, offset |-> packet[1].size]
             size == (packet[1].size + addr_map[name].size) % SizeModulus
  <2>1. /\ addr_map' = [addr_map EXCEPT ![name].locations = Append(@, loc)]
        /\ packet' = [packet EXCEPT ![1].size = size]
        /\ UNCHANGED <<status, measurements, negative, packets>>
    BY <1>2 DEF FieldLine
  <2> HIDE DEF loc, size, name
  <2>2. e = [size |-> e.size, type |-> e.type, locations |-> e.locations]
    BY <1>2 DEF Located, Entry
  <2>3. addr_map'[name] = [e EXCEPT !.locations = Append(@, loc)]
    BY <1>2, <2>1
  <2>4. addr_map'[name] = [size |-> e.size, type |-> e.type, locations |-> Append(e.locations, loc)]
    <3> HIDE DEF e
    <3> QED
      BY <2>2, <2>3
  <2>5. PICK r : packet = <<r>> /\ PacketRecord(r)
    BY DEF Downlinks
  <2>6. packet' = <<[r EXCEPT !.size = size]>>
    BY <2>1, <2>5
  <2>7. packet' = <<[size |-> size, port |-> r.port]>>
    BY <2>5, <2>6 DEF PacketRecord
  <2>8. packet[1].size = r.size
    BY <2>5
  <2> QED
    BY <1>2, <2>1, <2>4, <2>5, <2>7, <2>8 DEF FieldAdded, loc, size, name
<1> QED
  BY <1>1, <1>2

\* What a line that defines a measurement does.
Defined(name) ==
  LET e == addr_map'[name]
  IN  /\ addr_map' = With(addr_map, name, e)
      /\ e = [size |-> e.size, type |-> e.type, locations |-> <<>>]
      /\ measurements' = Append(measurements, name)
      /\ UNCHANGED <<status, packets, packet>>

LEMMA MeasurementDefines ==
  ASSUME NEW line, MeasurementLine(line)
  PROVE  \/ UNCHANGED <<definitions, packets, packet>> /\ status' # "ok"
         \/ /\ Defined(Token(line, 1)) /\ Numeric(Token(line, 2))
            /\ addr_map'[Token(line, 1)].size = Stoi(Token(line, 2)).value % SizeModulus
            /\ negative' = (negative \/ Stoi(Token(line, 2)).value < 0)
<1> DEFINE name == Token(line, 1)
           t == Token(line, 2)
           tokens == <<Token(line, 3), Token(line, 4), Token(line, 5)>>
<1>1. CASE Fail \/ Throw
  BY <1>1 DEF Fail, Throw
<1>2. CASE ~(Fail \/ Throw)
  <2>1. /\ Numeric(t)
        /\ addr_map' = With(addr_map, name, [size |-> Stoi(t).value % SizeModulus,
                                             type |-> tokens, locations |-> <<>>])
        /\ measurements' = Append(measurements, name)
        /\ negative' = (negative \/ Stoi(t).value < 0)
        /\ UNCHANGED <<status, packets, packet, network, protocol>>
    BY <1>2 DEF MeasurementLine, NotANumber
  <2> DEFINE e == [size |-> Stoi(t).value % SizeModulus, type |-> tokens, locations |-> <<>>]
  <2> HIDE DEF name, t, tokens
  <2>2. addr_map'[name] = e
    BY <2>1 DEF With
  <2> QED
    BY <2>1, <2>2 DEF Defined, name, t
<1> QED
  BY <1>1, <1>2

\* The other lines.
OtherLine ==
  UNCHANGED <<definitions, packets, packet>> /\ status' \in {status, "failed", "thrown"}

LEMMA LineKinds ==
  ASSUME Located, Downlinks, NEW line, ReadLine(line)
  PROVE  \/ OtherLine
         \/ packet = Nowhere /\ UNCHANGED <<definitions, packets, status>>
              /\ \E r : packet' = <<r>> /\ r.size = 0
         \/ packet = Nowhere /\ MeasurementLine(line)
         \/ packet # Nowhere /\ FieldAdded(Token(line, 1))
         \/ packet # Nowhere /\ EndPacket(line)
<1>1. CASE packet = Nowhere /\ (Skip(line) \/ NetLine(line) \/ SettingLine(line))
  BY <1>1 DEF Skip, NetLine, SettingLine, NotANumber, Fail, Throw, OtherLine
<1>2. CASE packet = Nowhere /\ PacketLine(line)
  <2>1. CASE UNCHANGED packet
    BY <1>2, <2>1 DEF PacketLine, NotANumber, Fail, Throw, OtherLine
  <2>2. CASE ~UNCHANGED packet
    <3>1. PICK p : packet' = <<[size |-> 0, port |-> p]>> /\ UNCHANGED <<definitions, packets, status>>
      BY <1>2, <2>2 DEF PacketLine, NotANumber, Fail, Throw
    <3> QED
      BY <1>2, <3>1
  <2> QED
    BY <2>1, <2>2
<1>3. CASE packet # Nowhere /\ FieldLine(line)
  BY <1>3, FieldAdds DEF Fail, OtherLine
<1>4. CASE packet # Nowhere /\ Skip(line)
  BY <1>4 DEF Skip, OtherLine
<1> QED
  BY <1>1, <1>2, <1>3, <1>4 DEF ReadLine

LEMMA EntryKept ==
  ASSUME NEW e, NEW n \in Nat, NEW m \in Nat, n <= m, Entry(e, n)
  PROVE  Entry(e, m)
  BY DEF Entry

LEMMA EndPacketShifts ==
  ASSUME Downlinks, packet # Nowhere, NEW line, EndPacket(line)
  PROVE  /\ packet' = Nowhere /\ UNCHANGED <<status, definitions>>
         /\ Len(packets) \in Nat /\ Len(packets') = Len(packets) + 1
         /\ packets'[Len(packets) + 1] = packet[1]
         /\ \A i \in 1 .. Len(packets) : packets'[i] = packets[i]
<1>1. PICK r : packet = <<r>>
  BY DEF Downlinks
<1>2. PICK S : packets \in Seq(S)
  BY DEF Downlinks, IsSeq
<1>3. packets \in Seq(S \cup {r}) /\ <<r>> \in Seq(S \cup {r})
  <2>1. /\ Len(packets) \in Nat /\ packets = [i \in 1 .. Len(packets) |-> packets[i]]
        /\ \A i \in 1 .. Len(packets) : packets[i] \in S \cup {r}
    BY <1>2
  <2> QED
    BY <2>1, <1>2
<1>4. packets' = packets \o <<r>> /\ packet[1] = r
  BY <1>1 DEF EndPacket
<1>5. /\ Len(packets) \in Nat /\ Len(packets') = Len(packets) + 1
      /\ packets'[Len(packets) + 1] = r
      /\ \A i \in 1 .. Len(packets) : packets'[i] = packets[i]
  BY <1>3, <1>4
<1>6. packet' = Nowhere /\ UNCHANGED <<status, definitions>>
  BY DEF EndPacket
<1> QED
  BY <1>4, <1>5, <1>6

LEMMA LineLocated ==
  ASSUME Located, Downlinks, Downlinks', NEW line, ReadLine(line), status = "reading"
  PROVE  Located'
<1>0. Len(packets) \in Nat
  BY AppendIsSeq DEF Downlinks
<1>1. CASE OtherLine
  BY <1>1 DEF OtherLine, Located, Entry, Current, definitions
<1>2. CASE packet = Nowhere /\ UNCHANGED <<definitions, packets, status>>
             /\ \E r : packet' = <<r>> /\ r.size = 0
  <2>1. packet' # Nowhere
    BY <1>2 DEF Nowhere
  <2>2. Current \in Nat /\ Current' \in Nat /\ Current <= Current'
    BY <1>0, <1>2, <2>1 DEF Current
  <2> QED
    BY <1>2, <2>2, EntryKept DEF Located, definitions
<1>3. CASE packet = Nowhere /\ MeasurementLine(line)
  <2>1. CASE UNCHANGED <<definitions, packets, packet>> /\ status' # "ok"
    BY <2>1 DEF Located, Entry, Current, definitions
  <2>2. CASE Defined(Token(line, 1))
    <3> DEFINE name == Token(line, 1)
    <3>1. Current' = Current
      BY <2>2 DEF Defined, Current
    <3>2. ASSUME NEW m \in DOMAIN addr_map' PROVE Entry(addr_map'[m], Current')
      <4>1. CASE m = name
        <5>1. addr_map'[m].locations = <<>> /\ addr_map'[m] =
                [size |-> addr_map'[m].size, type |-> addr_map'[m].type, locations |-> <<>>]
          BY <2>2, <4>1 DEF Defined
        <5>2. IsSeq(<<>>)
          BY DEF IsSeq
        <5> QED
          BY <5>1, <5>2 DEF Entry
      <4>2. CASE m # name
        <5>1. m \in DOMAIN addr_map /\ addr_map'[m] = addr_map[m]
          BY <2>2, <4>2 DEF Defined, With
        <5> QED
          BY <3>1, <5>1 DEF Located, Entry
      <4> QED
        BY <4>1, <4>2
    <3> QED
      BY <2>2, <3>2 DEF Defined, Located
  <2> QED
    BY <1>3, <2>1, <2>2, MeasurementDefines
<1>4. CASE packet # Nowhere /\ FieldAdded(Token(line, 1))
  <2> DEFINE name == Token(line, 1)
             e == addr_map[name]
             loc == [packet_index |-> Len(packets) + 1, offset |-> packet[1].size]
  <2>1. packet' # Nowhere /\ Current = Len(packets) + 1 /\ Current' = Current
    BY <1>4 DEF FieldAdded, Current, Nowhere
  <2>2. ASSUME NEW m \in DOMAIN addr_map' PROVE Entry(addr_map'[m], Current')
    <3>1. CASE m = name
      <4>1. Entry(e, Current) /\ addr_map'[m] =
              [size |-> e.size, type |-> e.type, locations |-> Append(e.locations, loc)]
        BY <1>4, <3>1 DEF FieldAdded, Located
      <4> DEFINE locs == Append(e.locations, loc)
      <4>2. /\ IsSeq(locs) /\ Len(e.locations) \in Nat /\ Len(locs) = Len(e.locations) + 1
            /\ locs[Len(e.locations) + 1] = loc
            /\ \A i \in 1 .. Len(e.locations) : locs[i] = e.locations[i]
        <5> HIDE DEF loc
        <5> QED
          BY <4>1, AppendIsSeq DEF Entry
      <4>3. loc.packet_index \in 1 .. Current
        BY <1>0, <2>1
      <4> HIDE DEF locs, loc, e
      <4>4. \A k \in 1 .. Len(locs) : locs[k].packet_index \in 1 .. Current
        BY <4>1, <4>2, <4>3 DEF Entry
      <4>5. /\ addr_map'[m].locations = locs
            /\ addr_map'[m] = [size |-> addr_map'[m].size, type |-> addr_map'[m].type,
                               locations |-> locs]
        BY <4>1 DEF locs
      <4> QED
        BY <2>1, <4>2, <4>4, <4>5 DEF Entry
    <3>2. CASE m # name
      <4>1. m \in DOMAIN addr_map /\ addr_map'[m] = addr_map[m]
        BY <1>4, <3>2 DEF FieldAdded
      <4> QED
        BY <2>1, <4>1 DEF Located, Entry
    <3> QED
      BY <3>1, <3>2
  <2>3. status' # "ok"
    BY <1>4 DEF FieldAdded
  <2> QED
    BY <2>2, <2>3 DEF Located
<1>5. CASE packet # Nowhere /\ EndPacket(line)
  <2>1. Current' = Current
    BY <1>5, EndPacketShifts DEF Current
  <2> QED
    BY <1>5, <2>1, EndPacketShifts DEF Located, Entry, definitions
<1> QED
  BY <1>1, <1>2, <1>3, <1>4, <1>5, LineKinds

LEMMA StepLocated ==
  ASSUME Located, Downlinks, [Next]_vars
  PROVE  Located'
<1>0. Downlinks'
  BY StepDownlinks
<1>1. CASE UNCHANGED configVars
  BY <1>1 DEF configVars, definitions, Located, Entry, Current
<1>2. CASE EndOfFile
  BY <1>2 DEF EndOfFile, definitions, Located, Entry, Current
<1>3. ASSUME NEW line, ReadLine(line), status = "reading" PROVE Located'
  BY <1>0, <1>3, LineLocated
<1> QED
  BY <1>1, <1>2, <1>3 DEF Next, Configure, ConfigNext, RunTree, View, Trigger, vars

LEMMA RangeAppend ==
  ASSUME NEW s, IsSeq(s), NEW e
  PROVE  Range(Append(s, e)) = Range(s) \cup {e}
<1>1. PICK S : s \in Seq(S)
  BY DEF IsSeq
<1>2. s \in Seq(S \cup {e})
  <2>1. /\ Len(s) \in Nat /\ s = [i \in 1 .. Len(s) |-> s[i]]
        /\ \A i \in 1 .. Len(s) : s[i] \in S \cup {e}
    BY <1>1
  <2> QED
    BY <2>1, <1>1
<1>3. /\ DOMAIN s = 1 .. Len(s) /\ Len(s) \in Nat /\ DOMAIN Append(s, e) = 1 .. Len(s) + 1
      /\ Append(s, e)[Len(s) + 1] = e
      /\ \A i \in 1 .. Len(s) : Append(s, e)[i] = s[i]
  BY <1>2
<1> QED
  BY <1>3 DEF Range

\* An extent of packet i is a measurement at one of its locations.
Extent(m, loc) == [from |-> loc.offset, size |-> addr_map[m].size, of |-> m]

LEMMA ExtentOf ==
  ASSUME NEW i
  PROVE  Extents(i) = {x \in Extents(i) : \E m \in DOMAIN addr_map : \E loc \in PlacesIn(i, m) :
                                            x = Extent(m, loc)}
         /\ \A m \in DOMAIN addr_map : \A loc \in PlacesIn(i, m) : Extent(m, loc) \in Extents(i)
  BY DEF Extents, Extent

\* Nothing lies in a packet that is not there yet.
LEMMA NoExtents ==
  ASSUME Located, Downlinks
  PROVE  Extents(Current + 1) = {}
<1>1. Current \in Nat
  BY AppendIsSeq DEF Downlinks, Current
<1>2. ASSUME NEW m \in DOMAIN addr_map PROVE PlacesIn(Current + 1, m) = {}
  <2>1. PICK S : addr_map[m].locations \in Seq(S)
    BY DEF Located, Entry, IsSeq
  <2>2. DOMAIN addr_map[m].locations = 1 .. Len(addr_map[m].locations)
    BY <2>1
  <2> QED
    BY <1>1, <2>2 DEF PlacesIn, Range, Located, Entry
<1> QED
  BY <1>2 DEF Extents

LEMMA FieldExtents ==
  ASSUME Located, Downlinks, NEW name, FieldAdded(name), NEW i
  PROVE  Extents(i)' = Extents(i) \cup
           (IF i = Len(packets) + 1
              THEN {[from |-> packet[1].size, size |-> addr_map[name].size, of |-> name]} ELSE {})
<1> DEFINE loc == [packet_index |-> Len(packets) + 1, offset |-> packet[1].size]
           e == addr_map[name]
           added == IF i = Len(packets) + 1 THEN {loc} ELSE {}
<1>1. /\ name \in DOMAIN addr_map /\ DOMAIN addr_map' = DOMAIN addr_map
      /\ \A m \in DOMAIN addr_map \ {name} : addr_map'[m] = addr_map[m]
      /\ addr_map'[name] = [size |-> e.size, type |-> e.type, locations |-> Append(e.locations, loc)]
  BY DEF FieldAdded
<1>2. /\ addr_map'[name].size = e.size
      /\ addr_map'[name].locations = Append(e.locations, loc)
  BY <1>1
<1>3. loc.packet_index = Len(packets) + 1 /\ loc.offset = packet[1].size
  OBVIOUS
<1> HIDE DEF loc
<1>4. Range(addr_map'[name].locations) = Range(e.locations) \cup {loc}
  BY <1>1, <1>2, RangeAppend DEF Located, Entry
<1>5. PlacesIn(i, name)' = PlacesIn(i, name) \cup added
  BY <1>3, <1>4 DEF PlacesIn
<1>6. \A m \in DOMAIN addr_map \ {name} : PlacesIn(i, m)' = PlacesIn(i, m)
  BY <1>1 DEF PlacesIn
<1>7. \A m \in DOMAIN addr_map : addr_map'[m].size = addr_map[m].size
  BY <1>1, <1>2
<1>8. Extents(i)' = Extents(i) \cup {Extent(name, l) : l \in added}
  <2> HIDE DEF added
  <2>1. ASSUME NEW x \in Extents(i)' PROVE x \in Extents(i) \cup {Extent(name, l) : l \in added}
    <3>1. PICK m, l : m \in DOMAIN addr_map /\ l \in PlacesIn(i, m)' /\
            x = [from |-> l.offset, size |-> addr_map'[m].size, of |-> m]
      BY <1>1 DEF Extents
    <3>2. x = Extent(m, l)
      BY <1>7, <3>1 DEF Extent
    <3>3. CASE l \in PlacesIn(i, m)
      BY <3>1, <3>2, <3>3, ExtentOf
    <3>4. CASE l \notin PlacesIn(i, m)
      BY <1>5, <1>6, <3>1, <3>2, <3>4
    <3> QED
      BY <3>3, <3>4
  <2>2. ASSUME NEW x \in Extents(i) PROVE x \in Extents(i)'
    <3>1. PICK m, l : m \in DOMAIN addr_map /\ l \in PlacesIn(i, m) /\ x = Extent(m, l)
      BY ExtentOf
    <3>2. l \in PlacesIn(i, m)'
      BY <3>1, <1>5, <1>6
    <3>3. x = [from |-> l.offset, size |-> addr_map'[m].size, of |-> m]
      BY <1>7, <3>1 DEF Extent
    <3>4. m \in DOMAIN addr_map'
      BY <1>1, <3>1
    <3> QED
      BY <3>2, <3>3, <3>4 DEF Extents
  <2>3. ASSUME NEW l \in added PROVE Extent(name, l) \in Extents(i)'
    <3>1. l \in PlacesIn(i, name)'
      BY <1>5
    <3>2. Extent(name, l) = [from |-> l.offset, size |-> addr_map'[name].size, of |-> name]
      BY <1>1, <1>7 DEF Extent
    <3> QED
      BY <1>1, <3>1, <3>2 DEF Extents
  <2> QED
    BY <2>1, <2>2, <2>3
<1>9. Extent(name, loc) = [from |-> packet[1].size, size |-> addr_map[name].size, of |-> name]
  BY <1>3 DEF Extent
<1> QED
  BY <1>8, <1>9

\* A definition takes places away, and none if its name is new.
LEMMA DefinedExtents ==
  ASSUME NEW name, Defined(name), NEW i
  PROVE  /\ Extents(i)' \subseteq Extents(i)
         /\ name \notin DOMAIN addr_map => Extents(i)' = Extents(i)
<1>1. /\ DOMAIN addr_map' = DOMAIN addr_map \cup {name}
      /\ \A m \in DOMAIN addr_map \ {name} : addr_map'[m] = addr_map[m]
      /\ addr_map'[name].locations = <<>>
  <2>1. addr_map'[name] = [size |-> addr_map'[name].size, type |-> addr_map'[name].type,
                           locations |-> <<>>]
    BY DEF Defined
  <2> QED
    BY <2>1 DEF Defined, With
<1>2. PlacesIn(i, name)' = {}
  BY <1>1 DEF PlacesIn, Range
<1>3. \A m \in DOMAIN addr_map \ {name} : PlacesIn(i, m)' = PlacesIn(i, m)
  BY <1>1 DEF PlacesIn
<1>4. ASSUME NEW x \in Extents(i)' PROVE x \in Extents(i)
  <2>1. PICK m, l : m \in DOMAIN addr_map' /\ l \in PlacesIn(i, m)' /\
          x = [from |-> l.offset, size |-> addr_map'[m].size, of |-> m]
    BY DEF Extents
  <2>2. m # name
    BY <1>2, <2>1
  <2>3. m \in DOMAIN addr_map /\ l \in PlacesIn(i, m) /\ x = Extent(m, l)
    BY <1>1, <1>3, <2>1, <2>2 DEF Extent
  <2> QED
    BY <2>3, ExtentOf
<1>5. ASSUME name \notin DOMAIN addr_map, NEW x \in Extents(i) PROVE x \in Extents(i)'
  <2>1. PICK m, l : m \in DOMAIN addr_map /\ l \in PlacesIn(i, m) /\ x = Extent(m, l)
    BY ExtentOf
  <2>2. /\ m \in DOMAIN addr_map' /\ l \in PlacesIn(i, m)'
        /\ x = [from |-> l.offset, size |-> addr_map'[m].size, of |-> m]
    BY <1>1, <1>3, <1>5, <2>1 DEF Extent
  <2> QED
    BY <2>2 DEF Extents
<1> QED
  BY <1>4, <1>5

\* The places of packet i, and its size so far.
SizeOf(i) == IF i <= Len(packets) THEN packets[i].size ELSE packet[1].size

Fits(i) ==
  /\ Sizes(Extents(i)) /\ SizeOf(i) \in Nat
  /\ \A e \in Extents(i) : e.from \in Nat /\ e.from + e.size <= SizeOf(i)
  /\ \A e, f \in Extents(i) : e # f => e.from + e.size <= f.from \/ f.from + f.size <= e.from
                                         \/ e.size = 0 \/ f.size = 0
  /\ ~Redefined => SumOf(Extents(i)) = SizeOf(i)

Named == IsSeq(measurements) /\ DOMAIN addr_map = Range(measurements)

\* While no size was negative and none is more than max.
Sized(max) ==
  /\ place \in Nat /\ place >= 1
  /\ ~negative =>
       /\ \A m \in DOMAIN addr_map : addr_map[m].size \in 0 .. max
       /\ packet # Nowhere => packet[1].size <= (place - 1) * max
       /\ \A i \in 1 .. Current : Fits(i)

LEMMA SizedInit ==
  ASSUME NEW max \in Nat, Init
  PROVE  Named /\ Sized(max)
<1>1. place = 1 /\ addr_map = <<>> /\ measurements = <<>> /\ packet = Nowhere /\ packets = <<>>
  BY DEF Init, ConfigInit
<1>2. IsSeq(measurements) /\ Current = 0
  BY <1>1 DEF IsSeq, Current
<1>3. Named
  BY <1>1, <1>2 DEF Named, Range
<1> QED
  BY <1>1, <1>2, <1>3 DEF Sized

LEMMA FitsKept ==
  ASSUME NEW i, Fits(i), Extents(i)' = Extents(i), SizeOf(i)' = SizeOf(i),
         ~Redefined' => ~Redefined
  PROVE  Fits(i)'
  BY DEF Fits

\* A packet that a line opens is empty.
LEMMA EmptyFits ==
  ASSUME NEW i, Extents(i) = {}, SizeOf(i) = 0
  PROVE  Fits(i)
  BY SumEmpty, FS_EmptySet DEF Fits, Sizes

\* A measurement that is put behind the others.
LEMMA AddedFits ==
  ASSUME NEW i, Fits(i), NEW e, e.from = SizeOf(i), e.size \in Nat,
         Extents(i)' = Extents(i) \cup {e}, SizeOf(i)' = SizeOf(i) + e.size,
         ~Redefined' => ~Redefined
  PROVE  Fits(i)'
<1>1. Sizes(Extents(i))' /\ SizeOf(i)' \in Nat
  BY FS_AddElement DEF Fits, Sizes
<1>2. \A x \in Extents(i)' : x.from \in Nat /\ x.from + x.size <= SizeOf(i)'
  BY DEF Fits, Sizes
<1>3. \A x, y \in Extents(i)' : x # y => x.from + x.size <= y.from \/ y.from + y.size <= x.from
                                           \/ x.size = 0 \/ y.size = 0
  BY DEF Fits, Sizes
<1>4. ASSUME ~Redefined' PROVE SumOf(Extents(i)') = SizeOf(i)'
  <2>1. SumOf(Extents(i)) = SizeOf(i) /\ SizeOf(i) \in Nat /\ Sizes(Extents(i))
    BY <1>4 DEF Fits
  <2>2. CASE e \in Extents(i)
    <3>1. e.size = 0
      BY <2>2 DEF Fits, Sizes
    <3>2. Extents(i)' = Extents(i)
      BY <2>2
    <3> QED
      BY <2>1, <3>1, <3>2
  <2>3. CASE e \notin Extents(i)
    <3>1. SumOf(Extents(i) \cup {e}) = SumOf(Extents(i)) + e.size
      BY <2>1, <2>3, SumAdd
    <3> QED
      BY <2>1, <3>1
  <2> QED
    BY <2>2, <2>3
<1> QED
  BY <1>1, <1>2, <1>3, <1>4 DEF Fits

\* Measurements that are taken away leave the others where they are.
LEMMA FewerFit ==
  ASSUME NEW i, Fits(i), Extents(i)' \subseteq Extents(i), SizeOf(i)' = SizeOf(i),
         ~Redefined' => ~Redefined /\ Extents(i)' = Extents(i)
  PROVE  Fits(i)'
<1>1. Sizes(Extents(i))'
  BY FS_Subset DEF Fits, Sizes
<1>2. ~Redefined' => SumOf(Extents(i)') = SizeOf(i)'
  BY DEF Fits
<1> QED
  BY <1>1, <1>2 DEF Fits

\* A name that is defined again stays so.
LEMMA DefinedNames ==
  ASSUME Named, NEW name, Defined(name)
  PROVE  Named' /\ (~Redefined' => ~Redefined /\ name \notin DOMAIN addr_map)
<1>1. measurements' = Append(measurements, name) /\ DOMAIN addr_map' = DOMAIN addr_map \cup {name}
  BY DEF Defined, With
<1>2. Named'
  BY <1>1, AppendIsSeq, RangeAppend DEF Named
<1>3. /\ DOMAIN measurements = 1 .. Len(measurements) /\ Len(measurements) \in Nat
      /\ DOMAIN measurements' = 1 .. Len(measurements) + 1
      /\ measurements'[Len(measurements) + 1] = name
      /\ \A i \in 1 .. Len(measurements) : measurements'[i] = measurements[i]
  <2>1. PICK S, T : measurements \in Seq(S) /\ measurements' \in Seq(T)
    BY <1>2 DEF Named, IsSeq
  <2>2. DOMAIN measurements = 1 .. Len(measurements) /\ DOMAIN measurements' = 1 .. Len(measurements')
    BY <2>1
  <2> QED
    BY <1>1, <2>2, AppendIsSeq DEF Named
<1>4. Redefined => Redefined'
  BY <1>3 DEF Redefined
<1>5. ASSUME name \in DOMAIN addr_map PROVE Redefined'
  <2>1. PICK i \in DOMAIN measurements : measurements[i] = name
    BY <1>5 DEF Named, Range
  <2>2. /\ i \in DOMAIN measurements' /\ Len(measurements) + 1 \in DOMAIN measurements'
        /\ i # Len(measurements) + 1 /\ measurements'[i] = name
    BY <1>3, <2>1
  <2> QED
    BY <1>3, <2>2 DEF Redefined
<1> QED
  BY <1>2, <1>4, <1>5

\* What stoi gives is no more than max.
StoiUpTo(max) == \A t : Numeric(t) => Stoi(t).value \in Int /\ Stoi(t).value <= max

LEMMA Times ==
  ASSUME NEW n \in Nat, n >= 1, NEW max \in Nat
  PROVE  /\ n * max \in Nat /\ (n - 1) * max \in Nat
         /\ n * max = (n - 1) * max + max
<1>1. PICK k \in Nat : n = k + 1
  <2>1. n - 1 \in Nat /\ n = (n - 1) + 1
    OBVIOUS
  <2> QED
    BY <2>1
<1>2. k * max \in Nat
  OBVIOUS
<1>3. (k + 1) * max = k * max + max
  OBVIOUS
<1>4. n - 1 = k
  BY <1>1
<1> QED
  BY <1>1, <1>2, <1>3, <1>4

LEMMA SameExtents ==
  ASSUME UNCHANGED addr_map, NEW i
  PROVE  Extents(i)' = Extents(i)
  BY DEF Extents, PlacesIn

LEMMA LineSized ==
  ASSUME NEW max \in Nat, SizeModulus \in Nat, StoiUpTo(max), place * max < SizeModulus,
         Named, Sized(max), Located, Downlinks, NEW line, ReadLine(line)
  PROVE  Named' /\ Sized(max)'
<1>0. Len(packets) \in Nat
  BY AppendIsSeq DEF Downlinks
<1>1. place' = place + 1 /\ place \in Nat /\ place >= 1
  BY DEF ReadLine, Sized
<1>2. /\ (place - 1) * max \in Nat /\ place * max \in Nat /\ place' - 1 = place
      /\ place * max = (place - 1) * max + max
  BY <1>1, Times
<1> DEFINE Most == /\ \A m \in DOMAIN addr_map : addr_map[m].size \in 0 .. max
                   /\ packet # Nowhere => packet[1].size <= (place - 1) * max
                   /\ \A i \in 1 .. Current : Fits(i)
<1>3. ~negative => Most
  BY DEF Sized
<1>4. ASSUME negative => negative', ~negative' => Most' PROVE Sized(max)'
  BY <1>1, <1>4 DEF Sized
<1>5. CASE OtherLine
  <2>1. UNCHANGED <<addr_map, measurements, negative, packets, packet>> /\ Current' = Current
    BY <1>5 DEF OtherLine, definitions, Current
  <2>2. \A i : SizeOf(i)' = SizeOf(i) /\ (~Redefined' => ~Redefined)
    BY <2>1 DEF SizeOf, Redefined
  <2>3. \A i \in 1 .. Current : Fits(i) => Fits(i)'
    BY <2>1, <2>2, SameExtents, FitsKept
  <2>4. packet # Nowhere /\ packet[1].size <= (place - 1) * max /\ Fits(Current) =>
          packet[1].size <= place * max
    BY <1>0, <1>2 DEF Fits, SizeOf, Current
  <2>5. packet # Nowhere => Current \in 1 .. Current
    BY <1>0 DEF Current
  <2>6. ~negative' => Most'
    BY <1>2, <1>3, <2>1, <2>3, <2>4, <2>5
  <2> QED
    BY <1>4, <2>1, <2>6 DEF Named
<1>6. CASE packet = Nowhere /\ UNCHANGED <<definitions, packets, status>>
             /\ \E r : packet' = <<r>> /\ r.size = 0
  <2>1. UNCHANGED <<addr_map, measurements, negative, packets>>
    BY <1>6 DEF definitions
  <2>2. packet' # Nowhere /\ packet'[1].size = 0
    BY <1>6 DEF Nowhere
  <2>3. Current = Len(packets) /\ Current' = Current + 1
    BY <1>6, <2>1, <2>2 DEF Current
  <2>4. ~Redefined' => ~Redefined
    BY <2>1 DEF Redefined
  <2>5. ASSUME NEW i \in 1 .. Current, Fits(i) PROVE Fits(i)'
    <3>1. SizeOf(i)' = SizeOf(i)
      BY <1>0, <2>1, <2>3 DEF SizeOf
    <3> QED
      BY <2>1, <2>4, <2>5, <3>1, SameExtents, FitsKept
  <2>6. ASSUME NEW i, i = Current + 1 PROVE Fits(i)'
    <3>1. Extents(i)' = {}
      BY <2>1, <2>6, SameExtents, NoExtents
    <3>2. SizeOf(i)' = 0
      BY <1>0, <2>1, <2>2, <2>3, <2>6 DEF SizeOf
    <3>3. Sizes(Extents(i))'
      BY <3>1, FS_EmptySet DEF Sizes
    <3> QED
      BY <3>1, <3>2, <3>3, SumEmpty DEF Fits
  <2>7. ~negative' => Most'
    <3>1. ASSUME ~negative PROVE \A i \in 1 .. Current' : Fits(i)'
      <4>1. \A i \in 1 .. Current' : i \in 1 .. Current \/ i = Current + 1
        BY <1>0, <2>3
      <4>2. \A i \in 1 .. Current : Fits(i)
        BY <1>3, <3>1
      <4> QED
        BY <2>5, <2>6, <4>1, <4>2
    <3>2. packet'[1].size <= place * max
      BY <1>2, <2>2
    <3> QED
      BY <1>2, <1>3, <2>1, <3>1, <3>2
  <2> QED
    BY <1>4, <2>1, <2>7 DEF Named
<1>7. CASE packet = Nowhere /\ MeasurementLine(line)
  <2>1. CASE UNCHANGED <<definitions, packets, packet>>
    <3>1. UNCHANGED <<addr_map, measurements, negative, packets, packet>> /\ Current' = Current
      BY <2>1 DEF definitions, Current
    <3>2. \A i : SizeOf(i)' = SizeOf(i) /\ (~Redefined' => ~Redefined)
      BY <3>1 DEF SizeOf, Redefined
    <3>3. \A i \in 1 .. Current : Fits(i) => Fits(i)'
      BY <3>1, <3>2, SameExtents, FitsKept
    <3>4. ~negative' => Most'
      BY <1>3, <1>7, <3>1, <3>3
    <3> QED
      BY <1>4, <3>1, <3>4 DEF Named
  <2>2. CASE ~UNCHANGED <<definitions, packets, packet>>
    <3> DEFINE name == Token(line, 1)
               v == Stoi(Token(line, 2)).value
    <3>1. /\ Defined(name) /\ Numeric(Token(line, 2)) /\ addr_map'[name].size = v % SizeModulus
          /\ negative' = (negative \/ v < 0)
      BY <1>7, <2>2, MeasurementDefines
    <3>2. v \in Int /\ v <= max
      BY <3>1 DEF StoiUpTo
    <3> HIDE DEF name, v
    <3>3. UNCHANGED <<packets, packet>> /\ Current' = Current
      BY <3>1 DEF Defined, Current
    <3>4. Named' /\ (~Redefined' => ~Redefined /\ name \notin DOMAIN addr_map)
      BY <3>1, DefinedNames
    <3>5. \A i : SizeOf(i)' = SizeOf(i)
      BY <3>3 DEF SizeOf
    <3>6. \A i \in 1 .. Current : Fits(i) => Fits(i)'
      <4>1. \A i : /\ Extents(i)' \subseteq Extents(i)
                   /\ name \notin DOMAIN addr_map => Extents(i)' = Extents(i)
        BY <3>1, DefinedExtents
      <4> QED
        BY <3>4, <3>5, <4>1, FewerFit
    <3>7. ASSUME ~negative' PROVE \A m \in DOMAIN addr_map' : addr_map'[m].size \in 0 .. max
      <4>1. v % SizeModulus = v /\ v \in 0 .. max
        <5>0. ~(v < 0)
          BY <3>1, <3>7, Zenon
        <5>1. v >= 0 /\ v < SizeModulus /\ SizeModulus > 0
          BY <1>2, <3>2, <5>0
        <5> QED
          BY <3>2, <5>1
      <4>2. \A m \in DOMAIN addr_map' : m = name \/ (m \in DOMAIN addr_map /\ addr_map'[m] = addr_map[m])
        BY <3>1 DEF Defined, With
      <4>3. \A m \in DOMAIN addr_map : addr_map[m].size \in 0 .. max
        BY <1>3, <3>1, <3>7
      <4> QED
        BY <3>1, <4>1, <4>2, <4>3
    <3>8. ~negative' => Most'
      BY <1>3, <1>7, <3>1, <3>3, <3>6, <3>7
    <3> QED
      BY <1>4, <3>1, <3>4, <3>8
  <2> QED
    BY <2>1, <2>2
<1>8. CASE packet # Nowhere /\ FieldAdded(Token(line, 1))
  <2> DEFINE name == Token(line, 1)
             n == Len(packets) + 1
             e == [from |-> packet[1].size, size |-> addr_map[name].size, of |-> name]
  <2>1. /\ name \in DOMAIN addr_map /\ DOMAIN addr_map' = DOMAIN addr_map
        /\ UNCHANGED <<measurements, negative, packets>>
        /\ packet' # Nowhere /\ Current' = n /\ Current = n
    BY <1>8 DEF FieldAdded, Current, Nowhere
  <2>2. \A m \in DOMAIN addr_map : addr_map'[m].size = addr_map[m].size
    BY <1>8 DEF FieldAdded
  <2>3. packet'[1].size = (packet[1].size + addr_map[name].size) % SizeModulus
    BY <1>8 DEF FieldAdded
  <2>4. Named' /\ (~Redefined' => ~Redefined)
    BY <2>1 DEF Named, Redefined
  <2>5. ASSUME ~negative PROVE Most'
    <3>1. /\ packet[1].size \in Nat /\ packet[1].size <= (place - 1) * max
          /\ addr_map[name].size \in Nat /\ addr_map[name].size <= max /\ Fits(n)
      <4>1. n \in 1 .. Current /\ SizeOf(n) = packet[1].size
        BY <1>0, <2>1 DEF SizeOf
      <4>2. addr_map[name].size \in 0 .. max
        BY <1>3, <2>1, <2>5
      <4>3. Fits(n)
        BY <1>3, <2>5, <4>1
      <4> QED
        BY <1>3, <1>8, <2>5, <4>1, <4>2, <4>3 DEF Fits
    <3>2. /\ packet'[1].size = packet[1].size + addr_map[name].size
          /\ packet'[1].size <= place * max
      <4>1. /\ packet[1].size + addr_map[name].size \in Nat
            /\ packet[1].size + addr_map[name].size <= place * max
            /\ packet[1].size + addr_map[name].size < SizeModulus
        BY <1>2, <3>1
      <4> QED
        BY <2>3, <4>1
    <3>3. ASSUME NEW i \in 1 .. Current, i # n PROVE Fits(i)'
      <4>1. Extents(i)' = Extents(i)
        <5>1. Extents(i)' = Extents(i) \cup (IF i = n THEN {e} ELSE {})
          BY <1>8, FieldExtents
        <5> HIDE DEF e, n
        <5> QED
          BY <3>3, <5>1
      <4>2. SizeOf(i)' = SizeOf(i)
        BY <1>0, <2>1, <3>3 DEF SizeOf
      <4>3. Fits(i)
        BY <1>3, <2>5
      <4> QED
        BY <2>4, <4>1, <4>2, <4>3, FitsKept
    <3>4. Fits(n)'
      <4> SUFFICES ASSUME NEW i, i = n PROVE Fits(i)'
        BY <2>1
      <4>1. Extents(i)' = Extents(i) \cup {e}
        BY <1>8, FieldExtents
      <4>2. SizeOf(i) = packet[1].size /\ SizeOf(i)' = packet'[1].size
        BY <1>0, <2>1 DEF SizeOf
      <4>3. e.from = SizeOf(i) /\ e.size = addr_map[name].size
        BY <4>2
      <4> HIDE DEF e, name
      <4> QED
        BY <2>4, <3>1, <3>2, <4>1, <4>2, <4>3, AddedFits
    <3>5. \A m \in DOMAIN addr_map' : addr_map'[m].size \in 0 .. max
      BY <1>3, <2>1, <2>2, <2>5
    <3> QED
      BY <1>2, <2>1, <3>2, <3>3, <3>4, <3>5
  <2> QED
    BY <1>4, <2>1, <2>4, <2>5
<1>9. CASE packet # Nowhere /\ EndPacket(line)
  <2>1. /\ packet' = Nowhere /\ UNCHANGED <<addr_map, measurements, negative>>
        /\ Len(packets') = Len(packets) + 1
        /\ packets'[Len(packets) + 1] = packet[1]
        /\ \A i \in 1 .. Len(packets) : packets'[i] = packets[i]
    BY <1>9, EndPacketShifts DEF definitions
  <2>2. Current = Len(packets) + 1 /\ Current' = Current
    BY <1>9, <2>1 DEF Current
  <2>3. ASSUME NEW i \in 1 .. Current PROVE SizeOf(i)' = SizeOf(i)
    BY <1>0, <2>1, <2>2 DEF SizeOf
  <2>4. Named' /\ (~Redefined' => ~Redefined)
    BY <2>1 DEF Named, Redefined
  <2>5. \A i \in 1 .. Current : Fits(i) => Fits(i)'
    BY <2>1, <2>3, <2>4, SameExtents, FitsKept
  <2>6. ~negative' => Most'
    BY <1>3, <2>1, <2>2, <2>5
  <2> QED
    BY <1>4, <2>1, <2>4, <2>6
<1> QED
  BY <1>5, <1>6, <1>7, <1>8, <1>9, LineKinds

LEMMA StepSized ==
  ASSUME NEW max \in Nat, SizeModulus \in Nat, StoiUpTo(max), place * max < SizeModulus,
         Named, Sized(max), Located, Downlinks, [Next]_vars
  PROVE  Named' /\ Sized(max)'
<1>1. ASSUME UNCHANGED <<place, definitions, packets, packet>> PROVE Named' /\ Sized(max)'
  <2>1. UNCHANGED <<addr_map, measurements, negative, packets, packet, place>> /\ Current' = Current
    BY <1>1 DEF definitions, Current
  <2>2. \A i : SizeOf(i)' = SizeOf(i) /\ (~Redefined' => ~Redefined)
    BY <2>1 DEF SizeOf, Redefined
  <2>3. \A i \in 1 .. Current : Fits(i) => Fits(i)'
    BY <2>1, <2>2, SameExtents, FitsKept
  <2> QED
    BY <2>1, <2>3 DEF Named, Sized
<1>2. ASSUME NEW line, ReadLine(line) PROVE Named' /\ Sized(max)'
  BY <1>2, LineSized
<1> QED
  BY <1>1, <1>2 DEF Next, Configure, ConfigNext, EndOfFile, RunTree, View, Trigger, configVars,
     vars

\* What viewers and writers copy by: in a file of any length whose sizes cannot add up to
\* 2^64 (stoi gives no more than max, and lines times max is less), a measurement lies
\* inside its packet, no two share a byte, and every byte belongs to one.
THEOREM PlacesFit ==
  ASSUME NEW max \in Nat, StoiUpTo(max), SizeModulus \in Nat
  PROVE  Spec /\ [](place * max < SizeModulus) => []LocationsFit
<1> DEFINE Short == place * max < SizeModulus
           I == Devices /\ Downlinks /\ Located /\ Named /\ Sized(max)
<1>1. Init => I
  BY DevicesInit, DownlinksInit, LocatedInit, SizedInit
<1>2. I /\ Short /\ [Next]_vars => I'
  BY StepDevices, StepDownlinks, StepLocated, StepSized
<1>3. I => LocationsFit
  <2> SUFFICES ASSUME I, ~negative, NEW i \in DOMAIN packets
               PROVE  /\ \A e \in Extents(i) : e.from + e.size <= packets[i].size
                      /\ \A e, f \in Extents(i) :
                           e # f => e.from + e.size <= f.from \/ f.from + f.size <= e.from
                                      \/ e.size = 0 \/ f.size = 0
                      /\ ~Redefined => SumOf(Extents(i)) = packets[i].size
    BY DEF LocationsFit
  <2>1. Len(packets) \in Nat /\ DOMAIN packets = 1 .. Len(packets)
    BY AppendIsSeq DEF Downlinks, IsSeq
  <2>2. i \in 1 .. Current /\ SizeOf(i) = packets[i].size
    BY <2>1 DEF Current, SizeOf
  <2>3. Fits(i)
    BY <2>2 DEF Sized
  <2> QED
    BY <2>2, <2>3 DEF Fits
<1> HIDE DEF Short, I
<1>4. Spec /\ []Short => []LocationsFit
  BY <1>1, <1>2, <1>3, PTL DEF Spec
<1> QED
  BY <1>4 DEF Short

-----------------------------------------------------------------------------
(***************************************************************************)
(* What a viewer gets.  A packet it tracks holds what the last update that *)
(* looked at it found, unless that was before the packet was added; one no *)
(* update has looked at has the nonce of a packet never written, and the   *)
(* zeros of a new buffer are right for it.                                 *)
(***************************************************************************)

Viewing ==
  /\ writes \in Nat
  /\ ~Opened => packet_ids = {} /\ read = {}
  /\ Opened =>
       /\ status = "ok" /\ packet_ids \subseteq PacketIds
       /\ nonces \in [PacketIds -> 0 .. writes] /\ last_nonces \in [PacketIds -> 0 .. writes]
       /\ \A p \in PacketIds \ read : last_nonces[p] = 0
       /\ \A p \in packet_ids \ stale : buffers[p] = last_nonces[p]

LEMMA ViewingInit == Init => Viewing
  BY DEF Init, ViewerInit, Viewing, Opened

\* A measurement is in packets there are, once the file is read.
LEMMA PacketsThere ==
  ASSUME Located, Downlinks, status = "ok", NEW m \in DOMAIN addr_map
  PROVE  PacketsOf(m) \subseteq PacketIds /\ DOMAIN Locations(m) \subseteq Nat
<1>1. packet = Nowhere /\ Entry(addr_map[m], Len(packets))
  BY DEF Located, Current
<1>2. DOMAIN packets = 1 .. Len(packets)
  BY DEF Downlinks, IsSeq
<1>3. DOMAIN addr_map[m].locations = 1 .. Len(addr_map[m].locations)
  BY <1>1 DEF Entry, IsSeq
<1> QED
  BY <1>1, <1>2, <1>3 DEF PacketsOf, Locations, PacketIds, Entry

LEMMA AddPacketsViews ==
  ASSUME Viewing, Opened, NEW ids \in SUBSET PacketIds, AddPackets(ids),
         UNCHANGED <<status, packets>>
  PROVE  Viewing'
<1> DEFINE new == ids \ packet_ids
<1>1. /\ packet_ids' = packet_ids \cup new
      /\ buffers' = [p \in PacketIds |-> IF p \in new THEN 0 ELSE buffers[p]]
      /\ stale' = stale \cup (new \cap read)
      /\ UNCHANGED <<nonces, writes, last_nonces, read>>
  BY DEF AddPackets, Zeros
<1>2. PacketIds' = PacketIds /\ Opened'
  BY <1>1 DEF PacketIds, Opened
<1>3. ASSUME NEW p \in packet_ids' \ stale' PROVE buffers'[p] = last_nonces'[p]
  <2>1. p \in PacketIds
    BY <1>1 DEF Viewing
  <2>2. CASE p \in new
    BY <1>1, <2>1, <2>2 DEF Viewing
  <2>3. CASE p \notin new
    BY <1>1, <2>1, <2>3 DEF Viewing
  <2> QED
    BY <2>2, <2>3
<1>4. packet_ids' \subseteq PacketIds
  BY <1>1 DEF Viewing
<1> QED
  BY <1>1, <1>2, <1>3, <1>4 DEF Viewing

LEMMA UpdateViews ==
  ASSUME Viewing, Update, UNCHANGED <<status, packets>>
  PROVE  Viewing'
<1> DEFINE updated == {p \in Followed : nonces[p] # last_nonces[p]}
<1>1. /\ Opened /\ UNCHANGED <<nonces, writes, packet_ids>>
      /\ last_nonces' = [p \in PacketIds |-> IF p \in updated THEN nonces[p] ELSE last_nonces[p]]
      /\ buffers' = [p \in PacketIds |->
                       IF p \in updated \cap packet_ids THEN nonces[p] ELSE buffers[p]]
      /\ read' = read \cup Followed
      /\ stale' = stale \ updated
  BY DEF Update
<1>2. PacketIds' = PacketIds /\ Opened'
  BY <1>1 DEF PacketIds, Opened
<1>3. last_nonces' \in [PacketIds -> 0 .. writes]
  <2> HIDE DEF updated
  <2> QED
    BY <1>1 DEF Viewing
<1>4. ASSUME NEW p \in PacketIds \ read' PROVE last_nonces'[p] = 0
  BY <1>1 DEF Viewing
<1>5. ASSUME NEW p \in packet_ids' \ stale' PROVE buffers'[p] = last_nonces'[p]
  <2>1. p \in PacketIds /\ p \in packet_ids
    BY <1>1 DEF Viewing
  <2>2. CASE p \in updated
    BY <1>1, <2>1, <2>2
  <2>3. CASE p \notin updated
    BY <1>1, <2>1, <2>3 DEF Viewing
  <2> QED
    BY <2>2, <2>3
<1> QED
  BY <1>1, <1>2, <1>3, <1>4, <1>5 DEF Viewing

LEMMA ViewSteps ==
  ASSUME Viewing, Located, Downlinks, [Next]_vars
  PROVE  Viewing'
<1>1. CASE UNCHANGED viewerVars /\ UNCHANGED <<status, packets>>
  BY <1>1 DEF viewerVars, Viewing, Opened, PacketIds
<1>2. CASE UNCHANGED viewerVars /\ status = "reading"
  BY <1>2 DEF viewerVars, Viewing, Opened
<1>3. ASSUME ViewerNext, UNCHANGED configVars PROVE Viewing'
  <2>1. UNCHANGED <<status, packets>> /\ PacketIds' = PacketIds
    BY <1>3 DEF configVars, PacketIds
  <2>2. CASE Open
    <3>1. /\ status = "ok" /\ packet_ids' = {} /\ read' = {} /\ writes' = writes /\ writes \in Nat
          /\ nonces' = [p \in PacketIds |-> 0] /\ last_nonces' = [p \in PacketIds |-> 0]
      BY <2>2 DEF Open, Viewing
    <3> QED
      BY <2>1, <3>1 DEF Viewing
  <2>3. ASSUME NEW p \in PacketIds, WritePacket(p) PROVE Viewing'
    <3>1. /\ Opened /\ writes' = writes + 1 /\ nonces' = [nonces EXCEPT ![p] = writes + 1]
          /\ UNCHANGED <<packet_ids, buffers, last_nonces, read, stale>>
      BY <2>3 DEF WritePacket
    <3>2. /\ writes \in Nat /\ nonces \in [PacketIds -> 0 .. writes]
          /\ last_nonces \in [PacketIds -> 0 .. writes]
      BY <3>1 DEF Viewing
    <3>3. writes' \in Nat /\ 0 .. writes \subseteq 0 .. writes' /\ writes + 1 \in 0 .. writes'
      BY <3>1, <3>2
    <3>4. nonces' \in [PacketIds -> 0 .. writes'] /\ last_nonces' \in [PacketIds -> 0 .. writes']
      BY <3>1, <3>2, <3>3
    <3>5. Opened'
      <4>1. p \in DOMAIN nonces'
        BY <3>4
      <4> QED
        BY <4>1 DEF Opened
    <3> QED
      BY <2>1, <3>1, <3>3, <3>4, <3>5 DEF Viewing
  <2>4. ASSUME NEW m \in DOMAIN addr_map, Add(m) PROVE Viewing'
    <3>1. Opened /\ AddPackets(PacketsOf(m))
      BY <2>4 DEF Add
    <3>2. PacketsOf(m) \subseteq PacketIds
      BY <3>1, PacketsThere DEF Viewing
    <3> QED
      BY <2>1, <3>1, <3>2, AddPacketsViews
  <2>5. CASE AddAll
    BY <2>1, <2>5, AddPacketsViews DEF AddAll
  <2>6. CASE RemoveAll
    <3>1. /\ Opened /\ packet_ids' = {}
          /\ UNCHANGED <<nonces, writes, last_nonces, read>>
      BY <2>6 DEF RemoveAll
    <3> QED
      BY <2>1, <3>1 DEF Viewing, Opened
  <2>7. CASE Update
    BY <2>1, <2>7, UpdateViews
  <2> QED
    BY <1>3, <2>2, <2>3, <2>4, <2>5, <2>6, <2>7 DEF ViewerNext
<1> QED
  BY <1>1, <1>2, <1>3 DEF Next, Configure, ConfigNext, RunTree, View, Trigger, configVars, vars

\* The maximum of a set that has a bound, the minimum of one of natural numbers.
LEMMA Maximum ==
  ASSUME NEW n \in Nat, NEW S \in SUBSET (0 .. n), S # {}
  PROVE  Max(S) \in S /\ \A y \in S : y <= Max(S)
<1> DEFINE B == {b \in Nat : \A y \in S : y <= b}
<1>1. n \in B
  OBVIOUS
<1>2. PICK b \in B : \A k \in B : b <= k
  BY <1>1, Least
<1>3. b \in S
  <2> SUFFICES ASSUME b \notin S PROVE FALSE
    OBVIOUS
  <2>1. \A y \in S : y \in Nat /\ y < b
    BY <1>2
  <2>2. b - 1 \in B
    <3>1. PICK y \in S : y \in Nat /\ y < b
      BY <2>1
    <3>2. b - 1 \in Nat /\ \A z \in S : z <= b - 1
      BY <1>2, <2>1, <3>1
    <3> QED
      BY <3>2
  <2> QED
    BY <1>2, <2>2
<1>4. \A y \in S : b >= y
  BY <1>2
<1>5. Max(S) \in S /\ \A y \in S : Max(S) >= y
  BY <1>3, <1>4, Zenon DEF Max
<1> QED
  BY <1>5

LEMMA Minimum ==
  ASSUME NEW S \in SUBSET Nat, S # {}
  PROVE  Min(S) \in S
<1>1. PICK n \in S : \A k \in S : n <= k
  BY Least
<1> QED
  BY <1>1, Zenon DEF Min

\* For any packets, measurements in any number of them, and any order of writes, updates
\* and calls of add and remove_all, latest_data finds the newest copy a program has, except
\* of packets that were read before they were added.
THEOREM NewestShown == Spec => []GetsNewest
<1> DEFINE I == Downlinks /\ Located /\ Viewing
<1>1. Init => I
  BY DownlinksInit, LocatedInit, ViewingInit
<1>2. I /\ [Next]_vars => I'
  BY StepDownlinks, StepLocated, ViewSteps
<1>3. I => GetsNewest
  <2> SUFFICES ASSUME I, NEW m \in DOMAIN addr_map, Opened, Tracked(m)
               PROVE  Shown(m) = Max({last_nonces[p] : p \in PacketsOf(m)})
    BY DEF GetsNewest
  <2> DEFINE S == {last_nonces[p] : p \in PacketsOf(m)}
             J == {i \in DOMAIN Locations(m) : last_nonces[Locations(m)[i].packet_index] = Max(S)}
  <2>1. /\ PacketsOf(m) # {} /\ PacketsOf(m) \subseteq packet_ids \ stale
        /\ PacketsOf(m) \subseteq PacketIds /\ DOMAIN Locations(m) \subseteq Nat
    BY PacketsThere DEF Tracked, Viewing
  <2>2. S # {} /\ S \subseteq 0 .. writes /\ writes \in Nat
    BY <2>1 DEF Viewing
  <2>3. Max(S) \in S
    <3> HIDE DEF S
    <3> QED
      BY <2>2, Maximum
  <2>4. J # {}
    <3>1. PICK p \in PacketsOf(m) : last_nonces[p] = Max(S)
      BY <2>3
    <3>2. PICK i \in DOMAIN Locations(m) : Locations(m)[i].packet_index = p
      BY DEF PacketsOf
    <3> HIDE DEF S
    <3> QED
      BY <3>1, <3>2
  <2>5. Min(J) \in J
    <3>1. J \subseteq Nat
      BY <2>1
    <3> HIDE DEF J
    <3> QED
      BY <2>4, <3>1, Minimum
  <2>6. LatestOf(m) = Locations(m)[Min(J)].packet_index
    BY DEF LatestOf
  <2>7. LatestOf(m) \in PacketsOf(m) /\ last_nonces[LatestOf(m)] = Max(S)
    <3> HIDE DEF S
    <3>1. Min(J) \in DOMAIN Locations(m) /\ last_nonces[Locations(m)[Min(J)].packet_index] = Max(S)
      BY <2>5
    <3> HIDE DEF J
    <3> QED
      BY <2>6, <3>1 DEF PacketsOf
  <2> HIDE DEF S, J
  <2>8. buffers[LatestOf(m)] = last_nonces[LatestOf(m)]
    BY <2>1, <2>7 DEF Viewing
  <2> QED
    BY <2>7, <2>8 DEF Shown, S
<1> QED
  BY <1>1, <1>2, <1>3, PTL DEF Spec

-----------------------------------------------------------------------------
(***************************************************************************)
(* Numbers in a base.  Power and Total are recursive functions: that they  *)
(* exist, and what they return, is shown by induction over naturals.       *)
(***************************************************************************)

Digits == 0 .. Base - 1

LEMMA Distributes ==
  ASSUME NEW a \in Int, NEW b \in Int, NEW c \in Int
  PROVE  /\ a * (b + c) = a * b + a * c /\ (a + b) * c = a * c + b * c
         /\ (a - b) * c = a * c - b * c
         /\ a * b \in Int /\ (a * b) * c = a * (b * c) /\ a * b = b * a
         /\ 1 * a = a /\ a * 1 = a
  OBVIOUS

LEMMA Grows ==
  ASSUME NEW a \in Nat, NEW b \in Nat, NEW c \in Nat, a <= b
  PROVE  a * c <= b * c /\ a * c \in Nat
<1>1. b - a \in Nat /\ (b - a) * c \in Nat
  OBVIOUS
<1>2. (b - a) * c = b * c - a * c
  BY Distributes
<1>3. a * c \in Nat /\ b * c \in Nat
  OBVIOUS
<1> QED
  BY <1>1, <1>2, <1>3

\* Base ^ n as far as n.
Powers(n, f) == f = [k \in 0 .. n |-> IF k = 0 THEN 1 ELSE Base * f[k - 1]]

LEMMA PowersExist == \A n \in Nat : \E f : Powers(n, f)
<1> DEFINE A == {n \in Nat : \E f : Powers(n, f)}
<1>1. 0 \in A
  <2> DEFINE f == [k \in 0 .. 0 |-> 1]
  <2>1. Powers(0, f)
    BY DEF Powers
  <2> QED
    BY <2>1
<1>2. ASSUME NEW n \in Nat, n \in A PROVE n + 1 \in A
  <2>1. PICK f : Powers(n, f)
    BY <1>2
  <2> DEFINE g == [k \in 0 .. n + 1 |-> IF k = 0 THEN 1 ELSE Base * f[k - 1]]
  <2>2. \A k \in 0 .. n : f[k] = IF k = 0 THEN 1 ELSE Base * f[k - 1]
    BY <2>1 DEF Powers
  <2>3. \A k \in 0 .. n : g[k] = f[k]
    BY <2>2
  <2>4. \A k \in 0 .. n + 1 : g[k] = IF k = 0 THEN 1 ELSE Base * g[k - 1]
    <3> SUFFICES ASSUME NEW k \in 0 .. n + 1, k # 0 PROVE g[k] = Base * g[k - 1]
      OBVIOUS
    <3>1. k - 1 \in 0 .. n
      OBVIOUS
    <3> QED
      BY <2>3, <3>1
  <2>5. Powers(n + 1, g)
    BY <2>4 DEF Powers
  <2> QED
    BY <2>5
<1> HIDE DEF A
<1>3. \A n \in Nat : n \in A
  BY <1>1, <1>2, Induction
<1> QED
  BY <1>3 DEF A

LEMMA PowersAgree ==
  ASSUME NEW n \in Nat, NEW m \in Nat, NEW f, NEW g, Powers(n, f), Powers(m, g)
  PROVE  \A k \in Nat : k <= n /\ k <= m => f[k] = g[k]
<1> DEFINE A == {k \in Nat : k <= n /\ k <= m => f[k] = g[k]}
<1>0. /\ \A k \in 0 .. n : f[k] = IF k = 0 THEN 1 ELSE Base * f[k - 1]
      /\ \A k \in 0 .. m : g[k] = IF k = 0 THEN 1 ELSE Base * g[k - 1]
  BY DEF Powers
<1>1. 0 \in A
  BY <1>0
<1>2. ASSUME NEW k \in Nat, k \in A PROVE k + 1 \in A
  <2> SUFFICES ASSUME k + 1 <= n, k + 1 <= m PROVE f[k + 1] = g[k + 1]
    OBVIOUS
  <2>1. f[k] = g[k] /\ (k + 1) - 1 = k /\ k + 1 # 0 /\ k + 1 \in 0 .. n /\ k + 1 \in 0 .. m
    BY <1>2
  <2> QED
    BY <1>0, <2>1
<1> HIDE DEF A
<1>3. \A k \in Nat : k \in A
  BY <1>1, <1>2, Induction
<1> QED
  BY <1>3 DEF A

LEMMA PowerSteps ==
  Power[0] = 1 /\ \A n \in Nat : Power[n + 1] = Base * Power[n]
<1> DEFINE F(n) == CHOOSE f : Powers(n, f)
           p == [n \in Nat |-> F(n)[n]]
           Right(f) == f = [n \in Nat |-> IF n = 0 THEN 1 ELSE Base * f[n - 1]]
<1>1. \A n \in Nat : Powers(n, F(n))
  BY PowersExist
<1> HIDE DEF F
<1>2. \A n \in Nat : p[n] = IF n = 0 THEN 1 ELSE Base * p[n - 1]
  <2> SUFFICES ASSUME NEW n \in Nat PROVE p[n] = IF n = 0 THEN 1 ELSE Base * p[n - 1]
    OBVIOUS
  <2>1. F(n)[n] = IF n = 0 THEN 1 ELSE Base * F(n)[n - 1]
    BY <1>1 DEF Powers
  <2>2. CASE n = 0
    BY <2>1, <2>2
  <2>3. CASE n # 0
    <3>1. n - 1 \in Nat /\ n - 1 <= n /\ n - 1 <= n - 1
      BY <2>3
    <3>2. F(n)[n - 1] = F(n - 1)[n - 1]
      BY <1>1, <3>1, PowersAgree
    <3> QED
      BY <2>1, <2>3, <3>1, <3>2
  <2> QED
    BY <2>2, <2>3
<1>3. Right(p)
  BY <1>2
<1>4. Power = CHOOSE f : Right(f)
  BY DEF Power
<1> HIDE DEF Right
<1>5. Right(Power)
  BY <1>3, <1>4
<1>6. \A n \in Nat : Power[n] = IF n = 0 THEN 1 ELSE Base * Power[n - 1]
  BY <1>5 DEF Right
<1>7. \A n \in Nat : n + 1 \in Nat /\ n + 1 # 0 /\ (n + 1) - 1 = n
  OBVIOUS
<1> QED
  BY <1>6, <1>7

LEMMA PowerType == \A n \in Nat : Power[n] \in Nat /\ Power[n] >= 1
<1> DEFINE A == {n \in Nat : Power[n] \in Nat /\ Power[n] >= 1}
<1>1. 0 \in A
  BY PowerSteps
<1>2. ASSUME NEW n \in Nat, n \in A PROVE n + 1 \in A
  <2>1. Power[n + 1] = Base * Power[n] /\ Power[n] \in Nat /\ Power[n] >= 1 /\ Base \in Nat /\ Base >= 1
    BY <1>2, PowerSteps, BaseAssumption
  <2>2. 1 * Power[n] <= Base * Power[n] /\ Base * Power[n] \in Nat
    BY <2>1, Grows
  <2> QED
    BY <2>1, <2>2
<1> HIDE DEF A
<1>3. \A n \in Nat : n \in A
  BY <1>1, <1>2, Induction
<1> QED
  BY <1>3 DEF A

LEMMA PowerGrows ==
  ASSUME NEW n \in Nat
  PROVE  \A k \in Nat : k >= n => Power[n] <= Power[k]
<1> DEFINE A == {k \in Nat : k >= n => Power[n] <= Power[k]}
<1>1. 0 \in A
  BY PowerType
<1>2. ASSUME NEW k \in Nat, k \in A PROVE k + 1 \in A
  <2>1. Power[k + 1] = Base * Power[k] /\ Power[k] \in Nat /\ Power[n] \in Nat
        /\ Base \in Nat /\ Base >= 1
    BY PowerSteps, PowerType, BaseAssumption
  <2>2. 1 * Power[k] <= Base * Power[k]
    BY <2>1, Grows
  <2>3. CASE k >= n
    BY <1>2, <2>1, <2>2, <2>3
  <2>4. CASE k + 1 = n
    BY <2>1, <2>4
  <2> QED
    BY <2>3, <2>4
<1> HIDE DEF A
<1>3. \A k \in Nat : k \in A
  BY <1>1, <1>2, Induction
<1> QED
  BY <1>3 DEF A

\* The sums of the first terms, as far as n.
Partial(terms, n, f) == f = [k \in 0 .. n |-> IF k = 0 THEN 0 ELSE f[k - 1] + terms[k]]

LEMMA PartialExists ==
  ASSUME NEW terms
  PROVE  \A n \in Nat : \E f : Partial(terms, n, f)
<1> DEFINE A == {n \in Nat : \E f : Partial(terms, n, f)}
<1>1. 0 \in A
  <2> DEFINE f == [k \in 0 .. 0 |-> 0]
  <2>1. Partial(terms, 0, f)
    BY DEF Partial
  <2> QED
    BY <2>1
<1>2. ASSUME NEW n \in Nat, n \in A PROVE n + 1 \in A
  <2>1. PICK f : Partial(terms, n, f)
    BY <1>2
  <2> DEFINE g == [k \in 0 .. n + 1 |-> IF k = 0 THEN 0 ELSE f[k - 1] + terms[k]]
  <2>2. \A k \in 0 .. n : f[k] = IF k = 0 THEN 0 ELSE f[k - 1] + terms[k]
    BY <2>1 DEF Partial
  <2>3. \A k \in 0 .. n : g[k] = f[k]
    BY <2>2
  <2>4. \A k \in 0 .. n + 1 : g[k] = IF k = 0 THEN 0 ELSE g[k - 1] + terms[k]
    <3> SUFFICES ASSUME NEW k \in 0 .. n + 1, k # 0 PROVE g[k] = g[k - 1] + terms[k]
      OBVIOUS
    <3>1. k - 1 \in 0 .. n
      OBVIOUS
    <3> QED
      BY <2>3, <3>1
  <2>5. Partial(terms, n + 1, g)
    BY <2>4 DEF Partial
  <2> QED
    BY <2>5
<1> HIDE DEF A
<1>3. \A n \in Nat : n \in A
  BY <1>1, <1>2, Induction
<1> QED
  BY <1>3 DEF A

LEMMA TotalIsPartial ==
  ASSUME NEW terms, NEW n \in Nat, Len(terms) = n
  PROVE  \E f : /\ Total(terms) = f[n] /\ f[0] = 0
                /\ \A k \in Nat : k < n => f[k + 1] = f[k] + terms[k + 1]
<1> DEFINE f == CHOOSE h : Partial(terms, n, h)
<1>1. Partial(terms, n, f)
  BY PartialExists
<1>2. Total(terms) = f[n]
  BY DEF Total, Partial
<1> HIDE DEF f
<1>3. \A k \in 0 .. n : f[k] = IF k = 0 THEN 0 ELSE f[k - 1] + terms[k]
  BY <1>1 DEF Partial
<1>4. \A k \in Nat : k < n => k + 1 \in 0 .. n /\ k + 1 # 0 /\ (k + 1) - 1 = k
  OBVIOUS
<1>5. f[0] = 0
  BY <1>3
<1> QED
  BY <1>2, <1>3, <1>4, <1>5

\* The bytes of a number of n bytes.
Bytes(n) == [1 .. n -> Digits]

\* What the first k bytes of a number are worth.
Worth(bytes, n, f) ==
  /\ f[0] = 0
  /\ \A k \in Nat : k < n => f[k + 1] = f[k] + bytes[k + 1] * Power[k]

LEMMA NumberIsWorth ==
  ASSUME NEW n \in Nat, NEW bytes \in Bytes(n)
  PROVE  \E f : Number(bytes) = f[n] /\ Worth(bytes, n, f)
<1> DEFINE terms == [j \in DOMAIN bytes |-> bytes[j] * Power[j - 1]]
<1>1. DOMAIN bytes = 1 .. n /\ Len(terms) = n
  BY DEF Bytes
<1>2. PICK f : /\ Total(terms) = f[n] /\ f[0] = 0
               /\ \A k \in Nat : k < n => f[k + 1] = f[k] + terms[k + 1]
  <2> HIDE DEF terms
  <2> QED
    BY <1>1, TotalIsPartial
<1>3. \A k \in Nat : k < n => terms[k + 1] = bytes[k + 1] * Power[k]
  <2> SUFFICES ASSUME NEW k \in Nat, k < n PROVE terms[k + 1] = bytes[k + 1] * Power[k]
    OBVIOUS
  <2>1. k + 1 \in DOMAIN bytes /\ (k + 1) - 1 = k
    BY <1>1
  <2> QED
    BY <2>1
<1>4. Number(bytes) = f[n]
  BY <1>2 DEF Number
<1> HIDE DEF terms
<1> QED
  BY <1>2, <1>3, <1>4 DEF Worth

\* k bytes are worth less than Base ^ k.
LEMMA WorthBounded ==
  ASSUME NEW n \in Nat, NEW bytes \in Bytes(n), NEW f, Worth(bytes, n, f)
  PROVE  \A k \in 0 .. n : f[k] \in Nat /\ f[k] < Power[k]
<1> DEFINE A == {k \in Nat : k <= n => f[k] \in Nat /\ f[k] < Power[k]}
<1>1. 0 \in A
  BY PowerSteps DEF Worth
<1>2. ASSUME NEW k \in Nat, k \in A PROVE k + 1 \in A
  <2> SUFFICES ASSUME k + 1 <= n PROVE f[k + 1] \in Nat /\ f[k + 1] < Power[k + 1]
    OBVIOUS
  <2> DEFINE P == Power[k]
             d == bytes[k + 1]
  <2>1. f[k] \in Nat /\ f[k] < P /\ P \in Nat /\ Power[k + 1] = Base * P
    BY <1>2, PowerSteps, PowerType
  <2>2. d \in Nat /\ d <= Base - 1 /\ Base - 1 \in Nat /\ Base \in Nat
    BY BaseAssumption DEF Bytes, Digits
  <2>3. f[k + 1] = f[k] + d * P
    BY DEF Worth
  <2> HIDE DEF P, d
  <2>4. d * P <= (Base - 1) * P /\ d * P \in Nat /\ (Base - 1) * P \in Nat
    BY <2>1, <2>2, Grows
  <2>5. (Base - 1) * P = Base * P - P /\ Base * P \in Nat
    BY <2>1, <2>2, Distributes
  <2> QED
    BY <2>1, <2>3, <2>4, <2>5
<1> HIDE DEF A
<1>3. \A k \in Nat : k \in A
  BY <1>1, <1>2, Induction
<1> QED
  BY <1>3 DEF A

LEMMA NumberBounded ==
  ASSUME NEW n \in Nat, NEW bytes \in Bytes(n)
  PROVE  Number(bytes) \in Nat /\ Number(bytes) < Power[n]
  BY NumberIsWorth, WorthBounded

\* Numbers whose bytes are the same as far as n are worth the same so far.
LEMMA WorthAgrees ==
  ASSUME NEW n \in Nat, NEW a, NEW b, NEW f, NEW g, NEW l \in Nat, NEW m \in Nat, n <= l, n <= m,
         Worth(a, l, f), Worth(b, m, g), \A j \in 1 .. n : a[j] = b[j]
  PROVE  f[n] = g[n]
<1> DEFINE A == {k \in Nat : k <= n => f[k] = g[k]}
<1>1. 0 \in A
  BY DEF Worth
<1>2. ASSUME NEW k \in Nat, k \in A PROVE k + 1 \in A
  <2> SUFFICES ASSUME k + 1 <= n PROVE f[k + 1] = g[k + 1]
    OBVIOUS
  <2>1. f[k + 1] = f[k] + a[k + 1] * Power[k]
    BY DEF Worth
  <2>2. g[k + 1] = g[k] + b[k + 1] * Power[k]
    BY DEF Worth
  <2>3. f[k] = g[k] /\ a[k + 1] = b[k + 1]
    BY <1>2
  <2> QED
    BY <2>1, <2>2, <2>3
<1> HIDE DEF A
<1>3. \A k \in Nat : k \in A
  BY <1>1, <1>2, Induction
<1> QED
  BY <1>3 DEF A

LEMMA FilledBytes ==
  ASSUME NEW n \in Nat, NEW bytes \in Bytes(n), Word \in Nat, n <= Word, NEW fill \in Digits
  PROVE  /\ Filled(bytes, fill) \in Bytes(Word)
         /\ \A j \in 1 .. n : Filled(bytes, fill)[j] = bytes[j]
         /\ \A j \in n + 1 .. Word : Filled(bytes, fill)[j] = fill
<1> DEFINE rest == [j \in 1 .. Word - n |-> fill]
<1>1. bytes \in Seq(Digits) /\ Len(bytes) = n
  BY DEF Bytes
<1>2. rest \in Seq(Digits) /\ Len(rest) = Word - n /\ \A j \in 1 .. Word - n : rest[j] = fill
  OBVIOUS
<1>3. Filled(bytes, fill) = bytes \o rest
  BY <1>1 DEF Filled
<1> HIDE DEF rest
<1>4. bytes \o rest \in Seq(Digits) /\ Len(bytes \o rest) = Word
  BY <1>1, <1>2
<1>5. \A j \in 1 .. Word : (bytes \o rest)[j] = IF j <= n THEN bytes[j] ELSE rest[j - n]
  BY <1>1, <1>2
<1>6. \A j \in n + 1 .. Word : j - n \in 1 .. Word - n
  OBVIOUS
<1>7. bytes \o rest \in Bytes(Word)
  BY <1>4, LenProperties DEF Bytes
<1>8. ASSUME NEW j \in 1 .. n PROVE (bytes \o rest)[j] = bytes[j]
  <2>1. j \in 1 .. Word /\ j <= n
    OBVIOUS
  <2> QED
    BY <1>5, <2>1
<1>9. ASSUME NEW j \in n + 1 .. Word PROVE (bytes \o rest)[j] = fill
  <2>1. j \in 1 .. Word /\ ~(j <= n)
    OBVIOUS
  <2> QED
    BY <1>2, <1>5, <1>6, <2>1
<1> QED
  BY <1>3, <1>7, <1>8, <1>9

\* What bytes that are filled up with the zeros or the ones of a sign are worth.
LEMMA FilledNumber ==
  ASSUME NEW n \in Nat, NEW bytes \in Bytes(n), n <= Word, NEW fill \in {0, Base - 1}
  PROVE  Number(Filled(bytes, fill))
           = Number(bytes) + (IF fill = 0 THEN 0 ELSE Power[Word] - Power[n])
<1> DEFINE all == Filled(bytes, fill)
           More(k) == IF fill = 0 THEN 0 ELSE Power[k] - Power[n]
<1>1. fill \in Digits /\ Word \in Nat /\ Base \in Nat
  BY BaseAssumption DEF Digits
<1>2. /\ all \in Bytes(Word) /\ \A j \in 1 .. n : all[j] = bytes[j]
      /\ \A j \in n + 1 .. Word : all[j] = fill
  BY <1>1, FilledBytes
<1> HIDE DEF all
<1>3. PICK f : Number(bytes) = f[n] /\ Worth(bytes, n, f)
  BY NumberIsWorth
<1>4. PICK g : Number(all) = g[Word] /\ Worth(all, Word, g)
  BY <1>1, <1>2, NumberIsWorth
<1>5. f[n] \in Nat /\ g[n] = f[n]
  BY <1>1, <1>2, <1>3, <1>4, WorthAgrees, WorthBounded
<1> DEFINE A == {k \in Nat : n <= k /\ k <= Word => g[k] = f[n] + More(k)}
<1>6. 0 \in A
  <2>1. Power[n] - Power[n] = 0
    BY PowerType
  <2> QED
    BY <1>5, <2>1
<1>7. ASSUME NEW k \in Nat, k \in A PROVE k + 1 \in A
  <2> SUFFICES ASSUME n <= k + 1, k + 1 <= Word PROVE g[k + 1] = f[n] + More(k + 1)
    OBVIOUS
  <2>1. Power[n] \in Nat /\ Power[k] \in Nat /\ Power[k + 1] = Base * Power[k]
    BY PowerSteps, PowerType
  <2>2. CASE n = k + 1
    BY <1>5, <2>1, <2>2
  <2>3. CASE n <= k
    <3>1. g[k] = f[n] + More(k)
      <4>1. k <= Word
        BY <1>1
      <4> HIDE DEF More
      <4> QED
        BY <1>7, <2>3, <4>1
    <3>2. g[k + 1] = g[k] + fill * Power[k]
      BY <1>1, <1>2, <1>4, <2>3 DEF Worth
    <3>3. CASE fill = 0
      BY <1>5, <2>1, <3>1, <3>2, <3>3
    <3>4. CASE fill # 0
      <4>1. fill * Power[k] = Base * Power[k] - Power[k] /\ Base * Power[k] \in Nat
        BY <1>1, <2>1, <3>4, Distributes
      <4> QED
        BY <1>5, <2>1, <3>1, <3>2, <3>4, <4>1
    <3> QED
      BY <3>3, <3>4
  <2> QED
    BY <2>2, <2>3
<1>8. Word \in A
  <2> HIDE DEF A
  <2> QED
    BY <1>1, <1>6, <1>7, Induction
<1> QED
  BY <1>1, <1>3, <1>4, <1>8 DEF all

\* The sign of a number is that of its last byte.
LEMMA HalfPower ==
  ASSUME NEW n \in Nat, n # 0
  PROVE  /\ Power[n] \div 2 = (Base \div 2) * Power[n - 1] /\ Power[n] = 2 * (Power[n] \div 2)
         /\ Base = 2 * (Base \div 2) /\ Base \div 2 \in Nat /\ Power[n] \div 2 \in Nat
<1> DEFINE h == Base \div 2
           P == Power[n - 1]
<1>1. Base = 2 * h /\ h \in Nat
  BY BaseAssumption
<1>2. P \in Nat /\ Power[n] = Base * P
  <2>1. n - 1 \in Nat /\ (n - 1) + 1 = n
    OBVIOUS
  <2> QED
    BY <2>1, PowerSteps, PowerType
<1> HIDE DEF h, P
<1>3. Base * P = 2 * (h * P) /\ h * P \in Nat
  BY <1>1, <1>2, Distributes
<1>4. ASSUME NEW x \in Nat, NEW y \in Nat, y = 2 * x PROVE y \div 2 = x
  BY <1>4
<1>5. Power[n] \div 2 = h * P
  BY <1>2, <1>3, <1>4
<1> QED
  BY <1>1, <1>2, <1>3, <1>5 DEF h, P

LEMMA LastByteSigns ==
  ASSUME NEW n \in Nat, n # 0, NEW bytes \in Bytes(n)
  PROVE  Number(bytes) >= Power[n] \div 2 <=> bytes[n] >= Base \div 2
<1>1. PICK f : Number(bytes) = f[n] /\ Worth(bytes, n, f)
  BY NumberIsWorth
<1> DEFINE h == Base \div 2
           P == Power[n - 1]
           low == f[n - 1]
           d == bytes[n]
<1>2. n - 1 \in Nat /\ (n - 1) + 1 = n /\ n - 1 < n /\ n - 1 \in 0 .. n
  OBVIOUS
<1>3. low \in Nat /\ low < P /\ P \in Nat
  BY <1>1, <1>2, WorthBounded, PowerType
<1>4. Number(bytes) = low + d * P
  BY <1>1, <1>2 DEF Worth
<1>5. d \in Nat /\ h \in Nat /\ Power[n] \div 2 = h * P
  BY HalfPower, BaseAssumption DEF Bytes, Digits
<1> HIDE DEF h, P, low, d
<1>6. ASSUME d >= h PROVE Number(bytes) >= h * P
  <2>1. h * P <= d * P /\ h * P \in Nat /\ d * P \in Nat
    BY <1>3, <1>5, <1>6, Grows
  <2> QED
    BY <1>3, <1>4, <2>1
<1>7. ASSUME d < h PROVE Number(bytes) < h * P
  <2>1. d + 1 \in Nat /\ d + 1 <= h
    BY <1>5, <1>7
  <2>2. (d + 1) * P <= h * P /\ (d + 1) * P = d * P + P /\ d * P \in Nat /\ h * P \in Nat
    BY <1>3, <1>5, <2>1, Grows, Distributes
  <2> QED
    BY <1>3, <1>4, <2>2
<1>8. Number(bytes) \in Nat /\ h * P \in Nat
  BY <1>3, <1>5, Grows, NumberBounded
<1> QED
  BY <1>5, <1>6, <1>7, <1>8 DEF h, P, d

\* Two's complement of n bytes is that of a word they are filled up to by their sign.
Complement(v, n) == IF v >= Power[n] \div 2 THEN v - Power[n] ELSE v

LEMMA SignExtended ==
  ASSUME NEW n \in Nat, n # 0, n <= Word, NEW bytes \in Bytes(n)
  PROVE  Signed(Number(Filled(bytes, IF bytes[n] >= Base \div 2 THEN Base - 1 ELSE 0)))
           = Complement(Number(bytes), n)
<1> DEFINE v == Number(bytes)
           P == Power[n]
           Q == Power[Word]
<1>1. v \in Nat /\ v < P /\ P \in Nat /\ Q \in Nat /\ P <= Q /\ Word \in Nat /\ Word # 0
  BY NumberBounded, PowerType, PowerGrows, BaseAssumption
<1>2. /\ P = 2 * (P \div 2) /\ P \div 2 \in Nat /\ Q = 2 * (Q \div 2) /\ Q \div 2 \in Nat
  BY <1>1, HalfPower
<1>3. v >= P \div 2 <=> bytes[n] >= Base \div 2
  BY LastByteSigns
<1>4. Base \in Nat /\ Base # 1
  BY BaseAssumption
<1>5. CASE v >= P \div 2
  <2>1. Number(Filled(bytes, Base - 1)) = v + (Q - P)
    BY <1>1, <1>4, FilledNumber
  <2> HIDE DEF v, P, Q
  <2>2. v + (Q - P) >= Q \div 2 /\ (v + (Q - P)) - Q = v - P
    BY <1>1, <1>2, <1>5
  <2> QED
    BY <1>3, <1>5, <2>1, <2>2 DEF Signed, Complement, v, P, Q
<1>6. CASE ~(v >= P \div 2)
  <2>1. Number(Filled(bytes, 0)) = v
    BY <1>1, FilledNumber
  <2> HIDE DEF v, P, Q
  <2>2. ~(v >= Q \div 2)
    BY <1>1, <1>2, <1>6
  <2> QED
    BY <1>3, <1>6, <2>1, <2>2 DEF Signed, Complement, v, P, Q
<1> QED
  BY <1>5, <1>6

\* The digits of a number: the first k of them make the remainder of Base ^ k.
LEMMA DivisionUnique ==
  ASSUME NEW a \in Nat, NEW b \in Nat, b # 0, NEW q \in Nat, NEW r \in Nat, r < b, a = q * b + r
  PROVE  a \div b = q
<1> DEFINE p == a \div b
           t == a % b
<1>1. p \in Nat /\ t \in Nat /\ t < b /\ a = p * b + t
  OBVIOUS
<1> HIDE DEF p, t
<1>2. ASSUME p < q PROVE FALSE
  <2>1. (p + 1) * b <= q * b /\ (p + 1) * b = p * b + b /\ p * b \in Nat /\ q * b \in Nat
    BY <1>1, <1>2, Grows, Distributes
  <2> QED
    BY <1>1, <2>1
<1>3. ASSUME q < p PROVE FALSE
  <2>1. (q + 1) * b <= p * b /\ (q + 1) * b = q * b + b /\ p * b \in Nat /\ q * b \in Nat
    BY <1>1, <1>3, Grows, Distributes
  <2> QED
    BY <1>1, <2>1
<1> QED
  BY <1>1, <1>2, <1>3 DEF p

LEMMA Division ==
  ASSUME NEW a \in Nat, NEW b \in Nat, b # 0
  PROVE  /\ a \div b \in Nat /\ a % b \in Nat /\ a % b < b
         /\ a = (a \div b) * b + (a % b)
<1>1. a \div b \in Nat /\ a % b \in Nat /\ a % b < b
  OBVIOUS
<1>2. a = b * (a \div b) + (a % b)
  OBVIOUS
<1>3. b * (a \div b) = (a \div b) * b
  BY <1>1, Distributes
<1> QED
  BY <1>1, <1>2, <1>3

LEMMA NextDigit ==
  ASSUME NEW v \in Nat, NEW k \in Nat
  PROVE  LET q == v \div Power[k]
         IN  /\ q \in Nat /\ q % Base \in Digits
             /\ q * Power[k] = (q % Base) * Power[k] + (v \div Power[k + 1]) * Power[k + 1]
<1> DEFINE P == Power[k]
           q == v \div P
           r == v % P
           s == q \div Base
           d == q % Base
<1>1. P \in Nat /\ P # 0 /\ Base \in Nat /\ Base # 0 /\ Power[k + 1] = Base * P
  BY PowerSteps, PowerType, BaseAssumption
<1>2. q \in Nat /\ r \in Nat /\ r < P /\ v = q * P + r
  BY <1>1, Division
<1> HIDE DEF q
<1>3. s \in Nat /\ d \in Nat /\ d < Base /\ q = s * Base + d
  BY <1>1, <1>2, Division
<1> HIDE DEF P, q, r, s, d
<1>4. q * P = (s * Base) * P + d * P /\ (s * Base) * P = s * (Base * P)
      /\ d * P \in Nat /\ s * (Base * P) \in Nat /\ Base * P \in Nat
  <2>1. s * Base \in Nat /\ Base * P \in Nat /\ d * P \in Nat
    BY <1>1, <1>3, Grows
  <2> QED
    BY <1>1, <1>3, <2>1, Distributes, Grows
<1>5. d * P + r < Base * P
  <2>1. d * P <= (Base - 1) * P /\ (Base - 1) * P = Base * P - P
    BY <1>1, <1>3, Grows, Distributes
  <2> QED
    BY <1>1, <1>2, <1>4, <2>1
<1>6. v = s * (Base * P) + (d * P + r) /\ d * P + r \in Nat /\ Base * P # 0
  BY <1>1, <1>2, <1>4, <1>5
<1>7. v \div (Base * P) = s
  BY <1>3, <1>4, <1>5, <1>6, DivisionUnique
<1>8. d \in Digits
  BY <1>1, <1>3 DEF Digits
<1>9. q * P = d * P + s * (Base * P)
  BY <1>4
<1> QED
  BY <1>1, <1>2, <1>7, <1>8, <1>9 DEF P, q, d

LEMMA DigitsMake ==
  ASSUME NEW v \in Nat, v < Power[Word]
  PROVE  LET digits == [j \in 1 .. Word |-> (v \div Power[j - 1]) % Base]
         IN  digits \in Bytes(Word) /\ Number(digits) = v
<1> DEFINE digits == [j \in 1 .. Word |-> (v \div Power[j - 1]) % Base]
<1>1. Word \in Nat
  BY BaseAssumption
<1>2. ASSUME NEW k \in Nat, k < Word
      PROVE  digits[k + 1] = (v \div Power[k]) % Base
  <2>1. k + 1 \in 1 .. Word /\ (k + 1) - 1 = k
    BY <1>1, <1>2
  <2> QED
    BY <2>1
<1>3. digits \in Bytes(Word)
  <2> SUFFICES ASSUME NEW j \in 1 .. Word PROVE (v \div Power[j - 1]) % Base \in Digits
    BY DEF Bytes
  <2>1. j - 1 \in Nat
    OBVIOUS
  <2> QED
    BY <2>1, NextDigit
<1> HIDE DEF digits
<1>4. PICK f : Number(digits) = f[Word] /\ Worth(digits, Word, f)
  BY <1>1, <1>3, NumberIsWorth
<1> DEFINE A == {k \in Nat : k <= Word => f[k] + (v \div Power[k]) * Power[k] = v}
<1>5. Power[0] = 1 /\ v \div 1 = v /\ v * 1 = v
  BY PowerSteps
<1>6. 0 \in A
  BY <1>4, <1>5 DEF Worth
<1>7. ASSUME NEW k \in Nat, k \in A PROVE k + 1 \in A
  <2> SUFFICES ASSUME k + 1 <= Word
               PROVE  f[k + 1] + (v \div Power[k + 1]) * Power[k + 1] = v
    OBVIOUS
  <2>1. k < Word /\ k <= Word /\ k \in 0 .. Word
    BY <1>1
  <2> DEFINE P == Power[k]
             q == v \div P
             d == q % Base
             Rest == (v \div Power[k + 1]) * Power[k + 1]
  <2>2. f[k + 1] = f[k] + d * P
    BY <1>2, <1>4, <2>1 DEF Worth
  <2>3. q * P = d * P + Rest /\ f[k] + q * P = v
    BY <1>5, <1>7, <2>1, NextDigit
  <2>4. f[k] \in Nat /\ P \in Nat /\ d \in Nat /\ Rest \in Nat
    <3>1. f[k] \in Nat
      BY <1>1, <1>3, <1>4, <2>1, WorthBounded
    <3>2. d \in Digits /\ P \in Nat
      BY NextDigit, PowerType
    <3>3. v \div Power[k + 1] \in Nat /\ Power[k + 1] \in Nat
      <4>1. k + 1 \in Nat
        OBVIOUS
      <4> QED
        BY <4>1, NextDigit, PowerType
    <3>4. Rest \in Nat
      BY <3>3, Grows
    <3> HIDE DEF P, d, Rest
    <3> QED
      BY <3>1, <3>2, <3>4, BaseAssumption DEF Digits
  <2> HIDE DEF P, q, d, Rest
  <2>5. d * P \in Nat
    BY <2>4, Grows
  <2>6. f[k + 1] + Rest = v
    BY <2>2, <2>3, <2>4, <2>5
  <2> QED
    BY <1>5, <2>6 DEF Rest
<1>8. Word \in A
  <2> HIDE DEF A
  <2> QED
    BY <1>1, <1>6, <1>7, Induction
<1>9. v \div Power[Word] = 0
  <2>1. 0 * Power[Word] = 0 /\ Power[Word] \in Nat /\ Power[Word] # 0
    BY <1>1, PowerType
  <2> QED
    BY <2>1, DivisionUnique
<1>10. 0 * Power[Word] = 0 /\ f[Word] \in Nat
  BY <1>1, <1>3, <1>4, PowerType, WorthBounded
<1> QED
  BY <1>1, <1>3, <1>4, <1>5, <1>8, <1>9, <1>10 DEF digits

\* Big-endian bytes are worth what they are in the other order.
LEMMA ReversedNumber ==
  ASSUME NEW n \in Nat, NEW bytes \in Bytes(n)
  PROVE  /\ Reverse(bytes) \in Bytes(n) /\ \A j \in 1 .. n : Reverse(bytes)[j] = bytes[n - j + 1]
         /\ Total([j \in DOMAIN bytes |-> bytes[j] * Power[n - j]]) = Number(Reverse(bytes))
<1> DEFINE back == Reverse(bytes)
           terms == [j \in DOMAIN bytes |-> bytes[j] * Power[n - j]]
<1>1. DOMAIN bytes = 1 .. n /\ Len(bytes) = n /\ Len(terms) = n
  BY DEF Bytes
<1>2. back \in Bytes(n) /\ \A j \in 1 .. n : back[j] = bytes[n - j + 1]
  <2>1. back = [j \in 1 .. n |-> bytes[n - j + 1]]
    BY <1>1 DEF Reverse
  <2>2. \A j \in 1 .. n : n - j + 1 \in 1 .. n
    OBVIOUS
  <2> QED
    BY <2>1, <2>2 DEF Bytes
<1>3. PICK f : Number(back) = f[n] /\ Worth(back, n, f)
  <2> HIDE DEF back
  <2> QED
    BY <1>2, NumberIsWorth
<1>4. PICK g : /\ Total(terms) = g[n] /\ g[0] = 0
               /\ \A k \in Nat : k < n => g[k + 1] = g[k] + terms[k + 1]
  <2> HIDE DEF terms
  <2> QED
    BY <1>1, TotalIsPartial
<1>5. \A j \in 1 .. n : terms[j] = bytes[j] * Power[n - j] /\ terms[j] \in Nat
  <2> SUFFICES ASSUME NEW j \in 1 .. n PROVE bytes[j] * Power[n - j] \in Nat
    BY <1>1
  <2>1. bytes[j] \in Nat /\ Power[n - j] \in Nat
    BY PowerType, BaseAssumption DEF Bytes, Digits
  <2> QED
    BY <2>1, Grows
<1> HIDE DEF terms, back
<1> DEFINE G == {k \in Nat : k <= n => g[k] \in Nat}
           A == {k \in Nat : k <= n => g[n - k] + f[k] = g[n]}
<1>6. \A k \in 0 .. n : g[k] \in Nat
  <2>1. 0 \in G
    BY <1>4
  <2>2. ASSUME NEW k \in Nat, k \in G PROVE k + 1 \in G
    <3> SUFFICES ASSUME k + 1 <= n PROVE g[k + 1] \in Nat
      OBVIOUS
    <3>1. k < n /\ k <= n /\ k + 1 \in 1 .. n
      OBVIOUS
    <3> QED
      BY <1>4, <1>5, <2>2, <3>1
  <2>3. \A k \in Nat : k \in G
    <3> HIDE DEF G
    <3> QED
      BY <2>1, <2>2, Induction
  <2> QED
    BY <2>3
<1>7. 0 \in A
  BY <1>3, <1>6 DEF Worth
<1>8. ASSUME NEW k \in Nat, k \in A PROVE k + 1 \in A
  <2> SUFFICES ASSUME k + 1 <= n PROVE g[n - (k + 1)] + f[k + 1] = g[n]
    OBVIOUS
  <2> DEFINE i == n - (k + 1)
  <2>1. i \in Nat /\ i < n /\ i + 1 = n - k /\ i + 1 \in 1 .. n /\ i + 1 \in 0 .. n /\ n - (i + 1) = k
        /\ i \in 0 .. n /\ k < n /\ k + 1 \in 1 .. n /\ n - (k + 1) + 1 = i + 1 /\ k \in 0 .. n
    OBVIOUS
  <2>2. g[i + 1] = g[i] + bytes[i + 1] * Power[k]
    <3>1. g[i + 1] = g[i] + terms[i + 1]
      BY <1>4, <2>1
    <3>2. terms[i + 1] = bytes[i + 1] * Power[n - (i + 1)]
      BY <1>5, <2>1
    <3> QED
      BY <2>1, <3>1, <3>2
  <2>3. f[k + 1] = f[k] + bytes[i + 1] * Power[k]
    <3>1. f[k + 1] = f[k] + back[k + 1] * Power[k]
      BY <1>3, <2>1 DEF Worth
    <3>2. back[k + 1] = bytes[i + 1]
      BY <1>2, <2>1
    <3> QED
      BY <3>1, <3>2
  <2>4. g[n - k] + f[k] = g[n]
    BY <1>8, <2>1
  <2>5. f[k] \in Nat /\ g[i] \in Nat /\ g[n] \in Nat /\ bytes[i + 1] * Power[k] \in Nat
    <3>1. f[k] \in Nat /\ g[i] \in Nat /\ g[n] \in Nat
      BY <1>2, <1>3, <1>6, <2>1, WorthBounded
    <3>2. bytes[i + 1] \in Nat /\ Power[k] \in Nat
      BY <2>1, PowerType, BaseAssumption DEF Bytes, Digits
    <3> QED
      BY <3>1, <3>2, Grows
  <2>6. g[i + 1] + f[k] = g[n]
    BY <2>1, <2>4
  <2> HIDE DEF i
  <2>7. g[i] + f[k + 1] = g[n]
    BY <2>2, <2>3, <2>5, <2>6
  <2> QED
    BY <2>7 DEF i
<1>9. n \in A
  <2> HIDE DEF A
  <2> QED
    BY <1>7, <1>8, Induction
<1>10. f[n] = g[n]
  <2>1. n - n = 0 /\ f[n] \in Nat
    BY <1>2, <1>3, WorthBounded
  <2> QED
    BY <1>4, <1>9, <2>1
<1> QED
  BY <1>2, <1>3, <1>4, <1>10 DEF terms, back

-----------------------------------------------------------------------------
(***************************************************************************)
(* What the conversions return.                                            *)
(***************************************************************************)

LEMMA HostOrderBytes ==
  ASSUME NEW m, NEW n \in Nat, NEW bytes \in Bytes(n)
  PROVE  /\ HostOrder(m, bytes) \in Bytes(n) /\ HostOrder(m, HostOrder(m, bytes)) = bytes
         /\ Endianness(m) = "big" => \A j \in 1 .. n : HostOrder(m, bytes)[j] = bytes[n - j + 1]
         /\ Endianness(m) # "big" => HostOrder(m, bytes) = bytes
<1> DEFINE back == Reverse(bytes)
<1>1. back \in Bytes(n) /\ \A j \in 1 .. n : back[j] = bytes[n - j + 1]
  BY ReversedNumber
<1> HIDE DEF back
<1>2. Reverse(back) \in Bytes(n) /\ \A j \in 1 .. n : Reverse(back)[j] = back[n - j + 1]
  BY <1>1, ReversedNumber
<1>3. \A j \in 1 .. n : n - j + 1 \in 1 .. n /\ n - (n - j + 1) + 1 = j
  OBVIOUS
<1>4. \A j \in 1 .. n : Reverse(back)[j] = bytes[j]
  BY <1>1, <1>2, <1>3
<1>5. Reverse(back) = bytes
  BY <1>2, <1>4 DEF Bytes
<1>6. "big" # "little" /\ Endianness(m) \in {"big", "little"}
  BY DEF Endianness
<1> QED
  BY <1>1, <1>5, <1>6 DEF HostOrder, back

\* convert_to takes from the bytes of an integer or a float what their declaration says they
\* mean, for any size that fits a word, sign and byte order.
THEOREM ReadsMeaning ==
  ASSUME NEW m, Size(m) \in Nat, Size(m) # 0, NEW bytes \in Bytes(Size(m)),
         Readable(m)
  PROVE  ConvertTo(m, bytes) = <<Meaning(m, bytes)>>
<1> DEFINE n == Size(m)
           host == HostOrder(m, bytes)
           v == Number(host)
           big == Endianness(m) = "big"
           w == Total([j \in DOMAIN bytes |-> bytes[j] * Power[IF big THEN n - j ELSE j - 1]])
           sign_byte == IF big THEN bytes[1] ELSE Last(bytes)
<1>0. DOMAIN bytes = 1 .. n /\ Len(bytes) = n
  BY DEF Bytes
<1>1. host \in Bytes(n) /\ DOMAIN bytes = 1 .. n /\ Len(bytes) = n
  BY <1>0, HostOrderBytes
<1>2. w = v
  <2>1. CASE big
    <3>1. host = Reverse(bytes)
      BY <2>1 DEF HostOrder
    <3>2. w = Total([j \in DOMAIN bytes |-> bytes[j] * Power[n - j]])
      BY <2>1
    <3> HIDE DEF w
    <3> QED
      BY <3>1, <3>2, ReversedNumber
  <2>2. CASE ~big
    <3>1. host = bytes
      BY <2>2, HostOrderBytes
    <3>2. w = Total([j \in DOMAIN bytes |-> bytes[j] * Power[j - 1]])
      BY <2>2
    <3> HIDE DEF w
    <3> QED
      BY <3>1, <3>2 DEF Number
  <2> QED
    BY <2>1, <2>2
<1>3. sign_byte = host[n]
  <2>1. CASE big
    <3>1. n \in 1 .. n /\ n - n + 1 = 1
      OBVIOUS
    <3>2. host[n] = bytes[n - n + 1]
      BY <2>1, <3>1, HostOrderBytes
    <3> QED
      BY <2>1, <3>1, <3>2
  <2>2. CASE ~big
    <3>1. host = bytes
      BY <2>2, HostOrderBytes
    <3> QED
      BY <1>1, <2>2, <3>1 DEF Last
  <2> QED
    BY <2>1, <2>2
<1>4. Meaning(m, bytes) =
        IF Type(m) = "int" /\ Sign(m) = "signed" THEN Complement(v, n) ELSE v
  <2>1. Meaning(m, bytes) =
          IF Type(m) = "int" /\ Sign(m) = "signed" /\ w >= Power[n] \div 2
          THEN w - Power[n] ELSE w
    BY DEF Meaning
  <2> HIDE DEF w, v
  <2> QED
    BY <1>2, <2>1 DEF Complement
<1>5. Sign(m) \in {"unsigned", "signed"}
  BY DEF Sign
<1>6. CASE Type(m) = "int" /\ Size(m) <= Word
  <2>1. CASE Sign(m) = "unsigned"
    <3>1. ConvertTo(m, bytes) = <<ToUint(m, bytes)>>
      BY <1>6, <2>1 DEF ConvertTo, IsUint
    <3>2. ToUint(m, bytes) = v + 0
      BY <1>1, <1>6, FilledNumber DEF ToUint
    <3>3. v \in Nat
      BY <1>1, NumberBounded
    <3> QED
      BY <1>4, <2>1, <3>1, <3>2, <3>3
  <2>2. CASE Sign(m) = "signed"
    <3>1. ConvertTo(m, bytes) = <<ToInt(m, bytes)>>
      BY <1>6, <2>2 DEF ConvertTo, IsUint
    <3>2. ToInt(m, bytes) =
            Signed(Number(Filled(host, IF host[n] >= Base \div 2 THEN Base - 1 ELSE 0)))
      BY <1>3 DEF ToInt
    <3>3. ToInt(m, bytes) = Complement(v, n)
      BY <1>1, <1>6, <3>2, SignExtended
    <3> QED
      BY <1>4, <1>6, <2>2, <3>1, <3>3
  <2> QED
    BY <1>5, <2>1, <2>2
<1>7. CASE Type(m) = "float" /\ Size(m) \in {Word, Double}
  <2>1. ConvertTo(m, bytes) = <<v>>
    BY <1>7 DEF ConvertTo, IsUint
  <2> QED
    BY <1>4, <1>7, <2>1
<1> QED
  BY <1>6, <1>7 DEF Readable

\* A number that is written in the order of a measurement is read from it.
LEMMA ReadsNumber ==
  ASSUME NEW m, Size(m) = Word, NEW v \in Nat, v < Power[Word]
  PROVE  /\ BytesOf(m, v) \in Bytes(Word)
         /\ IsUint(m) => ConvertTo(m, BytesOf(m, v)) = <<v>>
<1> DEFINE digits == [j \in 1 .. Word |-> (v \div Power[j - 1]) % Base]
<1>1. Word \in Nat /\ digits \in Bytes(Word) /\ Number(digits) = v
  BY DigitsMake, BaseAssumption
<1>2. BytesOf(m, v) = HostOrder(m, digits)
  BY DEF BytesOf
<1> HIDE DEF digits
<1>3. BytesOf(m, v) \in Bytes(Word) /\ HostOrder(m, BytesOf(m, v)) = digits
  <2>1. /\ HostOrder(m, digits) \in Bytes(Word)
        /\ HostOrder(m, HostOrder(m, digits)) = digits
    BY <1>1, HostOrderBytes
  <2> QED
    BY <1>2, <2>1
<1>4. Number(Filled(digits, 0)) = v + 0
  BY <1>1, FilledNumber
<1>5. ToUint(m, BytesOf(m, v)) = v
  BY <1>3, <1>4 DEF ToUint
<1>6. ASSUME IsUint(m) PROVE ConvertTo(m, BytesOf(m, v)) = <<ToUint(m, BytesOf(m, v))>>
  <2> HIDE DEF BytesOf, ToUint
  <2> QED
    BY <1>6 DEF ConvertTo, IsUint
<1> QED
  BY <1>3, <1>5, <1>6

\* The text of a state ends with the only zero in it.
IsText(text) ==
  /\ text \in Seq(Digits) /\ Len(text) # 0 /\ text[Len(text)] = 0
  /\ \A j \in 1 .. Len(text) - 1 : text[j] # 0

LEMMA ReadsText ==
  ASSUME NEW m, Type(m) = "string", ~TooLarge(m), NEW text, IsText(text), NEW n \in Nat, NEW bytes \in Bytes(n),
         Len(text) <= n, \A j \in 1 .. Len(text) : bytes[j] = text[j]
  PROVE  ConvertTo(m, bytes) = <<Front(text)>>
<1> DEFINE l == Len(text)
           zeros == {j \in DOMAIN bytes : bytes[j] = 0}
<1>1. /\ l \in Nat /\ l # 0 /\ text \in Seq(Digits) /\ DOMAIN bytes = 1 .. n
      /\ l \in 1 .. n /\ l - 1 \in 0 .. n /\ 1 .. l - 1 \subseteq 1 .. l /\ 1 .. l \subseteq 1 .. n
  <2>1. l \in Nat /\ l # 0 /\ l <= n /\ text \in Seq(Digits) /\ DOMAIN bytes = 1 .. n
    BY DEF IsText, Bytes
  <2> HIDE DEF l
  <2> QED
    BY <2>1
<1>2. l \in zeros /\ \A j \in zeros : j \in Nat /\ l <= j
  <2>1. l \in 1 .. n /\ bytes[l] = 0
    BY <1>1 DEF IsText
  <2>2. ASSUME NEW j \in zeros, j < l PROVE FALSE
    <3>1. j \in 1 .. l - 1
      <4> HIDE DEF l
      <4> QED
        BY <1>1, <2>2
    <3>2. bytes[j] = text[j] /\ text[j] # 0
      BY <1>1, <3>1 DEF IsText
    <3> QED
      BY <2>2, <3>2
  <2> HIDE DEF l
  <2> QED
    BY <1>1, <2>1, <2>2
<1>3. Min(zeros) = l
  <2> HIDE DEF zeros, l
  <2>1. Min(zeros) \in zeros /\ \A j \in zeros : Min(zeros) <= j
    BY <1>2, Zenon DEF Min
  <2>2. Min(zeros) \in Nat /\ Min(zeros) <= l /\ l <= Min(zeros) /\ l \in Nat
    BY <1>2, <2>1, Zenon
  <2> QED
    BY <2>2
<1>4. ToText(bytes) = SubSeq(bytes, 1, l - 1)
  BY <1>2, <1>3 DEF ToText
<1>5. SubSeq(bytes, 1, l - 1) = [j \in 1 .. l - 1 |-> bytes[j]]
  <2>1. bytes \in Seq(Digits) /\ Len(bytes) = n
    BY DEF Bytes
  <2> HIDE DEF l
  <2>2. \A j \in 1 .. l - 1 : bytes[j] \in Digits /\ 1 + j - 1 = j
    BY <1>1, <2>1
  <2>3. /\ SubSeq(bytes, 1, l - 1) \in Seq(Digits)
        /\ Len(SubSeq(bytes, 1, l - 1)) = IF 1 <= l - 1 THEN l - 1 - 1 + 1 ELSE 0
        /\ \A j \in 1 .. l - 1 - 1 + 1 : SubSeq(bytes, 1, l - 1)[j] = bytes[1 + j - 1]
    <3>1. 1 \in Int /\ l - 1 \in Int
      BY <1>1
    <3> QED
      BY <2>2, <3>1, SubSeqProperties
  <2>4. l - 1 - 1 + 1 = l - 1 /\ (IF 1 <= l - 1 THEN l - 1 ELSE 0) = l - 1
    BY <1>1
  <2> QED
    BY <2>2, <2>3, <2>4, LenProperties
<1>6. Front(text) = [j \in 1 .. l - 1 |-> text[j]]
  BY <1>1 DEF Front
<1>7. \A j \in 1 .. l - 1 : bytes[j] = text[j]
  BY <1>1
<1>8. ToText(bytes) = Front(text)
  BY <1>4, <1>5, <1>6, <1>7
<1> QED
  BY <1>8 DEF ConvertTo, IsUint

-----------------------------------------------------------------------------
(***************************************************************************)
(* The bytes of measurements in the packets of mmon.                       *)
(***************************************************************************)

\* No size in the file is negative or zero.
Positive == ~negative /\ \A m \in DOMAIN addr_map : addr_map[m].size # 0

AllPlaces(m) == Range(addr_map[m].locations)

Layout ==
  /\ \A p \in DOMAIN packets : packets[p].size \in Nat
  /\ \A m \in Inputs :
       /\ Size(m) \in Nat /\ Size(m) # 0 /\ Place(m) \in AllPlaces(m)
       /\ \A x \in AllPlaces(m) :
            /\ x.packet_index \in DOMAIN packets /\ x.offset \in Nat
            /\ x.offset + Size(m) <= packets[x.packet_index].size
  /\ \A m, k \in Inputs : \A x \in AllPlaces(m), y \in AllPlaces(k) :
       x.packet_index = y.packet_index =>
         \/ m = k /\ x.offset = y.offset
         \/ x.offset + Size(m) <= y.offset
         \/ y.offset + Size(k) <= x.offset

LEMMA MeasurementsLaid ==
  ASSUME NEW max \in Nat, Located, Downlinks, Sized(max), Positive, status = "ok"
  PROVE  Layout
<1>1. /\ Len(packets) \in Nat /\ DOMAIN packets = 1 .. Len(packets) /\ Current = Len(packets)
      /\ \A i \in DOMAIN packets : SizeOf(i) = packets[i].size
  BY AppendIsSeq DEF Downlinks, IsSeq, Located, Current, SizeOf
<1>2. \A i \in DOMAIN packets : Fits(i)
  BY <1>1 DEF Sized, Positive
<1>3. ASSUME NEW m \in Inputs
      PROVE  /\ m \in DOMAIN addr_map /\ Size(m) \in Nat /\ Size(m) # 0 /\ Place(m) \in AllPlaces(m)
             /\ \A x \in AllPlaces(m) : /\ x.packet_index \in DOMAIN packets
                                         /\ x \in PlacesIn(x.packet_index, m)
                                         /\ Extent(m, x) \in Extents(x.packet_index)
  <2>1. m \in DOMAIN addr_map
    BY DEF Inputs
  <2>2. Size(m) \in Nat /\ Size(m) # 0
    BY <2>1 DEF Sized, Positive, Size
  <2>3. PICK S : addr_map[m].locations \in Seq(S)
    BY <2>1 DEF Located, Entry, IsSeq
  <2>4. /\ Len(addr_map[m].locations) \in Nat /\ Len(addr_map[m].locations) # 0
        /\ DOMAIN addr_map[m].locations = 1 .. Len(addr_map[m].locations)
    BY <2>3 DEF Inputs
  <2>5. Place(m) \in AllPlaces(m)
    BY <2>4 DEF Place, AllPlaces, Range
  <2>6. ASSUME NEW x \in AllPlaces(m)
        PROVE x.packet_index \in DOMAIN packets /\ x \in PlacesIn(x.packet_index, m)
    BY <1>1, <2>1, <2>4 DEF AllPlaces, Range, Located, Entry, PlacesIn
  <2>7. ASSUME NEW x \in AllPlaces(m) PROVE Extent(m, x) \in Extents(x.packet_index)
    BY <2>1, <2>6, ExtentOf
  <2> QED
    BY <2>1, <2>2, <2>5, <2>6, <2>7
<1>4. ASSUME NEW m, NEW x
      PROVE  Extent(m, x).from = x.offset /\ Extent(m, x).size = Size(m) /\ Extent(m, x).of = m
  BY DEF Extent, Size
<1>5. ASSUME NEW m \in Inputs, NEW x \in AllPlaces(m)
      PROVE  x.offset \in Nat /\ x.offset + Size(m) <= packets[x.packet_index].size
  <2>1. x.packet_index \in DOMAIN packets /\ Extent(m, x) \in Extents(x.packet_index)
    BY <1>3
  <2> QED
    BY <1>1, <1>2, <1>4, <2>1 DEF Fits
<1>6. ASSUME NEW m \in Inputs, NEW k \in Inputs, NEW x \in AllPlaces(m), NEW y \in AllPlaces(k),
             x.packet_index = y.packet_index
      PROVE  \/ m = k /\ x.offset = y.offset
             \/ x.offset + Size(m) <= y.offset
             \/ y.offset + Size(k) <= x.offset
  <2>1. /\ x.packet_index \in DOMAIN packets /\ Size(m) # 0 /\ Size(k) # 0
        /\ Extent(m, x) \in Extents(x.packet_index) /\ Extent(k, y) \in Extents(x.packet_index)
    BY <1>3, <1>6
  <2>2. CASE Extent(m, x) = Extent(k, y)
    BY <1>4, <2>2
  <2>3. CASE Extent(m, x) # Extent(k, y)
    BY <1>2, <1>4, <2>1, <2>3 DEF Fits
  <2> QED
    BY <2>2, <2>3
<1>7. \A i \in DOMAIN packets : packets[i].size \in Nat
  BY <1>1, <1>2 DEF Fits
<1> QED
  BY <1>3, <1>5, <1>6, <1>7 DEF Layout

\* Each packet has its bytes.
Shaped(d) == DOMAIN d = DOMAIN packets /\ \A p \in DOMAIN packets : d[p] \in Bytes(packets[p].size)

LEMMA BytesAtType ==
  ASSUME Layout, NEW d, Shaped(d), NEW m \in Inputs
  PROVE  BytesAt(d, m) \in Bytes(Size(m))
<1>1. /\ Place(m) \in AllPlaces(m) /\ Place(m).packet_index \in DOMAIN packets
      /\ Size(m) \in Nat /\ Place(m).offset \in Nat /\ packets[Place(m).packet_index].size \in Nat
      /\ Place(m).offset + Size(m) <= packets[Place(m).packet_index].size
  BY DEF Layout
<1>2. ASSUME NEW j \in 1 .. Size(m)
      PROVE  Place(m).offset + j \in 1 .. packets[Place(m).packet_index].size
  BY <1>1
<1>3. \A j \in 1 .. Size(m) : d[Place(m).packet_index][Place(m).offset + j] \in Digits
  BY <1>1, <1>2 DEF Shaped, Bytes
<1> QED
  BY <1>3 DEF BytesAt, Bytes

\* A write changes the bytes of the measurement it is for and of no other.
LEMMA WriteChanges ==
  ASSUME Layout, Shaped(data), NEW out \in Outputs, NEW l \in Nat, l <= Size(out),
         NEW bytes \in Bytes(l), Write(out, bytes)
  PROVE  /\ Shaped(data')
         /\ \A m \in Inputs \ {out} : BytesAt(data', m) = BytesAt(data, m)
         /\ BytesAt(data', out) \in Bytes(Size(out))
         /\ \A j \in 1 .. l : BytesAt(data', out)[j] = bytes[j]
<1> DEFINE hits(p, j) == {x \in AllPlaces(out) : /\ x.packet_index = p /\ packets[p].port = Virtual
                                                 /\ j - x.offset \in DOMAIN bytes}
           hit(p, j) == CHOOSE x \in hits(p, j) : TRUE
<1>1. DOMAIN bytes = 1 .. l /\ out \in Inputs /\ Size(out) \in Nat
  BY DEF Bytes, Outputs, Layout
<1>2. /\ DOMAIN data' = DOMAIN packets
      /\ \A p \in DOMAIN packets :
           data'[p] = [j \in 1 .. packets[p].size |->
                         IF hits(p, j) = {} THEN data[p][j] ELSE bytes[j - hit(p, j).offset]]
  <2>1. data' = [p \in DOMAIN data |-> [j \in DOMAIN data[p] |->
                  IF hits(p, j) = {} THEN data[p][j] ELSE bytes[j - hit(p, j).offset]]]
    BY DEF Write, AllPlaces
  <2>2. DOMAIN data = DOMAIN packets /\ \A p \in DOMAIN packets : DOMAIN data[p] = 1 .. packets[p].size
    BY DEF Shaped, Bytes
  <2> HIDE DEF hits, hit
  <2> QED
    BY <2>1, <2>2
<1>3. \A p, j : hits(p, j) # {} => hit(p, j) \in hits(p, j)
  <2> HIDE DEF hits
  <2> QED
    OBVIOUS
<1>4. \A p, j : \A x \in hits(p, j) :
        /\ x \in AllPlaces(out) /\ x.packet_index = p /\ packets[p].port = Virtual
        /\ x.offset \in Nat /\ j - x.offset \in 1 .. l
  BY <1>1 DEF Layout
<1>5. \A p, j : \A x \in AllPlaces(out) :
        /\ x.packet_index = p /\ packets[p].port = Virtual /\ j - x.offset \in 1 .. l
        => x \in hits(p, j)
  BY <1>1
<1> HIDE DEF hits, hit
<1>6. Shaped(data')
  <2> SUFFICES ASSUME NEW p \in DOMAIN packets PROVE data'[p] \in Bytes(packets[p].size)
    BY <1>2 DEF Shaped
  <2>1. ASSUME NEW j \in 1 .. packets[p].size, hits(p, j) # {}
        PROVE  bytes[j - hit(p, j).offset] \in Digits
    <3>1. j - hit(p, j).offset \in 1 .. l
      BY <1>3, <1>4, <2>1
    <3> QED
      BY <3>1 DEF Bytes
  <2>2. \A j \in 1 .. packets[p].size : data[p][j] \in Digits
    BY DEF Shaped, Bytes
  <2> QED
    BY <1>2, <2>1, <2>2 DEF Bytes
<1>7. ASSUME NEW m \in Inputs, NEW j \in 1 .. Size(m)
      PROVE  LET p == Place(m).packet_index
                 i == Place(m).offset + j
             IN  /\ BytesAt(data', m)[j] = IF hits(p, i) = {} THEN data[p][i]
                                           ELSE bytes[i - hit(p, i).offset]
                 /\ BytesAt(data, m)[j] = data[p][i]
  <2> DEFINE p == Place(m).packet_index
             i == Place(m).offset + j
  <2>1. p \in DOMAIN packets /\ i \in 1 .. packets[p].size
    <3>1. /\ Place(m) \in AllPlaces(m) /\ p \in DOMAIN packets /\ Place(m).offset \in Nat
          /\ Place(m).offset + Size(m) <= packets[p].size /\ Size(m) \in Nat
          /\ packets[p].size \in Nat
      BY DEF Layout
    <3> QED
      BY <3>1
  <2>2. BytesAt(data', m)[j] = data'[p][i] /\ BytesAt(data, m)[j] = data[p][i]
    BY DEF BytesAt
  <2> HIDE DEF p, i
  <2>3. data'[p][i] = IF hits(p, i) = {} THEN data[p][i] ELSE bytes[i - hit(p, i).offset]
    BY <1>2, <2>1
  <2> QED
    BY <2>2, <2>3 DEF p, i
<1>8. ASSUME NEW m \in Inputs \ {out} PROVE BytesAt(data', m) = BytesAt(data, m)
  <2>1. ASSUME NEW j \in 1 .. Size(m) PROVE BytesAt(data', m)[j] = BytesAt(data, m)[j]
    <3> DEFINE p == Place(m).packet_index
               i == Place(m).offset + j
    <3>1. /\ Place(m) \in AllPlaces(m) /\ Place(m).offset \in Nat /\ Size(m) \in Nat
      BY DEF Layout
    <3>2. ASSUME NEW x \in hits(p, i) PROVE FALSE
      <4>1. /\ x \in AllPlaces(out) /\ x.packet_index = p /\ x.offset \in Nat
            /\ i - x.offset \in 1 .. l
        BY <1>4, <3>2
      <4>2. \/ x.offset + Size(out) <= Place(m).offset
            \/ Place(m).offset + Size(m) <= x.offset
        BY <1>1, <3>1, <4>1 DEF Layout
      <4> QED
        BY <1>1, <3>1, <4>1, <4>2
    <3>3. hits(p, i) = {}
      BY <3>2
    <3> QED
      BY <1>7, <3>3
  <2>2. BytesAt(data', m) = [j \in 1 .. Size(m) |-> BytesAt(data', m)[j]]
        /\ BytesAt(data, m) = [j \in 1 .. Size(m) |-> BytesAt(data, m)[j]]
    BY DEF BytesAt
  <2> QED
    BY <2>1, <2>2
<1>9. ASSUME NEW j \in 1 .. l PROVE BytesAt(data', out)[j] = bytes[j]
  <2> DEFINE p == Place(out).packet_index
             i == Place(out).offset + j
  <2>1. /\ Place(out) \in AllPlaces(out) /\ Place(out).offset \in Nat /\ packets[p].port = Virtual
        /\ j \in 1 .. Size(out) /\ i - Place(out).offset = j
    BY <1>1 DEF Layout, Outputs
  <2>2. Place(out) \in hits(p, i)
    BY <1>5, <2>1
  <2>3. /\ hit(p, i) \in AllPlaces(out) /\ hit(p, i).packet_index = p
        /\ hit(p, i).offset \in Nat /\ i - hit(p, i).offset \in 1 .. l
    BY <1>3, <1>4, <2>2
  <2>4. \/ hit(p, i).offset = Place(out).offset
        \/ hit(p, i).offset + Size(out) <= Place(out).offset
        \/ Place(out).offset + Size(out) <= hit(p, i).offset
    BY <1>1, <2>1, <2>3 DEF Layout
  <2>5. hit(p, i).offset = Place(out).offset
    BY <1>1, <2>1, <2>3, <2>4
  <2> QED
    BY <1>1, <1>7, <2>1, <2>2, <2>5
<1> QED
  BY <1>1, <1>6, <1>8, <1>9, BytesAtType

\* A conversion takes nothing but the bytes, and the type and size of the measurement.
LEMMA SameConversion ==
  ASSUME NEW m, NEW k, addr_map[m].type = addr_map[k].type, Size(m) = Size(k), NEW bytes
  PROVE  ConvertTo(m, bytes) = ConvertTo(k, bytes)
<1>1. Type(m) = Type(k) /\ Sign(m) = Sign(k) /\ Endianness(m) = Endianness(k)
  BY DEF Type, Sign, Endianness, Marks
<1>2. /\ IsUint(m) = IsUint(k) /\ HostOrder(m, bytes) = HostOrder(k, bytes)
      /\ TooLarge(m) = TooLarge(k)
  BY <1>1 DEF IsUint, HostOrder, TooLarge
<1>3. ToUint(m, bytes) = ToUint(k, bytes) /\ ToInt(m, bytes) = ToInt(k, bytes)
  BY <1>1, <1>2 DEF ToUint, ToInt
<1> QED
  BY <1>1, <1>2, <1>3 DEF ConvertTo

LEMMA DeclarationsKept ==
  ASSUME UNCHANGED <<addr_map, packets>>, NEW m, NEW d, NEW bytes
  PROVE  /\ Type(m)' = Type(m) /\ Sign(m)' = Sign(m) /\ Endianness(m)' = Endianness(m)
         /\ Size(m)' = Size(m) /\ Place(m)' = Place(m)
  BY DEF Type, Sign, Endianness, Marks, Size, Place

LEMMA GetNext ==
  ASSUME UNCHANGED <<addr_map, packets>>, NEW m
  PROVE  Get(m)' = ConvertTo(m, BytesAt(data', m))
<1> DEFINE b == BytesAt(data', m)
<1>1. /\ Type(m)' = Type(m) /\ Sign(m)' = Sign(m) /\ Endianness(m)' = Endianness(m)
      /\ Size(m)' = Size(m) /\ Place(m)' = Place(m)
  BY DeclarationsKept
<1>2. BytesAt(data, m)' = b
  BY <1>1 DEF BytesAt
<1>3. Get(m)' =
        CASE Type(m) = "int" /\ Sign(m) = "unsigned" /\ Size(m) <= Word -> <<ToUint(m, b)>>
          [] Type(m) = "int" /\ Sign(m) = "signed" /\ Size(m) <= Word -> <<ToInt(m, b)>>
          [] Type(m) = "float" /\ Size(m) \in {Word, Double} -> <<Number(HostOrder(m, b))>>
          [] Type(m) = "string" /\ ~TooLarge(m) -> <<ToText(b)>>
          [] OTHER -> <<>>
  <2> HIDE DEF b
  <2> QED
    BY <1>1, <1>2 DEF Get, ConvertTo, IsUint, ToUint, ToInt, HostOrder, TooLarge
<1> QED
  BY <1>3 DEF ConvertTo, IsUint

\* A string that is too large is refused.
LEMMA Refused ==
  ASSUME NEW m, TooLarge(m), NEW bytes
  PROVE  ConvertTo(m, bytes) = <<>>
  BY DEF ConvertTo, TooLarge, IsUint

\* The packets have their bytes, and what is known of a measurement is what is read.
Valued ==
  /\ ~Ready => expected = <<>>
  /\ Ready => status = "ok" /\ Shaped(data) /\ DOMAIN expected = Inputs
  /\ ValuesSurvive

LEMMA ValuedInit == Init => Valued
  BY DEF Init, ValuesInit, Valued, Ready, ValuesSurvive

\* What the steps of mmon do not change.
ConfigKept == UNCHANGED <<addr_map, packets, status>>

LEMMA ShapedNext ==
  ASSUME ConfigKept
  PROVE  Inputs' = Inputs /\ (Shaped(data') => Shaped(data)')
  BY DEF ConfigKept, Inputs, Shaped

\* What is known after a step is read, but for strings that are too large.
LEMMA Survives ==
  ASSUME ConfigKept, DOMAIN expected' \subseteq Inputs,
         \A m \in Inputs : expected'[m] # <<>> /\ ~TooLarge(m) => Get(m)' = expected'[m]
  PROVE  ValuesSurvive'
<1> SUFFICES ASSUME NEW m \in DOMAIN expected', expected'[m] # <<>>
             PROVE  Get(m)' = IF TooLarge(m)' THEN <<>> ELSE expected'[m]
  BY DEF ValuesSurvive
<1>1. TooLarge(m)' = TooLarge(m)
  BY DeclarationsKept DEF ConfigKept, TooLarge
<1>2. TooLarge(m) => Get(m)' = <<>>
  BY GetNext, Refused DEF ConfigKept
<1> QED
  BY <1>1, <1>2

\* What a trigger function writes, and what is known of it then.
LEMMA Written ==
  ASSUME Layout, Valued, Ready, ConfigKept, NEW out \in Outputs, NEW l \in Nat, l <= Size(out),
         NEW bytes \in Bytes(l), Write(out, bytes), NEW value, Expect(out, value),
         ASSUME value # <<>>, ~TooLarge(out), NEW all \in Bytes(Size(out)), \A j \in 1 .. l : all[j] = bytes[j]
         PROVE  ConvertTo(out, all) = value
  PROVE  Valued'
<1>1. /\ Shaped(data') /\ BytesAt(data', out) \in Bytes(Size(out))
      /\ \A m \in Inputs \ {out} : BytesAt(data', m) = BytesAt(data, m)
      /\ \A j \in 1 .. l : BytesAt(data', out)[j] = bytes[j]
  BY WriteChanges DEF Valued
<1>2. DOMAIN expected = Inputs /\ out \in Inputs /\ status = "ok"
  BY DEF Valued, Outputs
<1>3. DOMAIN expected' = Inputs' /\ Shaped(data)'
  BY <1>1, <1>2, ShapedNext DEF Expect
<1>4. ASSUME NEW m \in Inputs, expected'[m] # <<>>, ~TooLarge(m) PROVE Get(m)' = expected'[m]
  <2>1. Get(m)' = ConvertTo(m, BytesAt(data', m))
    BY GetNext DEF ConfigKept
  <2>2. CASE m = out
    <3>1. expected'[m] = value
      BY <1>2, <2>2 DEF Expect
    <3>2. ConvertTo(out, BytesAt(data', out)) = value
      BY <1>1, <1>4, <2>2, <3>1
    <3> QED
      BY <2>1, <2>2, <3>1, <3>2
  <2>3. CASE m # out
    <3>1. expected'[m] = expected[m]
      BY <1>2, <2>3 DEF Expect
    <3>2. Get(m) = expected[m]
      BY <1>2, <1>4, <3>1 DEF Valued, ValuesSurvive
    <3> QED
      BY <1>1, <2>1, <2>3, <3>1, <3>2 DEF Get
  <2> QED
    BY <2>2, <2>3
<1>5. ValuesSurvive'
  BY <1>2, <1>3, <1>4, ShapedNext, Survives DEF Expect
<1>6. Ready'
  <2>1. Inputs # {} /\ Place(out).packet_index \in DOMAIN packets
    BY <1>2 DEF Layout
  <2> QED
    BY <1>1, <2>1 DEF Ready, Shaped
<1> QED
  BY <1>2, <1>3, <1>5, <1>6 DEF Valued, ConfigKept

LEMMA CopyValued ==
  ASSUME Layout, Valued, Ready, ConfigKept, NEW x \in Inputs, NEW out \in Outputs, Copy(x, out)
  PROVE  Valued'
<1> DEFINE value == IF addr_map[x].type = addr_map[out].type THEN expected[x] ELSE <<>>
           bytes == BytesAt(data, x)
<1>1. bytes \in Bytes(Size(x)) /\ Size(x) = Size(out) /\ Size(x) \in Nat
  BY BytesAtType DEF Copy, Valued, Layout
<1>2. Write(out, bytes) /\ Expect(out, value)
  BY DEF Copy
<1>3. ASSUME value # <<>>, ~TooLarge(out), NEW all \in Bytes(Size(out)), \A j \in 1 .. Size(x) : all[j] = bytes[j]
      PROVE  ConvertTo(out, all) = value
  <2>1. all = bytes
    BY <1>1, <1>3 DEF Bytes
  <2>2. addr_map[x].type = addr_map[out].type /\ value = expected[x]
    BY <1>3
  <2>3. Get(x) = expected[x]
    <3>1. ~TooLarge(x)
      BY <1>1, <1>3, <2>2 DEF TooLarge, Type
    <3> QED
      BY <1>3, <2>2, <3>1 DEF Valued, ValuesSurvive
  <2> QED
    BY <1>1, <2>1, <2>2, <2>3, SameConversion DEF Get
<1>4. Size(x) <= Size(out)
  BY <1>1
<1> HIDE DEF value, bytes
<1> QED
  BY <1>1, <1>2, <1>3, <1>4, Written

LEMMA UintRead ==
  ASSUME Layout, Shaped(data), NEW m \in Inputs, IsUint(m)
  PROVE  Get(m)[1] \in Nat
<1> DEFINE bytes == BytesAt(data, m)
<1>1. bytes \in Bytes(Size(m)) /\ Size(m) \in Nat /\ Size(m) <= Word
  BY BytesAtType DEF Layout, IsUint
<1>2. Get(m) = <<ToUint(m, bytes)>>
  BY DEF Get, ConvertTo, IsUint
<1> HIDE DEF bytes
<1>3. HostOrder(m, bytes) \in Bytes(Size(m))
  BY <1>1, HostOrderBytes
<1>4. ToUint(m, bytes) = Number(HostOrder(m, bytes)) + 0
  BY <1>1, <1>3, FilledNumber DEF ToUint
<1>5. Number(HostOrder(m, bytes)) \in Nat
  BY <1>1, <1>3, NumberBounded
<1> QED
  BY <1>2, <1>4, <1>5

LEMMA SumValued ==
  ASSUME Layout, Valued, Ready, ConfigKept, NEW x \in Inputs, NEW y \in Inputs, NEW out \in Outputs,
         Sum(x, y, out)
  PROVE  Valued'
<1> DEFINE n == (Get(x)[1] + Get(y)[1]) % Power[Word]
           value == IF IsUint(out) THEN <<n>> ELSE <<>>
           bytes == BytesOf(out, n)
<1>1. Size(out) = Word /\ Word \in Nat /\ Write(out, bytes) /\ Expect(out, value)
  BY BaseAssumption DEF Sum
<1>2. n \in Nat /\ n < Power[Word]
  <2>1. Get(x)[1] \in Nat /\ Get(y)[1] \in Nat
    BY UintRead DEF Sum, Valued
  <2>2. Power[Word] \in Nat /\ Power[Word] # 0
    BY <1>1, PowerType
  <2> QED
    BY <2>1, <2>2, Division
<1> HIDE DEF n
<1>3. bytes \in Bytes(Word) /\ (IsUint(out) => ConvertTo(out, bytes) = <<n>>)
  BY <1>1, <1>2, ReadsNumber
<1>4. ASSUME value # <<>>, ~TooLarge(out), NEW all \in Bytes(Size(out)), \A j \in 1 .. Word : all[j] = bytes[j]
      PROVE  ConvertTo(out, all) = value
  <2>1. all = bytes
    BY <1>1, <1>3, <1>4 DEF Bytes
  <2> QED
    BY <1>3, <1>4, <2>1
<1> HIDE DEF value, bytes
<1>5. Word <= Size(out)
  BY <1>1
<1> QED
  BY <1>1, <1>3, <1>4, <1>5, Written

LEMMA DescribeValued ==
  ASSUME Layout, Valued, Ready, ConfigKept, NEW x \in Inputs, NEW out \in Outputs, Describe(x, out),
         IsText(StateText(Get(x)[1]))
  PROVE  Valued'
<1> DEFINE text == StateText(Get(x)[1])
           value == IF Type(out) = "string" THEN <<Front(text)>> ELSE <<>>
<1>1. /\ Write(out, text) /\ Expect(out, value) /\ Len(text) <= Size(out) /\ Size(out) \in Nat
  BY DEF Describe, Layout, Outputs
<1>2. text \in Bytes(Len(text)) /\ Len(text) \in Nat
  BY LenProperties DEF IsText, Bytes
<1>3. ASSUME value # <<>>, ~TooLarge(out), NEW all \in Bytes(Size(out)), \A j \in 1 .. Len(text) : all[j] = text[j]
      PROVE  ConvertTo(out, all) = value
  <2>1. Type(out) = "string" /\ value = <<Front(text)>>
    BY <1>3
  <2> HIDE DEF text, value
  <2>2. IsText(text)
    BY DEF text
  <2> QED
    BY <1>1, <1>3, <2>1, <2>2, ReadsText
<1> HIDE DEF text, value
<1> QED
  BY <1>1, <1>2, <1>3, Written

LEMMA ReceiveValued ==
  ASSUME Layout, Valued, Ready, ConfigKept, NEW p \in DOMAIN data,
         NEW bytes \in [DOMAIN data[p] -> 0 .. Base - 1], Receive(p, bytes)
  PROVE  Valued'
<1>1. DOMAIN data = DOMAIN packets /\ Shaped(data) /\ DOMAIN expected = Inputs /\ status = "ok"
  BY DEF Valued, Shaped
<1>2. bytes \in Bytes(packets[p].size)
  BY <1>1 DEF Shaped, Bytes, Digits
<1>3. data' = [data EXCEPT ![p] = bytes]
  BY DEF Receive
<1>4. Shaped(data')
  BY <1>1, <1>2, <1>3 DEF Shaped
<1>5. DOMAIN expected' = Inputs' /\ Shaped(data)' /\ DOMAIN expected' = Inputs
  BY <1>1, <1>4, ShapedNext DEF Receive
<1>6. ASSUME NEW m \in Inputs, expected'[m] # <<>>, ~TooLarge(m) PROVE Get(m)' = expected'[m]
  <2>1. Get(m)' = ConvertTo(m, BytesAt(data', m))
    BY GetNext DEF ConfigKept
  <2>2. expected'[m] =
          IF Place(m).packet_index # p THEN expected[m]
          ELSE IF Readable(m) THEN <<Meaning(m, BytesAt(data', m))>> ELSE <<>>
    BY <1>1 DEF Receive
  <2>3. CASE Place(m).packet_index # p
    <3>1. BytesAt(data', m) = BytesAt(data, m)
      BY <1>3, <2>3 DEF BytesAt
    <3>2. Get(m) = expected[m]
      BY <1>1, <1>6, <2>2, <2>3 DEF Valued, ValuesSurvive
    <3> QED
      BY <2>1, <2>2, <2>3, <3>1, <3>2 DEF Get
  <2>4. CASE Place(m).packet_index = p
    <3>1. BytesAt(data', m) \in Bytes(Size(m)) /\ Size(m) \in Nat /\ Size(m) # 0
      BY <1>4, BytesAtType DEF Layout
    <3>2. Readable(m) /\ expected'[m] = <<Meaning(m, BytesAt(data', m))>>
      BY <1>6, <2>2, <2>4
    <3> QED
      BY <2>1, <3>1, <3>2, ReadsMeaning
  <2> QED
    BY <2>3, <2>4
<1>7. ValuesSurvive'
  BY <1>5, <1>6, Survives
<1>8. Ready'
  BY <1>1, <1>4 DEF Ready, Shaped
<1> QED
  BY <1>1, <1>5, <1>7, <1>8 DEF Valued, ConfigKept

LEMMA ClearValued ==
  ASSUME Valued, Downlinks, ConfigKept, Clear, \A p \in DOMAIN packets : packets[p].size \in Nat
  PROVE  Valued'
<1>1. Shaped(data')
  <2>1. 0 \in Digits
    BY BaseAssumption DEF Digits
  <2> QED
    BY <2>1 DEF Clear, Shaped, Bytes
<1>2. DOMAIN expected' = Inputs /\ \A m \in Inputs : expected'[m] = <<>>
  BY DEF Clear
<1>3. DOMAIN expected' = Inputs' /\ Shaped(data)'
  BY <1>1, <1>2, ShapedNext
<1>4. ValuesSurvive'
  BY <1>2, Survives
<1>5. Ready'
  <2>1. Len(packets) \in Nat /\ DOMAIN packets = 1 .. Len(packets) /\ packets # <<>>
    BY AppendIsSeq DEF Downlinks, IsSeq, Clear
  <2>2. Len(packets) # 0
    BY <2>1 DEF Downlinks, IsSeq
  <2> QED
    BY <1>1, <2>1, <2>2 DEF Ready, Shaped
<1> QED
  BY <1>3, <1>4, <1>5 DEF Valued, Clear, ConfigKept

LEMMA StepValued ==
  ASSUME NEW max \in Nat, Located, Downlinks, Sized(max), Positive, Valued, [Next]_vars,
         \A n \in Nat : IsText(StateText(n))
  PROVE  Valued'
<1>1. ASSUME UNCHANGED valueVars, ConfigKept PROVE Valued'
  <2>1. data' = data /\ received' = received /\ expected' = expected
    BY <1>1 DEF valueVars
  <2>2. Inputs' = Inputs /\ (Shaped(data) => Shaped(data)') /\ Ready' = Ready
    BY <1>1, <2>1, ShapedNext DEF Ready
  <2>3. \A m : BytesAt(data', m) = BytesAt(data, m) /\ Get(m)' = Get(m)
    BY <1>1, <2>1, GetNext DEF ConfigKept, Get
  <2>4. \A m : TooLarge(m)' = TooLarge(m)
    BY <1>1, DeclarationsKept DEF ConfigKept, TooLarge
  <2> QED
    BY <1>1, <2>1, <2>2, <2>3, <2>4 DEF Valued, ValuesSurvive, ConfigKept
<1>2. ASSUME Configure PROVE Valued'
  <2>1. UNCHANGED valueVars /\ status = "reading"
    BY <1>2 DEF Configure, ConfigNext
  <2>2. data' = data /\ expected' = expected /\ data = <<>> /\ expected = <<>>
    BY <2>1 DEF valueVars, Valued, Ready
  <2> QED
    BY <2>2 DEF Valued, Ready, ValuesSurvive
<1>3. ASSUME ValuesNext, ConfigKept PROVE Valued'
  <2>1. ASSUME Ready PROVE Layout
    BY <2>1, MeasurementsLaid DEF Valued
  <2>2. ASSUME Clear PROVE Valued'
    <3>1. Layout
      BY <2>2, MeasurementsLaid DEF Clear
    <3> QED
      BY <1>3, <2>2, <3>1, ClearValued DEF Layout
  <2>3. ASSUME NEW p \in DOMAIN data, NEW bytes \in [DOMAIN data[p] -> 0 .. Base - 1],
               Receive(p, bytes)
        PROVE  Valued'
    <3>1. Ready
      BY DEF Ready
    <3> QED
      BY <1>3, <2>1, <2>3, <3>1, ReceiveValued
  <2>4. ASSUME Ready, NEW x \in Inputs, NEW out \in Outputs, Copy(x, out) PROVE Valued'
    BY <1>3, <2>1, <2>4, CopyValued
  <2>5. ASSUME Ready, NEW x \in Inputs, NEW out \in Outputs, NEW y \in Inputs, Sum(x, y, out)
        PROVE  Valued'
    BY <1>3, <2>1, <2>5, SumValued
  <2>6. ASSUME Ready, NEW x \in Inputs, NEW out \in Outputs, Describe(x, out) PROVE Valued'
    <3>1. IsUint(x) /\ Layout
      BY <2>1, <2>6 DEF Describe
    <3>2. Get(x)[1] \in Nat
      BY <2>6, <3>1, UintRead DEF Valued
    <3> QED
      BY <1>3, <2>6, <3>1, <3>2, DescribeValued
  <2> QED
    BY <1>3, <2>2, <2>3, <2>4, <2>5, <2>6 DEF ValuesNext
<1>4. UNCHANGED configVars => ConfigKept
  BY DEF configVars, definitions, ConfigKept
<1> QED
  BY <1>1, <1>2, <1>3, <1>4 DEF Next, RunTree, View, Trigger, vars

\* What programs read: for any sizes of measurements, types, byte orders and signs in a file
\* whose sizes are positive and cannot add up to 2^64, any packets received and any trigger
\* functions in any order, a program reads what the packet from the network means by the
\* declaration of the measurement, and what the last trigger function made of it; of a string
\* that has no room in the buffer of the conversions it reads nothing.
THEOREM ValuesRead ==
  ASSUME NEW max \in Nat, StoiUpTo(max), SizeModulus \in Nat, \A n \in Nat : IsText(StateText(n))
  PROVE  Spec /\ [](place * max < SizeModulus) /\ []Positive => []ValuesSurvive
<1> DEFINE Short == place * max < SizeModulus
           I == Downlinks /\ Located /\ Named /\ Sized(max) /\ Valued
<1>1. Init => I
  BY DownlinksInit, LocatedInit, SizedInit, ValuedInit
<1>2. I /\ Short /\ Positive /\ [Next]_vars => I'
  BY StepDownlinks, StepLocated, StepSized, StepValued
<1>3. I => ValuesSurvive
  BY DEF Valued
<1> HIDE DEF Short, I
<1>4. Spec /\ []Short /\ []Positive => []ValuesSurvive
  BY <1>1, <1>2, <1>3, PTL DEF Spec
<1> QED
  BY <1>4 DEF Short

=============================================================================
