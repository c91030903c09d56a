---------------------------- MODULE VehicleConfig ----------------------------
(***************************************************************************)
(* VCM::init: a program of the ground station reads the configuration of a *)
(* vehicle, line by line, into the measurements, packets and devices that  *)
(* every other component takes from it.                                    *)
(*                                                                         *)
(* A line is the sequence of its tokens; the empty sequence is an empty    *)
(* line, and one that holds only blanks has "" for its first token.  Stoi  *)
(* gives what std::stoi makes of a token: a number, or the name of what it *)
(* throws.                                                                 *)
(***************************************************************************)
EXTENDS Integers, Sequences, FiniteSets, SequencesExt

CONSTANTS
  LinesAt(_, _),  \* the lines a file of a program may have at a place
  Stoi(_),        \* [value : Int] or [thrown : {"invalid", "range"}] of a token
  SizeModulus,    \* 2^64: sizes and offsets are size_t
  PortModulus,    \* 2^16: ports are uint16_t
  Kinds           \* the kinds of program

VARIABLES
  kind,          \* the program that reads
  place,         \* the line it is at
  status,        \* "reading", "ok", "failed" (init returned FAILURE), "thrown"
  addr_map,      \* the entry of each measurement: size, type, endianness, sign, locations
  measurements,  \* their names, in the order of the file
  packets,       \* size and port of each packet; a virtual one has port -1
  packet,        \* the packet whose lines are being read, or none
  net_map,       \* the unique id of each device
  net_devices,   \* their names, in the order of the file
  auto_port_map, \* the unique id of the device on each port
  protocol,      \* whether the protocol is set
  negative       \* history: a size was negative

definitions == <<addr_map, measurements, negative>>
network == <<net_map, net_devices, auto_port_map>>
configVars == <<kind, place, status, definitions, packets, packet, network, protocol>>

Virtual == -1
Nowhere == <<>>

ConfigInit ==
  /\ kind \in Kinds
  /\ place = 1 /\ status = "reading"
  /\ addr_map = <<>> /\ measurements = <<>>
  /\ packets = <<>> /\ packet = Nowhere
  /\ net_map = <<>> /\ net_devices = <<>> /\ auto_port_map = <<>>
  /\ protocol = FALSE /\ negative = FALSE

Token(line, i) == IF i <= Len(line) THEN line[i] ELSE ""
Numeric(t) == "value" \in DOMAIN Stoi(t)
With(f, x, y) == [z \in DOMAIN f \cup {x} |-> IF z = x THEN y ELSE f[z]]

\* init returns FAILURE, or stoi throws what nobody catches.
Fail == status' = "failed" /\ UNCHANGED <<definitions, packets, packet, network, protocol>>
Throw == status' = "thrown" /\ UNCHANGED <<definitions, packets, packet, network, protocol>>

\* Only std::invalid_argument is caught.
NotANumber(t) ==
  \/ Stoi(t) = [thrown |-> "invalid"] /\ Fail
  \/ Stoi(t) = [thrown |-> "range"] /\ Throw

Skip(line) ==
  /\ line = <<>> \/ Token(line, 1) = "#"
  /\ UNCHANGED <<status, definitions, packets, packet, network, protocol>>

\* Mutant: the id counts the names of devices, not the lines.
NetLineByName(line) ==
  LET name == Token(line, 2)
      port == Stoi(Token(line, 4)).value % PortModulus
      id == Cardinality(DOMAIN net_map)
  IN  /\ Token(line, 1) = "net" /\ Token(line, 3) = "auto" /\ Numeric(Token(line, 4))
      /\ port \notin DOMAIN auto_port_map
      /\ auto_port_map' = With(auto_port_map, port, id)
      /\ net_map' = With(net_map, name, id)
      /\ net_devices' = Append(net_devices, name)
      /\ UNCHANGED <<status, definitions, packets, packet, protocol>>

\* net <name> auto <port>; "static" is refused like any other mode.
NetLine(line) ==
  LET name == Token(line, 2)
      t == Token(line, 4)
      port == Stoi(t).value % PortModulus
      id == Len(net_devices)
  IN  /\ Token(line, 1) = "net"
      /\ IF Token(line, 3) # "auto" THEN Fail
         ELSE IF ~Numeric(t) THEN NotANumber(t)
         ELSE IF port \in DOMAIN auto_port_map THEN Fail
         ELSE /\ auto_port_map' = With(auto_port_map, port, id)
              /\ net_map' = With(net_map, name, id)
              /\ net_devices' = Append(net_devices, name)
              /\ UNCHANGED <<status, definitions, packets, packet, protocol>>

\* <setting> = <value>; addresses, names and paths are taken as they are.
SettingLine(line) ==
  LET setting == Token(line, 1)
      value == Token(line, 3)
      Kept == UNCHANGED <<status, definitions, packets, packet, network>>
  IN  /\ setting \notin {"net", "#"} /\ Token(line, 2) = "="
      /\ CASE setting \in {"multicast", "name", "triggers", "constants"} ->
                Kept /\ UNCHANGED protocol
           [] setting = "port" ->
                IF Numeric(value) THEN Kept /\ UNCHANGED protocol ELSE NotANumber(value)
           [] setting = "protocol" /\ value = "udp" -> Kept /\ protocol' = TRUE
           [] OTHER -> Fail

Ports == {packets[i].port : i \in DOMAIN packets} \ {Virtual}

\* <port> { or virtual {, outside a packet.
PacketLine(line) ==
  LET t == Token(line, 1)
      port == Stoi(t).value % PortModulus
  IN  /\ t \notin {"net", "#"} /\ Token(line, 2) = "{"
      /\ IF t = "virtual"
         THEN /\ packet' = <<[size |-> 0, port |-> Virtual]>>
              /\ UNCHANGED <<status, definitions, packets, network, protocol>>
         ELSE IF ~Numeric(t) THEN NotANumber(t)
         ELSE IF port \in Ports THEN Fail
         ELSE /\ packet' = <<[size |-> 0, port |-> port]>>
              /\ UNCHANGED <<status, definitions, packets, network, protocol>>

Endiannesses == {"big", "little"}
Types == {"int", "float", "string", ""}

\* The tokens after the size: a type, then a sign and an endianness in either order.
ValidType(type, fourth, fifth) ==
  LET sign == IF fourth \in Endiannesses THEN fifth ELSE fourth
  IN  /\ type \in Types
      /\ fourth \in Endiannesses \/ fifth \in Endiannesses \cup {""}
      /\ sign \in {"signed", "unsigned", ""}

\* <name> <size> [type [sign] [endianness]]: a name that is defined again gets a new
\* entry, which is in no packet.
MeasurementLine(line) ==
  LET name == Token(line, 1)
      t == Token(line, 2)
      tokens == <<Token(line, 3), Token(line, 4), Token(line, 5)>>
  IN  /\ name # "net" /\ t \notin {"=", "{"} /\ line # <<>> /\ name # "#"
      /\ IF name = "" \/ t = "" THEN Fail
         ELSE IF ~Numeric(t) THEN NotANumber(t)
         ELSE IF ~ValidType(tokens[1], tokens[2], tokens[3]) THEN Fail
         ELSE /\ addr_map' = With(addr_map, name, [size |-> Stoi(t).value % SizeModulus,
                                                   type |-> tokens, locations |-> <<>>])
              /\ measurements' = Append(measurements, name)
              /\ negative' = (negative \/ Stoi(t).value < 0)
              /\ UNCHANGED <<status, packets, packet, network, protocol>>

\* Mutant: the offset is that after the measurement.
FieldLineAfter(line) ==
  LET name == Token(line, 1)
      location == [packet_index |-> Len(packets) + 1,
                   offset |-> packet[1].size + addr_map[name].size]
  IN  /\ line # <<>> /\ name \notin {"#", "}"} /\ name \in DOMAIN addr_map
      /\ addr_map' = [addr_map EXCEPT ![name].locations = Append(@, location)]
      /\ packet' = [packet EXCEPT ![1].size = (@ + addr_map[name].size) % SizeModulus]
      /\ UNCHANGED <<status, measurements, negative, packets, network, protocol>>

\* A line inside a packet, of which only the first token counts: a measurement.
FieldLine(line) ==
  LET name == Token(line, 1)
      location == [packet_index |-> Len(packets) + 1, offset |-> packet[1].size]
  IN  /\ line # <<>> /\ name \notin {"#", "}"}
      /\ IF name \notin DOMAIN addr_map THEN Fail
         ELSE /\ addr_map' = [addr_map EXCEPT ![name].locations = Append(@, location)]
              /\ packet' = [packet EXCEPT ![1].size = (@ + addr_map[name].size) % SizeModulus]
              /\ UNCHANGED <<status, measurements, negative, packets, network, protocol>>

EndPacket(line) ==
  /\ Token(line, 1) = "}"
  /\ packets' = packets \o packet
  /\ packet' = Nowhere
  /\ UNCHANGED <<status, definitions, network, protocol>>

\* The end of the file: no packet may be open, and the protocol must be set.
EndOfFile ==
  /\ status' = IF packet = Nowhere /\ protocol THEN "ok" ELSE "failed"
  /\ UNCHANGED <<kind, place, definitions, packets, packet, network, protocol>>

ReadLine(line) ==
  /\ place' = place + 1 /\ UNCHANGED kind
  /\ IF packet = Nowhere
     THEN \/ Skip(line)
          \/ NetLine(line)
          \/ SettingLine(line)
          \/ PacketLine(line)
          \/ MeasurementLine(line)
     ELSE \/ Skip(line)
          \/ FieldLine(line)
          \/ EndPacket(line)

ConfigNext ==
  /\ status = "reading"
  /\ (\E line \in LinesAt(kind, place) : ReadLine(line)) \/ EndOfFile

-----------------------------------------------------------------------------
(* Properties.                                                              *)

\* The places of a measurement's bytes in a packet, when no size wraps.
PlacesIn(i, m) == {loc \in Range(addr_map[m].locations) : loc.packet_index = i}
Extents(i) ==
  UNION {{[from |-> loc.offset, size |-> addr_map[m].size, of |-> m] : loc \in PlacesIn(i, m)} :
           m \in DOMAIN addr_map}

SumOf(S) == FoldSet(LAMBDA e, n : e.size + n, 0, S)

Redefined == \E i, j \in DOMAIN measurements : i # j /\ measurements[i] = measurements[j]

\* What the viewers and writers copy by stays inside its packet and no two measurements
\* share a byte of it; every byte belongs to one, unless a measurement was defined again.
\* Sizes are not checked: after a negative one, which becomes huge, offsets wrap.
LocationsFit ==
  ~negative => \A i \in DOMAIN packets :
    /\ \A e \in Extents(i) : e.from + e.size <= packets[i].size
    /\ \A e, f \in Extents(i) : e # f => e.from + e.size <= f.from \/ f.from + f.size <= e.from
                                           \/ e.size = 0 \/ f.size = 0
    /\ ~Redefined => SumOf(Extents(i)) = packets[i].size

\* One decom per port and one address per device: telemetry packets have ports of their own,
\* a port belongs to one device, and the devices' ids are the slots of the shared block, which
\* has one for each line.
PortsAndIdsUnique ==
  /\ \A i, j \in DOMAIN packets :
       i # j /\ packets[i].port = packets[j].port => packets[i].port = Virtual
  /\ IsInjective(auto_port_map)
  /\ Range(auto_port_map) = 0 .. Len(net_devices) - 1
  /\ \A d \in DOMAIN net_map : net_devices[net_map[d] + 1] = d

=============================================================================
