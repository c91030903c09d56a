---------------------------- MODULE TriggerValues ----------------------------
(***************************************************************************)
(* The values of measurements: the bytes decom puts into a packet, the     *)
(* conversions by which a viewer reads them, and trigger functions, which  *)
(* read measurements and write others into the virtual packets.            *)
(*                                                                         *)
(* A trigger function is one step on the packets as they are; what mmon    *)
(* does before and after it is MeasurementMonitor.  The host is            *)
(* little-endian, and sizes are positive.                                  *)
(***************************************************************************)
EXTENDS VehicleConfig, FiniteSetsExt

CONSTANTS
  Base,         \* 256: the values of a byte
  Word,         \* 4: bytes of a uint32_t, int32_t and float
  Double,       \* 8: bytes of a double
  MAX_CONVERSION_SIZE,  \* 256: bytes of the buffer a text is made in
  StateText(_), \* the bytes of the text of a state, with the zero at its end
  MaxReceived   \* bound: packets received

ASSUME BaseAssumption == Base \in Nat \ {0} /\ Base % 2 = 0 /\ Word \in Nat \ {0}

VARIABLES
  data,      \* the bytes of each packet
  received,  \* packets received so far
  expected   \* history: <<what a measurement means>>, or <<>> when that is not known

valueVars == <<data, received, expected>>

ValuesInit == data = <<>> /\ received = 0 /\ expected = <<>>

Ready == data # <<>>

\* The measurements that are in some packet.
Inputs == {m \in DOMAIN addr_map : addr_map[m].locations # <<>>}

\* Shared memory and caches begin as zeros.
Clear ==
  /\ status = "ok" /\ ~Ready /\ packets # <<>>
  /\ data' = [p \in DOMAIN packets |-> [j \in 1 .. packets[p].size |-> 0]]
  /\ expected' = [m \in Inputs |-> <<>>]
  /\ UNCHANGED received

-----------------------------------------------------------------------------
(* Reading.                                                                 *)

Type(m) == addr_map[m].type[1]
Marks(m) == {addr_map[m].type[2], addr_map[m].type[3]}
Endianness(m) == IF "big" \in Marks(m) THEN "big" ELSE "little"
Sign(m) == IF "unsigned" \in Marks(m) THEN "unsigned" ELSE "signed"
Size(m) == addr_map[m].size

\* Each measurement is read at its first location.
Place(m) == addr_map[m].locations[1]
BytesAt(d, m) ==
  [j \in 1 .. Size(m) |-> d[Place(m).packet_index][Place(m).offset + j]]

\* Base ^ n, and the sum of a sequence, as functions that can be reasoned about.
Power[n \in Nat] == IF n = 0 THEN 1 ELSE Base * Power[n - 1]
Total(terms) ==
  LET sum[k \in 0 .. Len(terms)] == IF k = 0 THEN 0 ELSE sum[k - 1] + terms[k]
  IN  sum[Len(terms)]

Number(bytes) == Total([j \in DOMAIN bytes |-> bytes[j] * Power[j - 1]])
HostOrder(m, bytes) == IF Endianness(m) = "little" THEN bytes ELSE Reverse(bytes)
Filled(bytes, fill) == bytes \o [j \in 1 .. Word - Len(bytes) |-> fill]

ToUint(m, bytes) == Number(Filled(HostOrder(m, bytes), 0))

\* Two's complement of a word.
Signed(n) == IF n >= Power[Word] \div 2 THEN n - Power[Word] ELSE n

\* Mutant: the sign is taken from the last byte, big-endian or not.
ToIntLastByte(m, bytes) ==
  Signed(Number(Filled(HostOrder(m, bytes),
                       IF Last(bytes) >= Base \div 2 THEN Base - 1 ELSE 0)))

ToInt(m, bytes) ==
  LET sign_byte == IF Endianness(m) = "big" THEN bytes[1] ELSE Last(bytes)
  IN  Signed(Number(Filled(HostOrder(m, bytes),
                           IF sign_byte >= Base \div 2 THEN Base - 1 ELSE 0)))

\* A text ends before its first zero.
ToText(bytes) ==
  LET zeros == {j \in DOMAIN bytes : bytes[j] = 0}
  IN  SubSeq(bytes, 1, IF zeros = {} THEN Len(bytes) ELSE Min(zeros) - 1)

\* A string that has no room in the buffer of the conversions, with a zero at its end.
TooLarge(m) == Type(m) = "string" /\ Size(m) > MAX_CONVERSION_SIZE - 1

IsUint(m) == Type(m) = "int" /\ Sign(m) = "unsigned" /\ Size(m) <= Word

\* convert_to: <<value>>, or <<>> for FAILURE.  A float stands for the number of its bits.
ConvertTo(m, bytes) ==
  CASE IsUint(m) -> <<ToUint(m, bytes)>>
    [] Type(m) = "int" /\ Sign(m) = "signed" /\ Size(m) <= Word -> <<ToInt(m, bytes)>>
    [] Type(m) = "float" /\ Size(m) \in {Word, Double} -> <<Number(HostOrder(m, bytes))>>
    [] Type(m) = "string" /\ ~TooLarge(m) -> <<ToText(bytes)>>
    [] OTHER -> <<>>

Get(m) == ConvertTo(m, BytesAt(data, m))

-----------------------------------------------------------------------------
(* Writing.                                                                 *)

\* What bytes mean in a measurement as it is declared.
Meaning(m, bytes) ==
  LET weight(j) == Power[IF Endianness(m) = "big" THEN Size(m) - j ELSE j - 1]
      n == Total([j \in DOMAIN bytes |-> bytes[j] * weight(j)])
  IN  CASE Type(m) = "int" /\ Sign(m) = "signed" /\ n >= Power[Size(m)] \div 2 ->
             n - Power[Size(m)]
        [] OTHER -> n

Readable(m) ==
  \/ Type(m) = "int" /\ Size(m) <= Word
  \/ Type(m) = "float" /\ Size(m) \in {Word, Double}

\* decom writes a packet it received.
Receive(p, bytes) ==
  /\ received' = received + 1
  /\ data' = [data EXCEPT ![p] = bytes]
  /\ expected' = [m \in DOMAIN expected |->
       IF Place(m).packet_index # p THEN expected[m]
       ELSE IF Readable(m) THEN <<Meaning(m, BytesAt(data', m))>> ELSE <<>>]

\* The bytes of a measurement in virtual packets are replaced, from its first one on.
Write(m, bytes) ==
  data' = [p \in DOMAIN data |-> [j \in DOMAIN data[p] |->
    LET hits == {x \in Range(addr_map[m].locations) :
                   /\ x.packet_index = p /\ packets[p].port = Virtual
                   /\ j - x.offset \in DOMAIN bytes}
    IN  IF hits = {} THEN data[p][j] ELSE bytes[j - (CHOOSE x \in hits : TRUE).offset]]]

Expect(m, value) == expected' = [expected EXCEPT ![m] = value]

\* COPY: the bytes as they are, whatever the two measurements say of them.
Copy(x, out) ==
  /\ Size(x) = Size(out)
  /\ Write(out, BytesAt(data, x))
  /\ Expect(out, IF addr_map[x].type = addr_map[out].type THEN expected[x] ELSE <<>>)
  /\ UNCHANGED received

\* The least significant bytes of a number, in the order of a measurement.
BytesOf(m, n) == HostOrder(m, [j \in 1 .. Word |-> (n \div Power[j - 1]) % Base])

\* SUM_UINT of two measurements: a number of 32 bits, turned to the order of its place.
Sum(x, y, out) ==
  LET n == (Get(x)[1] + Get(y)[1]) % Power[Word]
  IN  /\ IsUint(x) /\ IsUint(y) /\ Size(out) = Word
      /\ Write(out, BytesOf(out, n))
      /\ Expect(out, IF IsUint(out) THEN <<n>> ELSE <<>>)
      /\ UNCHANGED received

\* SOLENOID_STATE_TO_STR and the others of its kind: write_raw of a text, which must fit.
Describe(x, out) ==
  LET text == StateText(Get(x)[1])
  IN  /\ IsUint(x) /\ Len(text) <= Size(out)
      /\ Write(out, text)
      /\ Expect(out, IF Type(out) = "string" THEN <<Front(text)>> ELSE <<>>)
      /\ UNCHANGED received

\* Triggers write measurements that are in a virtual packet.
Outputs == {m \in Inputs : packets[Place(m).packet_index].port = Virtual}

ValuesNext ==
  \/ Clear
  \/ \E p \in DOMAIN data :
       /\ packets[p].port # Virtual /\ received < MaxReceived
       /\ \E bytes \in [DOMAIN data[p] -> 0 .. Base - 1] : Receive(p, bytes)
  \/ Ready /\ \E x \in Inputs, out \in Outputs :
       \/ Copy(x, out)
       \/ \E y \in Inputs : Sum(x, y, out)
       \/ Describe(x, out)

-----------------------------------------------------------------------------
(* Properties.                                                              *)

\* Whatever the sizes, signs and byte orders of measurements, and whatever is written next
\* to them: a program reads what the packet from the network means by its declaration, and
\* what the last trigger function made of it.  Only a string that is too large for the buffer
\* of the conversions is written and cannot be read.
ValuesSurvive ==
  \A m \in DOMAIN expected :
    expected[m] # <<>> => Get(m) = IF TooLarge(m) THEN <<>> ELSE expected[m]

=============================================================================
