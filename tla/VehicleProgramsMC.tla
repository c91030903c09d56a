-------------------------- MODULE VehicleProgramsMC --------------------------
(* VehiclePrograms for model checking. *)
EXTENDS VehiclePrograms

MCStoi(t) ==
  CASE t = "-1" -> [value |-> -1]
    [] t = "1" -> [value |-> 1]
    [] t = "2" -> [value |-> 2]
    [] t = "3" -> [value |-> 3]
    [] t = "6" -> [value |-> 6]
    [] t = "9" -> [value |-> 9]
    [] t = "10" -> [value |-> 10]
    [] t = "26" -> [value |-> 26]  \* 10 as a port
    [] t = "99999999999" -> [thrown |-> "range"]
    [] OTHER -> [thrown |-> "invalid"]

Udp == <<"protocol", "=", "udp">>

\* Every file of the program "check" is a setting and these lines.
Definitions ==
  {<<"a", "1">>, <<"a", "2", "int", "unsigned", "big">>, <<"b", "2", "float", "little">>,
   <<"b", "1", "int", "unsigned", "signed">>, <<"b", "-1">>, <<"b", "">>, <<"b", "x">>,
   <<"b", "99999999999">>, <<"b", "1", "long">>, <<"">>}
Settings == {Udp, <<"protocol", "=", "tcp">>, <<"port", "=", "x">>, <<"speed", "=", "9">>}
Nets ==
  {<<"net", "n", "auto", "10">>, <<"net", "n", "auto", "9">>, <<"net", "m", "auto", "26">>,
   <<"net", "m", "auto", "1">>,
   <<"net", "n", "static", "10">>, <<"net", "n", "auto", "x">>, <<"net", "n", "auto", "99999999999">>}
Bodies == {<<"9", "{">>, <<"10", "{">>, <<"26", "{">>, <<"virtual", "{">>, <<"a">>, <<"b">>, <<"}">>,
  <<"x", "{">>}
CONSTANT MaxLines

\* A file of two packets and two devices, for decom and uplink.
Vehicle ==
  <<Udp, <<"#", "comment">>, <<"a", "1">>, <<"net", "n", "auto", "9">>, <<"9", "{">>, <<"a">>,
    <<"}">>, <<"net", "m", "auto", "10">>, <<"10", "{">>, <<"a">>, <<"}">>,
    <<"virtual", "{">>, <<>>, <<"a">>, <<"}">>>>

\* A file of two measurements in two packets, one of which holds both.
Watched ==
  <<Udp, <<"a", "1">>, <<"b", "2">>, <<"9", "{">>, <<"a">>, <<"b">>, <<"}">>,
    <<"virtual", "{">>, <<"a">>, <<"}">>>>

\* A state from the network, and two outputs, for the triggers of mmon: a string of 10 is too
\* large to be read.
Triggered ==
  <<{Udp},
    {<<"a", "1", "int">>, <<"a", "2", "int", "big">>, <<"a", "2", "int", "little", "signed">>,
     <<"a", "2", "int", "unsigned", "big">>, <<"a", "3", "int", "unsigned">>,
     <<"a", "3", "float", "signed", "big">>},
    {<<"b", "3", "int", "unsigned">>, <<"b", "3", "int", "big", "unsigned">>, <<"b", "6", "string">>,
     <<"b", "10", "string">>},
    {<<"c", "3", "int", "unsigned", "big">>},
    {<<"9", "{">>}, {<<"a">>}, {<<"}">>},
    {<<"virtual", "{">>}, {<<"b">>}, {<<"c">>}, {<<"}">>}>>

\* CLOSED, OPEN and ERROR: as long as they are, of the only letter there is.
MCStateText(n) ==
  LET letters == CASE n = 0 -> 6 [] n = 1 -> 4 [] OTHER -> 5
  IN  [j \in 1 .. letters + 1 |-> IF j <= letters THEN 1 ELSE 0]

MCLinesAt(k, n) ==
  CASE k = "check" -> IF n = 1 THEN Settings
                      ELSE IF n > MaxLines THEN {} ELSE Definitions \cup Nets \cup Bodies
    [] k = "viewer" -> IF n > Len(Watched) THEN {} ELSE {Watched[n]}
    [] k = "mmon" -> IF n > Len(Triggered) THEN {} ELSE Triggered[n]
    [] OTHER -> IF n > Len(Vehicle) THEN {} ELSE {Vehicle[n]}

=============================================================================
