---------------------------- MODULE LogProcessMC ----------------------------
(* LogProcess for model checking. *)
EXTENDS LogProcess

\* Packets whose stamps and data hold the bytes that frame a record.
MCPacket(l, n) ==
  [stamp |-> IF n = 1 THEN <<RBracket, RBracket>> ELSE <<LBracket, Less>>,
   device |-> <<1, RBracket>>,
   data |-> IF n = 1 THEN <<LBracket, Greater>> ELSE <<>>]

MCMaxSends == [k \in Kinds |-> IF k = "tel" THEN 2 ELSE 1]

=============================================================================
