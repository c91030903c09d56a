-------------------------- MODULE NetworkManagerMC --------------------------
(* A receiver, a transmitter in auto mode and one that is not, like uplink.   *)
EXTENDS NetworkManager, TLC

CONSTANTS r1, t1, t2, a, b

OneReceiver == {r1}
TwoTransmitters == {t1, t2}
First == {t1}
Second == {t2}
TwoAddresses == {a, b}
=============================================================================
