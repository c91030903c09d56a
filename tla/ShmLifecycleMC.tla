--------------------------- MODULE ShmLifecycleMC ---------------------------
(* Two operators and a client; two packets and two other libraries. *)
EXTENDS ShmLifecycle, TLC

CONSTANTS o1, o2, v1

TwoOthers == <<"nm", "clock">>
Same == Permutations({o1, o2})
=============================================================================
