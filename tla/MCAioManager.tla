---------------------------- MODULE MCAioManager ----------------------------
(* Instances of AioManager for TLC. *)
EXTENDS AioManagerInv, TLC

NoOldFile == {Absent}
SomeOldFile == {Absent, 0, 2}
EverySize == {0, 1, 3, 5}
NegativeBatch == -1
Symmetry == Permutations(Req)
=============================================================================
