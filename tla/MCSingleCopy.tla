----------------------------- MODULE MCSingleCopy -----------------------------
(* Instances of SingleCopy for TLC. *)
EXTENDS SingleCopy, TLC

SomeOldFile == {Absent, 0, 2, 6}
=============================================================================
