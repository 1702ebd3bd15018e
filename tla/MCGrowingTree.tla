---------------------------- MODULE MCGrowingTree ----------------------------
(* Instances of GrowingTree for TLC. *)
EXTENDS GrowingTree

(* The directory s with the file a and the directory t, in which there is b. *)
TreeSource == <<"s">>
TreeDirs == {<< >>, <<"s">>, <<"s", "t">>}
TreeRegs == {<<"s", "a">>, <<"s", "t", "b">>}

(* Outside, the source itself, in it, deeper in it, a file in it, and one whose
   directory does not exist. *)
TreeDests == {<<"d">>, <<"s">>, <<"s", "d">>, <<"s", "t", "d">>, <<"s", "a">>,
              <<"x", "d">>}
=============================================================================
