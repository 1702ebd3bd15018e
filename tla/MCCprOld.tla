------------------------------- MODULE MCCprOld -------------------------------
(* Instances of CprOld for TLC. *)
EXTENDS CprOld, TLC

NoOldFile == {Absent}

(* A directory with a file, a link and a directory with another file. *)
TreeNode == {"top", "a", "link", "sub", "b"}
TreeKind == [n \in TreeNode |-> IF n \in {"top", "sub"} THEN "dir" ELSE "reg"]
TreeDType == [top |-> {"DT_DIR"}, a |-> {"DT_REG"}, link |-> {"special"},
              sub |-> {"DT_DIR"}, b |-> {"DT_REG", "DT_UNKNOWN"}]
TreeEntries == [n \in TreeNode |-> CASE n = "top" -> {"a", "link", "sub"}
                                     [] n = "sub" -> {"b"}
                                     [] OTHER -> {}]
TreeReq == {"a", "link", "b"}
=============================================================================
