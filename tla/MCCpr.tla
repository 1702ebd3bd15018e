-------------------------------- MODULE MCCpr --------------------------------
(* Instances of Cpr for TLC. *)
EXTENDS Cpr, TLC

NoOldFile == {Absent}

(* A directory with a file, a link to a file and a directory, in which there are
   a file and a pipe. *)
TreeNode == {"top", "a", "link", "sub", "b", "pipe"}
TreeKind == [n \in TreeNode |-> CASE n \in {"top", "sub"} -> "dir"
                                   [] n = "pipe" -> "other"
                                   [] OTHER -> "reg"]
TreeEntries == [n \in TreeNode |-> CASE n = "top" -> {"a", "link", "sub"}
                                      [] n = "sub" -> {"b", "pipe"}
                                      [] OTHER -> {}]
TreeReq == {"a", "link", "b"}

\* Every d_type the file systems may give them, or none.
TreeDType == [top |-> {"DT_DIR"}, a |-> {"DT_REG"},
              link |-> {"special", "DT_UNKNOWN"}, sub |-> {"DT_DIR"},
              b |-> {"DT_UNKNOWN"}, pipe |-> {"special", "DT_UNKNOWN"}]
NoDType == [n \in TreeNode |-> {"DT_UNKNOWN"}]
=============================================================================
