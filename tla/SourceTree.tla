------------------------------ MODULE SourceTree ------------------------------
(* The tree that is copied.  A node stands for a source path and for the        *)
(* destination path that corresponds to it.  The tree does not change.          *)

CONSTANTS
  Node,      \* the paths at and below the source argument
  Root,      \* the source argument
  Kind,      \* what stat says of a path (it follows links)
  DType,     \* the d_types readdir may report for it: not every file system knows
  Entries    \* the entries of a directory, {} for another path

Dirs == {n \in Node : Kind[n] = "dir"}
Regs == {n \in Node : Kind[n] = "reg"}

ASSUME NodeAssumption ==
  /\ Root \in Node
  /\ Kind \in [Node -> {"dir", "reg", "other"}]
  /\ DType \in [Node -> SUBSET {"DT_DIR", "DT_REG", "DT_UNKNOWN", "special"}]
  /\ Entries \in [Node -> SUBSET (Node \ {Root})]
  /\ \A n \in Node \ Dirs : Entries[n] = {}
  /\ \A d, e \in Dirs : d # e => Entries[d] \cap Entries[e] = {}

\* Node is what is found below the source argument, going from entry to entry.
ASSUME ReachAssumption ==
  \A S \in SUBSET Node :
    Root \in S /\ (\A d \in S \cap Dirs : Entries[d] \subseteq S) => S = Node

ParentOf(n) == {d \in Dirs : n \in Entries[d]}
=============================================================================
