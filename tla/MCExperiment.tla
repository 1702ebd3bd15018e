---------------------------- MODULE MCExperiment ----------------------------
(* Instances of Experiment for TLC, with trees of TestCases. *)
EXTENDS Experiment

Gen == INSTANCE TestCases

(* Two files; and a tree of height 2 with a file and two directories. *)
SmallTrees == <<Gen!small_files(1), Gen!create_mary_tree(2, 1, 2)>>

(* A failed run leaves out one directory or file, or does not finish a file. *)
Without(tree, path) ==
  LET stays(f) == ~IsPrefix(path, f)
  IN [dirs |-> {d \in tree.dirs : stays(d)},
      files |-> [f \in {f \in DOMAIN tree.files : stays(f)} |-> tree.files[f]]]
Failed(tree) ==
  {Without(tree, path) : path \in tree.dirs \cup DOMAIN tree.files}
    \cup {[tree EXCEPT !.files[f] = "unfinished"] : f \in DOMAIN tree.files}
SmallBroken == [c \in 1 .. 2 |-> Failed(SmallTrees[c])]

TwoBatches == <<1, 2>>

(* Every test case is a tree, as ShapeAssumption wants it; its size is what the
   comments of test_case_gen.py have, and a context has a slot for each file
   (SlotsSuffice of AioManager). *)
MAX_EVENTS == 65536
Power(x, n) == FoldLeft(LAMBDA y, z : y * z, 1, [i \in 1 .. n |-> x])
Nodes(height, num_dirs) == FoldLeft(LAMBDA x, y : x + y, 0,
                                    [h \in 1 .. height |-> Power(num_dirs, h - 1)])
ASSUME \A id \in Gen!CaseIds : IsTree(Gen!gen_func(id))
ASSUME \A id \in Gen!CaseIds : Gen!NumFiles(Gen!gen_func(id)) <= MAX_EVENTS
ASSUME \A id \in 1 .. 16 : Gen!NumFiles(Gen!gen_func(id)) = Power(2, id - 1)
ASSUME /\ Gen!NumFiles(Gen!gen_func(17)) = 3 * Nodes(3, 3)
       /\ Gen!NumFiles(Gen!gen_func(18)) = 3 * Nodes(7, 2)
       /\ Gen!NumFiles(Gen!gen_func(19)) = 10 * Nodes(7, 2)
       /\ Gen!NumFiles(Gen!gen_func(20)) = 20 * Nodes(7, 2)
       /\ Gen!NumFiles(Gen!gen_func(21)) = 10 * (Nodes(5, 2) + Nodes(2, 2))
       /\ Gen!NumDirs(Gen!gen_func(21)) = Nodes(5, 2) - 1 + 1 + Nodes(2, 2) - 1
=============================================================================
