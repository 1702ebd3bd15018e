------------------------------ MODULE TestCases ------------------------------
(***************************************************************************)
(* The trees experiments/test_case_gen.py creates.  A path below the root  *)
(* of a tree is the sequence of its names; "{}.txt", "dir_{}" and "poop"   *)
(* are pairs of a word and a number.  A tree has directories, and files,   *)
(* each with its content.                                                  *)
(***************************************************************************)
EXTENDS Integers, Sequences, FiniteSets

Txt(i) == <<"txt", i>>
Dir(i) == <<"dir", i>>
Poop == <<"poop", 0>>

\* open(fp, "wb") and write(os.urandom(size)): whatever it is, it is the original.
Original == "original"

TreeOf(dirs, paths) == [dirs |-> dirs, files |-> [f \in paths |-> Original]]

\* The paths of a set as seen from the directory above.
Below(name, paths) == {<<name>> \o p : p \in paths}

\* create_mary_tree: files at every height, directories at all but the last.
create_mary_tree(height, num_files, num_dirs) ==
  LET Files == {<<Txt(i)>> : i \in 0 .. num_files - 1}
      Names == {Dir(i) : i \in 0 .. num_dirs - 1}
      paths[h \in 1 .. height] ==
        IF h = 1 THEN Files
                 ELSE Files \cup UNION {Below(n, paths[h - 1]) : n \in Names}
      dirs[h \in 1 .. height] ==
        IF h = 1 THEN {}
                 ELSE UNION {{<<n>>} \cup Below(n, dirs[h - 1]) : n \in Names}
  IN TreeOf(dirs[height], paths[height])

\* small_files_2pK: 2^K files of 10 KB.
small_files(K) == TreeOf({}, {<<Txt(i)>> : i \in 0 .. 2^K - 1})

tall_imbalanced_tree_more_files ==
  LET top == create_mary_tree(5, 10, 2)
      poop == create_mary_tree(2, 10, 2)
  IN TreeOf(top.dirs \cup {<<Poop>>} \cup Below(Poop, poop.dirs),
          DOMAIN top.files \cup Below(Poop, DOMAIN poop.files))

\* get_gen_funcs: the test cases by their id.
CaseIds == 1 .. 21
gen_func(id) ==
  CASE id <= 16 -> small_files(id - 1)
    [] id = 17 -> create_mary_tree(3, 3, 3)
    [] id = 18 -> create_mary_tree(7, 3, 2)
    [] id = 19 -> create_mary_tree(7, 10, 2)
    [] id = 20 -> create_mary_tree(7, 20, 2)
    [] id = 21 -> tall_imbalanced_tree_more_files

NumFiles(tree) == Cardinality(DOMAIN tree.files)
NumDirs(tree) == Cardinality(tree.dirs)
=============================================================================
