------------------------------ MODULE Experiment ------------------------------
(***************************************************************************)
(* experiments/exp.py: for each test case it creates a source tree, runs   *)
(* cp and cpr with each batch size several times, compares every copy with *)
(* the source, removes it and notes the time; at the very end it writes    *)
(* the log, which parse_log.py reads.                                      *)
(*                                                                         *)
(* The directories survive the program: it may be killed, or end with an   *)
(* exception, and be started again.  Of a copy program only what it leaves *)
(* behind is kept, since os.system's answer is not used.                   *)
(***************************************************************************)
EXTENDS ParseLog

CONSTANTS
  Tree,        \* Tree[c]: what gen_func of test case c creates
  Broken,      \* Broken[c]: the wrong copies of it a failed run may leave
  BatchSizes,  \* BATCH_SIZES, a sequence
  N,           \* N_EXPERIMENTS
  CleanSrc,    \* CLEAN_SRC
  Durations,   \* the times a run may take
  MaxStarts    \* how often the program is started

Cases == DOMAIN Tree
Copies(c) == {Tree[c]} \cup Broken[c]

\* The programs in the order they are run; cp stands for its command.
cp == 0
Progs == <<cp>> \o BatchSizes

ASSUME TreeAssumption ==
  /\ Len(Tree) \in Nat \ {0} /\ Cases = 1 .. Len(Tree) /\ DOMAIN Broken = Cases
  /\ \A c \in Cases : Tree[c] \notin Broken[c]
\* A tree is what a file system holds: a path lies in a directory and is of one kind.
IsTree(t) ==
  /\ t = [dirs |-> t.dirs, files |-> [f \in DOMAIN t.files |-> t.files[f]]]
  /\ t.dirs \cap DOMAIN t.files = {}
  /\ \A f \in t.dirs \cup DOMAIN t.files :
       /\ f \in Seq(ToSet(f)) /\ f # << >>
       /\ Front(f) \in {<< >>} \cup t.dirs
\* What a run leaves of a path has the kind it has in the source (cpr.c:87-101).
ASSUME ShapeAssumption ==
  \A c \in Cases : \A t \in Copies(c) :
    /\ IsTree(t)
    /\ Tree[c].dirs \cap DOMAIN t.files = {} /\ t.dirs \cap DOMAIN Tree[c].files = {}
ASSUME BatchAssumption ==
  /\ BatchSizes \in Seq(Nat \ {cp})
  /\ \A i, j \in DOMAIN BatchSizes : i < j => BatchSizes[i] < BatchSizes[j]
ASSUME CountAssumption == N \in Nat \ {0} /\ MaxStarts \in Nat
ASSUME TimeAssumption ==
  Durations \subseteq Nat /\ Durations # {} /\ CleanSrc \in BOOLEAN

VARIABLES
  srcs,           \* the test cases whose src_dir exists
  dest,           \* what is in the dest_dir of each test case: {}, or {its tree}
  log,            \* the log file; it is whole when json.load can read it
  starts,         \* how often exp.py was started
  pc,             \* where it is
  case, iter, p,  \* the loop variables: test case, experiment, program
  time,           \* t_base or t_ours, the time of the last run
  copied,         \* history: the last run made what is in dest_dir
  verdict,        \* is_same of the last run
  times,          \* base_times and ours_times
  results,
  votes           \* batch_votes of parse_log.py

files == <<srcs, dest, log>>
locals == <<case, iter, p, time, copied, verdict, times, results>>
vars == <<files, starts, pc, locals, votes>>

prog == Progs[p]
NoTimes == [b \in ToSet(Progs) |-> << >>]
-----------------------------------------------------------------------------
(* is_same: dircmp of the two directories, then of the subdirectories they
   have in common, and so on: every directory that is in both, since what it is
   in is then in both, too. *)
In(dir, paths) == {f \in paths : Front(f) = dir}

SameLevel(t, u, dir) ==
  LET left == In(dir, t.dirs \cup DOMAIN t.files)
      right == In(dir, u.dirs \cup DOMAIN u.files)
      common == In(dir, DOMAIN t.files \cap DOMAIN u.files)
  IN /\ left \ right = {} /\ right \ left = {}
     /\ \A f \in common : t.files[f] = u.files[f]

is_same_TopOnly(t, u) == SameLevel(t, u, << >>)
is_same(t, u) ==
  \A dir \in {<< >>} \cup (t.dirs \cap u.dirs) : SameLevel(t, u, dir)
-----------------------------------------------------------------------------
(* What a copy program does (cpr: TreeCopied of Cpr; cp is external). *)

\* The name below which cp -r puts the copy when the destination exists.
Nested(t, c) ==
  [t EXCEPT !.dirs = @ \cup {<<"src">>} \cup {<<"src">> \o d : d \in Tree[c].dirs}]

\* What is in the destination afterwards: the copy, or what a failed run leaves,
\* if it was new.  If it exists mkdir refuses it (cpr.c:88), and cp copies into it.
Outcomes(c) ==
  IF dest[c] = {} THEN {{}} \cup {{t} : t \in Copies(c)}
  ELSE IF prog = cp THEN {{Nested(t, c)} : t \in dest[c]} ELSE {dest[c]}
-----------------------------------------------------------------------------
\* The log of an earlier run may be there.
Earlier == [c \in Cases |-> LET same == [i \in 1 .. N |-> CHOOSE t \in Durations : TRUE]
                           IN [case_id |-> c, base |-> same,
                               ours |-> [b \in ToSet(BatchSizes) |-> same]]]

Init ==
  /\ srcs = {}
  /\ dest = [c \in Cases |-> {}]
  /\ log \in {[whole |-> FALSE, data |-> << >>], [whole |-> TRUE, data |-> Earlier]}
  /\ starts = 1
  /\ pc = "main"
  /\ case = 1 /\ iter = 1 /\ p = 1
  /\ time = 0 /\ copied = FALSE /\ verdict = FALSE
  /\ times = NoTimes /\ results = << >>
  /\ votes = << >>

At(from, to) == pc = from /\ pc' = to

\* main: fs/ is removed and made again.
ClearFs_Forgotten ==
  /\ At("main", "setup")
  /\ UNCHANGED <<files, starts, locals, votes>>
ClearFs ==
  /\ At("main", "setup")
  /\ srcs' = {}
  /\ dest' = [c \in Cases |-> {}]
  /\ UNCHANGED <<log, starts, locals, votes>>

\* experiment_main: makedirs, which insists on a new directory, and gen_func.
MakeSrc ==
  /\ At("setup", "run")
  /\ case \notin srcs
  /\ srcs' = srcs \cup {case}
  /\ UNCHANGED <<dest, log, starts, locals, votes>>

\* time_command.
Run ==
  /\ At("run", "check")
  /\ \E d \in Outcomes(case) :
       /\ dest' = [dest EXCEPT ![case] = d]
       /\ copied' = (dest[case] = {} /\ d # {})
  /\ time' \in Durations
  /\ UNCHANGED <<srcs, log, starts, case, iter, p, verdict, times, results, votes>>

\* The sanity check, whose result is printed and not used.
Check_RepeatsRun ==
  /\ pc = "check"
  /\ \E t \in dest[case] :
       IF is_same(Tree[case], t)
         THEN pc' = "remove" /\ verdict' = TRUE /\ dest' = dest
         ELSE pc' = "run" /\ verdict' = FALSE /\ dest' = [dest EXCEPT ![case] = {}]
  /\ UNCHANGED <<srcs, log, starts, case, iter, p, time, copied, times, results, votes>>
Check ==
  /\ At("check", "remove")
  /\ \E t \in dest[case] : verdict' = is_same(Tree[case], t)
  /\ UNCHANGED <<files, starts, case, iter, p, time, copied, times, results, votes>>

\* rmtree(dest_dir) and append(t); then the next program or experiment.
Removed_Forgotten(dir) == dir
Removed(dir) == {}
NextIter == IF iter < N THEN iter + 1 ELSE 1
NextRun_OneMore ==
  /\ p' = IF p <= Len(Progs) THEN p + 1 ELSE 1
  /\ iter' = IF p <= Len(Progs) THEN iter ELSE NextIter
  /\ pc' = IF p <= Len(Progs) \/ iter < N THEN "run" ELSE "clean"
NextRun ==
  /\ p' = IF p < Len(Progs) THEN p + 1 ELSE 1
  /\ iter' = IF p < Len(Progs) THEN iter ELSE NextIter
  /\ pc' = IF p < Len(Progs) \/ iter < N THEN "run" ELSE "clean"
RemoveDest ==
  /\ pc = "remove"
  /\ dest' = [dest EXCEPT ![case] = Removed(@)]
  /\ times' = [times EXCEPT ![prog] = Append(@, time)]
  /\ NextRun
  /\ time' = 0 /\ copied' = FALSE /\ verdict' = FALSE
  /\ UNCHANGED <<srcs, log, starts, case, results, votes>>

\* The end of experiment_main; the lists of the next call are empty.
Emptied_Shared(lists) == lists
Emptied(lists) == NoTimes
CleanUp ==
  /\ pc = "clean"
  /\ srcs' = IF CleanSrc THEN srcs \ {case} ELSE srcs
  /\ results' = Append(results, [case_id |-> case, base |-> times[cp],
                                 ours |-> [b \in ToSet(BatchSizes) |-> times[b]]])
  /\ times' = Emptied(times)
  /\ IF case < Len(Tree) THEN case' = case + 1 /\ pc' = "setup"
                         ELSE case' = case /\ pc' = "open_log"
  /\ UNCHANGED <<dest, log, starts, iter, p, time, copied, verdict, votes>>

\* log_results: open empties the file, json.dump and close fill it.
OpenLog ==
  /\ At("open_log", "dump")
  /\ log' = [whole |-> FALSE, data |-> << >>]
  /\ UNCHANGED <<srcs, dest, starts, locals, votes>>

Dump ==
  /\ At("dump", "done")
  /\ log' = [whole |-> TRUE, data |-> results]
  /\ UNCHANGED <<srcs, dest, starts, locals, votes>>

\* The variables of the process are gone.
Died ==
  /\ pc' = "crashed"
  /\ case' = 1 /\ iter' = 1 /\ p' = 1
  /\ time' = 0 /\ copied' = FALSE /\ verdict' = FALSE
  /\ times' = NoTimes /\ results' = << >>
  /\ UNCHANGED <<files, starts, votes>>

\* is_same raises an exception when the run has made no directory.
CheckRaises == pc = "check" /\ dest[case] = {} /\ Died

\* The program is killed, or another call fails.
Crash == pc \notin {"done", "crashed", "parsed"} /\ Died

\* Only when a copy program the killed exp.py had started has ended: os.system
\* leaves it running.
Restart ==
  /\ At("crashed", "main")
  /\ starts < MaxStarts
  /\ starts' = starts + 1
  /\ UNCHANGED <<files, locals, votes>>

\* parse_log.py, whenever there is a log that json.load can read.
Parse ==
  /\ pc \in {"done", "crashed"} /\ pc' = "parsed"
  /\ log.whole
  /\ votes' = batch_votes(log.data)
  /\ UNCHANGED <<files, starts, locals>>

Terminated == pc \in {"crashed", "parsed"} /\ UNCHANGED vars

ExpNext ==
  \/ ClearFs \/ MakeSrc \/ Run \/ Check \/ CheckRaises \/ RemoveDest \/ CleanUp
  \/ OpenLog \/ Dump

Next == ExpNext \/ Crash \/ Restart \/ Parse \/ Terminated

Spec == Init /\ [][Next]_vars

\* exp.py runs, and each copy program ends (Completion of cpr is CprCompletion).
FairSpec == Spec /\ WF_vars(ExpNext)
-----------------------------------------------------------------------------
TypeOK ==
  /\ srcs \subseteq Cases
  /\ DOMAIN dest = Cases
  /\ log.whole \in BOOLEAN
  /\ starts \in Nat
  /\ pc \in {"main", "setup", "run", "check", "remove", "clean", "open_log", "dump",
            "done", "crashed", "parsed"}
  /\ case \in Cases /\ iter \in 1 .. N /\ p \in DOMAIN Progs
  /\ time \in Durations \cup {0}
  /\ copied \in BOOLEAN /\ verdict \in BOOLEAN
  /\ times \in [ToSet(Progs) -> Seq(Durations)]

\* Every copy starts with a source that was just generated and a destination that
\* does not exist, also after a crash: no old file can be left in a copy and no
\* call of makedirs or mkdir finds its name taken (exp.py:72, 91, 100, 129).
DirectoriesAreNew ==
  /\ pc = "setup" => case \notin srcs
  /\ pc = "run" => case \in srcs
  /\ pc \in {"setup", "run"} => \A c \in Cases : dest[c] = {}

\* The sanity check fails exactly for the copies that differ from the source at
\* any depth (exp.py:55-63).
VerdictIsRight == pc = "remove" => (verdict <=> dest[case] = {Tree[case]})

\* What is compared was made by the run whose time is noted, never by the one
\* before: a cpr that ended early at mkdir would win every comparison.
VerdictIsOfThisRun == pc = "remove" => copied

\* A log that can be read has all test cases, each with N times per program
\* (exp.py:76-77, 113, 142).
LogIsComplete ==
  log.whole =>
    /\ Len(log.data) = Len(Tree)
    /\ \A c \in Cases :
         /\ log.data[c].case_id = c
         /\ Len(log.data[c].base) = N
         /\ \A b \in ToSet(BatchSizes) : Len(log.data[c].ours[b]) = N

\* A batch size has the vote of a test case when no other has less total time,
\* and none that is smaller as little (parse_log.py:51-71).
Wins(c, b) ==
  LET ours == log.data[c].ours
  IN \A x \in ToSet(BatchSizes) :
       /\ Total(ours[b]) <= Total(ours[x])
       /\ x < b => Total(ours[b]) < Total(ours[x])

VotesAreRight ==
  pc = "parsed" =>
    /\ \A b \in DOMAIN votes : votes[b] = Cardinality({c \in Cases : Wins(c, b)})
    /\ \A c \in Cases : \E b \in DOMAIN votes : Wins(c, b)

\* Each start of the program comes to its end, killed or not.
Completion == []<>(pc \in {"done", "crashed", "parsed"})
=============================================================================
