--------------------------- MODULE ExperimentProofs ---------------------------
(* Theorems about Experiment, for any test cases, batch sizes and numbers of
   experiments, and any crashes. *)
EXTENDS Experiment, ListLemmas, FiniteSetTheorems

\* What experiment_main returns.
Results == [case_id : Cases, base : Seq(Durations),
            ours : [ToSet(BatchSizes) -> Seq(Durations)]]

InCase == {"run", "check", "remove"}

\* What there is of the time of a run.
Timed ==
  /\ pc \in {"check", "remove"} => time \in Durations
  /\ pc = "check" => (copied <=> dest[case] # {})
  /\ pc = "remove" => copied

\* Which directories exist where.
Fresh ==
  /\ pc = "setup" => srcs \subseteq 1 .. (case - 1)
  /\ pc \in InCase \cup {"clean"} => case \in srcs /\ srcs \subseteq 1 .. case
  /\ pc \in {"setup", "run", "clean"} => \A c \in Cases : dest[c] = {}
  /\ pc \in {"check", "remove"} => \A c \in Cases \ {case} : dest[c] = {}

\* How many times each program has run in this test case.
Runs(i) ==
  IF pc \in InCase THEN IF i < p THEN iter ELSE iter - 1
                   ELSE IF pc = "clean" THEN N ELSE 0

Lists ==
  /\ pc \notin InCase => iter = 1 /\ p = 1
  /\ pc \in {"main", "crashed", "setup", "clean"} \cup InCase =>
       \A i \in DOMAIN Progs : Len(times[Progs[i]]) = Runs(i)

Whole(r, c) ==
  /\ r.case_id = c
  /\ Len(r.base) = N
  /\ \A b \in ToSet(BatchSizes) : Len(r.ours[b]) = N

\* The results so far, one for each test case that is over.
Collected ==
  /\ results \in Seq(Results)
  /\ \A c \in 1 .. Len(results) : Whole(results[c], c)
  /\ pc \in {"main", "crashed"} => case = 1 /\ results = << >>
  /\ pc \in {"main", "setup", "clean"} \cup InCase => Len(results) = case - 1
  /\ pc \in {"open_log", "dump"} => Len(results) = Len(Tree)

ExpInv == TypeOK /\ Timed /\ Fresh /\ Lists /\ Collected /\ LogIsComplete
-----------------------------------------------------------------------------
\* The programs are different, cp among them.
LEMMA ProgsFacts ==
  /\ Len(Progs) \in Nat \ {0} /\ DOMAIN Progs = 1 .. Len(Progs)
  /\ \A i, j \in DOMAIN Progs : Progs[i] = Progs[j] => i = j
  /\ \A i \in DOMAIN Progs : Progs[i] \in ToSet(Progs)
  /\ cp = Progs[1]
  /\ \A b \in ToSet(BatchSizes) : \E i \in DOMAIN Progs : b = Progs[i]
<1> DEFINE L == Len(BatchSizes)
<1>1. BatchSizes \in Seq(Nat) /\ L \in Nat /\ DOMAIN BatchSizes = 1 .. L
  BY BatchAssumption
<1>2. <<cp>> \in Seq(Nat) /\ Len(<<cp>>) = 1 /\ <<cp>>[1] = cp
  BY DEF cp
<1>3. /\ Progs \in Seq(Nat) /\ Len(Progs) = L + 1
      /\ \A i \in 1 .. L + 1 : Progs[i] = IF i = 1 THEN cp ELSE BatchSizes[i - 1]
  BY <1>1, <1>2 DEF Progs
<1>4. DOMAIN Progs = 1 .. L + 1
  BY <1>1, <1>3
<1>5. ASSUME NEW i \in DOMAIN Progs, NEW j \in DOMAIN Progs, i < j
      PROVE  Progs[i] # Progs[j]
  <2>1. j - 1 \in DOMAIN BatchSizes /\ Progs[j] = BatchSizes[j - 1]
    BY <1>1, <1>3, <1>4, <1>5
  <2>2. CASE i = 1
    <3>1. BatchSizes[j - 1] # cp
      BY <2>1, <1>1, BatchAssumption
    <3>2. QED
      BY <3>1, <2>1, <2>2, <1>3, <1>4
  <2>3. CASE i # 1
    <3>1. i - 1 \in DOMAIN BatchSizes /\ Progs[i] = BatchSizes[i - 1] /\ i - 1 < j - 1
      BY <2>3, <1>1, <1>3, <1>4, <1>5
    <3>2. BatchSizes[i - 1] < BatchSizes[j - 1]
      BY <3>1, <2>1, BatchAssumption
    <3>3. BatchSizes[i - 1] \in Nat /\ BatchSizes[j - 1] \in Nat
      BY <3>1, <2>1, <1>1
    <3>4. QED
      BY <3>1, <3>2, <3>3, <2>1
  <2>4. QED
    BY <2>2, <2>3
<1>6. \A i, j \in DOMAIN Progs : Progs[i] = Progs[j] => i = j
  <2> SUFFICES ASSUME NEW i \in DOMAIN Progs, NEW j \in DOMAIN Progs, i # j
               PROVE  Progs[i] # Progs[j]
    OBVIOUS
  <2>1. i < j \/ j < i
    BY <1>1, <1>4
  <2>2. QED
    BY <2>1, <1>5
<1>7. ASSUME NEW b \in ToSet(BatchSizes) PROVE \E i \in DOMAIN Progs : b = Progs[i]
  <2>1. PICK k \in DOMAIN BatchSizes : b = BatchSizes[k]
    BY DEF ToSet
  <2>2. k + 1 \in DOMAIN Progs /\ Progs[k + 1] = BatchSizes[k]
    BY <1>1, <1>3, <1>4
  <2>3. QED
    BY <2>1, <2>2
<1>8. QED
  BY <1>1, <1>3, <1>4, <1>6, <1>7 DEF ToSet

\* The same of what is called by name.
LEMMA ProgNames ==
  /\ cp \in ToSet(Progs)
  /\ ToSet(BatchSizes) \subseteq ToSet(Progs)
  /\ 1 \in DOMAIN Progs
BY ProgsFacts

\* Abbreviations, expanded in every proof.
USE DEF At, files, locals

\* Nothing was timed yet.
LEMMA NoTimesFacts ==
  /\ NoTimes \in [ToSet(Progs) -> Seq(Durations)]
  /\ \A i \in DOMAIN Progs : Len(NoTimes[Progs[i]]) = 0
BY ProgsFacts DEF NoTimes

\* The log an earlier run may have left.
LEMMA EarlierWhole ==
  /\ Len(Earlier) = Len(Tree)
  /\ \A c \in Cases :
       /\ Earlier[c].case_id = c
       /\ Len(Earlier[c].base) = N
       /\ \A b \in ToSet(BatchSizes) : Len(Earlier[c].ours[b]) = N
<1> DEFINE same == [i \in 1 .. N |-> CHOOSE t \in Durations : TRUE]
           Entry(c) == [case_id |-> c, base |-> same,
                        ours |-> [b \in ToSet(BatchSizes) |-> same]]
<1>1. Earlier = [c \in 1 .. Len(Tree) |-> Entry(c)]
  BY TreeAssumption DEF Earlier
<1>2. Len(same) = N
  BY CountAssumption
<1>3. Len(Earlier) = Len(Tree)
  <2> HIDE DEF Entry
  <2> QED
    BY <1>1, TreeAssumption
<1>4. ASSUME NEW c \in Cases
      PROVE  /\ Earlier[c].case_id = c
             /\ Len(Earlier[c].base) = N
             /\ \A b \in ToSet(BatchSizes) : Len(Earlier[c].ours[b]) = N
  <2>1. Earlier[c] = Entry(c)
    BY <1>1, TreeAssumption
  <2> HIDE DEF same
  <2>2. /\ Entry(c).case_id = c /\ Entry(c).base = same
        /\ \A b \in ToSet(BatchSizes) : Entry(c).ours[b] = same
    OBVIOUS
  <2>3. QED
    BY <2>1, <2>2, <1>2
<1>5. QED
  BY <1>3, <1>4

\* The first start.
LEMMA ExpInit == Init => ExpInv
<1> SUFFICES ASSUME Init PROVE ExpInv
  OBVIOUS
<1>1. TypeOK
  <2>1. 1 \in Cases /\ 1 \in 1 .. N /\ 1 \in DOMAIN Progs
    BY ProgNames, TreeAssumption, CountAssumption
  <2>2. times \in [ToSet(Progs) -> Seq(Durations)]
    BY NoTimesFacts DEF Init
  <2>3. log.whole \in BOOLEAN
    <3>1. CASE log = [whole |-> FALSE, data |-> << >>]
      BY <3>1, Zenon
    <3>2. CASE log = [whole |-> TRUE, data |-> Earlier]
      BY <3>2, Zenon
    <3>3. QED
      BY <3>1, <3>2 DEF Init
  <2>4. QED
    BY <2>1, <2>2, <2>3 DEF Init, TypeOK
<1>2. Timed /\ Fresh
  BY DEF Init, Timed, Fresh, InCase
<1>3. Lists
  BY NoTimesFacts DEF Init, Lists, Runs, InCase
<1>4. Collected
  BY DEF Init, Collected, InCase
<1>5. LogIsComplete
  <2>1. CASE log.whole
    <3>1. log.data = Earlier
      BY <2>1 DEF Init
    <3>2. QED
      BY <3>1, EarlierWhole DEF LogIsComplete
  <2>2. QED
    BY <2>1 DEF LogIsComplete
<1>6. QED
  BY <1>1, <1>2, <1>3, <1>4, <1>5 DEF ExpInv

\* main clears fs/: nothing is left of an earlier start.
LEMMA ClearFsStep == ExpInv /\ ClearFs => ExpInv'
<1> SUFFICES ASSUME ExpInv, ClearFs PROVE ExpInv'
  OBVIOUS
<1>1. TypeOK'
  BY DEF ExpInv, TypeOK, ClearFs
<1>2. Timed'
  BY DEF ExpInv, TypeOK, Timed, Fresh, ClearFs
<1>3. Fresh'
  BY DEF ExpInv, TypeOK, Fresh, InCase, ClearFs
<1>4. Lists'
  BY DEF ExpInv, TypeOK, Lists, Runs, InCase, ClearFs
<1>5. Collected'
  BY DEF ExpInv, TypeOK, Collected, InCase, ClearFs
<1>6. LogIsComplete'
  BY DEF ExpInv, LogIsComplete, ClearFs
<1>7. QED
  BY <1>1, <1>2, <1>3, <1>4, <1>5, <1>6 DEF ExpInv

\* The source of a test case is made.
LEMMA MakeSrcStep == ExpInv /\ MakeSrc => ExpInv'
<1> SUFFICES ASSUME ExpInv, MakeSrc PROVE ExpInv'
  OBVIOUS
<1>1. TypeOK'
  BY DEF ExpInv, TypeOK, MakeSrc
<1>2. Timed'
  BY DEF ExpInv, TypeOK, Timed, Fresh, MakeSrc
<1>3. Fresh'
  BY TreeAssumption DEF ExpInv, TypeOK, Fresh, InCase, MakeSrc
<1>4. Lists'
  BY ProgsFacts DEF ExpInv, TypeOK, Lists, Runs, InCase, MakeSrc
<1>5. Collected'
  BY DEF ExpInv, TypeOK, Collected, InCase, MakeSrc
<1>6. LogIsComplete'
  BY DEF ExpInv, LogIsComplete, MakeSrc
<1>7. QED
  BY <1>1, <1>2, <1>3, <1>4, <1>5, <1>6 DEF ExpInv

\* A copy program runs.
LEMMA RunStep == ExpInv /\ Run => ExpInv'
<1> SUFFICES ASSUME ExpInv, Run PROVE ExpInv'
  OBVIOUS
<1>1. TypeOK'
  BY DEF ExpInv, TypeOK, Run
<1>2. Timed'
  BY DEF ExpInv, TypeOK, Timed, Fresh, Run
<1>3. Fresh'
  BY DEF ExpInv, TypeOK, Fresh, InCase, Run
<1>4. Lists'
  BY DEF ExpInv, TypeOK, Lists, Runs, InCase, Run
<1>5. Collected'
  BY DEF ExpInv, TypeOK, Collected, InCase, Run
<1>6. LogIsComplete'
  BY DEF ExpInv, LogIsComplete, Run
<1>7. QED
  BY <1>1, <1>2, <1>3, <1>4, <1>5, <1>6 DEF ExpInv

\* The copy is compared.
LEMMA CheckStep == ExpInv /\ Check => ExpInv'
<1> SUFFICES ASSUME ExpInv, Check PROVE ExpInv'
  OBVIOUS
<1>1. TypeOK'
  <2>1. verdict' \in BOOLEAN
    BY DEF Check, is_same
  <2>2. QED
    BY <2>1 DEF ExpInv, TypeOK, Check
<1>2. Timed'
  BY DEF ExpInv, TypeOK, Timed, Fresh, Check
<1>3. Fresh'
  BY DEF ExpInv, TypeOK, Fresh, InCase, Check
<1>4. Lists'
  BY DEF ExpInv, TypeOK, Lists, Runs, InCase, Check
<1>5. Collected'
  BY DEF ExpInv, TypeOK, Collected, InCase, Check
<1>6. LogIsComplete'
  BY DEF ExpInv, LogIsComplete, Check
<1>7. QED
  BY <1>1, <1>2, <1>3, <1>4, <1>5, <1>6 DEF ExpInv

\* The copy is removed and the time noted: one list grows by one.
LEMMA RemoveDestStep == ExpInv /\ RemoveDest => ExpInv'
<1> SUFFICES ASSUME ExpInv, RemoveDest PROVE ExpInv'
  OBVIOUS
<1>1. TypeOK'
  <2>1. times' \in [ToSet(Progs) -> Seq(Durations)]
    <3>1. time \in Durations /\ times \in [ToSet(Progs) -> Seq(Durations)]
      BY DEF ExpInv, Timed, TypeOK, RemoveDest
    <3>2. times' = [times EXCEPT ![prog] = Append(@, time)]
      BY DEF RemoveDest
    <3>3. prog \in ToSet(Progs)
      BY ProgsFacts DEF ExpInv, TypeOK, prog
    <3>4. QED
      BY <3>1, <3>2, <3>3
  <2>2. iter' \in 1 .. N /\ p' \in DOMAIN Progs
    BY ProgsFacts, CountAssumption
    DEF ExpInv, TypeOK, RemoveDest, NextRun, NextIter
  <2>3. pc' \in {"run", "clean"}
    BY DEF RemoveDest, NextRun
  <2>4. QED
    BY <2>1, <2>2, <2>3 DEF ExpInv, TypeOK, RemoveDest
<1>2. Timed'
  BY DEF ExpInv, TypeOK, Timed, Fresh, RemoveDest, NextRun, NextIter, Removed
<1>3. Fresh'
  BY DEF ExpInv, TypeOK, Fresh, InCase, RemoveDest, NextRun, NextIter, Removed
<1>4. Lists'
  <2>1. /\ pc = "remove" /\ iter \in 1 .. N /\ p \in 1 .. Len(Progs)
        /\ times \in [ToSet(Progs) -> Seq(Durations)] /\ time \in Durations
        /\ \A i \in DOMAIN Progs : Len(times[Progs[i]]) = IF i < p THEN iter ELSE iter - 1
    BY ProgsFacts DEF ExpInv, TypeOK, Timed, Lists, Runs, InCase, RemoveDest
  <2>2. /\ times' = [times EXCEPT ![prog] = Append(@, time)]
        /\ prog \in ToSet(Progs) /\ prog = Progs[p]
    BY <2>1, ProgsFacts DEF RemoveDest, prog
  <2>3. ASSUME NEW i \in DOMAIN Progs
        PROVE  Len(times'[Progs[i]]) = IF i <= p THEN iter ELSE iter - 1
    <3>1. CASE i = p
      <4>1. times'[prog] = Append(times[prog], time)
        BY <2>1, <2>2
      <4>2. Len(times'[prog]) = Len(times[prog]) + 1
        BY <4>1, <2>1, <2>2
      <4>3. Len(times[prog]) = iter - 1
        <5>1. p \in DOMAIN Progs /\ ~(p < p)
          BY <2>1, ProgsFacts
        <5>2. Len(times[Progs[p]]) = iter - 1
          BY <2>1, <5>1
        <5>3. QED
          BY <2>2, <5>2
      <4>4. QED
        BY <4>2, <4>3, <3>1, <2>1, <2>2, CountAssumption
    <3>2. CASE i # p
      <4>1. Progs[i] # prog
        BY <3>2, <2>1, <2>2, ProgsFacts
      <4>2. times'[Progs[i]] = times[Progs[i]]
        BY <4>1, <2>1, <2>2, ProgsFacts
      <4>3. QED
        BY <4>2, <3>2, <2>1, ProgsFacts
    <3>3. QED
      BY <3>1, <3>2
  <2>4. CASE p < Len(Progs)
    BY <2>1, <2>3, <2>4, ProgsFacts DEF Lists, Runs, InCase, RemoveDest, NextRun
  <2>5. CASE p = Len(Progs) /\ iter < N
    BY <2>1, <2>3, <2>5, ProgsFacts DEF Lists, Runs, InCase, RemoveDest, NextRun, NextIter
  <2>6. CASE p = Len(Progs) /\ iter = N
    BY <2>1, <2>3, <2>6, ProgsFacts DEF Lists, Runs, InCase, RemoveDest, NextRun, NextIter
  <2>7. \/ p < Len(Progs)
        \/ p = Len(Progs) /\ (iter < N \/ iter = N)
    <3>1. Len(Progs) \in Nat /\ N \in Nat /\ iter \in 1 .. N /\ p \in 1 .. Len(Progs)
      BY <2>1, ProgsFacts, CountAssumption
    <3>2. QED
      BY <3>1
  <2>8. QED
    BY <2>4, <2>5, <2>6, <2>7
<1>5. Collected'
  BY DEF ExpInv, TypeOK, Collected, InCase, RemoveDest, NextRun, NextIter, Removed
<1>6. LogIsComplete'
  BY DEF ExpInv, LogIsComplete, RemoveDest, NextRun, NextIter, Removed
<1>7. QED
  BY <1>1, <1>2, <1>3, <1>4, <1>5, <1>6 DEF ExpInv

\* A test case is over: its lists are full, and the next one's are empty.
LEMMA CleanUpStep == ExpInv /\ CleanUp => ExpInv'
<1> SUFFICES ASSUME ExpInv, CleanUp PROVE ExpInv'
  OBVIOUS
<1>1. TypeOK'
  <2>1. times' \in [ToSet(Progs) -> Seq(Durations)]
    BY NoTimesFacts DEF CleanUp, Emptied
  <2>2. case' \in Cases /\ pc' \in {"setup", "open_log"}
    BY TreeAssumption DEF ExpInv, TypeOK, CleanUp
  <2>3. srcs' \subseteq Cases
    BY DEF ExpInv, TypeOK, CleanUp
  <2>4. QED
    BY <2>1, <2>2, <2>3 DEF ExpInv, TypeOK, CleanUp
<1>2. Timed'
  BY DEF ExpInv, TypeOK, Timed, Fresh, CleanUp, Emptied
<1>3. Fresh'
  BY DEF ExpInv, TypeOK, Fresh, InCase, CleanUp, Emptied
<1>4. Lists'
  BY NoTimesFacts DEF ExpInv, TypeOK, Lists, Runs, InCase, CleanUp, Emptied
<1>5. Collected'
  <2> DEFINE new == [case_id |-> case, base |-> times[cp],
                     ours |-> [b \in ToSet(BatchSizes) |-> times[b]]]
  <2>1. /\ pc = "clean" /\ case \in 1 .. Len(Tree) /\ results \in Seq(Results)
        /\ Len(results) = case - 1 /\ results' = Append(results, new)
        /\ times \in [ToSet(Progs) -> Seq(Durations)]
    BY TreeAssumption DEF ExpInv, TypeOK, Collected, InCase, CleanUp
  <2>2. \A i \in DOMAIN Progs : Len(times[Progs[i]]) = N
    BY <2>1 DEF ExpInv, Lists, Runs, InCase
  <2>3. new \in Results
    BY <2>1, ProgNames, TreeAssumption DEF Results
  <2>4. Whole(new, case)
    <3>1. Len(times[cp]) = N
      BY <2>2, ProgsFacts, ProgNames
    <3>2. \A b \in ToSet(BatchSizes) : Len(times[b]) = N
      BY <2>2, ProgsFacts
    <3>3. QED
      BY <3>1, <3>2 DEF Whole
  <2> HIDE DEF new
  <2>5. results' \in Seq(Results) /\ Len(results') = case
    BY <2>1, <2>3, TreeAssumption
  <2>6. ASSUME NEW c \in 1 .. Len(results') PROVE Whole(results'[c], c)
    <3>1. CASE c = case
      <4>1. results'[c] = new
        BY <3>1, <2>1, <2>3, TreeAssumption
      <4>2. QED
        BY <4>1, <3>1, <2>4
    <3>2. CASE c # case
      <4>1. c \in 1 .. Len(results) /\ results'[c] = results[c]
        BY <3>2, <2>1, <2>3, <2>5, TreeAssumption
      <4>2. QED
        BY <4>1 DEF ExpInv, Collected
    <3>3. QED
      BY <3>1, <3>2
  <2>7. \/ case < Len(Tree) /\ case' = case + 1 /\ pc' = "setup"
        \/ case = Len(Tree) /\ pc' = "open_log"
    BY <2>1, TreeAssumption DEF CleanUp
  <2>8. QED
    BY <2>1, <2>5, <2>6, <2>7, TreeAssumption DEF Collected, InCase
<1>6. LogIsComplete'
  BY DEF ExpInv, LogIsComplete, CleanUp, Emptied
<1>7. QED
  BY <1>1, <1>2, <1>3, <1>4, <1>5, <1>6 DEF ExpInv

\* The log is emptied.
LEMMA OpenLogStep == ExpInv /\ OpenLog => ExpInv'
<1> SUFFICES ASSUME ExpInv, OpenLog PROVE ExpInv'
  OBVIOUS
<1>1. TypeOK'
  BY DEF ExpInv, TypeOK, OpenLog
<1>2. Timed'
  BY DEF ExpInv, TypeOK, Timed, Fresh, OpenLog
<1>3. Fresh'
  BY DEF ExpInv, TypeOK, Fresh, InCase, OpenLog
<1>4. Lists'
  BY DEF ExpInv, TypeOK, Lists, Runs, InCase, OpenLog
<1>5. Collected'
  BY DEF ExpInv, TypeOK, Collected, InCase, OpenLog
<1>6. LogIsComplete'
  BY DEF ExpInv, LogIsComplete, OpenLog
<1>7. QED
  BY <1>1, <1>2, <1>3, <1>4, <1>5, <1>6 DEF ExpInv

\* The results of all test cases go to the log.
LEMMA DumpStep == ExpInv /\ Dump => ExpInv'
<1> SUFFICES ASSUME ExpInv, Dump PROVE ExpInv'
  OBVIOUS
<1>1. TypeOK'
  BY DEF ExpInv, TypeOK, Dump
<1>2. Timed'
  BY DEF ExpInv, TypeOK, Timed, Fresh, Dump
<1>3. Fresh'
  BY DEF ExpInv, TypeOK, Fresh, InCase, Dump
<1>4. Lists'
  BY DEF ExpInv, TypeOK, Lists, Runs, InCase, Dump
<1>5. Collected'
  BY DEF ExpInv, TypeOK, Collected, InCase, Dump
<1>6. LogIsComplete'
  <2>1. Len(results) = Len(Tree) /\ \A c \in Cases : Whole(results[c], c)
    BY TreeAssumption DEF ExpInv, Collected, Dump
  <2>2. log'.data = results
    BY DEF Dump
  <2>3. QED
    BY <2>1, <2>2 DEF LogIsComplete, Whole
<1>7. QED
  BY <1>1, <1>2, <1>3, <1>4, <1>5, <1>6 DEF ExpInv

\* The program is gone, the directories and the log are not.
LEMMA DiedStep == ExpInv /\ Died => ExpInv'
<1> SUFFICES ASSUME ExpInv, Died PROVE ExpInv'
  OBVIOUS
<1>1. TypeOK'
  <2>1. 1 \in Cases /\ 1 \in 1 .. N /\ 1 \in DOMAIN Progs
    BY ProgNames, TreeAssumption, CountAssumption
  <2>2. times' \in [ToSet(Progs) -> Seq(Durations)]
    BY NoTimesFacts DEF Died
  <2>3. QED
    BY <2>1, <2>2 DEF ExpInv, TypeOK, Died
<1>2. Timed'
  BY DEF ExpInv, TypeOK, Timed, Fresh, Died
<1>3. Fresh'
  BY DEF ExpInv, TypeOK, Fresh, InCase, Died
<1>4. Lists'
  BY NoTimesFacts DEF Lists, Runs, InCase, Died
<1>5. Collected'
  BY DEF ExpInv, TypeOK, Collected, InCase, Died
<1>6. LogIsComplete'
  BY DEF ExpInv, LogIsComplete, Died
<1>7. QED
  BY <1>1, <1>2, <1>3, <1>4, <1>5, <1>6 DEF ExpInv

\* The program is started again.
LEMMA RestartStep == ExpInv /\ Restart => ExpInv'
<1> SUFFICES ASSUME ExpInv, Restart PROVE ExpInv'
  OBVIOUS
<1>1. TypeOK'
  BY DEF ExpInv, TypeOK, Restart
<1>2. Timed'
  BY DEF ExpInv, TypeOK, Timed, Fresh, Restart
<1>3. Fresh'
  BY DEF ExpInv, TypeOK, Fresh, InCase, Restart
<1>4. Lists'
  BY DEF ExpInv, TypeOK, Lists, Runs, InCase, Restart
<1>5. Collected'
  BY DEF ExpInv, TypeOK, Collected, InCase, Restart
<1>6. LogIsComplete'
  BY DEF ExpInv, LogIsComplete, Restart
<1>7. QED
  BY <1>1, <1>2, <1>3, <1>4, <1>5, <1>6 DEF ExpInv

\* parse_log.py changes nothing but the votes.
LEMMA ParseStep == ExpInv /\ Parse => ExpInv'
<1> SUFFICES ASSUME ExpInv, Parse PROVE ExpInv'
  OBVIOUS
<1>1. TypeOK'
  BY DEF ExpInv, TypeOK, Parse
<1>2. Timed'
  BY DEF ExpInv, TypeOK, Timed, Fresh, Parse
<1>3. Fresh'
  BY DEF ExpInv, TypeOK, Fresh, InCase, Parse
<1>4. Lists'
  BY DEF ExpInv, TypeOK, Lists, Runs, InCase, Parse
<1>5. Collected'
  BY DEF ExpInv, TypeOK, Collected, InCase, Parse
<1>6. LogIsComplete'
  BY DEF ExpInv, LogIsComplete, Parse
<1>7. QED
  BY <1>1, <1>2, <1>3, <1>4, <1>5, <1>6 DEF ExpInv

\* Every step, crashes included, preserves the invariant.
LEMMA ExpStep == ExpInv /\ [Next]_vars => ExpInv'
<1> SUFFICES ASSUME ExpInv, [Next]_vars PROVE ExpInv'
  OBVIOUS
<1>1. CASE ClearFs
  BY <1>1, ClearFsStep
<1>2. CASE MakeSrc
  BY <1>2, MakeSrcStep
<1>3. CASE Run
  BY <1>3, RunStep
<1>4. CASE Check
  BY <1>4, CheckStep
<1>5. CASE CheckRaises
  BY <1>5, DiedStep DEF CheckRaises
<1>6. CASE RemoveDest
  BY <1>6, RemoveDestStep
<1>7. CASE CleanUp
  BY <1>7, CleanUpStep
<1>8. CASE OpenLog
  BY <1>8, OpenLogStep
<1>9. CASE Dump
  BY <1>9, DumpStep
<1>10. CASE Crash
  BY <1>10, DiedStep DEF Crash
<1>11. CASE Restart
  BY <1>11, RestartStep
<1>12. CASE Parse
  BY <1>12, ParseStep
<1>13. CASE UNCHANGED vars
  <2>1. UNCHANGED <<srcs, dest, log, starts, pc, case, iter, p, time, copied, verdict,
                    times, results>>
    BY <1>13 DEF vars
  <2>2. TypeOK' /\ Timed' /\ Fresh' /\ LogIsComplete'
    BY <2>1 DEF ExpInv, TypeOK, Timed, Fresh, LogIsComplete
  <2>3. Lists' /\ Collected'
    BY <2>1 DEF ExpInv, Lists, Runs, Collected
  <2>4. QED
    BY <2>2, <2>3 DEF ExpInv
<1>14. QED
  BY <1>1, <1>2, <1>3, <1>4, <1>5, <1>6, <1>7, <1>8, <1>9, <1>10, <1>11, <1>12, <1>13
  DEF Next, ExpNext, Terminated
-----------------------------------------------------------------------------
(* The invariant of exp.py, through crashes and restarts. *)
THEOREM ExpInductive == Spec => []ExpInv
<1>1. QED
  BY ExpInit, ExpStep, PTL DEF Spec

(* Every variable of the program, and what it leaves on the disk, has its type. *)
THEOREM ExpTypeCorrect == Spec => []TypeOK
<1>1. ExpInv => TypeOK
  BY DEF ExpInv
<1>2. QED
  BY <1>1, ExpInductive, PTL

(* Each run starts from a source that was just made and no destination, however
   often the program was killed before (exp.py:72, 91, 100, 129). *)
THEOREM DirectoriesCorrect == Spec => []DirectoriesAreNew
<1>1. ExpInv => DirectoriesAreNew
  <2> SUFFICES ASSUME ExpInv PROVE DirectoriesAreNew
    OBVIOUS
  <2>1. pc = "setup" => case \notin srcs
    BY TreeAssumption DEF ExpInv, TypeOK, Fresh
  <2>2. QED
    BY <2>1 DEF ExpInv, Fresh, InCase, DirectoriesAreNew
<1>2. QED
  BY <1>1, ExpInductive, PTL

(* What is compared was made by the run that was timed (exp.py:88-92, 97-101). *)
THEOREM VerdictCorrect == Spec => []VerdictIsOfThisRun
<1>1. ExpInv => VerdictIsOfThisRun
  BY DEF ExpInv, Timed, VerdictIsOfThisRun
<1>2. QED
  BY <1>1, ExpInductive, PTL

(* A log that can be read has N times of every program in every test case. *)
THEOREM LogCorrect == Spec => []LogIsComplete
<1>1. ExpInv => LogIsComplete
  BY DEF ExpInv
<1>2. QED
  BY <1>1, ExpInductive, PTL
-----------------------------------------------------------------------------
(* The comparison of exp.py, for trees of any depth. *)

\* A path is longer than that of the directory it lies in.
LEMMA FrontShorter ==
  ASSUME NEW f, f \in Seq(ToSet(f)), f # << >>
  PROVE  Len(Front(f)) \in Nat /\ Len(f) \in Nat /\ Len(Front(f)) < Len(f)
<1>1. PICK S : S = ToSet(f)
  OBVIOUS
<1>2. f \in Seq(S) /\ Len(f) \in Nat \ {0}
  BY <1>1
<1>3. PICK g : g = SubSeq(f, 1, Len(f) - 1)
  OBVIOUS
<1>4. Len(g) = Len(f) - 1
  <2>1. PICK n : n = Len(f) - 1
    OBVIOUS
  <2>2. n \in Nat /\ n <= Len(f)
    BY <1>2, <2>1
  <2>3. Len(SubSeq(f, 1, n)) = n
    BY <1>2, <2>2
  <2>4. QED
    BY <1>3, <2>1, <2>3
<1>5. QED
  BY <1>2, <1>3, <1>4 DEF Front

\* Where every directory both trees have is the same in both, the directories of one
\* are directories of the other.
LEMMA SameDirs ==
  ASSUME NEW t, NEW u, IsTree(t), t.dirs \cap DOMAIN u.files = {},
         \A f \in t.dirs : Front(f) \in {<< >>} \cup (t.dirs \cap u.dirs)
                             => f \in u.dirs \cup DOMAIN u.files
  PROVE  t.dirs \subseteq u.dirs
<1> SUFFICES ASSUME t.dirs \ u.dirs # {} PROVE FALSE
  OBVIOUS
<1> DEFINE T == {Len(f) : f \in t.dirs \ u.dirs}
<1>1. \A f \in t.dirs : /\ f # << >> /\ Front(f) \in {<< >>} \cup t.dirs
                        /\ Len(Front(f)) \in Nat /\ Len(f) \in Nat /\ Len(Front(f)) < Len(f)
  BY FrontShorter DEF IsTree
<1>2. T \in SUBSET Nat /\ T # {}
  <2>1. \A n \in T : n \in Nat
    BY <1>1
  <2>2. PICK f : f \in t.dirs \ u.dirs
    OBVIOUS
  <2>3. Len(f) \in T
    BY <2>2
  <2>4. QED
    BY <2>1, <2>3
<1>3. PICK m \in T : \A k \in T : ~(k < m)
  <2> HIDE DEF T
  <2> QED
    BY <1>2, Least
<1>4. PICK f \in t.dirs \ u.dirs : m = Len(f)
  OBVIOUS
<1>5. Front(f) \in t.dirs => Front(f) \in u.dirs
  <2> SUFFICES ASSUME Front(f) \in t.dirs, Front(f) \notin u.dirs PROVE FALSE
    OBVIOUS
  <2>1. Len(Front(f)) \in T
    OBVIOUS
  <2>2. QED
    BY <1>1, <1>3, <1>4, <2>1
<1>6. QED
  BY <1>1, <1>4, <1>5

\* is_same compares no directory with a file of its name, and looks only into what
\* both trees have; still it tells any two trees apart.
LEMMA SameIsEqual ==
  ASSUME NEW t, NEW u, IsTree(t), IsTree(u),
         t.dirs \cap DOMAIN u.files = {}, u.dirs \cap DOMAIN t.files = {}
  PROVE  is_same(t, u) <=> t = u
<1>1. ASSUME t = u PROVE is_same(t, u)
  BY <1>1 DEF is_same, SameLevel, In
<1>2. ASSUME is_same(t, u) PROVE t = u
  <2>1. ASSUME NEW f, Front(f) \in {<< >>} \cup (t.dirs \cap u.dirs)
        PROVE  /\ f \in t.dirs \cup DOMAIN t.files <=> f \in u.dirs \cup DOMAIN u.files
               /\ f \in DOMAIN t.files \cap DOMAIN u.files => t.files[f] = u.files[f]
    BY <1>2, <2>1 DEF is_same, SameLevel, In
  <2>2. t.dirs \subseteq u.dirs
    BY <2>1, SameDirs
  <2>3. u.dirs \subseteq t.dirs
    BY <2>1, SameDirs
  <2>4. t.dirs = u.dirs
    BY <2>2, <2>3
  <2>5. \A f \in DOMAIN t.files \cup DOMAIN u.files :
          Front(f) \in {<< >>} \cup (t.dirs \cap u.dirs)
    BY <2>4 DEF IsTree
  <2>6. DOMAIN t.files = DOMAIN u.files
    BY <2>1, <2>5
  <2>7. \A f \in DOMAIN t.files : t.files[f] = u.files[f]
    BY <2>1, <2>5, <2>6
  <2>8. [f \in DOMAIN t.files |-> t.files[f]] = [f \in DOMAIN u.files |-> u.files[f]]
    BY <2>6, <2>7
  <2>9. QED
    BY <2>4, <2>8 DEF IsTree
<1>3. QED
  BY <1>1, <1>2

\* What is compared is a copy of this test case, right or wrong.
Compared ==
  /\ pc \in {"check", "remove"} => dest[case] \in {{}} \cup {{t} : t \in Copies(case)}
  /\ VerdictIsRight

LEMMA ComparedStep == ExpInv /\ Compared /\ [Next]_vars => Compared'
<1> SUFFICES ASSUME ExpInv, Compared, [Next]_vars PROVE Compared'
  OBVIOUS
<1>1. CASE Run
  <2>1. dest[case] = {} /\ case \in Cases /\ DOMAIN dest = Cases
    BY <1>1 DEF ExpInv, TypeOK, Fresh, Run
  <2>2. PICK d \in Outcomes(case) : dest' = [dest EXCEPT ![case] = d]
    BY <1>1 DEF Run
  <2>3. d \in {{}} \cup {{t} : t \in Copies(case)}
    BY <2>1, <2>2 DEF Outcomes
  <2>4. pc' = "check" /\ case' = case /\ dest'[case] = d
    BY <1>1, <2>1, <2>2 DEF Run
  <2>5. QED
    BY <2>3, <2>4 DEF Compared, VerdictIsRight
<1>2. CASE Check
  <2>1. PICK t \in dest[case] : verdict' = is_same(Tree[case], t)
    BY <1>2 DEF Check
  <2>2. pc = "check" /\ pc' = "remove" /\ UNCHANGED <<dest, case>> /\ case \in Cases
    BY <1>2 DEF Check, ExpInv, TypeOK
  <2>3. t \in Copies(case) /\ dest[case] = {t}
    BY <2>1, <2>2 DEF Compared
  <2>4. is_same(Tree[case], t) <=> Tree[case] = t
    <3>1. IsTree(Tree[case]) /\ IsTree(t)
      BY <2>2, <2>3, ShapeAssumption DEF Copies
    <3>2. Tree[case].dirs \cap DOMAIN t.files = {} /\ t.dirs \cap DOMAIN Tree[case].files = {}
      BY <2>2, <2>3, ShapeAssumption
    <3>3. QED
      BY <3>1, <3>2, SameIsEqual
  <2>5. verdict' <=> dest[case] = {Tree[case]}
    BY <2>1, <2>3, <2>4
  <2>6. QED
    BY <2>2, <2>3, <2>5 DEF Compared, VerdictIsRight
<1>3. CASE ClearFs \/ MakeSrc \/ CheckRaises \/ RemoveDest \/ CleanUp \/ OpenLog \/ Dump
           \/ Crash \/ Restart \/ Parse
  <2>1. pc' \notin {"check", "remove"}
    BY <1>3 DEF ClearFs, MakeSrc, CheckRaises, RemoveDest, NextRun, CleanUp, OpenLog, Dump,
                Crash, Died, Restart, Parse
  <2>2. QED
    BY <2>1 DEF Compared, VerdictIsRight
<1>4. CASE UNCHANGED vars
  BY <1>4 DEF vars, Compared, VerdictIsRight
<1>5. QED
  BY <1>1, <1>2, <1>3, <1>4 DEF Next, ExpNext, Terminated

(* The sanity check fails exactly for the copies that differ from the source, at any
   depth: looking level by level into the directories both have misses nothing
   (exp.py:55-63). *)
THEOREM VerdictRightCorrect == Spec => []VerdictIsRight
<1>1. Init => Compared
  BY DEF Init, Compared, VerdictIsRight
<1>2. Compared => VerdictIsRight
  BY DEF Compared
<1>3. QED
  BY <1>1, <1>2, ExpInductive, ComparedStep, PTL DEF Spec
-----------------------------------------------------------------------------
(* The votes of parse_log.py, for any times. *)

\* A time in total is a number.
LEMMA TotalIsNat ==
  ASSUME NEW ts \in Seq(Nat)
  PROVE  Total(ts) \in Nat
<1> DEFINE m == Len(ts)
           D == 1 .. m
           Body(it, s) == IF s = {} THEN 0
                          ELSE it[s \ {Max(s)}] + ts[Max(s)]
           step == [u \in Nat \X D |-> u[1] + ts[u[2]]]
           total == CHOOSE it : it = [s \in SUBSET D |-> Body(it, s)]
<1>1. m \in Nat /\ DOMAIN ts = D /\ D \in SUBSET (0 .. m) /\ 0 \in Nat /\ \A i \in D : ts[i] \in Nat
  OBVIOUS
<1>2. Total(ts) = total[D]
  BY <1>1, Zenon DEF Total, FoldLeft, MapThenFoldSet
<1>3. step \in [Nat \X D -> Nat]
  BY <1>1
<1>4. \A n \in Nat, i \in D : step[<<n, i>>] = n + ts[i]
  OBVIOUS
<1>5. ASSUME NEW s \in SUBSET D, s # {}
      PROVE  Max(s) \in D /\ s \ {Max(s)} \in SUBSET D
  <2>1. s \in SUBSET (0 .. m)
    BY <1>1
  <2>2. Max(s) \in s
    BY <2>1, <1>1, <1>5, MaxIsGreatest
  <2>3. QED
    BY <2>2
<1> HIDE DEF step, D, m
<1>6. PICK F \in [SUBSET D -> Nat] : IsLoop(F, D, 0, step)
  BY <1>1, <1>3, LoopExists
<1>7. ASSUME NEW s \in SUBSET D PROVE F[s] = Body(F, s)
  <2>1. CASE s = {}
    BY <1>6, <2>1 DEF IsLoop
  <2>2. CASE s # {}
    <3>1. Max(s) \in D /\ F[s \ {Max(s)}] \in Nat
      BY <1>5, <1>6, <2>2
    <3>2. F[s] = step[<<F[s \ {Max(s)}], Max(s)>>]
      BY <1>6, <2>2 DEF IsLoop
    <3>3. QED
      BY <3>1, <3>2, <1>4, <2>2
  <2>3. QED
    BY <2>1, <2>2
<1>8. total = [s \in SUBSET D |-> Body(total, s)]
  <2>1. F = [s \in SUBSET D |-> F[s]]
    OBVIOUS
  <2>2. F = [s \in SUBSET D |-> Body(F, s)]
    BY <2>1, <1>7
  <2> HIDE DEF Body
  <2>3. \E it : it = [s \in SUBSET D |-> Body(it, s)]
    BY <2>2
  <2>4. QED
    BY <2>3
<1>9. \A s \in SUBSET D : total[s] = Body(total, s)
  <2> HIDE DEF Body, total
  <2>1. QED
    BY <1>8
<1> HIDE DEF total
<1>10. total[{}] = 0
  BY <1>9
<1>11. BehavesAsLoop(total, D, Nat, 0, step)
  BY <1>4, <1>5, <1>9, <1>10 DEF BehavesAsLoop
<1>12. \A s \in SUBSET D : total[s] \in Nat
  BY <1>1, <1>3, <1>11, LoopTyped
<1>13. QED
  BY <1>2, <1>12

\* No batch size of s was faster than b, and none that is smaller as fast.
Leads(ours, s, b) ==
  \A x \in s : /\ Total(ours[b]) <= Total(ours[x])
               /\ x < b => Total(ours[b]) < Total(ours[x])

\* Of as many times each the totals are compared.
LEMMA FasterIsLess ==
  ASSUME NEW n \in Nat \ {0}, NEW xs \in Seq(Nat), NEW ys \in Seq(Nat),
         Len(xs) = n, Len(ys) = n
  PROVE  Faster(xs, ys) <=> Total(xs) < Total(ys)
<1>1. PICK a, b : a = Total(xs) /\ b = Total(ys) /\ a \in Nat /\ b \in Nat
  BY TotalIsNat
<1>2. Faster(xs, ys) <=> a * n < b * n
  BY <1>1 DEF Faster
<1>3. a < b => a * n < b * n
  <2>1. ASSUME a < b PROVE a * n < b * n
    <3>1. PICK d : d = b - a /\ d \in Nat \ {0}
      BY <1>1, <2>1
    <3>2. b * n = a * n + d * n
      BY <3>1, <1>1
    <3>3. d * n > 0
      BY <3>1
    <3>4. a * n \in Int /\ d * n \in Int
      BY <1>1, <3>1
    <3>5. QED
      BY <3>2, <3>3, <3>4
  <2>2. QED
    BY <2>1
<1>4. b <= a => b * n <= a * n
  <2>1. ASSUME b <= a PROVE b * n <= a * n
    <3>1. PICK d : d = a - b /\ d \in Nat
      BY <1>1, <2>1
    <3>2. a * n = b * n + d * n
      BY <3>1, <1>1
    <3>3. d * n >= 0
      BY <3>1
    <3>4. b * n \in Int /\ d * n \in Int
      BY <1>1, <3>1
    <3>5. QED
      BY <3>2, <3>3, <3>4
  <2>2. QED
    BY <2>1
<1>5. a * n \in Int /\ b * n \in Int
  BY <1>1
<1>6. QED
  BY <1>1, <1>2, <1>3, <1>4, <1>5

\* What the loop over the batch sizes finds.
LEMMA BestLeads ==
  ASSUME NEW m \in Nat, NEW K \in SUBSET (0 .. m), NEW n \in Nat \ {0},
         NEW ours \in [K -> Seq(Nat)], \A b \in K : Len(ours[b]) = n
  PROVE  IF K = {} THEN best_batch(ours) = -1
                   ELSE best_batch(ours) \in K /\ Leads(ours, K, best_batch(ours))
<1> DEFINE V == K \cup {-1}
           Pick(best, b) ==
             IF best = -1 \/ Faster(ours[b], ours[best]) THEN b ELSE best
           Body(it, s) == IF s = {} THEN -1 ELSE Pick(it[s \ {Max(s)}], Max(s))
           step == [u \in V \X K |-> Pick(u[1], u[2])]
           best == CHOOSE it : it = [s \in SUBSET K |-> Body(it, s)]
<1>1. DOMAIN ours = K /\ -1 \in V
  OBVIOUS
<1>2. best_batch(ours) = best[K]
  BY <1>1, Zenon DEF best_batch, MapThenFoldSet
<1>3. \A v \in V, b \in K : Pick(v, b) \in V
  OBVIOUS
<1>4. \A v \in V, b \in K : step[<<v, b>>] = Pick(v, b)
  OBVIOUS
<1>5. step \in [V \X K -> V]
  BY <1>3
<1>6. ASSUME NEW s \in SUBSET K, s # {}
      PROVE  /\ Max(s) \in K /\ Max(s) \in s /\ s \ {Max(s)} \in SUBSET K
             /\ \A x \in s \ {Max(s)} : x < Max(s)
  <2>1. s \in SUBSET (0 .. m)
    OBVIOUS
  <2>2. QED
    BY <2>1, <1>6, WithoutMax
<1> HIDE DEF V, step, Pick
<1>7. PICK F \in [SUBSET K -> V] : IsLoop(F, K, -1, step)
  BY <1>1, <1>5, LoopExists
<1>8. ASSUME NEW s \in SUBSET K PROVE F[s] = Body(F, s)
  <2>1. CASE s = {}
    BY <1>7, <2>1 DEF IsLoop
  <2>2. CASE s # {}
    <3>1. Max(s) \in K /\ F[s \ {Max(s)}] \in V
      BY <1>6, <1>7, <2>2
    <3>2. F[s] = step[<<F[s \ {Max(s)}], Max(s)>>]
      BY <1>7, <2>2 DEF IsLoop
    <3>3. QED
      BY <3>1, <3>2, <1>4, <2>2
  <2>3. QED
    BY <2>1, <2>2
<1>9. best = [s \in SUBSET K |-> Body(best, s)]
  <2>1. F = [s \in SUBSET K |-> F[s]]
    OBVIOUS
  <2>2. F = [s \in SUBSET K |-> Body(F, s)]
    BY <2>1, <1>8
  <2> HIDE DEF Body
  <2>3. \E it : it = [s \in SUBSET K |-> Body(it, s)]
    BY <2>2
  <2>4. QED
    BY <2>3
<1>10. \A s \in SUBSET K : best[s] = Body(best, s)
  <2> HIDE DEF Body, best
  <2>1. QED
    BY <1>9
<1> HIDE DEF best
<1>11. best[{}] = -1
  BY <1>10
<1> DEFINE Good == {s \in SUBSET K : s # {} => best[s] \in s /\ Leads(ours, s, best[s])}
<1>12. ASSUME NEW s \in SUBSET K, s # {}, s \ {Max(s)} \in Good PROVE s \in Good
  <2>1. PICK t, b : t = s \ {Max(s)} /\ b = Max(s)
    OBVIOUS
  <2>2. b \in K /\ b \in Int /\ s = t \cup {b} /\ \A x \in t : x < b /\ x \in K /\ x \in Int
    <3>1. b \in s /\ b \in K /\ \A x \in t : x < b
      BY <1>6, <1>12, <2>1
    <3>2. s = t \cup {b} /\ t \subseteq K
      BY <3>1, <2>1
    <3>3. \A x \in K : x \in Int
      OBVIOUS
    <3>4. QED
      BY <3>1, <3>2, <3>3
  <2>3. best[s] = Pick(best[t], b)
    BY <1>10, <1>12, <2>1
  <2>4. \A x \in K : Total(ours[x]) \in Nat
    BY TotalIsNat
  <2>5. CASE t = {}
    <3>1. best[s] = b
      BY <2>3, <2>5, <1>11 DEF Pick
    <3>2. Leads(ours, s, b)
      BY <2>2, <2>4, <2>5 DEF Leads
    <3>3. QED
      BY <3>1, <3>2, <2>2
  <2>6. CASE t # {}
    <3>1. PICK c : c = best[t]
      OBVIOUS
    <3>2. c \in t /\ Leads(ours, t, c)
      BY <1>12, <2>1, <2>6, <3>1
    <3>3. c # -1 /\ c \in K
      BY <3>2, <2>2
    <3>4. Faster(ours[b], ours[c]) <=> Total(ours[b]) < Total(ours[c])
      BY <2>2, <3>3, FasterIsLess
    <3>5. best[s] = IF Total(ours[b]) < Total(ours[c]) THEN b ELSE c
      BY <2>3, <3>1, <3>3, <3>4 DEF Pick
    <3>6. Leads(ours, s, best[s])
      <4>1. CASE Total(ours[b]) < Total(ours[c])
        BY <4>1, <3>5, <3>2, <3>3, <2>2, <2>4 DEF Leads
      <4>2. CASE ~(Total(ours[b]) < Total(ours[c]))
        BY <4>2, <3>5, <3>2, <3>3, <2>2, <2>4 DEF Leads
      <4>3. QED
        BY <4>1, <4>2
    <3>7. best[s] \in s
      BY <3>5, <3>2, <2>2
    <3>8. QED
      BY <3>6, <3>7
  <2>7. QED
    BY <2>5, <2>6
<1>13. {} \in Good
  OBVIOUS
<1>14. K \in Good
  <2> HIDE DEF Good
  <2>1. \A s \in SUBSET K : s \in Good
    BY <1>12, <1>13, AscendingInduction
  <2>2. QED
    BY <2>1
<1>15. QED
  BY <1>2, <1>11, <1>14

\* A batch size has as many votes as there are test cases it is the best of.
LEMMA VotesCount ==
  ASSUME NEW S, NEW data \in Seq(S)
  PROVE  /\ DOMAIN batch_votes(data) =
              {best_batch(data[c].ours) : c \in 1 .. Len(data)}
         /\ \A b \in DOMAIN batch_votes(data) :
              batch_votes(data)[b] =
                Cardinality({c \in 1 .. Len(data) : best_batch(data[c].ours) = b})
<1> DEFINE m == Len(data)
           K == 1 .. m
           best(c) == best_batch(data[c].ours)
           B == {best(c) : c \in K}
           V == UNION {[D -> Nat] : D \in SUBSET B}
           Count(v, c) ==
             [x \in DOMAIN v \cup {best(c)} |->
                (IF x \in DOMAIN v THEN v[x] ELSE 0) + (IF x = best(c) THEN 1 ELSE 0)]
           Body(it, s) == IF s = {} THEN << >> ELSE Count(it[s \ {Max(s)}], Max(s))
           step == [u \in V \X K |-> Count(u[1], u[2])]
           count == CHOOSE it : it = [s \in SUBSET K |-> Body(it, s)]
<1>1. m \in Nat /\ DOMAIN data = K /\ K \in SUBSET (0 .. m)
  OBVIOUS
<1>2. batch_votes(data) = count[K]
  BY <1>1, Zenon DEF batch_votes, FoldLeft, MapThenFoldSet
<1>3. << >> \in V /\ DOMAIN << >> = {}
  <2>1. << >> \in [{} -> Nat]
    OBVIOUS
  <2>2. QED
    BY <2>1
<1>4. ASSUME NEW v \in V, NEW c \in K PROVE Count(v, c) \in V
  <2>1. PICK D \in SUBSET B : v \in [D -> Nat]
    OBVIOUS
  <2>2. D \cup {best(c)} \in SUBSET B /\ DOMAIN v = D
    BY <2>1
  <2> HIDE DEF best, B
  <2>3. Count(v, c) \in [D \cup {best(c)} -> Nat]
    BY <2>1, <2>2
  <2>4. QED
    BY <2>2, <2>3
<1>5. \A v \in V, c \in K : step[<<v, c>>] = Count(v, c)
  <2> HIDE DEF V, K, Count
  <2> QED
    OBVIOUS
<1>6. step \in [V \X K -> V]
  <2> HIDE DEF V, K, Count
  <2> QED
    BY <1>4
<1>7. ASSUME NEW s \in SUBSET K, s # {}
      PROVE  Max(s) \in K /\ Max(s) \in s /\ s \ {Max(s)} \in SUBSET K
  <2>1. s \in SUBSET (0 .. m)
    OBVIOUS
  <2>2. Max(s) \in s
    BY <2>1, <1>1, <1>7, MaxIsGreatest
  <2> HIDE DEF K
  <2>3. QED
    BY <2>2
<1> HIDE DEF V, step, Count, K, m
<1>8. PICK F \in [SUBSET K -> V] : IsLoop(F, K, << >>, step)
  BY <1>1, <1>3, <1>6, LoopExists
<1>9. ASSUME NEW s \in SUBSET K PROVE F[s] = Body(F, s)
  <2>1. CASE s = {}
    BY <1>8, <2>1 DEF IsLoop
  <2>2. CASE s # {}
    <3>1. Max(s) \in K /\ F[s \ {Max(s)}] \in V
      BY <1>7, <1>8, <2>2
    <3>2. F[s] = step[<<F[s \ {Max(s)}], Max(s)>>]
      BY <1>8, <2>2 DEF IsLoop
    <3>3. QED
      BY <3>1, <3>2, <1>5, <2>2
  <2>3. QED
    BY <2>1, <2>2
<1>10. count = [s \in SUBSET K |-> Body(count, s)]
  <2>1. F = [s \in SUBSET K |-> F[s]]
    OBVIOUS
  <2>2. F = [s \in SUBSET K |-> Body(F, s)]
    BY <2>1, <1>9
  <2> HIDE DEF Body
  <2>3. \E it : it = [s \in SUBSET K |-> Body(it, s)]
    BY <2>2
  <2>4. QED
    BY <2>3
<1>11. \A s \in SUBSET K : count[s] = Body(count, s)
  <2> HIDE DEF Body, count
  <2>1. QED
    BY <1>10
<1> HIDE DEF count
<1>12. count[{}] = << >>
  BY <1>11
<1> DEFINE Of(s, b) == {c \in s : best(c) = b}
           Good == {s \in SUBSET K :
                      /\ DOMAIN count[s] = {best(c) : c \in s}
                      /\ \A b \in DOMAIN count[s] : count[s][b] = Cardinality(Of(s, b))}
<1>13. ASSUME NEW s \in SUBSET K, s # {}, s \ {Max(s)} \in Good PROVE s \in Good
  <2>1. PICK t, j, v : t = s \ {Max(s)} /\ j = Max(s) /\ v = count[t]
    OBVIOUS
  <2>2. j \in K /\ j \notin t /\ s = t \cup {j} /\ t \in SUBSET K
    BY <1>7, <1>13, <2>1
  <2>3. /\ DOMAIN v = {best(c) : c \in t}
        /\ \A b \in DOMAIN v : v[b] = Cardinality(Of(t, b))
    BY <1>13, <2>1
  <2>4. count[s] = Count(v, j)
    BY <1>11, <1>13, <2>1
  <2>5. DOMAIN count[s] = DOMAIN v \cup {best(j)}
    BY <2>4 DEF Count
  <2>6. DOMAIN count[s] = {best(c) : c \in s}
    BY <2>5, <2>3, <2>2
  <2>7. ASSUME NEW b \in DOMAIN count[s] PROVE count[s][b] = Cardinality(Of(s, b))
    <3>1. count[s][b] = (IF b \in DOMAIN v THEN v[b] ELSE 0) + (IF b = best(j) THEN 1 ELSE 0)
      BY <2>4, <2>5, <2>7 DEF Count
    <3>2. IsFiniteSet(Of(t, b)) /\ Cardinality(Of(t, b)) \in Nat
      <4>1. IsFiniteSet(K)
        BY <1>1, FS_Interval DEF K
      <4>2. Of(t, b) \subseteq K
        BY <2>2
      <4>3. QED
        BY <4>1, <4>2, FS_Subset, FS_CardinalityType
    <3>3. (IF b \in DOMAIN v THEN v[b] ELSE 0) = Cardinality(Of(t, b))
      <4>1. CASE b \notin DOMAIN v
        <5>1. Of(t, b) = {}
          BY <4>1, <2>3
        <5>2. QED
          BY <5>1, <4>1, FS_EmptySet
      <4>2. QED
        BY <4>1, <2>3
    <3>4. CASE b = best(j)
      <4>1. Of(s, b) = Of(t, b) \cup {j} /\ j \notin Of(t, b)
        BY <2>2, <3>4
      <4>2. Cardinality(Of(s, b)) = Cardinality(Of(t, b)) + 1
        BY <4>1, <3>2, FS_AddElement
      <4>3. QED
        BY <4>2, <3>1, <3>3, <3>4
    <3>5. CASE b # best(j)
      <4>1. Of(s, b) = Of(t, b)
        BY <2>2, <3>5
      <4>2. count[s][b] = Cardinality(Of(t, b)) + 0
        BY <3>1, <3>3, <3>5
      <4>3. PICK k : k = Cardinality(Of(t, b)) /\ k \in Nat
        BY <3>2
      <4>4. count[s][b] = k
        BY <4>2, <4>3
      <4>5. QED
        BY <4>1, <4>3, <4>4
    <3>6. QED
      BY <3>4, <3>5
  <2>8. QED
    BY <2>6, <2>7
<1>14. {} \in Good
  BY <1>12, <1>3
<1>15. K \in Good
  <2> HIDE DEF Good
  <2>1. \A s \in SUBSET K : s \in Good
    BY <1>1, <1>13, <1>14, AscendingInduction
  <2>2. QED
    BY <2>1
<1>16. QED
  BY <1>2, <1>15 DEF K, m

\* A log that can be read holds results, of which parse_log.py counted the votes.
Parsed ==
  /\ log.whole => log.data \in Seq(Results)
  /\ pc = "parsed" => log.whole /\ votes = batch_votes(log.data)

\* Also the log of an earlier run.
LEMMA EarlierResults == Earlier \in Seq(Results)
<1> DEFINE same == [i \in 1 .. N |-> CHOOSE t \in Durations : TRUE]
           Entry(c) == [case_id |-> c, base |-> same,
                        ours |-> [b \in ToSet(BatchSizes) |-> same]]
<1>1. Earlier = [c \in 1 .. Len(Tree) |-> Entry(c)]
  BY TreeAssumption DEF Earlier
<1>2. same \in Seq(Durations)
  <2>1. (CHOOSE t \in Durations : TRUE) \in Durations
    BY TimeAssumption
  <2>2. QED
    BY <2>1, CountAssumption
<1> HIDE DEF same
<1>3. ASSUME NEW c \in 1 .. Len(Tree) PROVE Entry(c) \in Results
  <2>1. c \in Cases
    BY TreeAssumption
  <2>2. QED
    BY <2>1, <1>2 DEF Results
<1> HIDE DEF Entry
<1>4. Len(Tree) \in Nat
  BY TreeAssumption
<1>5. QED
  BY <1>1, <1>3, <1>4

\* Every step leaves a log that holds results, and the votes counted from it.
LEMMA ParsedStep == ExpInv /\ Parsed /\ [Next]_vars => Parsed'
<1> SUFFICES ASSUME ExpInv, Parsed, [Next]_vars PROVE Parsed'
  OBVIOUS
<1>1. CASE Parse
  BY <1>1 DEF Parse, Parsed
<1>2. CASE OpenLog
  BY <1>2 DEF OpenLog, Parsed
<1>3. CASE Dump
  BY <1>3 DEF Dump, Parsed, ExpInv, Collected
<1>4. CASE ClearFs \/ MakeSrc \/ Run \/ Check \/ RemoveDest \/ CleanUp
  <2>1. log' = log /\ pc' # "parsed"
    BY <1>4 DEF ClearFs, MakeSrc, Run, Check, RemoveDest, NextRun, CleanUp
  <2>2. QED
    BY <2>1 DEF Parsed
<1>5. CASE CheckRaises \/ Crash \/ Restart
  <2>1. log' = log /\ pc' # "parsed"
    BY <1>5 DEF CheckRaises, Crash, Died, Restart
  <2>2. QED
    BY <2>1 DEF Parsed
<1>6. CASE UNCHANGED vars
  BY <1>6 DEF vars, Parsed
<1>7. QED
  BY <1>1, <1>2, <1>3, <1>4, <1>5, <1>6 DEF Next, ExpNext, Terminated

\* At most one batch size leads.
LEMMA LeaderIsUnique ==
  ASSUME NEW K \in SUBSET Nat, NEW ours \in [K -> Seq(Nat)],
         NEW b \in K, NEW x \in K, Leads(ours, K, b), Leads(ours, K, x)
  PROVE  b = x
<1>1. Total(ours[b]) \in Nat /\ Total(ours[x]) \in Nat
  BY TotalIsNat
<1>2. QED
  BY <1>1 DEF Leads

\* The batch sizes are numbers up to the last of them.
LEMMA BatchSizesBounded == \E m \in Nat : ToSet(BatchSizes) \in SUBSET (0 .. m)
<1> DEFINE L == Len(BatchSizes)
<1>1. /\ L \in Nat /\ DOMAIN BatchSizes = 1 .. L
      /\ \A i \in 1 .. L : BatchSizes[i] \in Nat
  BY BatchAssumption
<1> HIDE DEF L
<1>2. CASE L = 0
  <2>1. ToSet(BatchSizes) = {}
    BY <1>1, <1>2 DEF ToSet
  <2>2. QED
    BY <2>1
<1>3. CASE L # 0
  <2>1. L \in 1 .. L /\ BatchSizes[L] \in Nat
    BY <1>1, <1>3
  <2>2. ASSUME NEW i \in 1 .. L PROVE BatchSizes[i] \in 0 .. BatchSizes[L]
    <3>1. i < L => BatchSizes[i] < BatchSizes[L]
      BY <1>1, <2>1, BatchAssumption
    <3>2. i \in Nat /\ (i < L \/ i = L)
      BY <1>1
    <3>3. QED
      BY <3>1, <3>2, <1>1, <2>1
  <2>3. QED
    BY <2>1, <2>2, <1>1 DEF ToSet
<1>4. QED
  BY <1>2, <1>3

\* A list lies in the lists over more.
LEMMA ListOverMore ==
  ASSUME NEW S, NEW T, S \subseteq T, NEW list \in Seq(S)
  PROVE  list \in Seq(T)
<1>1. \A i \in 1 .. Len(list) : list[i] \in T
  OBVIOUS
<1>2. list = [i \in 1 .. Len(list) |-> list[i]] /\ Len(list) \in Nat
  OBVIOUS
<1>3. QED
  BY <1>1, <1>2

\* Who has a vote is who leads.
LEMMA BestWins ==
  ASSUME ExpInv, Parsed, log.whole, NEW c \in Cases
  PROVE  LET best == best_batch(log.data[c].ours)
         IN /\ Wins(c, best)
            /\ best \in (IF ToSet(BatchSizes) = {} THEN {-1} ELSE ToSet(BatchSizes))
            /\ \A b \in ToSet(BatchSizes) : Wins(c, b) => b = best
<1> DEFINE K == ToSet(BatchSizes)
           ours == log.data[c].ours
           best == best_batch(ours)
<1>1. PICK m \in Nat : K \in SUBSET (0 .. m)
  BY BatchSizesBounded
<1>2. ours \in [K -> Seq(Nat)] /\ \A b \in K : Len(ours[b]) = N
  <2>1. log.data \in Seq(Results) /\ Len(log.data) = Len(Tree)
    BY DEF Parsed, ExpInv, LogIsComplete
  <2>2. log.data[c] \in Results
    BY <2>1, TreeAssumption
  <2>3. ours \in [K -> Seq(Durations)]
    BY <2>2 DEF Results
  <2>4. ASSUME NEW b \in K PROVE ours[b] \in Seq(Nat)
    <3>1. PICK ts : ts = ours[b]
      OBVIOUS
    <3>2. ts \in Seq(Durations)
      BY <2>3, <3>1
    <3>3. ts \in Seq(Nat)
      BY <3>2, TimeAssumption, ListOverMore
    <3>4. QED
      BY <3>1, <3>3
  <2>5. QED
    BY <2>3, <2>4 DEF ExpInv, LogIsComplete
<1>3. \A b : Wins(c, b) <=> Leads(ours, K, b)
  BY DEF Wins, Leads
<1> HIDE DEF K, ours
<1>4. IF K = {} THEN best = -1 ELSE best \in K /\ Leads(ours, K, best)
  BY <1>1, <1>2, CountAssumption, BestLeads
<1>5. Wins(c, best)
  <2>1. CASE K = {}
    BY <2>1, <1>3 DEF Leads
  <2>2. QED
    BY <2>1, <1>3, <1>4
<1>6. ASSUME NEW b \in K, Wins(c, b) PROVE b = best
  <2>1. K \in SUBSET Nat
    BY <1>1
  <2>2. Leads(ours, K, b) /\ Leads(ours, K, best) /\ best \in K
    BY <1>3, <1>4, <1>6
  <2> HIDE DEF best
  <2>3. QED
    BY <2>1, <2>2, <1>2, LeaderIsUnique
<1>7. QED
  BY <1>4, <1>5, <1>6 DEF K, ours

(* A batch size has exactly the votes of the test cases in which it had the least
   total time, the smallest one of those that had; and each test case gave its
   vote (parse_log.py:46-71). *)
THEOREM VotesCorrect == Spec => []VotesAreRight
<1>1. Init => Parsed
  <2> SUFFICES ASSUME Init PROVE Parsed
    OBVIOUS
  <2>1. CASE log = [whole |-> FALSE, data |-> << >>]
    BY <2>1 DEF Init, Parsed
  <2>2. CASE log = [whole |-> TRUE, data |-> Earlier]
    <3>1. log.data = Earlier
      BY <2>2, Zenon
    <3>2. QED
      BY <3>1, EarlierResults DEF Init, Parsed
  <2>3. QED
    BY <2>1, <2>2 DEF Init
<1>2. ASSUME ExpInv, Parsed PROVE VotesAreRight
  <2> SUFFICES ASSUME pc = "parsed"
               PROVE  /\ \A b \in DOMAIN votes :
                           votes[b] = Cardinality({c \in Cases : Wins(c, b)})
                      /\ \A c \in Cases : \E b \in DOMAIN votes : Wins(c, b)
    BY DEF VotesAreRight
  <2> DEFINE best(c) == best_batch(log.data[c].ours)
  <2>1. /\ log.whole /\ log.data \in Seq(Results) /\ votes = batch_votes(log.data)
        /\ Cases = 1 .. Len(log.data)
    BY <1>2, TreeAssumption DEF Parsed, ExpInv, LogIsComplete
  <2>2. /\ DOMAIN votes = {best(c) : c \in Cases}
        /\ \A b \in DOMAIN votes : votes[b] = Cardinality({c \in Cases : best(c) = b})
    BY <2>1, VotesCount
  <2>3. ASSUME NEW c \in Cases
        PROVE  /\ Wins(c, best(c))
               /\ best(c) \in (IF ToSet(BatchSizes) = {} THEN {-1} ELSE ToSet(BatchSizes))
               /\ \A b \in ToSet(BatchSizes) : Wins(c, b) => b = best(c)
    BY <1>2, <2>1, BestWins
  <2> HIDE DEF best
  <2>4. ASSUME NEW b \in DOMAIN votes, NEW c \in Cases
        PROVE  Wins(c, b) <=> best(c) = b
    <3>1. PICK d \in Cases : b = best(d)
      BY <2>2
    <3>2. CASE ToSet(BatchSizes) = {}
      BY <3>1, <3>2, <2>3
    <3>3. CASE ToSet(BatchSizes) # {}
      BY <3>1, <3>3, <2>3
    <3>4. QED
      BY <3>2, <3>3
  <2>5. ASSUME NEW b \in DOMAIN votes
        PROVE  {c \in Cases : Wins(c, b)} = {c \in Cases : best(c) = b}
    BY <2>4
  <2>6. QED
    BY <2>2, <2>3, <2>5
<1>3. QED
  BY <1>1, <1>2, ExpInductive, ParsedStep, PTL DEF Spec
=============================================================================
