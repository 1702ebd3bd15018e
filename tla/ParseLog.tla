------------------------------ MODULE ParseLog ------------------------------
(***************************************************************************)
(* experiments/parse_log.py: which batch size was the fastest in most test *)
(* cases.  A log is a sequence of results [case_id, base, ours]; ours maps *)
(* each batch size to the list of its times.                               *)
(***************************************************************************)
EXTENDS Integers, SequencesExt, FiniteSets

Total(times) == FoldLeft(LAMBDA x, y : x + y, 0, times)

\* mean(x) < mean(y), without fractions.
Faster_OrEqual(x, y) == Total(x) * Len(y) <= Total(y) * Len(x)
Faster(x, y) == Total(x) * Len(y) < Total(y) * Len(x)

\* The loop over the keys, as numbers in ascending order (the greatest of a set
\* comes after the others): a later one has to be faster.  Before the first
\* best_batch is -1 and best_time infinite.
best_batch(ours) ==
  LET Step(b, best) ==
        IF best = -1 \/ Faster(ours[b], ours[best]) THEN b ELSE best
  IN MapThenFoldSet(Step, -1, LAMBDA b : b, Max, DOMAIN ours)

\* batch_votes has a key only when it has a vote.
batch_votes(data) ==
  LET Count(votes, case) ==
        LET b == best_batch(case.ours)
        IN [x \in DOMAIN votes \cup {b} |->
              (IF x \in DOMAIN votes THEN votes[x] ELSE 0) + (IF x = b THEN 1 ELSE 0)]
  IN FoldLeft(Count, << >>, data)
=============================================================================
