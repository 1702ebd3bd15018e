\* Two test cases, each run twice with cp and two batch sizes; crashes, failed runs.
SPECIFICATION FairSpec
CONSTANTS
  Tree <- SmallTrees
  Broken <- SmallBroken
  BatchSizes <- TwoBatches
  N = 2
  CleanSrc = TRUE
  Durations = {1, 2}
  MaxStarts = 2
INVARIANTS
  TypeOK
  DirectoriesAreNew
  VerdictIsRight
  VerdictIsOfThisRun
  LogIsComplete
  VotesAreRight
PROPERTY Completion
