# A verification project for cpr, an asynchronous copy program

`cpr` copies a directory tree (or one file) with Linux kernel AIO. This directory
holds TLA+ modules translated from its C code, TLC configurations that check them
on small instances, and theorems checked by TLAPS. The harness that measures the
program (`experiments/`) is part of it: it decides what a benchmark of `cpr` means.

## 1. Inventory

| Part | Source | State | Operations | Interacts with |
|---|---|---|---|---|
| copy manager | `cpr/aio_manager.c`, `.h` | two linked lists of copy requests and their lengths, counters, flush flag, two mutexes, the AIO context | `init_aio_manager`, `start_aio_thread`, `add_copy_req`, `wait_for_aio_finish`, `destroy_aio_manager`; the thread `aio_loop` | called by `cpr.c`; reads its global `req_count`; kernel AIO |
| main and tree walk | `cpr/cpr.c`, `.h` | a TAILQ of nodes still to visit, `req_count` | `main`, `copy_internal`, `copy_dir`, `copy_reg` | file system, copy manager |
| predecessor | `cpr/old/cpr_old.c` | a TAILQ, child processes | same walk; `fork` per file, `aio_copy_p` in the child, `wait_for_children` | file system, kernel AIO, processes |
| single-file programs | `aio_tests/src/*.c` | locals | `do_copy` with AIO and with stdio | file system, kernel AIO |
| experiments | `experiments/exp.py`, `test_case_gen.py`, `parse_log.py`, `clean.sh` | source and destination directories, lists of times, a log file | generate a tree, run `cp` and `cpr` with each batch size, compare, remove, note the time; write the log; find the best batch size | runs the programs through the shell; directories and log survive it |
| GNU coreutils | `coreutils-8.31-baseline/` | - | - | unmodified third-party code, the baseline of the benchmarks; `exp.py:80-81` runs the installed `cp` instead |

What is hard here: three actors (the main thread, `aio_loop`, the kernel) share
the request structures; a request goes through two lists, two batches and two
rounds of kernel AIO, and what an event means is read from the request; a last
partial batch moves only because of the flush; the end is decided by comparing two
counters, one of which is read without its lock; any failure ends the process with
work in flight. What makes each part correct:

* manager: every request is in exactly one place from `malloc` to `free`; a write
  starts only with a fully read buffer; when `aio_loop` returns all is done and
  given back; exit status 0 means the files are identical; it ends.
* walk: a directory exists before a file in it is handed over, nothing of the tree
  is left when the flush is requested, status 0 means the tree is there;
* predecessor: main outlives its children, and everything it does not copy is left
  out for a reason that can be named (the exit status tells none of them);
* single-file programs: neither truncates, so the script's `rm` decides whether a
  second test still compares equal files;
* experiments: every run starts from a new source and no destination, also after a
  crash; what is compared was made by the run that was timed; a log that can be read
  is whole.

`PROJECT.json` lists under "hazards" what is hard to test, each at its line, with
the property that watches it, or the reason why none does.

## 2. Modules

```
CopyData      SourceTree                     conversions and system calls; the tree
   |   \          |      \
   |    AioManager ------ Cpr                manager; main and walk of cpr.c
   |        |  \-- CopyJob (abstract; CprOld implements it too)
   |     AioManagerInv                       the inductive invariant
   |
 AioCopyP ---- CprOld (with SourceTree)      one process per file; predecessor
        \----- SingleCopy                    single_test.sh and its two programs

 GrowingTree                                 the walk of cpr.c over a tree it changes
 ParseLog ---- Experiment -- MCExperiment    parse_log.py; exp.py
 TestCases ---------------------/            test_case_gen.py
```

| Module | Models | State | Actions |
|---|---|---|---|
| `CopyData` | `fsize = st_size`, `mmap`, `io_submit`'s argument check, `open`, `pwrite` | none | - |
| `SourceTree` | the tree `stat` and `readdir` show; a file system may or may not know the type of an entry, so `DType` is the set of the types that `readdir` may report | none | - |
| `AioManager` | `aio_manager.c` with the steps of `cpr.c` that call it, and kernel AIO | see below | one per critical section, system call or loop iteration |
| `CopyJob` | what a copy job promises | accepted and copied files, status | `Accept`, `Copy`, `Succeed`, `Fail` |
| `AioManagerInv` | - | - | `IndInv` |
| `Cpr` | `main`, `copy_internal`, `copy_dir`, `copy_reg` on top of `AioManager` | `queue`, `walk`, `unread`, `made` | one per loop iteration or call |
| `AioCopyP` | `aio_copy_p` (`cpr_old.c`), which `single_copy_aio.c` contains as `do_copy` | per process: where it is, `fsize`, `buffer`, the pending operation, `res` | set-up, submit, spin, for the read and the write |
| `CprOld` | `cpr_old.c`: walk, `fork`, `wait` | the walk, `skipped`, `reaped`, `status` | as in `Cpr`, plus `Fork`, `Reap`, `WaitDone` |
| `SingleCopy` | `single_test.sh`, `single_copy_basic.c` | the script's line | `rm`, run, wait, twice; `do_copy` with stdio |
| `GrowingTree` | the walk again, over paths instead of nodes, and the files the manager creates meanwhile | the directories and files that exist, the queue, what `readdir` returned, the files handed over | as in `Cpr`; `CreateFile`, `CreateFail` for the manager |
| `TestCases` | the 21 trees of `test_case_gen.py` | none | functions |
| `ParseLog` | `parse_log.py`: averages compared, batch sizes voted for | none | functions |
| `Experiment` | `exp.py`, killed and restarted, with the copy programs it runs | the directories and the log; where the program is, its loop variables, times and results | one per call that changes a directory or the log, one per comparison |

`AioManagerProofs`, `CprProofs`, `AioCopyPProofs`, `CprOldProofs`, `SingleCopyProofs`,
`GrowingTreeProofs` and `ExperimentProofs` hold the theorems about the modules they are
named after, `ListLemmas` what they use about lists, numbers and the loops over finite
sets of numbers. The inductive invariants stand in
the modules themselves (`CopyInv` of one process in `AioCopyP`), where the runs check them,
but for `WalkInv` and `ExpInv`.

`GrowingTree` models the walk a second time, since there the tree grows, while that
of `Cpr` is a constant, on which the theorems rest.

`MCAioManager`, `MCCpr`, `MCCprOld`, `MCSingleCopy`, `MCGrowingTree`, `MCExperiment`
define what a `.cfg` cannot write (trees, paths, negative numbers, symmetry). Definitions whose name has a suffix
(`Push_LosesTail`, `WaitDone_FirstChild`) are mutated forms of the definition they
are named after, such as a plausible bug would make it; each breaks a property.

### AioManager and the code

* The lists `read_head`, `write_head` are sequences, head first; `Push` is the
  insertion at the head. The counters keep their names.
* Main: `CopyReg` (`req_count++` and `malloc`), `AddLock`, `AddCount`, `AddPush`
  (`add_copy_req`), `ClientFail`, `ClientDone` (`copy_internal` returned),
  `WaitLock`, `WaitSet`, `Join` (`wait_for_aio_finish`), `Destroy`.
* The thread: one turn of `aio_loop` is `LockFlush`, `GetEvents`, one `HandleRead`
  or `HandleWrite` per event, `LeaveLoop` or `StayInLoop`, `LockRequest`, one
  `PrepRead` per request, `SubmitReads`, `UnlockRequest`, one `PrepWrite` per
  request, `SubmitWrites`, `UnlockFlush`. `HandleBadEvent`, `PrepFail` and
  `SubmitFail` are the calls of `exit(1)`.
* Kernel: an operation is in `inflight`, then in `ring`, then in `events`.
  `CompleteRead` fills the buffer, `CompleteWrite` changes the destination.
* Under `request_mutex` both threads change the read list and its length. Main's part is
  two steps: `AddCount` counts and reads the head (`rest`), `AddPush` sets it. If either
  thread did not wait for the lock, a request that the loop takes between them would come
  back to the list (`OnePlace`), or the loop would find the counter ahead of the list
  (`ListLengths`); the mutants `AddLock_NoWait` and `LockRequest_NoWait` show it. The
  loop's part (`PrepRead`) is one step per request.
* Between two lock operations a thread touches only what it owns or holds the lock
  of, with one exception: `req_count` is read at `aio_manager.c:74` without a lock.
  `FlushAfterLastAdd` says why that is harmless.
* `fsize` is the `int` of the code: `ToInt` takes a length modulo `IntMod` = 2^32
  into the signed range.

### What is abstracted

* File contents: of a destination only its length and how many of its leading bytes
  are those of the source are kept; a buffer is the number of bytes read into it.
* The iocbs of a batch, the completion ring and the events of one call are sets:
  every order is possible, more than a kernel shows. A request has the descriptors
  `src_fd`, `dst_fd`; their numbers do not matter.
* Alignment: `O_DIRECT` may refuse a length that is no multiple of the block size.
  That is one of the failures "io" and "submit".
* Buffers are never unmapped by the code and not counted. iocbs are not freed by the
  code either.
* Errors of `pthread_*`, `io_setup` in `init_aio_manager` and `io_destroy` are left
  out: they do not occur for these arguments on an idle context, which `CleanJoin`
  establishes. (`AioCopyP` does model `io_setup` failing.)
* The source tree does not change during the copy, and in `Cpr` and `CprOld` the
  destination lies outside of it. `GrowingTree` has the other case. In it file
  contents, batches and all failures but those of names are left out, and a directory
  is read as POSIX allows: what was there at `opendir` is returned, what comes later
  may be.
* `TAILQ_REMOVE` after `free` (`cpr.c:103-106`, `cpr_old.c:83-86`) reads freed
  memory. The links of the node lie behind the words glibc's `free` overwrites, so
  in this build it removes the node, and that is what `FreeNode` does.
* In `cpr_old.c` the blocks for names are a byte short (53-54, 102-103). Where
  `malloc` rounds up, nothing happens; otherwise the program aborts, fails to find a
  path, or uses a wrong name: `WalkFail` and `NameDamaged` under the failure "heap".
  What is made under a wrong name is not followed.
* `Experiment` keeps of a run of a copy program what it leaves behind: nothing, the
  copy, or one of the wrong copies `Broken`, which lack a path or have an unfinished
  file. Over a destination that exists `mkdir` makes `cpr` fail, and `cp -r` copies to
  a directory in it. The exit status is not kept, since `os.system`'s answer is not used.
* `is_same` compares bytes (`shallow=False`). `filecmp` caches its answers under name,
  size and modification time; an unfinished copy differs in one of them. A name that
  is a file on one side and a directory on the other is in neither list `is_same`
  looks at (`common_funny`); no copy program makes that (`ShapeAssumption`).
* A killed `exp.py` leaves the copy program it was running alive. `Restart` is for a
  user who lets it end first.
* `parse_log.py` reads `logs/aida.json`, while `exp.py` writes `logs/test1.json`: `Parse`
  is for a log that was renamed. Its last line is Python 2, its import of `statistics`
  Python 3; the votes are the value line 74 would print. Averages are compared as
  fractions, without rounding.

## 3. Runs

| Run | Instance | Shows |
|---|---|---|
| `aio_safety` | 4 files, batches of 2, 2 events per call, 3 slots, every failure | the safety invariants in every interleaving, with what `request_mutex` is for |
| `aio_data` | 2 files, lengths 0 to beyond the int range, old lengths absent, 0, 2, every failure | `IndInv`; status 0 means copied, for lengths that fit, with nothing behind the copy but the tail of a longer file; freed requests are left alone; a slot per file is enough (`SlotsSuffice`) |
| `aio_refines` | 3 files, negative batch sizes, 2 slots, every failure | the manager implements `CopyJob`, with its progress |
| `cpr_safety` | two levels, 2 files, a link to a file and a pipe, their types known or not, every failure of walk and manager | the composition: order of directories and files, completeness of the walk, the whole tree is copied but for entries of unknown type; the walk keeps to the manager's interface (`ManagerSpec`) |
| `cpr_live` | the same tree, no types known, no failure | the program ends with status 0 |
| `old_safety` | two levels, 3 files of which one is a link, lengths 2, 5, 9 for 2^32 = 8, one AIO context for two processes, every failure | `OldInv`, which has the types; no process is left running, everything is accounted for, main ends; each step is one of `CopyJob` while no process has failed and all files fit (`JobSteps`) |
| `single_safety` | lengths 0 to beyond the int range, old copies of four lengths, every failure | `SingleInv`; both copies are right after the script, which ends |
| `walk_inside` | a source of two levels; the destination outside, the source itself, in it, deeper in it, a file in it, and without a parent; paths of up to 6 names | `TreeInv`, with the types; outside, the walk copies just what was there; inside it never reports success, and ends |
| `exp_safety` | 2 test cases of `TestCases`, `cp` and 2 batch sizes, 2 experiments each, runs that fail in every way of `Broken`, a crash anywhere and one restart, an earlier log | directories are new, verdicts are right and of the run that was timed, a readable log is complete, the votes follow from it |
| `aio_truncation` | one file of 2^32 + 1 bytes | violation: copied in part, status 0 |
| `cpr_left_out` | a pipe whose `d_type` is unknown | violation: left out, status 0 |
| `old_failed_read` | a read fails | violation: the process goes on to write |

Why the bounds are enough. Four files in batches of two is the smallest instance
with two full batches of reads, partial batches after the flush, a write batch
assembled from different read batches, more completions than one `io_getevents`
takes, and more operations than the context has slots for (all three limits are
constants so that they can be reached: 10 and `MAX_EVENTS` in the code). `IntMod` is
4 or 8 instead of 2^32, so that lengths that wrap to a positive, a zero and a
negative `int` are among the sizes. The one AIO context of `old_safety` makes `io_setup`
fail for the second of two processes; a process that fails there and one that waits for
nobody's slots are both reached, and processes share nothing else but the tree. A full
process table is met as a failing `fork`. The trees have two levels, since a directory is
treated alike at any depth; the theorems below drop these bounds. `MaxPath` is 6 names
instead of 4096 bytes: enough for three copies of the destination in itself. Two test
cases and two experiments are the least for which lists could be shared between cases
or carried over between experiments; `MaxStarts` = 2 lets a start meet what a crash
left. Two durations are enough for a tie and for a difference in the sum. All 21 trees
of `TestCases` are computed and their sizes compared with what the comments of
`test_case_gen.py` announce, with `MAX_EVENTS`, and with what the theorems about
`Experiment` assume of a tree (`IsTree`), in `ASSUME`s of `MCExperiment`.

### Fairness

`MainNext`, `AioNext` and the kernel are weakly fair: the scheduler runs both
threads, and the kernel completes what it accepted. `AddLock` and `WaitLock` are
strongly fair: `aio_loop` unlocks `flush_mutex` at line 170 and locks it again at
once at line 41, so that the mutex is never continuously free; under weak fairness
alone main may wait for ever. A pthread mutex promises nothing here, and glibc's is
not fair; in practice the gap is found by a waiter that the futex wakes. Liveness of
`cpr` therefore rests on this assumption, and on nothing else of the lock. In
`CprOld` main, each process and the kernel are weakly fair, in `SingleCopy` the
shell, the programs and the kernel, in `GrowingTree` main and the manager's thread, in
`Experiment` the program: each `Run` ends, for `cpr` by `CprCompletion`. Nothing is
assumed of `Crash`, `Restart` and `Parse`, which are up to the user.

## 4. Proofs

All are checked by TLAPS for every value of the constants that meets the named
assumptions: finitely many requests, non-negative lengths, any integer batch sizes,
a positive events array, any set of failures (`ReqAssumption`, `SizeAssumption`,
`IntAssumption`, `BatchAssumption`, `LimitAssumption`, `FaultAssumption`), and for
`Cpr` and `CprOld` a tree (`NodeAssumption`), all of which is found from its root
(`ReachAssumption`), whose regular files are the requests (`RequestAssumption`).

* `AioManagerProofs`: `TypeCorrect`; `Inductive`, that `IndInv` is an invariant, one
  lemma per action; then each safety invariant of `aio_safety` and `aio_data` as a theorem
  that follows from it. `SlotsCorrect` counts: the operations pending, completed and
  prepared belong to different requests, so there are at most as many as files.
  `ImplementsJob`: every step of the manager is a step of `CopyJob` or a stutter, for
  files that fit (`FilesFit`). `SanityCorrect`: for such files the sanity checks of the
  program, which `aio_truncation` breaks with a longer one, hold.
* `CprProofs`: `UsesManager` (every step of the program is a step of the manager or
  leaves it alone, so all of the above holds in the program), `WalkInductive`,
  `DirectoryCorrect`, `FlushAfterWalkCorrect` and `TreeCorrect`. `ProgramIsJob`: the whole
  program implements `CopyJob` for files that fit, by `UsesManager` and `ImplementsJob`.
  `NothingLeftOutCorrect`: where the file system reports every type (`TypesKnown`), status
  0 means that nothing was left out; `cpr_left_out` shows that the hypothesis is needed.
* `AioCopyPProofs`: what one process does to its own data and that it leaves the others'
  alone, for any set of processes; `CprOldProofs` and `SingleCopyProofs` rest on it.
* `CprOldProofs`: `OldInductive`, and from it `OldTypeCorrect`, `DirectoryProcessCorrect`,
  `NoneLeftCorrect` and `AccountedCorrect`, for any tree, numbers of processes and AIO
  contexts, and failures. `OldJobSteps`: while no process has failed and all files fit, every
  step is one of `CopyJob` or a stutter. `OldImplementsJob`: if no process can fail
  (`Gentle`: files fit and are not empty, old copies are not longer, processes and
  contexts suffice, and of the failures only those of main's own calls), the program
  implements `CopyJob`.
* `SingleCopyProofs`: `SingleInductive`, `SingleTypeCorrect`, `BothCopiedCorrect`.
* `GrowingTreeProofs`: `TreeInductive`, and from it `TreeTypeCorrect`, `CopiesCorrect` and
  `NeverCopiesItselfCorrect`, for any file system (`TreeAssumption`: a path lies in
  directories and is of one kind), any two arguments and any `MaxPath`.
* `ExperimentProofs`: `ExpInductive`, and from it `ExpTypeCorrect`, `DirectoriesCorrect`,
  `VerdictCorrect`, `LogCorrect`, `VerdictRightCorrect` and `VotesCorrect`, for any test cases, ascending
  batch sizes, numbers of experiments and crashes (`TreeAssumption`, `ShapeAssumption`,
  `BatchAssumption`, `CountAssumption`, `TimeAssumption`).

None of the safety invariants is inductive by itself. `IndInv` adds what each step
relies on: `Somewhere` and `Apart` say where requests are (membership, instead of
the sums of `OnePlace`, which follow at the end); `OneOperation` that the kernel
never holds two operations of a request, without which an event could be for the
wrong stage; `Stages` ties the field `state` to the place; `Buffers` and
`Destinations` carry the length and the data from place to place; `Descriptors`,
`Counts` and `Mutexes` tie descriptors, counters and locks to places and program
counters; `Control` says what is empty where. The central step is `LeaveLoop`:
`req_count = finished_count` and `flush` give that the finite set `issued` and its
subset `freed` have the same size, so they are equal.

For the walk, `WalkInv` says that an entry of a directory that was made is waiting in
the queue, unread or done with. With an empty queue what is done with is closed under
"entry of", and `ReachAssumption` gives that it is the whole tree: the usual argument
for breadth first search, without induction. The case that the destination exists
already needs a part of its own (`Taken`): its directory counts as made before it was
read.

For the experiments, `ExpInv` adds to the properties which directories exist at each
line (`Fresh`), that the time and the copy are of the last run (`Timed`), and how long
each list is: `Runs` gives it from `iter` and the position of the program, which needs
that the programs are different (`ProgsFacts`, from the ascending batch sizes). A crash
loses the lists and keeps the directories; `ClearFs` restores `Fresh`.

`VerdictRightCorrect` says that `is_same`, which compares level by level what both trees
have, tells any two trees apart (`SameIsEqual`). That is an induction over the depth; it
is done with `Least`: of the directories that one tree has and the other lacks take one
with the shortest path; what it lies in is in both, so it was compared.

`VotesCorrect` says that the votes `parse_log.py` takes from a log follow from the times
that were measured. Its two loops are folds over the keys of a list; a fold is a
recursive function chosen by `CHOOSE`, so that first its existence has to be shown
(`LoopExists`), by well-founded induction over the largest key. `BehavesAsLoop` gives the
rule that a proof then uses: what holds before the loop and is kept by each turn, in
ascending order, holds after it. `BestLeads` is that for `best_batch` (it is ahead of all
batches looked at so far, and of equal ones the first), `VotesCount` and `BestWins` for the
list of votes.

For `CprOld`, `OldInv` has the counterpart of `WalkInv` (`Found`), and two parts of its
own. `Once`: no node is found twice, so that a file has one process, which starts from
"none"; it holds since the parents of a node are unique and a directory is read once.
`Parents`: what was found lies in a directory that was made, which `DirectoryBeforeProcess`
needs at the fork and which must be known from the time the entry was read. `Copies` is
`CopyInv` for each process: length, buffer and destination at each place of `aio_copy_p`,
unless it has failed. `NotLonger` (nothing is behind the end of the copy) holds for
destinations that were not longer before. In
`OldJobSteps` it is main's `wait` that copies in the abstract job: with `Copies` and
`NotLonger`, what has been reaped is identical (`ReapedIsCopied`), so that `WaitDone`, with
no child left, is `Succeed`. `OldImplementsJob` needs besides that a process that was
forked does not fail (`UnharmedStep`); that fewer contexts are in use than exist is a
count (`SomeAreFewer`).

For `SingleCopy`, `SingleInv` ties the line of the script to the place of each program
(`Places`), and has the data of both: the copy with "a" is right because the file was
absent when it was opened (`BasicData`), the one without `O_TRUNC` because nothing was
longer (`AioData`), both because of the `rm` before, unless that failed.

For `GrowingTree`, `TreeInv` needs more than the walk's own state. `Closed` and `Made`
describe the file system: what is new is the image of something of the same kind, and if
the name of the destination was taken then nothing is new (`Taken`). `Pending(t)` says
that a path is still to come: the queue has a path that leads to it, or the directory
being read has the next name on the way unread; `PendingStep` shows that it stays so
until the path is visited. With it `NothingLost` is completeness outside of the source.
Inside, `GoesOn` says that some path stays pending that goes on repeating the destination
(`Rel`): when its directory is made, the same path one copy deeper is pending, because the
directory for it was made before `opendir` (`Repeats`). So the queue never runs empty.
That the new names cannot be met outside is `Outside`: a path below both arguments makes
one a prefix of the other (`BelowBoth`).

Every safety invariant of a passing run is a theorem, and of the three properties that
fail, the two with a hypothesis that makes them right are theorems under it
(`SanityCorrect`, `NothingLeftOutCorrect`). Only model-checked: progress (`CprCompletion`,
the fairness in `JobSpec`, each `Completion`), since liveness
is out of the prover's reach. That `create_mary_tree` computes a tree is evaluated for all
21 test cases and not proved for other parameters: it would be an induction over the
numbers of nodes.

## 5. Findings

* A file of 2^32 + n bytes is copied as n bytes, and one of a length that is negative
  as an `int` ends the program: `aio_manager.c:105` stores an `off_t` in an `int`.
* An entry of unknown `d_type` that is neither directory nor file is left out with
  status 0 (`cpr.c:129`), while with a known type it ends the program.
* `cpr_old.c:173` and `196`, `single_copy_aio.c:58` and `82`: `res` is unsigned, so the
  tests for failed operations never hold.

Smaller disagreements without a run: a destination that is longer than the source
keeps its tail, since `open` has no `O_TRUNC` (`aio_manager.c:144`), which is what
`SuccessMeansCopied` allows; the experiments never meet that (`DirectoriesAreNew`).
The comment `test_case_gen.py:139` announces 3 files and 1 directory where there are 3
directories, `:160` 10 files where there are 20. `parse_log.py` runs in neither Python 2
nor 3 as it stands (see above). The comment at `aio_manager.c:40` announces
both locks, the code takes only `flush_mutex` there; the comment
`single_copy_basic.c:22` says "Create new file" where the mode is "a" (append);
`cpr_old.c:127` says itself that failures of children are to be done, and
`wait_for_children` returns 0 whatever happened.

## 6. Not modelled, and the plan

Done in this order: `AioManager` with its runs and `TypeCorrect`; `IndInv` and the
safety theorems; `CopyJob` and the refinement; `Cpr` and its theorems; `CprOld` and
`SingleCopy` on the shared `AioCopyP`; file systems that do not report types;
`GrowingTree`; the experiments and their theorems; `SlotsCorrect`; the theorems about
`CprOld`, `SingleCopy` and `GrowingTree`; `VerdictRightCorrect`; `VotesCorrect`;
`ProgramIsJob`, `OldJobSteps`, `OldImplementsJob`, and the theorems under a hypothesis.

What could follow: that `exp.py` kills and restarts while a copy program still runs, which
needs the program as a process of its own in `Experiment`; and a source that other
programs change during the copy.

Left out for good: argument parsing and messages (no state), and
`coreutils-8.31-baseline/`, which is unmodified third-party code: nothing in the
repository calls it, not even the harness, which runs the installed `cp`
(`exp.py:80-81`). It is more than 99 % of the lines of the repository, so that the
share of all lines the modules stand for is small, while of the project's own code
every function that changes state is modelled.
