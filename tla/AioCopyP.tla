------------------------------- MODULE AioCopyP -------------------------------
(***************************************************************************)
(* aio_copy_p of cpr/old/cpr_old.c, which is also do_copy of               *)
(* aio_tests/src/single_copy_aio.c: a process copies one regular file with *)
(* one asynchronous read of all of it and one write.                       *)
(*                                                                         *)
(* The processes share the file system and the number of AIO contexts the  *)
(* kernel grants.  Who starts a process and looks at its exit status is    *)
(* left to the modules that extend this one.                               *)
(***************************************************************************)
EXTENDS CopyData, FiniteSets

CONSTANTS
  Req,          \* the regular files; the process that copies one has its name
  Sizes,        \* the st_size values a source file may have
  OldLens,      \* the lengths a destination may have, Absent if there is none
  MaxContexts,  \* how many AIO contexts may exist at the same time
  Faults        \* the failures of the environment that may happen

ASSUME ReqAssumption == IsFiniteSet(Req)
ASSUME SizeAssumption == Sizes \subseteq Nat /\ OldLens \subseteq Nat \cup {Absent}
ASSUME ContextAssumption == MaxContexts \in Nat

VARIABLES
  st_size, old_len, dst,  \* as in AioManager
  pc,                     \* where each process is
  fsize, buffer,          \* locals of aio_copy_p
  pending,                \* the processes whose operation has not completed
  res,                    \* the res of the last event of each process
  ret,                    \* what aio_copy_p returned
  failed                  \* history: files for which some call failed

files == <<st_size, old_len>>
locals == <<fsize, buffer>>
procVars == <<files, dst, pc, locals, pending, res, ret, failed>>

Contexts == {r \in Req : pc[r] \in {"read", "reading", "write", "writing"}}
-----------------------------------------------------------------------------
ProcInit ==
  /\ st_size \in [Req -> Sizes]
  /\ old_len \in [Req -> OldLens]
  /\ dst = [r \in Req |-> [same |-> 0, len |-> old_len[r]]]
  /\ pc = [r \in Req |-> "none"]
  /\ fsize = [r \in Req |-> 0]
  /\ buffer = [r \in Req |-> NoBuffer]
  /\ pending = {}
  /\ res = [r \in Req |-> 0]
  /\ ret = [r \in Req |-> 0]
  /\ failed = {}

At(r, from, to) == pc[r] = from /\ pc' = [pc EXCEPT ![r] = to]

\* perror and return -1, upon which the process ends; its context ends with it.
Fail(r, from) ==
  /\ At(r, from, "exit")
  /\ ret' = [ret EXCEPT ![r] = -1]
  /\ failed' = failed \cup {r}
  /\ UNCHANGED <<files, locals, pending, res>>

Setup(r) ==
  /\ At(r, "setup", "read")
  /\ Cardinality(Contexts) < MaxContexts
  /\ UNCHANGED <<files, dst, locals, pending, res, ret, failed>>

SetupFail(r) ==
  /\ Cardinality(Contexts) >= MaxContexts
  /\ Fail(r, "setup")
  /\ UNCHANGED dst

\* open, fstat, mmap and the io_submit of the read.
SubmitRead(r) ==
  /\ At(r, "read", "reading")
  /\ LET n == ToInt(st_size[r])
     IN \E b \in MmapResults(n, "mmap" \in Faults) :
          /\ Submittable(n, b)
          /\ fsize' = [fsize EXCEPT ![r] = n]
          /\ buffer' = [buffer EXCEPT ![r] = b]
  /\ pending' = pending \cup {r}
  /\ UNCHANGED <<files, dst, res, ret, failed>>

SubmitReadFail(r) ==
  /\ \/ {"open", "submit"} \cap Faults # {}
     \/ LET n == ToInt(st_size[r])
        IN \E b \in MmapResults(n, "mmap" \in Faults) : ~Submittable(n, b) \/ n = 0
  /\ Fail(r, "read")
  /\ UNCHANGED dst

\* The kernel completes the read; one that fails leaves what it has read so far.
CompleteRead(r) ==
  /\ pc[r] = "reading" /\ r \in pending
  /\ pending' = pending \ {r}
  /\ \/ /\ res' = [res EXCEPT ![r] = fsize[r]]
        /\ buffer' = [buffer EXCEPT ![r] = fsize[r]]
        /\ UNCHANGED failed
     \/ /\ "io" \in Faults
        /\ \E n \in {BadRes} \cup 0 .. fsize[r] - 1 :
             /\ res' = [res EXCEPT ![r] = n]
             /\ buffer' = [buffer EXCEPT ![r] = Max2(n, 0)]
        /\ failed' = failed \cup {r}
  /\ UNCHANGED <<files, dst, pc, fsize, ret>>

\* res of struct io_event is an unsigned long: what stands for -1 is huge, and
\* the test res < 0 is never true.
AsUnsigned(v) == IF v < 0 THEN IntMod * IntMod + v ELSE v
ResNegative(r) == AsUnsigned(res[r]) < 0

\* The spin loop ends when there is an event.
SpinRead_Early(r) ==
  /\ At(r, "reading", "write")
  /\ pending' = pending \ {r}
  /\ UNCHANGED <<files, dst, locals, res, ret, failed>>
SpinRead(r) ==
  /\ r \notin pending
  /\ At(r, "reading", IF ResNegative(r) THEN "exit" ELSE "write")
  /\ ret' = [ret EXCEPT ![r] = IF ResNegative(r) THEN -1 ELSE @]
  /\ UNCHANGED <<files, dst, locals, pending, res, failed>>

\* open with O_CREAT and the io_submit of the write.
SubmitWrite(r) ==
  /\ At(r, "write", "writing")
  /\ dst' = [dst EXCEPT ![r] = Created(@)]
  /\ pending' = pending \cup {r}
  /\ UNCHANGED <<files, locals, res, ret, failed>>

\* open fails, or io_submit after it.
SubmitWriteFail(r) ==
  /\ \/ "open" \in Faults /\ UNCHANGED dst
     \/ ("submit" \in Faults \/ fsize[r] = 0) /\ dst' = [dst EXCEPT ![r] = Created(@)]
  /\ Fail(r, "write")

\* The kernel completes the write; one that fails has written a part.
CompleteWrite(r) ==
  /\ pc[r] = "writing" /\ r \in pending
  /\ pending' = pending \ {r}
  /\ \/ /\ res' = [res EXCEPT ![r] = fsize[r]]
        /\ dst' = [dst EXCEPT ![r] = Written(@, buffer[r], fsize[r])]
        /\ UNCHANGED failed
     \/ /\ "io" \in Faults
        /\ \E n \in {BadRes} \cup 0 .. fsize[r] - 1 :
             /\ res' = [res EXCEPT ![r] = n]
             /\ dst' = [dst EXCEPT ![r] = Written(@, buffer[r], Max2(n, 0))]
        /\ failed' = failed \cup {r}
  /\ UNCHANGED <<files, pc, locals, ret>>

\* io_destroy does not fail for the context of io_setup.
SpinWrite(r) ==
  /\ r \notin pending
  /\ At(r, "writing", "exit")
  /\ ret' = [ret EXCEPT ![r] = IF ResNegative(r) THEN -1 ELSE 0]
  /\ UNCHANGED <<files, dst, locals, pending, res, failed>>

\* A signal ends the process; exit waits for the operation that is pending.
Killed(r) ==
  /\ "kill" \in Faults
  /\ pc[r] \notin {"none", "exit"} /\ r \notin pending
  /\ Fail(r, pc[r])
  /\ UNCHANGED dst

Process(r) ==
  \/ Setup(r) \/ SetupFail(r)
  \/ SubmitRead(r) \/ SubmitReadFail(r) \/ SpinRead(r)
  \/ SubmitWrite(r) \/ SubmitWriteFail(r) \/ SpinWrite(r)
  \/ Killed(r)

Kernel == \E r \in pending : CompleteRead(r) \/ CompleteWrite(r)
-----------------------------------------------------------------------------
ProcTypeOK ==
  /\ st_size \in [Req -> Nat]
  /\ old_len \in [Req -> Nat \cup {Absent}]
  /\ dst \in [Req -> [same : Int, len : Nat \cup {Absent}]]
  /\ pc \in [Req -> {"none", "setup", "read", "reading", "write", "writing", "exit"}]
  /\ fsize \in [Req -> IntRange]
  /\ buffer \in [Req -> Int]
  /\ pending \subseteq Req
  /\ res \in [Req -> Int]
  /\ ret \in [Req -> {-1, 0}]
  /\ failed \subseteq Req

Fits(r) == st_size[r] < IntMod /\ old_len[r] <= st_size[r]
Identical(r) == dst[r] = [same |-> st_size[r], len |-> st_size[r]]

\* What holds of a file at each place of its process.
CopyInv(r) ==
  /\ res[r] >= BadRes
  /\ r \in pending => pc[r] \in {"reading", "writing"}
  /\ pc[r] \in {"reading", "write", "writing"} =>
       fsize[r] = ToInt(st_size[r]) /\ fsize[r] >= 0
  /\ r \notin failed =>
       /\ pc[r] = "reading" /\ r \notin pending => buffer[r] = fsize[r]
       /\ pc[r] \in {"write", "writing"} => buffer[r] = fsize[r]
       /\ (pc[r] = "writing" /\ r \notin pending) \/ pc[r] = "exit" =>
            (st_size[r] < IntMod => dst[r].same = st_size[r] /\ dst[r].len >= st_size[r])

\* There is nothing behind the bytes that the copy will have.
NotLonger(r) == dst[r].len <= st_size[r]
=============================================================================
