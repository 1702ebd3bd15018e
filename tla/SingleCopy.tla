------------------------------ MODULE SingleCopy ------------------------------
(***************************************************************************)
(* aio_tests/single_test.sh: it copies one file with stdio                 *)
(* (single_copy_basic.c) and with kernel AIO (single_copy_aio.c, whose     *)
(* do_copy is aio_copy_p).  The files remain from one test to the next.    *)
(***************************************************************************)
EXTENDS AioCopyP

\* The copies fs/two_basic.txt and fs/two_aio.txt; each has its program.
CONSTANTS Basic, Aio

FaultKinds == {"rm", "build", "open", "mmap", "submit", "io", "kill"}

ASSUME TargetAssumption == Req = {Basic, Aio} /\ Basic # Aio
ASSUME FaultAssumption == Faults \subseteq FaultKinds

VARIABLE script   \* the line of single_test.sh that is executed

vars == <<procVars, script>>
-----------------------------------------------------------------------------
\* Both programs copy fs/one.txt.
Init ==
  /\ ProcInit
  /\ st_size[Basic] = st_size[Aio]
  /\ script = "rm_basic"

Line(from, to) == script = from /\ script' = to

\* rm; that it fails is not looked at.
Rm_Forgotten(r, from, to) ==
  /\ Line(from, to)
  /\ UNCHANGED procVars
Rm(r, from, to) ==
  /\ Line(from, to)
  /\ dst' = [dst EXCEPT ![r] = [same |-> 0, len |-> Absent]]
  /\ UNCHANGED <<files, pc, locals, pending, res, ret, failed>>

RmFail(r, from, to) ==
  /\ "rm" \in Faults
  /\ Line(from, to)
  /\ failed' = failed \cup {r}
  /\ UNCHANGED <<files, dst, pc, locals, pending, res, ret>>

\* gcc builds the program, which is started.
Run(r, from, to) ==
  /\ Line(from, to)
  /\ pc' = [pc EXCEPT ![r] = "setup"]
  /\ UNCHANGED <<files, dst, locals, pending, res, ret, failed>>

\* The build fails, the shell finds no program to start.
RunFail(r, from, to) ==
  /\ "build" \in Faults
  /\ Line(from, to)
  /\ Fail(r, "none")
  /\ UNCHANGED dst

\* The shell goes on when the program has ended, however it has.
Ended_OnSuccess(r, from, to) ==
  /\ Line(from, to)
  /\ pc[r] = "exit" /\ ret[r] = 0
  /\ UNCHANGED procVars
Ended(r, from, to) ==
  /\ Line(from, to)
  /\ pc[r] = "exit"
  /\ UNCHANGED procVars

RmBasic == Rm(Basic, "rm_basic", "start_basic") \/ RmFail(Basic, "rm_basic", "start_basic")
RunBasic == Run(Basic, "start_basic", "wait_basic") \/ RunFail(Basic, "start_basic", "wait_basic")
EndBasic == Ended(Basic, "wait_basic", "rm_aio")
RmAio == Rm(Aio, "rm_aio", "start_aio") \/ RmFail(Aio, "rm_aio", "start_aio")
RunAio == Run(Aio, "start_aio", "wait_aio") \/ RunFail(Aio, "start_aio", "wait_aio")
EndAio == Ended(Aio, "wait_aio", "done")
-----------------------------------------------------------------------------
(* do_copy of single_copy_basic.c.  fsize is a long here, and the results of
   fread and fwrite are not looked at. *)

\* A file opened for appending: what it had stays in front.
Appended(d, b, n) ==
  IF d.len <= 0 THEN Written(Created(d), b, n) ELSE [d EXCEPT !.len = @ + n]

\* fopen, ftell and fread of the source.
BasicRead ==
  /\ At(Basic, "setup", "write")
  /\ \E n \in 0 .. st_size[Basic] :
       /\ n < st_size[Basic] => "io" \in Faults
       /\ buffer' = [buffer EXCEPT ![Basic] = n]
       /\ failed' = IF n < st_size[Basic] THEN failed \cup {Basic} ELSE failed
  /\ UNCHANGED <<files, dst, fsize, pending, res, ret>>

\* fopen of either file fails.
BasicFail ==
  /\ "open" \in Faults
  /\ Fail(Basic, "setup") \/ Fail(Basic, "write")
  /\ UNCHANGED dst

\* fopen of the destination, fwrite and fclose.
BasicWrite ==
  /\ At(Basic, "write", "exit")
  /\ \E n \in 0 .. st_size[Basic] :
       /\ n < st_size[Basic] => "io" \in Faults
       /\ dst' = [dst EXCEPT ![Basic] = Appended(@, buffer[Basic], n)]
       /\ failed' = IF n < st_size[Basic] THEN failed \cup {Basic} ELSE failed
  /\ UNCHANGED <<files, locals, pending, res, ret>>

BasicNext == (BasicRead \/ BasicFail \/ BasicWrite \/ Killed(Basic)) /\ UNCHANGED script
AioNext == (Process(Aio) \/ Kernel) /\ UNCHANGED script
ScriptNext == RmBasic \/ RunBasic \/ EndBasic \/ RmAio \/ RunAio \/ EndAio
Done == script = "done" /\ UNCHANGED vars

Next == ScriptNext \/ BasicNext \/ AioNext \/ Done

Spec == Init /\ [][Next]_vars
FairSpec == Spec /\ WF_vars(ScriptNext) /\ WF_vars(BasicNext) /\ WF_vars(AioNext)
-----------------------------------------------------------------------------
TypeOK ==
  /\ ProcTypeOK
  /\ script \in {"rm_basic", "start_basic", "wait_basic",
                 "rm_aio", "start_aio", "wait_aio", "done"}

\* After the script both copies equal fs/one.txt whatever an earlier run left:
\* neither program truncates, so this rests on rm.  A failure excuses a file, and
\* kernel AIO is limited to lengths of an int.
BothCopied ==
  script = "done" =>
    /\ Basic \notin failed => Identical(Basic)
    /\ Aio \notin failed /\ st_size[Aio] < IntMod => Identical(Aio)

\* The script comes to its end.
Completion == <>(script = "done")

-----------------------------------------------------------------------------
(* The inductive invariant of the proofs. *)
\* A program runs between its lines of the script, one after the other.
Places ==
  /\ pc[Basic] \in CASE script \in {"rm_basic", "start_basic"} -> {"none"}
                     [] script = "wait_basic" -> {"setup", "write", "exit"}
                     [] OTHER -> {"exit"}
  /\ pc[Aio] = "none" <=> script \notin {"wait_aio", "done"}
  /\ script = "done" => pc[Aio] = "exit"
  /\ pending \subseteq {Aio}

\* fopen with "a" appends: the copy is right because there was nothing before it.
BasicData ==
  Basic \notin failed =>
    /\ script # "rm_basic" /\ pc[Basic] # "exit" => dst[Basic].len = Absent
    /\ pc[Basic] = "write" => buffer[Basic] = st_size[Basic]
    /\ pc[Basic] = "exit" => Identical(Basic)

\* O_TRUNC is missing: no byte is behind the copy because there was none before it.
AioData ==
  /\ CopyInv(Aio)
  /\ script \in {"start_aio", "wait_aio", "done"} => Aio \in failed \/ NotLonger(Aio)

SingleInv == TypeOK /\ Places /\ BasicData /\ AioData
=============================================================================
