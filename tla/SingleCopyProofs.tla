--------------------------- MODULE SingleCopyProofs ---------------------------
(* Theorems about single_test.sh and the two programs it runs. *)
EXTENDS SingleCopy, AioCopyPProofs

USE DEF procVars, files, locals, At, Fail

LEMMA SingleInit == Init => SingleInv
<1> SUFFICES ASSUME Init PROVE SingleInv
  OBVIOUS
<1>1. ProcInit /\ script = "rm_basic" /\ Basic \in Req /\ Aio \in Req
  BY TargetAssumption DEF Init
<1>2. TypeOK
  BY <1>1, ProcTypeInit DEF TypeOK
<1>3. pc[Basic] = "none" /\ pc[Aio] = "none" /\ pending = {}
  BY <1>1 DEF ProcInit
<1>4. Places /\ BasicData
  BY <1>1, <1>3 DEF Places, BasicData
<1>5. AioData
  BY <1>1, CopyInvInit DEF AioData
<1>6. QED
  BY <1>2, <1>4, <1>5 DEF SingleInv

\* What the process of the other program does not touch stays as it is.
LEMMA AioUntouched ==
  ASSUME SingleInv, script' = script \/ script' \notin {"start_aio", "wait_aio", "done"}
                                   \/ script \in {"start_aio", "wait_aio", "done"},
         st_size' = st_size, pc'[Aio] = pc[Aio], fsize'[Aio] = fsize[Aio],
         buffer'[Aio] = buffer[Aio], dst'[Aio] = dst[Aio], res'[Aio] = res[Aio],
         pending' = pending, (Aio \in failed') = (Aio \in failed)
  PROVE  AioData'
<1>1. CopyInv(Aio)'
  BY DEF SingleInv, AioData, CopyInv
<1>2. NotLonger(Aio) => NotLonger(Aio)'
  BY DEF NotLonger
<1>3. QED
  BY <1>1, <1>2 DEF SingleInv, AioData

LEMMA BasicUntouched ==
  ASSUME SingleInv, script # "rm_basic", st_size' = st_size, pc'[Basic] = pc[Basic],
         buffer'[Basic] = buffer[Basic], dst'[Basic] = dst[Basic],
         (Basic \in failed') = (Basic \in failed)
  PROVE  BasicData'
BY DEF SingleInv, BasicData, Identical

\* rm, for either copy.
LEMMA RmStep == SingleInv /\ (RmBasic \/ RmAio) => SingleInv'
<1> SUFFICES ASSUME SingleInv, RmBasic \/ RmAio PROVE SingleInv'
  OBVIOUS
<1>1. PICK r \in {Basic, Aio} :
        /\ \/ /\ dst' = [dst EXCEPT ![r] = [same |-> 0, len |-> Absent]]
              /\ UNCHANGED failed
           \/ dst' = dst /\ failed' = failed \cup {r}
        /\ UNCHANGED <<files, pc, locals, pending, res, ret>>
        /\ r = Basic => script = "rm_basic" /\ script' = "start_basic"
        /\ r = Aio => script = "rm_aio" /\ script' = "start_aio"
  BY TargetAssumption DEF RmBasic, RmAio, Rm, RmFail, Line
<1>2. Basic \in Req /\ Aio \in Req /\ Basic # Aio
  BY TargetAssumption
<1>3. TypeOK'
  <2>1. [same |-> 0, len |-> Absent] \in [same : Int, len : Nat \cup {Absent}]
    OBVIOUS
  <2>2. dst' \in [Req -> [same : Int, len : Nat \cup {Absent}]] /\ failed' \subseteq Req
    BY <1>1, <1>2, <2>1 DEF SingleInv, TypeOK, ProcTypeOK
  <2>3. QED
    BY <1>1, <1>2, <2>2 DEF SingleInv, TypeOK, ProcTypeOK
<1>4. Places'
  BY <1>1, <1>2 DEF SingleInv, Places
<1>5. CASE r = Basic
  <2>1. Basic \in failed' \/ dst'[Basic].len = Absent
    BY <1>1, <1>2, <1>5 DEF SingleInv, TypeOK, ProcTypeOK
  <2>2. pc'[Basic] = "none" /\ dst'[Aio] = dst[Aio] /\ (Aio \in failed') = (Aio \in failed)
    BY <1>1, <1>2, <1>5 DEF SingleInv, Places, TypeOK, ProcTypeOK
  <2>3. BasicData'
    BY <1>1, <1>5, <2>1, <2>2 DEF BasicData
  <2>4. AioData'
    BY <1>1, <1>5, <2>2, AioUntouched
  <2>5. QED
    BY <1>3, <1>4, <2>3, <2>4 DEF SingleInv
<1>6. CASE r = Aio
  <2>1. Aio \in failed' \/ NotLonger(Aio)'
    <3>1. CASE Aio \notin failed'
      <4>1. dst'[Aio].len = -1 /\ st_size'[Aio] \in Nat
        BY <1>1, <1>2, <1>6, <3>1 DEF SingleInv, TypeOK, ProcTypeOK, Absent
      <4>2. QED
        BY <4>1 DEF NotLonger
    <3>2. QED
      BY <3>1
  <2>2. /\ pc[Aio] = "none" /\ dst'[Basic] = dst[Basic]
        /\ (Basic \in failed') = (Basic \in failed)
    BY <1>1, <1>2, <1>6 DEF SingleInv, Places, TypeOK, ProcTypeOK
  <2>3. CopyInv(Aio)'
    BY <1>1, <2>2 DEF SingleInv, AioData, CopyInv
  <2>4. BasicData'
    BY <1>1, <1>6, <2>2, BasicUntouched
  <2>5. QED
    BY <1>3, <1>4, <2>1, <2>3, <2>4 DEF SingleInv, AioData
<1>7. QED
  BY <1>5, <1>6

\* A program is started, or is not there.
LEMMA RunStep == SingleInv /\ (RunBasic \/ RunAio) => SingleInv'
<1> SUFFICES ASSUME SingleInv, RunBasic \/ RunAio PROVE SingleInv'
  OBVIOUS
<1>1. PICK r \in {Basic, Aio} :
        /\ \/ /\ pc' = [pc EXCEPT ![r] = "setup"]
              /\ UNCHANGED <<ret, failed>>
           \/ /\ pc' = [pc EXCEPT ![r] = "exit"] /\ ret' = [ret EXCEPT ![r] = -1]
              /\ failed' = failed \cup {r}
        /\ UNCHANGED <<files, dst, locals, pending, res>>
        /\ r = Basic => script = "start_basic" /\ script' = "wait_basic"
        /\ r = Aio => script = "start_aio" /\ script' = "wait_aio"
  BY TargetAssumption DEF RunBasic, RunAio, Run, RunFail, Line
<1>2. Basic \in Req /\ Aio \in Req /\ Basic # Aio
  BY TargetAssumption
<1>3. TypeOK'
  BY <1>1, <1>2 DEF SingleInv, TypeOK, ProcTypeOK
<1>4. /\ pc'[r] \in {"setup", "exit"} /\ \A q \in Req : q # r => pc'[q] = pc[q]
      /\ r \notin failed' => pc'[r] = "setup" /\ r \notin failed
      /\ \A q \in Req : q # r => (q \in failed') = (q \in failed)
  BY <1>1, <1>2 DEF SingleInv, TypeOK, ProcTypeOK
<1>5. Places'
  BY <1>1, <1>2, <1>4 DEF SingleInv, Places
<1>6. CASE r = Basic
  <2>1. BasicData'
    BY <1>1, <1>4, <1>6 DEF SingleInv, BasicData, Places
  <2>2. AioData'
    BY <1>1, <1>2, <1>4, <1>6, AioUntouched
  <2>3. QED
    BY <1>3, <1>5, <2>1, <2>2 DEF SingleInv
<1>7. CASE r = Aio
  <2>1. BasicData'
    BY <1>1, <1>2, <1>4, <1>7, BasicUntouched
  <2>2. pc[Aio] = "none" /\ Aio \notin pending
    BY <1>1, <1>2, <1>7 DEF SingleInv, Places, AioData, CopyInv
  <2>3. CopyInv(Aio)'
    BY <1>1, <1>4, <1>7, <2>2 DEF SingleInv, AioData, CopyInv
  <2>4. Aio \in failed' \/ NotLonger(Aio)'
    BY <1>1, <1>4, <1>7 DEF SingleInv, AioData, NotLonger
  <2>5. QED
    BY <1>3, <1>5, <2>1, <2>3, <2>4 DEF SingleInv, AioData
<1>8. QED
  BY <1>6, <1>7

LEMMA EndedStep == SingleInv /\ (EndBasic \/ EndAio) => SingleInv'
<1> SUFFICES ASSUME SingleInv, EndBasic \/ EndAio PROVE SingleInv'
  OBVIOUS
<1>1. /\ \/ script = "wait_basic" /\ script' = "rm_aio" /\ pc[Basic] = "exit"
         \/ script = "wait_aio" /\ script' = "done" /\ pc[Aio] = "exit"
      /\ UNCHANGED procVars
  BY DEF EndBasic, EndAio, Ended, Line
<1>2. TypeOK'
  BY <1>1 DEF SingleInv, TypeOK, ProcTypeOK
<1>3. Places'
  BY <1>1 DEF SingleInv, Places
<1>4. BasicData'
  BY <1>1, BasicUntouched
<1>5. AioData'
  BY <1>1, AioUntouched
<1>6. QED
  BY <1>2, <1>3, <1>4, <1>5 DEF SingleInv

\* The file after fopen with "a" and fwrite of n bytes.
LEMMA AppendedFacts ==
  ASSUME NEW d \in [same : Int, len : Nat \cup {Absent}], NEW b \in Int, NEW n \in Nat
  PROVE  /\ Appended(d, b, n) \in [same : Int, len : Nat \cup {Absent}]
         /\ d.len = Absent /\ b = n => Appended(d, b, n) = [same |-> n, len |-> n]
<1>1. d.same \in Int /\ d.len \in Nat \cup {Absent} /\ d = [same |-> d.same, len |-> d.len]
  OBVIOUS
<1>2. CASE d.len <= 0
  <2>1. Created(d) = [same |-> d.same, len |-> 0]
    BY <1>1, <1>2 DEF Created, Max2, Absent
  <2>2. Appended(d, b, n) = [same |-> IF b < n THEN b ELSE n, len |-> n]
    BY <1>1, <1>2, <2>1 DEF Appended, Written, Max2
  <2>3. QED
    BY <2>2
<1>3. CASE d.len > 0
  <2>1. Appended(d, b, n) = [same |-> d.same, len |-> d.len + n]
    BY <1>1, <1>3 DEF Appended, Absent
  <2>2. d.len + n \in Nat /\ d.len # Absent
    BY <1>1, <1>3 DEF Absent
  <2>3. QED
    BY <1>1, <2>1, <2>2
<1>4. QED
  BY <1>1, <1>2, <1>3 DEF Absent

LEMMA BasicStep == SingleInv /\ BasicNext => SingleInv'
<1> SUFFICES ASSUME SingleInv, BasicNext PROVE SingleInv'
  OBVIOUS
<1>1. /\ Basic \in Req /\ Aio \in Req /\ Basic # Aio
      /\ st_size[Basic] \in Nat /\ buffer[Basic] \in Int
      /\ dst[Basic] \in [same : Int, len : Nat \cup {Absent}]
  BY TargetAssumption, ProcTypeUse DEF SingleInv, TypeOK
<1>2. CASE BasicRead /\ UNCHANGED script
  <2>1. PICK n \in 0 .. st_size[Basic] :
          /\ buffer' = [buffer EXCEPT ![Basic] = n]
          /\ failed' = IF n < st_size[Basic] THEN failed \cup {Basic} ELSE failed
    BY <1>2 DEF BasicRead
  <2>2. /\ pc[Basic] = "setup" /\ pc' = [pc EXCEPT ![Basic] = "write"]
        /\ UNCHANGED <<files, dst, fsize, pending, res, ret, script>>
    BY <1>2 DEF BasicRead
  <2>3. TypeOK'
    BY <1>1, <2>1, <2>2 DEF SingleInv, TypeOK, ProcTypeOK
  <2>4. /\ pc'[Basic] = "write" /\ pc'[Aio] = pc[Aio] /\ buffer'[Basic] = n
        /\ buffer'[Aio] = buffer[Aio] /\ (Aio \in failed') = (Aio \in failed)
    BY <1>1, <2>1, <2>2 DEF SingleInv, TypeOK, ProcTypeOK
  <2>5. Places'
    BY <2>2, <2>4 DEF SingleInv, Places
  <2>6. BasicData'
    BY <1>1, <2>1, <2>2, <2>4 DEF SingleInv, BasicData
  <2>7. AioData'
    BY <2>2, <2>4, AioUntouched
  <2>8. QED
    BY <2>3, <2>5, <2>6, <2>7 DEF SingleInv
<1>3. CASE BasicWrite /\ UNCHANGED script
  <2>1. PICK n \in 0 .. st_size[Basic] :
          /\ dst' = [dst EXCEPT ![Basic] = Appended(dst[Basic], buffer[Basic], n)]
          /\ failed' = IF n < st_size[Basic] THEN failed \cup {Basic} ELSE failed
    BY <1>3 DEF BasicWrite
  <2>2. /\ pc[Basic] = "write" /\ pc' = [pc EXCEPT ![Basic] = "exit"]
        /\ UNCHANGED <<files, locals, pending, res, ret, script>>
    BY <1>3 DEF BasicWrite
  <2>3. TypeOK'
    <3>1. Appended(dst[Basic], buffer[Basic], n) \in [same : Int, len : Nat \cup {Absent}]
      BY <1>1, AppendedFacts
    <3>2. dst' \in [Req -> [same : Int, len : Nat \cup {Absent}]] /\ failed' \subseteq Req
      BY <1>1, <2>1, <3>1 DEF SingleInv, TypeOK, ProcTypeOK
    <3>3. QED
      BY <1>1, <2>2, <3>2 DEF SingleInv, TypeOK, ProcTypeOK
  <2>4. /\ pc'[Basic] = "exit" /\ pc'[Aio] = pc[Aio] /\ dst'[Aio] = dst[Aio]
        /\ dst'[Basic] = Appended(dst[Basic], buffer[Basic], n)
        /\ (Aio \in failed') = (Aio \in failed)
    BY <1>1, <2>1, <2>2 DEF SingleInv, TypeOK, ProcTypeOK
  <2>5. Places'
    BY <2>2, <2>4 DEF SingleInv, Places
  <2>6. BasicData'
    <3>1. ASSUME Basic \notin failed' PROVE Identical(Basic)'
      <4>1. n = st_size[Basic] /\ Basic \notin failed
        BY <1>1, <2>1, <3>1
      <4>2. buffer[Basic] = n /\ dst[Basic].len = Absent
        BY <2>2, <4>1 DEF SingleInv, BasicData, Places
      <4>3. dst'[Basic] = [same |-> n, len |-> n]
        BY <1>1, <2>4, <4>2, AppendedFacts
      <4>4. QED
        BY <2>2, <4>1, <4>3 DEF Identical
    <3>2. QED
      BY <2>4, <3>1 DEF BasicData
  <2>7. AioData'
    BY <2>2, <2>4, AioUntouched
  <2>8. QED
    BY <2>3, <2>5, <2>6, <2>7 DEF SingleInv
<1>4. CASE (BasicFail \/ Killed(Basic)) /\ UNCHANGED script
  <2>1. /\ pc[Basic] \notin {"none", "exit"} /\ pc' = [pc EXCEPT ![Basic] = "exit"]
        /\ ret' = [ret EXCEPT ![Basic] = -1] /\ failed' = failed \cup {Basic}
        /\ UNCHANGED <<files, dst, locals, pending, res, script>>
    BY <1>4 DEF BasicFail, Killed
  <2>2. TypeOK'
    BY <1>1, <2>1 DEF SingleInv, TypeOK, ProcTypeOK
  <2>3. pc'[Basic] = "exit" /\ pc'[Aio] = pc[Aio] /\ (Aio \in failed') = (Aio \in failed)
    BY <1>1, <2>1 DEF SingleInv, TypeOK, ProcTypeOK
  <2>4. Places' /\ BasicData'
    BY <2>1, <2>3 DEF SingleInv, Places, BasicData
  <2>5. AioData'
    BY <2>1, <2>3, AioUntouched
  <2>6. QED
    BY <2>2, <2>4, <2>5 DEF SingleInv
<1>5. QED
  BY <1>2, <1>3, <1>4 DEF BasicNext

LEMMA AioStep == SingleInv /\ AioNext => SingleInv'
<1> SUFFICES ASSUME SingleInv, AioNext PROVE SingleInv'
  OBVIOUS
<1>1. Basic \in Req /\ Aio \in Req /\ Basic # Aio /\ ProcTypeOK /\ CopyInv(Aio)
  BY TargetAssumption DEF SingleInv, TypeOK, AioData
<1>2. ProcStep(Aio) /\ script' = script
  BY DEF AioNext, Kernel, ProcStep, SingleInv, Places
<1>3. TypeOK'
  <2>1. pc[Aio] \in {"reading", "writing"} /\ Aio \in pending => fsize[Aio] >= 0
    BY <1>1 DEF CopyInv
  <2>2. QED
    BY <1>1, <1>2, <2>1, ProcTypeStep DEF SingleInv, TypeOK
<1>4. /\ st_size' = st_size /\ pc'[Basic] = pc[Basic] /\ buffer'[Basic] = buffer[Basic]
      /\ dst'[Basic] = dst[Basic] /\ (Basic \in failed') = (Basic \in failed)
      /\ (Basic \in pending') = (Basic \in pending)
  BY <1>1, <1>2, CopyInvOther
<1>5. pc[Aio] \notin {"none", "exit"} /\ pc'[Aio] # "none" /\ failed \subseteq failed'
  BY <1>1, <1>2 DEF ProcTypeOK, ProcStep, Process, At, Fail, Setup, SetupFail, SubmitRead,
     SubmitReadFail, SpinRead, SubmitWrite, SubmitWriteFail, SpinWrite, Killed, CompleteRead,
     CompleteWrite
<1>6. script = "wait_aio"
  BY <1>5 DEF SingleInv, Places, TypeOK
<1>7. Places'
  <2>1. pending' \subseteq {Aio}
    BY <1>3, <1>4, TargetAssumption DEF SingleInv, Places, TypeOK, ProcTypeOK
  <2>2. QED
    BY <1>2, <1>4, <1>5, <1>6, <2>1 DEF SingleInv, Places
<1>8. BasicData'
  BY <1>4, <1>6, BasicUntouched
<1>9. AioData'
  <2>1. CopyInv(Aio)'
    BY <1>1, <1>2, CopyInvStep
  <2>2. Aio \in failed' \/ NotLonger(Aio)'
    BY <1>1, <1>2, <1>5, <1>6, NotLongerStep DEF SingleInv, AioData
  <2>3. QED
    BY <2>1, <2>2 DEF AioData
<1>10. QED
  BY <1>3, <1>7, <1>8, <1>9 DEF SingleInv

LEMMA SingleStep == SingleInv /\ [Next]_vars => SingleInv'
<1> SUFFICES ASSUME SingleInv, [Next]_vars PROVE SingleInv'
  OBVIOUS
<1>1. CASE ScriptNext
  BY <1>1, RmStep, RunStep, EndedStep DEF ScriptNext
<1>2. CASE BasicNext \/ AioNext
  BY <1>2, BasicStep, AioStep
<1>3. CASE UNCHANGED vars
  <2>1. UNCHANGED <<procVars, script>>
    BY <1>3 DEF vars
  <2>2. TypeOK' /\ Places' /\ BasicData'
    BY <2>1 DEF SingleInv, TypeOK, ProcTypeOK, Places, BasicData, Identical
  <2>3. AioData'
    BY <2>1, AioUntouched
  <2>4. QED
    BY <2>2, <2>3 DEF SingleInv
<1>4. QED
  BY <1>1, <1>2, <1>3 DEF Next, Done
-----------------------------------------------------------------------------
\* SingleInv holds of the script, for every length, old file and failure.
THEOREM SingleInductive == Spec => []SingleInv
<1>1. QED
  BY SingleInit, SingleStep, PTL DEF Spec

\* The types of the script's state and that of its programs.
THEOREM SingleTypeCorrect == Spec => []TypeOK
<1>1. SingleInv => TypeOK
  BY DEF SingleInv
<1>2. QED
  BY <1>1, SingleInductive, PTL

\* single_test.sh:1-15: at the end each copy that met no failure is identical to
\* the source, whatever an earlier run has left.
THEOREM BothCopiedCorrect == Spec => []BothCopied
<1>1. SingleInv => BothCopied
  <2> SUFFICES ASSUME SingleInv, script = "done"
               PROVE  /\ Basic \notin failed => Identical(Basic)
                      /\ Aio \notin failed /\ st_size[Aio] < IntMod => Identical(Aio)
    BY DEF BothCopied
  <2>1. pc[Basic] = "exit" /\ pc[Aio] = "exit"
    BY DEF SingleInv, Places
  <2>2. Basic \notin failed => Identical(Basic)
    BY <2>1 DEF SingleInv, BasicData
  <2>3. ASSUME Aio \notin failed, st_size[Aio] < IntMod PROVE Identical(Aio)
    <3>1. /\ dst[Aio].same = st_size[Aio] /\ dst[Aio].len >= st_size[Aio]
          /\ dst[Aio].len <= st_size[Aio]
      BY <2>1, <2>3 DEF SingleInv, AioData, CopyInv, NotLonger
    <3>2. /\ dst[Aio] \in [same : Int, len : Nat \cup {Absent}]
          /\ dst[Aio].len \in Int /\ st_size[Aio] \in Nat
      BY TargetAssumption, ProcTypeUse DEF SingleInv, TypeOK
    <3>3. dst[Aio].len = st_size[Aio]
      BY <3>1, <3>2
    <3>4. QED
      BY <3>1, <3>2, <3>3 DEF Identical
  <2>4. QED
    BY <2>2, <2>3
<1>2. QED
  BY <1>1, SingleInductive, PTL
=============================================================================
