---------------------------- MODULE AioCopyPProofs ----------------------------
(* What a process that runs aio_copy_p keeps true of its file, whoever started
   it; for the programs that contain it. *)
EXTENDS AioCopyP, TLAPS

\* An int that holds a length.
LEMMA ToIntFacts ==
  ASSUME NEW n \in Nat
  PROVE  /\ ToInt(n) \in IntRange /\ ToInt(n) \in Int /\ ToInt(n) <= n
         /\ ToInt(n) >= 0 /\ n < IntMod => ToInt(n) = n
<1>1. n % IntMod \in 0 .. IntMod - 1
  BY IntAssumption
<1>2. n % IntMod <= n /\ (n < IntMod => n % IntMod = n)
  BY IntAssumption
<1>3. QED
  BY <1>1, <1>2, IntAssumption DEF ToInt, IntRange

USE DEF files, locals, At, Fail

\* A destination is a record of its two numbers after each of the calls.
LEMMA DestinationType ==
  ASSUME NEW d \in [same : Int, len : Nat \cup {Absent}]
  PROVE  /\ Created(d) \in [same : Int, len : Nat]
         /\ \A b \in Int, n \in Int : n >= 0 => Written(d, b, n) \in [same : Int, len : Nat]
<1>1. d.same \in Int /\ d.len \in Int /\ d.len >= -1
  BY DEF Absent
<1>2. Created(d) = [same |-> d.same, len |-> Max2(d.len, 0)]
  BY DEF Created
<1>3. Max2(d.len, 0) \in Nat /\ \A n \in Int : n >= 0 => Max2(d.len, n) \in Nat
  BY <1>1 DEF Max2
<1>4. QED
  BY <1>1, <1>2, <1>3 DEF Written

\* What mmap returns is stored as a buffer.
LEMMA MmapType ==
  ASSUME NEW n, NEW faulty, NEW b \in MmapResults(n, faulty)
  PROVE  b \in Int
BY DEF MmapResults, MapFailed

\* What the kernel reports.
LEMMA ResultType ==
  ASSUME NEW n \in Int, NEW v \in {BadRes} \cup 0 .. n - 1
  PROVE  v \in Int /\ Max2(v, 0) \in Nat /\ (n >= 0 => Max2(v, 0) <= n)
BY DEF BadRes, Max2

\* One step of a process, or of the kernel for it.
ProcStep(r) == Process(r) \/ (r \in pending /\ (CompleteRead(r) \/ CompleteWrite(r)))

LEMMA ProcTypeInit == ProcInit => ProcTypeOK
<1> SUFFICES ASSUME ProcInit PROVE ProcTypeOK
  OBVIOUS
<1>1. st_size \in [Req -> Nat] /\ old_len \in [Req -> Nat \cup {Absent}]
  BY SizeAssumption DEF ProcInit
<1>2. dst \in [Req -> [same : Int, len : Nat \cup {Absent}]]
  BY <1>1 DEF ProcInit
<1>3. fsize \in [Req -> IntRange] /\ buffer \in [Req -> Int]
  BY IntAssumption DEF ProcInit, IntRange, NoBuffer
<1>4. QED
  BY <1>1, <1>2, <1>3 DEF ProcInit, ProcTypeOK

LEMMA ProcTypeStep ==
  ASSUME ProcTypeOK, NEW r \in Req, ProcStep(r),
         pc[r] \in {"reading", "writing"} /\ r \in pending => fsize[r] >= 0
  PROVE  ProcTypeOK'
<1>1. CASE Setup(r) \/ SpinRead(r) \/ SpinWrite(r)
  BY <1>1 DEF Setup, SpinRead, SpinWrite, ProcTypeOK
<1>2. CASE SetupFail(r) \/ SubmitReadFail(r) \/ Killed(r)
  BY <1>2 DEF SetupFail, SubmitReadFail, Killed, ProcTypeOK
<1>3. CASE SubmitRead(r)
  <2>1. st_size[r] \in Nat
    BY DEF ProcTypeOK
  <2>2. PICK b \in MmapResults(ToInt(st_size[r]), "mmap" \in Faults) :
          /\ fsize' = [fsize EXCEPT ![r] = ToInt(st_size[r])]
          /\ buffer' = [buffer EXCEPT ![r] = b]
    BY <1>3 DEF SubmitRead
  <2>3. b \in Int /\ ToInt(st_size[r]) \in IntRange
    BY <2>1, <2>2, MmapType, ToIntFacts
  <2>4. fsize' \in [Req -> IntRange] /\ buffer' \in [Req -> Int]
    BY <2>2, <2>3 DEF ProcTypeOK
  <2>5. QED
    BY <1>3, <2>4 DEF SubmitRead, ProcTypeOK
<1>4. CASE SubmitWrite(r) \/ SubmitWriteFail(r)
  <2>1. dst[r] \in [same : Int, len : Nat \cup {Absent}]
    BY DEF ProcTypeOK
  <2>2. dst' = dst \/ dst' = [dst EXCEPT ![r] = Created(dst[r])]
    BY <1>4 DEF SubmitWrite, SubmitWriteFail
  <2>3. dst' \in [Req -> [same : Int, len : Nat \cup {Absent}]]
    BY <2>1, <2>2, DestinationType DEF ProcTypeOK
  <2>4. CASE SubmitWrite(r)
    BY <2>3, <2>4 DEF SubmitWrite, ProcTypeOK
  <2>5. CASE SubmitWriteFail(r)
    BY <2>3, <2>5 DEF SubmitWriteFail, ProcTypeOK
  <2>6. QED
    BY <1>4, <2>4, <2>5
<1>5. CASE r \in pending /\ CompleteRead(r)
  <2>1. fsize[r] \in Int /\ fsize[r] >= 0
    BY <1>5 DEF CompleteRead, ProcTypeOK, IntRange
  <2>2. PICK v \in Int, b \in Int : /\ res' = [res EXCEPT ![r] = v]
                                    /\ buffer' = [buffer EXCEPT ![r] = b]
                                    /\ failed' \subseteq failed \cup {r}
    <3>1. ASSUME NEW n \in {BadRes} \cup 0 .. fsize[r] - 1,
                 res' = [res EXCEPT ![r] = n], buffer' = [buffer EXCEPT ![r] = Max2(n, 0)]
          PROVE  \E v \in Int, b \in Int : /\ res' = [res EXCEPT ![r] = v]
                                          /\ buffer' = [buffer EXCEPT ![r] = b]
                                          /\ failed' \subseteq failed \cup {r}
      <4>1. n \in Int /\ Max2(n, 0) \in Int
        BY <2>1, ResultType
      <4>2. failed' \subseteq failed \cup {r}
        BY <1>5 DEF CompleteRead
      <4>3. QED
        BY <3>1, <4>1, <4>2
    <3>2. QED
      BY <1>5, <2>1, <3>1 DEF CompleteRead
  <2>3. res' \in [Req -> Int] /\ buffer' \in [Req -> Int] /\ failed' \subseteq Req
    BY <2>2 DEF ProcTypeOK
  <2>4. QED
    BY <1>5, <2>3 DEF CompleteRead, ProcTypeOK
<1>6. CASE r \in pending /\ CompleteWrite(r)
  <2>1. /\ fsize[r] \in Int /\ fsize[r] >= 0 /\ buffer[r] \in Int
        /\ dst[r] \in [same : Int, len : Nat \cup {Absent}]
    BY <1>6 DEF CompleteWrite, ProcTypeOK, IntRange
  <2>2. PICK v \in Int, n \in Nat : /\ res' = [res EXCEPT ![r] = v]
                                    /\ dst' = [dst EXCEPT ![r] = Written(dst[r], buffer[r], n)]
                                    /\ failed' \subseteq failed \cup {r}
    <3>1. CASE \E n \in {BadRes} \cup 0 .. fsize[r] - 1 :
                 /\ res' = [res EXCEPT ![r] = n]
                 /\ dst' = [dst EXCEPT ![r] = Written(@, buffer[r], Max2(n, 0))]
      BY <1>6, <2>1, <3>1, ResultType DEF CompleteWrite
    <3>2. QED
      BY <1>6, <2>1, <3>1 DEF CompleteWrite
  <2>3. Written(dst[r], buffer[r], n) \in [same : Int, len : Nat \cup {Absent}]
    BY <2>1, <2>2, DestinationType
  <2>4. /\ res' \in [Req -> Int] /\ failed' \subseteq Req
        /\ dst' \in [Req -> [same : Int, len : Nat \cup {Absent}]]
    BY <2>2, <2>3 DEF ProcTypeOK
  <2>5. QED
    BY <1>6, <2>4 DEF CompleteWrite, ProcTypeOK
<1>7. QED
  BY <1>1, <1>2, <1>3, <1>4, <1>5, <1>6 DEF ProcStep, Process

LEMMA ProcTypeUse ==
  ASSUME ProcTypeOK, NEW r \in Req
  PROVE  /\ st_size[r] \in Nat /\ old_len[r] \in Int /\ fsize[r] \in Int /\ buffer[r] \in Int
         /\ dst[r] \in [same : Int, len : Nat \cup {Absent}]
         /\ dst[r].same \in Int /\ dst[r].len \in Int /\ ToInt(st_size[r]) \in Int
<1>1. dst[r] \in [same : Int, len : Nat \cup {Absent}] /\ old_len[r] \in Int
  BY DEF ProcTypeOK, Absent
<1>2. dst[r].same \in Int /\ dst[r].len \in Int
  BY <1>1 DEF Absent
<1>3. st_size[r] \in Nat /\ fsize[r] \in Int /\ buffer[r] \in Int
  BY DEF ProcTypeOK, IntRange
<1>4. ToInt(st_size[r]) \in Int
  BY <1>3, ToIntFacts
<1>5. QED
  BY <1>1, <1>2, <1>3, <1>4

\* A write of n bytes: it makes the file as long, and with the n right bytes that
\* were read all of it is right up to there.
LEMMA WrittenFacts ==
  ASSUME NEW d \in [same : Int, len : Nat \cup {Absent}], NEW b \in Int, NEW n \in Int
  PROVE  /\ Written(d, b, n).len = Max2(d.len, n)
         /\ b = n => Written(d, b, n).same = n
BY DEF Written

\* Of another file nothing changes.
LEMMA CopyInvOther ==
  ASSUME ProcTypeOK, NEW r \in Req, NEW q \in Req, q # r, ProcStep(r)
  PROVE  /\ st_size' = st_size /\ old_len' = old_len
         /\ pc'[q] = pc[q] /\ fsize'[q] = fsize[q] /\ buffer'[q] = buffer[q]
         /\ dst'[q] = dst[q] /\ (q \in pending') = (q \in pending)
         /\ (q \in failed') = (q \in failed) /\ res'[q] = res[q]
<1> USE DEF ProcTypeOK
<1>1. CASE Setup(r) \/ SpinRead(r) \/ SpinWrite(r)
  BY <1>1 DEF Setup, SpinRead, SpinWrite
<1>2. CASE SetupFail(r) \/ SubmitReadFail(r) \/ Killed(r)
  BY <1>2 DEF SetupFail, SubmitReadFail, Killed
<1>3. CASE SubmitRead(r)
  BY <1>3 DEF SubmitRead
<1>4. CASE SubmitWrite(r) \/ SubmitWriteFail(r)
  BY <1>4 DEF SubmitWrite, SubmitWriteFail
<1>5. CASE CompleteRead(r)
  BY <1>5 DEF CompleteRead
<1>6. CASE CompleteWrite(r)
  BY <1>6 DEF CompleteWrite
<1>7. QED
  BY <1>1, <1>2, <1>3, <1>4, <1>5, <1>6 DEF ProcStep, Process

LEMMA CopyInvInit ==
  ASSUME ProcInit, NEW r \in Req
  PROVE  CopyInv(r)
BY DEF ProcInit, CopyInv, BadRes

LEMMA NeverNegative ==
  ASSUME NEW r \in Req, res[r] \in Int, res[r] >= BadRes
  PROVE  ~ResNegative(r)
<1>1. IntMod * IntMod \in Int /\ IntMod * IntMod >= IntMod
  BY IntAssumption
<1>2. QED
  BY <1>1, IntAssumption DEF ResNegative, AsUnsigned, BadRes

\* A call that fails leaves its file excused.
LEMMA CopyInvFail ==
  ASSUME ProcTypeOK, NEW r \in Req, CopyInv(r), r \notin pending, NEW from, Fail(r, from)
  PROVE  CopyInv(r)'
<1>1. /\ pc'[r] = "exit" /\ r \in failed' /\ r \notin pending' /\ res' = res
  BY DEF ProcTypeOK
<1>2. QED
  BY <1>1 DEF CopyInv

LEMMA CopyInvStep ==
  ASSUME ProcTypeOK, NEW r \in Req, ProcStep(r), NEW q \in Req, CopyInv(q)
  PROVE  CopyInv(q)'
<1>1. CASE q # r
  BY <1>1, CopyInvOther DEF CopyInv
<1> SUFFICES ASSUME q = r PROVE CopyInv(r)'
  BY <1>1
<1> USE DEF ProcTypeOK
<1>2. CASE Setup(r)
  BY <1>2 DEF Setup, CopyInv
<1>3. CASE SetupFail(r) \/ SubmitReadFail(r) \/ SubmitWriteFail(r) \/ Killed(r)
  <2>1. r \notin pending /\ \E from : Fail(r, from)
    BY <1>3 DEF SetupFail, SubmitReadFail, SubmitWriteFail, Killed, CopyInv
  <2>2. QED
    BY <2>1, CopyInvFail
<1>4. CASE SubmitRead(r)
  <2>1. ToInt(st_size[r]) \in Int
    BY ProcTypeUse
  <2>2. /\ fsize'[r] = ToInt(st_size[r]) /\ ToInt(st_size[r]) >= 0
        /\ pc'[r] = "reading" /\ r \in pending'
    BY <1>4 DEF SubmitRead, Submittable
  <2>3. st_size' = st_size /\ res' = res
    BY <1>4 DEF SubmitRead
  <2>4. QED
    BY <2>1, <2>2, <2>3 DEF CopyInv
<1>5. CASE SpinRead(r)
  <2>1. ~ResNegative(r)
    BY NeverNegative DEF CopyInv
  <2>2. /\ pc[r] = "reading" /\ pc'[r] = "write" /\ r \notin pending
        /\ UNCHANGED <<files, dst, locals, pending, res, failed>>
    BY <1>5, <2>1 DEF SpinRead
  <2>3. QED
    BY <2>2 DEF CopyInv
<1>6. CASE SubmitWrite(r)
  <2>1. /\ pc[r] = "write" /\ pc'[r] = "writing" /\ r \in pending'
        /\ UNCHANGED <<files, locals, res, failed>>
    BY <1>6 DEF SubmitWrite
  <2>2. QED
    BY <2>1 DEF CopyInv
<1>7. CASE SpinWrite(r)
  <2>1. /\ pc[r] = "writing" /\ pc'[r] = "exit" /\ r \notin pending
        /\ UNCHANGED <<files, dst, locals, pending, res, failed>>
    BY <1>7 DEF SpinWrite
  <2>2. QED
    BY <2>1 DEF CopyInv
<1>8. CASE CompleteRead(r)
  <2>1. /\ pc[r] = "reading" /\ pc'[r] = "reading" /\ fsize' = fsize /\ st_size' = st_size
        /\ r \notin pending'
    BY <1>8 DEF CompleteRead
  <2>2. res'[r] >= BadRes /\ (r \notin failed' => buffer'[r] = fsize[r])
    <3>1. fsize[r] \in Int /\ fsize[r] >= 0
      BY <2>1, ProcTypeUse DEF CopyInv
    <3>2. CASE /\ res' = [res EXCEPT ![r] = fsize[r]]
               /\ buffer' = [buffer EXCEPT ![r] = fsize[r]]
      BY <3>1, <3>2 DEF BadRes
    <3>3. ASSUME NEW n \in {BadRes} \cup 0 .. fsize[r] - 1, res' = [res EXCEPT ![r] = n],
                 failed' = failed \cup {r}
          PROVE  res'[r] >= BadRes /\ r \in failed'
      BY <3>1, <3>3 DEF BadRes
    <3>4. QED
      BY <1>8, <3>2, <3>3 DEF CompleteRead
  <2>3. QED
    BY <2>1, <2>2 DEF CopyInv
<1>9. CASE CompleteWrite(r)
  <2>1. /\ pc[r] = "writing" /\ pc'[r] = "writing" /\ st_size' = st_size
        /\ UNCHANGED locals /\ r \notin pending'
    BY <1>9 DEF CompleteWrite
  <2>2. /\ fsize[r] \in Int /\ fsize[r] >= 0 /\ fsize[r] = ToInt(st_size[r])
        /\ st_size[r] \in Nat
        /\ dst[r] \in [same : Int, len : Nat \cup {Absent}]
        /\ dst[r].len \in Int
    BY <2>1, ProcTypeUse DEF CopyInv
  <2>3. /\ res'[r] >= BadRes
        /\ r \notin failed' =>
             r \notin failed /\ dst'[r] = Written(dst[r], buffer[r], fsize[r])
    <3>1. CASE /\ res' = [res EXCEPT ![r] = fsize[r]]
               /\ dst' = [dst EXCEPT ![r] = Written(@, buffer[r], fsize[r])]
               /\ UNCHANGED failed
      BY <2>2, <3>1 DEF BadRes
    <3>2. ASSUME NEW n \in {BadRes} \cup 0 .. fsize[r] - 1, res' = [res EXCEPT ![r] = n],
                 failed' = failed \cup {r}
          PROVE  res'[r] >= BadRes /\ r \in failed'
      BY <2>2, <3>2 DEF BadRes
    <3>3. QED
      BY <1>9, <3>1, <3>2 DEF CompleteWrite
  <2>4. ASSUME r \notin failed', st_size[r] < IntMod
        PROVE  dst'[r].same = st_size[r] /\ dst'[r].len >= st_size[r]
    <3>1. buffer[r] = fsize[r] /\ fsize[r] = st_size[r]
      BY <2>1, <2>2, <2>3, <2>4, ToIntFacts DEF CopyInv
    <3>2. dst'[r].same = fsize[r] /\ dst'[r].len = Max2(dst[r].len, fsize[r])
      BY <2>2, <2>3, <2>4, <3>1, WrittenFacts
    <3>3. QED
      BY <2>2, <3>1, <3>2 DEF Max2
  <2>5. QED
    BY <2>1, <2>2, <2>3, <2>4 DEF CopyInv
<1>10. QED
  BY <1>2, <1>3, <1>4, <1>5, <1>6, <1>7, <1>8, <1>9 DEF ProcStep, Process

\* What is written never reaches beyond the source.
LEMMA NotLongerStep ==
  ASSUME ProcTypeOK, NEW r \in Req, ProcStep(r), NEW q \in Req, CopyInv(q), NotLonger(q)
  PROVE  NotLonger(q)'
<1>1. CASE q # r
  BY <1>1, CopyInvOther DEF NotLonger
<1>2. CASE q = r
  <2>1. /\ dst[r] \in [same : Int, len : Nat \cup {Absent}] /\ dst[r].len \in Int
        /\ st_size[r] \in Nat /\ dst \in [Req -> [same : Int, len : Nat \cup {Absent}]]
    BY ProcTypeUse DEF ProcTypeOK
  <2>2. st_size' = st_size
    BY DEF ProcStep, Process, Setup, SetupFail, SubmitRead, SubmitReadFail, SpinRead,
           SubmitWrite, SubmitWriteFail, SpinWrite, Killed, CompleteRead, CompleteWrite
  <2>3. CASE dst' = dst
    BY <1>2, <2>2, <2>3 DEF NotLonger
  <2>4. CASE dst' = [dst EXCEPT ![r] = Created(dst[r])]
    <3>1. dst'[r].len = Max2(dst[r].len, 0)
      BY <2>1, <2>4 DEF Created
    <3>2. QED
      BY <1>2, <2>1, <2>2, <3>1 DEF NotLonger, Max2
  <2>5. ASSUME NEW n \in Int, n <= fsize[r], pc[r] = "writing",
               dst' = [dst EXCEPT ![r] = Written(dst[r], buffer[r], n)]
        PROVE  dst'[r].len <= st_size[r]
    <3>1. dst'[r].len = Max2(dst[r].len, n)
      BY <2>1, <2>5 DEF Written
    <3>2. fsize[r] <= st_size[r] /\ fsize[r] \in Int
      BY <1>2, <2>1, <2>5, ToIntFacts DEF CopyInv
    <3>3. dst[r].len <= st_size[r]
      BY <1>2 DEF NotLonger
    <3>4. n <= st_size[r]
      BY <2>1, <2>5, <3>2
    <3>5. QED
      BY <3>1, <3>3, <3>4 DEF Max2
  <2>6. CASE CompleteWrite(r)
    <3>1. pc[r] = "writing" /\ fsize[r] \in Int /\ fsize[r] >= 0
      BY <1>2, <2>6, ProcTypeUse DEF CompleteWrite, CopyInv
    <3>2. CASE dst' = [dst EXCEPT ![r] = Written(dst[r], buffer[r], fsize[r])]
      <4>1. fsize[r] <= fsize[r]
        BY <3>1
      <4>2. dst'[r].len <= st_size[r]
        BY <2>5, <3>1, <3>2, <4>1
      <4>3. QED
        BY <1>2, <2>2, <4>2 DEF NotLonger
    <3>3. ASSUME NEW n \in {BadRes} \cup 0 .. fsize[r] - 1,
                 dst' = [dst EXCEPT ![r] = Written(dst[r], buffer[r], Max2(n, 0))]
          PROVE  NotLonger(q)'
      <4>1. Max2(n, 0) \in Int /\ Max2(n, 0) <= fsize[r]
        BY <3>1, ResultType
      <4>2. QED
        BY <1>2, <2>2, <2>5, <3>1, <3>3, <4>1 DEF NotLonger
    <3>4. QED
      BY <2>6, <3>2, <3>3 DEF CompleteWrite
  <2>7. CASE ~CompleteWrite(r)
    <3>1. dst' = dst \/ dst' = [dst EXCEPT ![r] = Created(dst[r])]
      BY <2>7 DEF ProcStep, Process, Setup, SetupFail, SubmitRead, SubmitReadFail, SpinRead,
                  SubmitWrite, SubmitWriteFail, SpinWrite, Killed, CompleteRead
    <3>2. QED
      BY <2>3, <2>4, <3>1
  <2>8. QED
    BY <2>6, <2>7
<1>3. QED
  BY <1>1, <1>2
=============================================================================
