-------------------------- MODULE AioManagerProofs --------------------------
(***************************************************************************)
(* Theorems about AioManager, for every value of its constants: its types, *)
(* the inductive invariant IndInv with what follows from it for every run, *)
(* and that the manager implements the abstract copy job.                  *)
(***************************************************************************)
EXTENDS AioManagerInv, FiniteSetTheorems, SequenceTheorems, TLAPS

(* Types. *)

\* A converted length is an int.
LEMMA ToIntType == \A n \in Nat : ToInt(n) \in IntRange
<1> SUFFICES ASSUME NEW n \in Nat PROVE ToInt(n) \in IntRange
  OBVIOUS
<1>1. n % IntMod \in 0 .. IntMod - 1
  BY IntAssumption
<1>2. QED
  BY <1>1, IntAssumption DEF ToInt, IntRange

LEMMA InitTypeOK == Init => TypeOK
<1> SUFFICES ASSUME Init PROVE TypeOK
  OBVIOUS
<1>1. FileTypes
  <2>1. /\ st_size \in [Req -> Nat]
        /\ old_len \in [Req -> Nat \cup {Absent}]
    BY SizeAssumption DEF Init
  <2>2. QED
    BY <2>1 DEF Init, FileTypes
<1>2. RequestTypes
  BY IntAssumption DEF Init, RequestTypes, IntRange
<1>3. CounterTypes
  <2>1. << >> \in Seq(Req)
    OBVIOUS
  <2>2. flush \in BOOLEAN
    BY DEF Init
  <2>3. QED
    BY <2>1, <2>2 DEF Init, CounterTypes
<1>4. ControlTypes
  BY DEF Init, ControlTypes
<1>5. KernelTypes
  BY DEF Init, KernelTypes
<1>6. QED
  BY <1>1, <1>2, <1>3, <1>4, <1>5 DEF TypeOK

\* A completion is an event of the ring.
LEMMA CompleteType ==
  ASSUME NEW io \in IO, NEW res \in Int, KernelTypes, Complete(io, res)
  PROVE  KernelTypes'
<1>1. io.req \in Req /\ io.op \in Op
  BY DEF IO
<1>2. [req |-> io.req, op |-> io.op, res |-> res] \in Event
  BY <1>1 DEF Event
<1>3. QED
  BY <1>2 DEF Complete, KernelTypes, aio

\* io_submit hands operations on requests of the batch to the kernel.
LEMMA SubmitType ==
  ASSUME NEW pc, NEW op \in Op, NEW next,
         KernelTypes, iocbs \subseteq Req, Submit(pc, op, next)
  PROVE  KernelTypes'
<1>1. [req : iocbs, op : {op}] \subseteq IO
  BY DEF IO
<1>2. QED
  BY <1>1 DEF Submit, KernelTypes

\* The list that is left after its head was taken.
LEMMA TailType ==
  ASSUME NEW list \in Seq(Req), list # << >>
  PROVE  Head(list) \in Req /\ Tail(list) \in Seq(Req)
  OBVIOUS

\* What a buffer field holds is a number in any case.
LEMMA BufferType == IntRange \cup {NoBuffer, MapFailed} \subseteq Int
  BY DEF IntRange, NoBuffer, MapFailed

\* A write leaves the description of a file.
LEMMA WrittenType ==
  ASSUME NEW d \in [same : Int, len : Nat \cup {Absent}], NEW b \in Int, NEW n \in Int
  PROVE  Written(d, b, n) \in [same : Int, len : Nat \cup {Absent}]
<1>1. d.len \in Nat \cup {Absent}
  OBVIOUS
<1>2. Max2(d.len, n) \in Nat \cup {Absent}
  BY <1>1 DEF Max2, Absent
<1>3. (IF b < n THEN b ELSE n) \in Int
  OBVIOUS
<1>4. QED
  BY <1>2, <1>3 DEF Written

LEMMA TypeOKStep == TypeOK /\ [Next]_vars => TypeOK'
<1> SUFFICES ASSUME TypeOK, [Next]_vars PROVE TypeOK'
  OBVIOUS
<1> USE DEF TypeOK, FileTypes, RequestTypes, CounterTypes, ControlTypes, KernelTypes,
            inputs, files, fields, counters, lists, locks, aio, kernel
<1>1. ASSUME NEW r \in Req, CopyReg(r) PROVE TypeOK'
  BY <1>1 DEF CopyReg, Main
<1>2. ASSUME NEW r \in Req, AddPush(r) PROVE TypeOK'
  BY <1>2 DEF AddPush, Main, Push
<1>0. CASE AddCount
  BY <1>0 DEF AddCount, Main
<1>3. CASE AddLock
  BY <1>3 DEF AddLock, Main, ExitFailure
<1>4. CASE ClientFail
  BY <1>4 DEF ClientFail, Main, ExitFailure
<1>5. CASE ClientDone
  BY <1>5 DEF ClientDone, Main, ExitFailure
<1>6. CASE WaitLock
  BY <1>6 DEF WaitLock, Main, ExitFailure
<1>7. CASE WaitSet
  BY <1>7 DEF WaitSet, Main, ExitFailure
<1>8. CASE Join
  BY <1>8 DEF Join, Main, ExitFailure
<1>9. CASE Destroy
  BY <1>9 DEF Destroy, Main, ExitFailure
<1>10. ASSUME NEW e \in events, HandleBadEvent(e) PROVE TypeOK'
  BY <1>10 DEF HandleBadEvent, Aio, ExitFailure, Push, Closed, Event
<1>11. ASSUME NEW e \in events, HandleRead(e) PROVE TypeOK'
  BY <1>11 DEF HandleRead, Aio, ExitFailure, Push, Closed, Event
<1>12. ASSUME NEW e \in events, HandleWrite(e) PROVE TypeOK'
  BY <1>12 DEF HandleWrite, Aio, ExitFailure, Push, Closed, Event
<1>13. CASE LockFlush
  BY <1>13, BatchAssumption DEF LockFlush, Aio, ExitFailure, BatchSize, Submit, IO
<1>14. CASE GetEvents
  BY <1>14, BatchAssumption DEF GetEvents, Aio, ExitFailure, BatchSize, Submit, IO
<1>15. CASE LeaveLoop
  BY <1>15, BatchAssumption DEF LeaveLoop, Aio, ExitFailure, BatchSize, Submit, IO
<1>16. CASE StayInLoop
  BY <1>16, BatchAssumption DEF StayInLoop, Aio, ExitFailure, BatchSize, Submit, IO
<1>17. CASE LockRequest
  BY <1>17, BatchAssumption DEF LockRequest, Aio, ExitFailure, BatchSize, Submit, IO
<1>18. CASE PrepRead
  <2>1. /\ Head(read_head) \in Req
        /\ Tail(read_head) \in Seq(Req)
    BY <1>18, TailType DEF PrepRead
  <2>2. ToInt(st_size[Head(read_head)]) \in IntRange
    BY <2>1, ToIntType
  <2>3. FileTypes' /\ ControlTypes' /\ KernelTypes'
    BY <1>18 DEF PrepRead, Aio
  <2>4. CounterTypes'
    BY <1>18, <2>1 DEF PrepRead, Aio
  <2>5. 0 \in IntRange
    BY IntAssumption DEF IntRange
  <2>6. PICK b \in {0, MapFailed} : buffer' = [buffer EXCEPT ![Head(read_head)] = b]
    BY <1>18 DEF PrepRead, MmapResults
  <2>7. buffer' \in [Req -> IntRange \cup {NoBuffer, MapFailed}]
    BY <2>1, <2>5, <2>6
  <2>8. RequestTypes'
    BY <1>18, <2>1, <2>2, <2>7 DEF PrepRead
  <2>9. QED
    BY <2>3, <2>4, <2>8
<1>19. CASE PrepWrite
  <2>1. /\ Head(write_head) \in Req
        /\ Tail(write_head) \in Seq(Req)
    BY <1>19, TailType DEF PrepWrite
  <2>2. FileTypes'
    BY <1>19, <2>1 DEF PrepWrite, Created, Max2, Absent
  <2>3. ControlTypes' /\ KernelTypes'
    BY <1>19 DEF PrepWrite, Aio
  <2>4. CounterTypes'
    BY <1>19, <2>1 DEF PrepWrite, Aio
  <2>5. RequestTypes'
    BY <1>19, <2>1 DEF PrepWrite
  <2>6. QED
    BY <2>2, <2>3, <2>4, <2>5
<1>20. CASE PrepFail
  BY <1>20, BatchAssumption DEF PrepFail, Aio, ExitFailure, BatchSize, Submit, IO
<1>21. CASE SubmitReads
  <2>1. KernelTypes'
    BY <1>21, SubmitType DEF SubmitReads, Op
  <2>2. QED
    BY <1>21, <2>1 DEF SubmitReads, Submit, Aio
<1>22. CASE SubmitWrites
  <2>1. KernelTypes'
    BY <1>22, SubmitType DEF SubmitWrites, Op
  <2>2. QED
    BY <1>22, <2>1 DEF SubmitWrites, Submit, Aio
<1>23. CASE SubmitFail
  BY <1>23, BatchAssumption DEF SubmitFail, Aio, ExitFailure, BatchSize, Submit, IO
<1>24. CASE UnlockRequest
  BY <1>24, BatchAssumption DEF UnlockRequest, Aio, ExitFailure, BatchSize, Submit, IO
<1>25. CASE UnlockFlush
  BY <1>25, BatchAssumption DEF UnlockFlush, Aio, ExitFailure, BatchSize, Submit, IO
<1>26. ASSUME NEW io \in inflight, CompleteRead(io) PROVE TypeOK'
  <2>1. io \in IO /\ io.req \in Req
    BY DEF IO
  <2>2. fsize[io.req] \in Int
    BY <2>1 DEF IntRange
  <2>3. KernelTypes'
    BY <1>26, <2>1, <2>2, CompleteType DEF CompleteRead
  <2>4. FileTypes' /\ RequestTypes'
    BY <1>26, <2>1 DEF CompleteRead, Complete
  <2>5. QED
    BY <1>26, <2>3, <2>4 DEF CompleteRead, Complete
<1>27. ASSUME NEW io \in inflight, CompleteWrite(io) PROVE TypeOK'
  <2>1. io \in IO /\ io.req \in Req
    BY DEF IO
  <2>2. fsize[io.req] \in Int
    BY <2>1 DEF IntRange
  <2>3. KernelTypes'
    BY <1>27, <2>1, <2>2, CompleteType DEF CompleteWrite
  <2>4. Written(dst[io.req], buffer[io.req], fsize[io.req])
          \in [same : Int, len : Nat \cup {Absent}]
    <3>1. /\ buffer[io.req] \in IntRange \cup {NoBuffer, MapFailed}
          /\ dst[io.req] \in [same : Int, len : Nat \cup {Absent}]
      BY <2>1
    <3>2. QED
      BY <2>2, <3>1, WrittenType, BufferType
  <2>5. FileTypes' /\ RequestTypes'
    BY <1>27, <2>1, <2>4 DEF CompleteWrite, Complete
  <2>6. QED
    BY <1>27, <2>3, <2>5 DEF CompleteWrite, Complete
<1>28. ASSUME NEW io \in inflight, CompleteBad(io) PROVE TypeOK'
  <2>1. io \in IO /\ io.req \in Req
    BY DEF IO
  <2>2. BadRes \in Int
    BY <2>1 DEF BadRes
  <2>3. KernelTypes'
    BY <1>28, <2>1, <2>2, CompleteType DEF CompleteBad
  <2>4. FileTypes' /\ RequestTypes'
    BY <1>28 DEF CompleteBad, Complete
  <2>5. QED
    BY <1>28, <2>3, <2>4 DEF CompleteBad, Complete
<1>29. CASE UNCHANGED vars
  BY <1>29 DEF vars
<1>30. QED
  BY <1>0, <1>1, <1>2, <1>3, <1>4, <1>5, <1>6, <1>7, <1>8, <1>9, <1>10, <1>11, <1>12, <1>13, <1>14, <1>15, <1>16, <1>17, <1>18, <1>19, <1>20, <1>21, <1>22, <1>23, <1>24, <1>25, <1>26, <1>27, <1>28, <1>29
     DEF Next, MainNext, AioNext, KernelNext, Terminated

THEOREM TypeCorrect == Spec => []TypeOK
<1>1. QED
  BY InitTypeOK, TypeOKStep, PTL DEF Spec
-----------------------------------------------------------------------------
(* IndInv is inductive, and what follows from it for every run of the manager. *)

\* The part of IndInv that speaks of requests, not of threads.
Data == Somewhere /\ Apart /\ OneOperation /\ Buffers /\ Destinations /\ Descriptors

requests == <<files, issued, adding, fields, lists, kernel, iocbs, events>>

\* A new head: what it does to the elements of a list.
LEMMA PushElements ==
  ASSUME NEW r \in Req, NEW list \in Seq(Req)
  PROVE  /\ ToSet(Push(r, list)) = ToSet(list) \cup {r}
         /\ Len(Push(r, list)) = Len(list) + 1
         /\ IsInjective(list) /\ r \notin ToSet(list) => IsInjective(Push(r, list))
<1> DEFINE new == <<r>> \o list
<1>1. /\ new \in Seq(Req)
      /\ Len(new) = Len(list) + 1
      /\ \A i \in 1 .. Len(list) + 1 : new[i] = IF i = 1 THEN r ELSE list[i - 1]
  OBVIOUS
<1>2. DOMAIN new = 1 .. Len(list) + 1 /\ DOMAIN list = 1 .. Len(list)
  BY <1>1
<1>3. ToSet(new) = ToSet(list) \cup {r}
  <2>1. ASSUME NEW x \in ToSet(new) PROVE x \in ToSet(list) \cup {r}
    BY <1>1, <1>2 DEF ToSet
  <2>2. ASSUME NEW x \in ToSet(list) PROVE x \in ToSet(new)
    <3>1. PICK i \in 1 .. Len(list) : x = list[i]
      BY <1>2 DEF ToSet
    <3>2. i + 1 \in 1 .. Len(list) + 1 /\ new[i + 1] = list[i]
      BY <1>1
    <3>3. QED
      BY <1>2, <3>1, <3>2 DEF ToSet
  <2>3. r \in ToSet(new)
    <3>1. 1 \in DOMAIN new /\ new[1] = r
      BY <1>1, <1>2
    <3>2. QED
      BY <3>1 DEF ToSet
  <2>4. QED
    BY <2>1, <2>2, <2>3
<1>4. ASSUME IsInjective(list), r \notin ToSet(list) PROVE IsInjective(new)
  BY <1>1, <1>2, <1>4 DEF IsInjective, ToSet
<1>5. QED
  BY <1>1, <1>3, <1>4 DEF Push

\* The list without its head.
LEMMA TailElements ==
  ASSUME NEW list \in Seq(Req), list # << >>, IsInjective(list)
  PROVE  /\ Head(list) \in ToSet(list)
         /\ ToSet(Tail(list)) = ToSet(list) \ {Head(list)}
         /\ Len(Tail(list)) = Len(list) - 1
         /\ IsInjective(Tail(list))
<1>1. /\ Len(list) \in Nat \ {0} /\ DOMAIN list = 1 .. Len(list)
      /\ Head(list) = list[1]
  OBVIOUS
<1>2. /\ Tail(list) \in Seq(Req)
      /\ Len(Tail(list)) = Len(list) - 1
      /\ DOMAIN Tail(list) = 1 .. Len(list) - 1
      /\ \A i \in 1 .. Len(list) - 1 : Tail(list)[i] = list[i + 1]
  BY <1>1
<1>3. Head(list) \in ToSet(list)
  BY <1>1 DEF ToSet
<1>4. ASSUME NEW x \in ToSet(Tail(list)) PROVE x \in ToSet(list) \ {Head(list)}
  <2>1. PICK i \in 1 .. Len(list) - 1 : x = list[i + 1]
    BY <1>2 DEF ToSet
  <2>2. i + 1 \in DOMAIN list /\ i + 1 # 1
    BY <1>1
  <2>3. QED
    BY <1>1, <2>1, <2>2 DEF ToSet, IsInjective
<1>5. ASSUME NEW x \in ToSet(list) \ {Head(list)} PROVE x \in ToSet(Tail(list))
  <2>1. PICK i \in 1 .. Len(list) : x = list[i]
    BY <1>1 DEF ToSet
  <2>2. i - 1 \in 1 .. Len(list) - 1 /\ Tail(list)[i - 1] = list[i]
    BY <1>1, <1>2, <2>1
  <2>3. QED
    BY <1>2, <2>1, <2>2 DEF ToSet
<1>6. IsInjective(Tail(list))
  <2>1. SUFFICES ASSUME NEW a \in 1 .. Len(list) - 1, NEW b \in 1 .. Len(list) - 1,
                        Tail(list)[a] = Tail(list)[b]
                 PROVE  a = b
    BY <1>2 DEF IsInjective
  <2>2. a + 1 \in DOMAIN list /\ b + 1 \in DOMAIN list /\ list[a + 1] = list[b + 1]
    BY <1>1, <1>2, <2>1
  <2>3. QED
    BY <2>2 DEF IsInjective
<1>7. QED
  BY <1>2, <1>3, <1>4, <1>5, <1>6

LEMMA InitIndInv == Init => IndInv
<1> SUFFICES ASSUME Init PROVE IndInv
  OBVIOUS
<1>1. TypeOK
  BY InitTypeOK
<1>2. ToSet(<< >>) = {} /\ IsInjective(<< >>) /\ Len(<< >>) = 0
  BY DEF ToSet, IsInjective
<1>3. Cardinality({}) = 0
  BY FS_EmptySet
<1>4. Somewhere /\ Apart /\ OneOperation /\ Stages /\ Descriptors
  BY <1>1, <1>2 DEF Init, Somewhere, Apart, OneOperation, Stages, Descriptors, Known,
       Returned, DispatchByState, TypeOK, RequestTypes
<1>5. Buffers /\ Destinations
  BY <1>1, <1>2 DEF Init, Buffers, Destinations, Known, Returned, Fresh, TypeOK, RequestTypes
<1>6. Counts
  BY <1>2, <1>3 DEF Init, Counts, ListLengths
<1>7. Mutexes /\ Control
  BY DEF Init, Mutexes, Control
<1>8. QED
  BY <1>1, <1>4, <1>5, <1>6, <1>7 DEF IndInv

\* A step that leaves the requests alone preserves what is said of them.
LEMMA QuietStep ==
  ASSUME Data, Stages, UNCHANGED requests, aio_pc' = aio_pc \/ iocbs = {}
  PROVE  Data' /\ Stages'
<1> USE DEF requests, inputs, files, fields, lists, kernel
<1>1. Somewhere'
  BY DEF Data, Somewhere, Known
<1>2. Apart'
  BY DEF Data, Apart, Known
<1>3. OneOperation'
  BY DEF Data, OneOperation, Returned
<1>4. Buffers'
  BY DEF Data, Buffers, Known, Returned
<1>5. Destinations'
  BY DEF Data, Destinations, Fresh, Whole, Returned
<1>6. Descriptors'
  BY DEF Data, Descriptors
<1>7. Stages'
  BY DEF Stages, DispatchByState, Known
<1>8. QED
  BY <1>1, <1>2, <1>3, <1>4, <1>5, <1>6, <1>7 DEF Data
USE DEF Main, Aio, ExitFailure

\* The steps that touch no request: the locks, the flags, the decisions.
LEMMA QuietActions ==
  ASSUME IndInv,
         \/ AddLock \/ AddCount \/ ClientFail \/ ClientDone \/ WaitLock \/ WaitSet \/ Join \/ Destroy
         \/ LockFlush \/ StayInLoop \/ LockRequest \/ UnlockRequest \/ UnlockFlush
         \/ PrepFail \/ SubmitFail
  PROVE  Data' /\ Stages' /\ Counts' /\ Mutexes' /\ Control'
<1> USE DEF IndInv, Data, Counts, ListLengths, Mutexes, Control, requests, inputs, files,
            fields, lists, locks, counters, kernel, aio
<1>1. CASE AddLock
  <2>1. Data' /\ Stages'
    BY <1>1, QuietStep DEF AddLock
  <2>2. Counts' /\ Mutexes' /\ Control'
    BY <1>1 DEF AddLock
  <2>3. QED
    BY <2>1, <2>2
<1>0. CASE AddCount
  <2>1. Data' /\ Stages'
    BY <1>0, QuietStep DEF AddCount
  <2>2. request_mutex = "main" /\ read_len = Len(read_head) /\ aio_pc # "read"
    BY <1>0 DEF AddCount
  <2>3. request_count \in Nat /\ req_count \in Nat /\ Len(read_head) \in Nat
    BY DEF TypeOK, CounterTypes
  <2>4. adding # {} => request_count = req_count - 1
    BY <1>0 DEF AddCount
  <2>5. adding # {}
    BY <1>0 DEF AddCount
  <2>6. main_pc = "add_count" /\ main_pc' = "add_push"
    BY <1>0 DEF AddCount
  <2>7. Counts'
    BY <1>0, <2>2, <2>3, <2>4, <2>5, <2>6 DEF AddCount
  <2>8. Mutexes' /\ Control'
    BY <1>0 DEF AddCount
  <2>9. QED
    BY <2>1, <2>7, <2>8
<1>2. CASE ClientFail
  <2>1. Data' /\ Stages'
    BY <1>2, QuietStep DEF ClientFail
  <2>2. Counts' /\ Mutexes' /\ Control'
    BY <1>2 DEF ClientFail
  <2>3. QED
    BY <2>1, <2>2
<1>3. CASE ClientDone
  <2>1. Data' /\ Stages'
    BY <1>3, QuietStep DEF ClientDone
  <2>2. Counts' /\ Mutexes' /\ Control'
    BY <1>3 DEF ClientDone
  <2>3. QED
    BY <2>1, <2>2
<1>4. CASE WaitLock
  <2>1. Data' /\ Stages'
    BY <1>4, QuietStep DEF WaitLock
  <2>2. Counts' /\ Mutexes' /\ Control'
    BY <1>4 DEF WaitLock
  <2>3. QED
    BY <2>1, <2>2
<1>5. CASE WaitSet
  <2>1. Data' /\ Stages'
    BY <1>5, QuietStep DEF WaitSet
  <2>2. Counts' /\ Mutexes' /\ Control'
    BY <1>5 DEF WaitSet
  <2>3. QED
    BY <2>1, <2>2
<1>6. CASE Join
  <2>1. Data' /\ Stages'
    BY <1>6, QuietStep DEF Join
  <2>2. Counts' /\ Mutexes' /\ Control'
    BY <1>6 DEF Join
  <2>3. QED
    BY <2>1, <2>2
<1>7. CASE Destroy
  <2>1. Data' /\ Stages'
    BY <1>7, QuietStep DEF Destroy
  <2>2. Counts' /\ Mutexes' /\ Control'
    BY <1>7 DEF Destroy
  <2>3. QED
    BY <2>1, <2>2
<1>8. CASE LockFlush
  <2>1. Data' /\ Stages'
    BY <1>8, QuietStep DEF LockFlush
  <2>2. Counts' /\ Mutexes' /\ Control'
    BY <1>8 DEF LockFlush
  <2>3. QED
    BY <2>1, <2>2
<1>9. CASE StayInLoop
  <2>1. Data' /\ Stages'
    BY <1>9, QuietStep DEF StayInLoop
  <2>2. Counts' /\ Mutexes' /\ Control'
    BY <1>9 DEF StayInLoop
  <2>3. QED
    BY <2>1, <2>2
<1>10. CASE LockRequest
  <2>1. read_len \in Nat /\ write_len \in Nat
    BY DEF TypeOK, CounterTypes
  <2>2. Data' /\ Stages'
    BY <1>10, QuietStep DEF LockRequest
  <2>3. Counts'
    BY <1>10, <2>1, BatchAssumption DEF LockRequest, BatchSize
  <2>4. Mutexes' /\ Control'
    BY <1>10 DEF LockRequest
  <2>5. QED
    BY <2>2, <2>3, <2>4
<1>11. CASE UnlockRequest
  <2>1. read_len \in Nat /\ write_len \in Nat
    BY DEF TypeOK, CounterTypes
  <2>2. Data' /\ Stages'
    BY <1>11, QuietStep DEF UnlockRequest
  <2>3. Counts'
    BY <1>11, <2>1, BatchAssumption DEF UnlockRequest, BatchSize
  <2>4. Mutexes' /\ Control'
    BY <1>11 DEF UnlockRequest
  <2>5. QED
    BY <2>2, <2>3, <2>4
<1>12. CASE UnlockFlush
  <2>1. Data' /\ Stages'
    BY <1>12, QuietStep DEF UnlockFlush
  <2>2. Counts' /\ Mutexes' /\ Control'
    BY <1>12 DEF UnlockFlush
  <2>3. QED
    BY <2>1, <2>2
<1>13. CASE PrepFail
  <2>1. Data' /\ Stages'
    BY <1>13, QuietStep DEF PrepFail
  <2>2. Counts' /\ Mutexes' /\ Control'
    BY <1>13 DEF PrepFail
  <2>3. QED
    BY <2>1, <2>2
<1>14. CASE SubmitFail
  <2>1. Data' /\ Stages'
    BY <1>14, QuietStep DEF SubmitFail
  <2>2. Counts' /\ Mutexes' /\ Control'
    BY <1>14 DEF SubmitFail
  <2>3. QED
    BY <2>1, <2>2
<1>15. QED
  BY <1>0, <1>1, <1>2, <1>3, <1>4, <1>5, <1>6, <1>7, <1>8, <1>9, <1>10, <1>11, <1>12, <1>13, <1>14
\* copy_reg: a request appears in main's hands.
LEMMA CopyRegStep ==
  ASSUME IndInv, NEW r \in Req, CopyReg(r)
  PROVE  Data' /\ Stages' /\ Counts' /\ Mutexes' /\ Control'
<1> USE DEF IndInv, CopyReg, files, fields, lists, locks, counters, kernel, aio
<1>1. adding = {} /\ r \notin issued /\ state[r] = 0
  BY DEF Control, Stages
<1>2. Somewhere'
  BY <1>1 DEF Somewhere, Known
<1>3. Apart'
  BY <1>1 DEF Apart, Somewhere, Known
<1>4. OneOperation'
  BY DEF OneOperation, Returned
<1>5. Buffers' /\ Destinations'
  BY DEF Buffers, Destinations, Known, Returned, Fresh, Whole
<1>6. Descriptors'
  BY <1>1 DEF Descriptors
<1>7. Stages'
  BY <1>1 DEF Stages, DispatchByState, Known
<1>8. Counts'
  <2>1. IsFiniteSet(issued)
    BY ReqAssumption, FS_Subset DEF TypeOK, RequestTypes
  <2>2. Cardinality(issued \cup {r}) = Cardinality(issued) + 1
    BY <1>1, <2>1, FS_AddElement
  <2>3. req_count \in Nat
    BY DEF TypeOK, CounterTypes
  <2>4. QED
    BY <1>1, <2>2, <2>3 DEF Counts, ListLengths
<1>9. Mutexes' /\ Control'
  BY DEF Mutexes, Control
<1>10. QED
  BY <1>2, <1>3, <1>4, <1>5, <1>6, <1>7, <1>8, <1>9 DEF Data

\* add_copy_req: the request goes to the head of the read list.
LEMMA AddPushStep ==
  ASSUME IndInv, NEW r \in Req, AddPush(r)
  PROVE  Data' /\ Stages' /\ Counts' /\ Mutexes' /\ Control'
<1> USE DEF IndInv, AddPush, files, fields, aio, kernel, counters
<1>1. /\ ToSet(read_head') = ToSet(read_head) \cup {r}
      /\ Len(read_head') = Len(read_head) + 1
      /\ r \notin ToSet(read_head) => IsInjective(read_head')
  <2>1. rest = read_head
    BY DEF Control
  <2>2. QED
    BY <2>1, PushElements DEF TypeOK, CounterTypes, Apart
<1>2. adding = {r} /\ adding' = {}
  OBVIOUS
<1>3. Somewhere'
  BY <1>1, <1>2 DEF Somewhere, Known
<1>4. Apart'
  BY <1>1, <1>2 DEF Apart, Known
<1>5. OneOperation'
  BY DEF OneOperation, Returned
<1>6. Buffers' /\ Destinations'
  BY DEF Buffers, Destinations, Known, Returned, Fresh, Whole
<1>7. Descriptors'
  BY DEF Descriptors
<1>8. Stages'
  BY <1>1, <1>2 DEF Stages, DispatchByState, Known
<1>9. Counts'
  <2>1. /\ req_count \in Nat /\ request_count \in Nat
        /\ read_len \in Int /\ write_len \in Int /\ todo \in Int
    BY DEF TypeOK, CounterTypes
  <2>2. request_count = req_count
    BY DEF Counts
  <2>3. ListLengths'
    BY <1>1, <2>1 DEF Counts, ListLengths
  <2>4. QED
    BY <1>2, <2>1, <2>2, <2>3 DEF Counts
<1>10. Mutexes' /\ Control'
  BY DEF Mutexes, Control
<1>11. QED
  BY <1>3, <1>4, <1>5, <1>6, <1>7, <1>8, <1>9, <1>10 DEF Data

\* io_getevents: completions move from the ring to the events array.
LEMMA GetEventsStep ==
  ASSUME IndInv, GetEvents
  PROVE  Data' /\ Stages' /\ Counts' /\ Mutexes' /\ Control'
<1> USE DEF IndInv, GetEvents, inputs, files, fields, counters, lists, locks
<1>1. /\ events = {} /\ events' \subseteq ring /\ ring' = ring \ events'
      /\ inflight' = inflight /\ iocbs' = iocbs /\ iocbs = {}
  BY DEF Control
<1>2. Known' = Known /\ Returned' = Returned
  BY <1>1 DEF Known, Returned
<1>3. Somewhere' /\ Apart'
  BY <1>1, <1>2 DEF Somewhere, Apart
<1>4. OneOperation'
  BY <1>1, <1>2 DEF OneOperation
<1>5. Buffers' /\ Destinations'
  BY <1>1, <1>2 DEF Buffers, Destinations, Fresh, Whole
<1>6. Descriptors' /\ Stages'
  BY <1>1, <1>2 DEF Descriptors, Stages, DispatchByState
<1>7. Counts' /\ Mutexes' /\ Control'
  BY <1>1 DEF Counts, ListLengths, Mutexes, Control
<1>8. QED
  BY <1>3, <1>4, <1>5, <1>6, <1>7 DEF Data

\* The end of the loop: the counters agree, so all that was issued is freed.
LEMMA LeaveLoopStep ==
  ASSUME IndInv, LeaveLoop
  PROVE  Data' /\ Stages' /\ Counts' /\ Mutexes' /\ Control'
<1> USE DEF IndInv, LeaveLoop, inputs, files, fields, counters, lists, locks, kernel
<1>1. freed \subseteq issued /\ IsFiniteSet(issued)
  BY ReqAssumption, FS_Subset DEF Somewhere, TypeOK, RequestTypes
<1>2. Cardinality(freed) = Cardinality(issued)
  BY DEF Finished, Counts
<1>3. freed = issued
  BY <1>1, <1>2, FS_Subset
<1>4. Data' /\ Stages'
  BY QuietStep DEF Data, Control, requests
<1>5. Counts' /\ Mutexes' /\ Control'
  BY <1>3 DEF Counts, ListLengths, Mutexes, Control, Finished
<1>6. QED
  BY <1>4, <1>5
\* What is left of the operations when an event has been handled.
LEMMA EventHandled ==
  ASSUME OneOperation, NEW e \in events, events' = events \ {e}, UNCHANGED kernel
  PROVE  /\ \A x \in Known' : x \in Known /\ x.req # e.req
         /\ \A x \in Known : x \in Known' \/ x = e
         /\ \A x \in Returned' : x \in Returned /\ x \in Known' /\ x.req # e.req
         /\ OneOperation'
<1>1. \A x \in inflight : x.req # e.req
  BY DEF OneOperation, Returned
<1>2. \A x \in ring \cup (events \ {e}) : x.req # e.req
  BY DEF OneOperation, Returned
<1>3. OneOperation'
  BY DEF OneOperation, Returned, kernel
<1>4. QED
  BY <1>1, <1>2, <1>3 DEF Known, Returned, kernel

\* A finished read: the request goes to the write list.
LEMMA HandleReadStep ==
  ASSUME IndInv, NEW e \in events, HandleRead(e)
  PROVE  Data' /\ Stages' /\ Counts' /\ Mutexes' /\ Control'
<1> DEFINE r == e.req
<1> USE DEF IndInv, HandleRead, inputs, files, locks
<1>1. /\ r \in issued /\ r \in Req /\ state[r] = 1
      /\ r \notin iocbs \cup ToSet(write_head) \cup freed
      /\ e \in Known /\ e \in Returned
  BY DEF Somewhere, Apart, Known, Returned, TypeOK, RequestTypes
<1>2. /\ ToSet(write_head') = ToSet(write_head) \cup {r}
      /\ Len(write_head') = Len(write_head) + 1
      /\ IsInjective(write_head')
  BY <1>1, PushElements DEF TypeOK, CounterTypes, Apart
<1>3. /\ \A x \in Known' : x \in Known /\ x.req # r
      /\ \A x \in Known : x \in Known' \/ x = e
      /\ \A x \in Returned' : x \in Returned /\ x \in Known' /\ x.req # r
      /\ OneOperation'
  BY EventHandled
<1>4. Somewhere'
  BY <1>1, <1>2, <1>3 DEF Somewhere
<1>5. Apart'
  BY <1>1, <1>2, <1>3 DEF Apart
<1>6. buffer[r] = fsize[r] /\ fsize[r] >= 0
  BY <1>1 DEF Stages, DispatchByState, Buffers, ResOK
<1>7. Buffers'
  BY <1>1, <1>2, <1>3, <1>6 DEF Buffers
<1>8. Destinations'
  BY <1>1, <1>3, inflight' = inflight DEF Destinations, Fresh, Whole, kernel
<1>9. Descriptors'
  BY <1>1, <1>2 DEF Descriptors, Closed
<1>10. Stages'
  BY <1>1, <1>2, <1>3 DEF Stages, DispatchByState
<1>11. Counts'
  BY <1>2 DEF Counts, ListLengths, TypeOK, CounterTypes
<1>12. Mutexes' /\ Control'
  BY DEF Mutexes, Control
<1>13. QED
  BY <1>3, <1>4, <1>5, <1>7, <1>8, <1>9, <1>10, <1>11, <1>12 DEF Data

\* A finished write: the request is freed.
LEMMA HandleWriteStep ==
  ASSUME IndInv, NEW e \in events, HandleWrite(e)
  PROVE  Data' /\ Stages' /\ Counts' /\ Mutexes' /\ Control'
<1> DEFINE r == e.req
<1> USE DEF IndInv, HandleWrite, inputs, files, lists, locks
<1>1. /\ r \in issued /\ r \in Req /\ state[r] = 2
      /\ r \notin iocbs \cup ToSet(write_head) \cup freed
      /\ e \in Known /\ e \in Returned
  BY DEF Somewhere, Apart, Known, Returned, TypeOK, RequestTypes
<1>2. freed' = freed \cup {r}
  OBVIOUS
<1>3. /\ \A x \in Known' : x \in Known /\ x.req # r
      /\ \A x \in Known : x \in Known' \/ x = e
      /\ \A x \in Returned' : x \in Returned /\ x \in Known' /\ x.req # r
      /\ OneOperation'
  BY EventHandled
<1>4. Somewhere'
  BY <1>1, <1>2, <1>3 DEF Somewhere
<1>5. Apart'
  BY <1>1, <1>2, <1>3 DEF Apart
<1>6. dst[r] = Whole(r)
  <2>1. e.op = "write"
    BY <1>1 DEF Stages, DispatchByState, TypeOK, KernelTypes, Event, Op
  <2>2. QED
    BY <1>1, <2>1 DEF Destinations, ResOK
<1>7. Buffers'
  BY <1>1, <1>3 DEF Buffers
<1>8. Destinations'
  BY <1>1, <1>2, <1>3, <1>6, inflight' = inflight DEF Destinations, Fresh, Whole, kernel
<1>9. Descriptors'
  BY <1>1, <1>2 DEF Descriptors, Closed
<1>10. Stages'
  BY <1>1, <1>2, <1>3 DEF Stages, DispatchByState
<1>11. Counts'
  <2>1. IsFiniteSet(freed)
    BY ReqAssumption, FS_Subset DEF TypeOK, RequestTypes
  <2>2. Cardinality(freed \cup {r}) = Cardinality(freed) + 1
    BY <1>1, <2>1, FS_AddElement
  <2>3. QED
    BY <2>2 DEF Counts, ListLengths
<1>12. Mutexes' /\ Control'
  BY DEF Mutexes, Control
<1>13. QED
  BY <1>3, <1>4, <1>5, <1>7, <1>8, <1>9, <1>10, <1>11, <1>12 DEF Data

\* A request of the read list joins the batch, its source open and measured.
LEMMA PrepReadStep ==
  ASSUME IndInv, PrepRead
  PROVE  Data' /\ Stages' /\ Counts' /\ Mutexes' /\ Control'
<1> DEFINE r == Head(read_head)
<1> USE DEF IndInv, PrepRead, inputs, locks, kernel
<1>1. /\ r \in ToSet(read_head)
      /\ ToSet(read_head') = ToSet(read_head) \ {r}
      /\ Len(read_head') = Len(read_head) - 1
      /\ IsInjective(read_head')
  BY TailElements DEF TypeOK, CounterTypes, Apart
<1>2. /\ r \in issued /\ r \in Req /\ state[r] = 0 /\ r \notin adding
      /\ r \notin ToSet(write_head) \cup freed \cup iocbs
      /\ iocbs' = iocbs \cup {r}
  BY <1>1 DEF Somewhere, Apart, Stages, TypeOK, RequestTypes
<1>3. \A x \in Known : x.req # r
  BY <1>2 DEF Stages, DispatchByState
<1>4. Known' = Known /\ Returned' = Returned
  BY DEF Known, Returned
<1>5. /\ state' = [state EXCEPT ![r] = 1]
      /\ fsize' = [fsize EXCEPT ![r] = ToInt(st_size[r])]
      /\ \A q \in Req \ {r} : buffer'[q] = buffer[q]
      /\ open_src' = open_src \cup {r} /\ open_dst' = open_dst
  BY DEF TypeOK, RequestTypes
<1>6. /\ \A q \in Req \ {r} : state'[q] = state[q] /\ fsize'[q] = fsize[q]
      /\ state'[r] = 1 /\ fsize'[r] = ToInt(st_size[r])
  BY <1>2, <1>5 DEF TypeOK, RequestTypes
<1>7. Somewhere'
  BY <1>1, <1>2, <1>4 DEF Somewhere
<1>8. Apart'
  BY <1>1, <1>2, <1>3, <1>4 DEF Apart
<1>9. OneOperation'
  BY <1>4 DEF OneOperation
<1>10. issued \subseteq Req /\ \A x \in Known : x.req \in Req \ {r}
  BY <1>3 DEF Somewhere, TypeOK, RequestTypes
<1>11. Buffers'
  BY <1>2, <1>4, <1>5, <1>6, <1>10, st_size' = st_size DEF Buffers, files, Known, Returned
<1>12. Destinations'
  <2>1. \A q \in Req \ {r} : Whole(q)' = Whole(q)
    BY <1>6 DEF files, Fresh, Whole
  <2>2. (\A q \in Req : Fresh(q)' = Fresh(q)) /\ dst' = dst
    BY DEF files, Fresh
  <2>3. freed \subseteq Req \ {r} /\ iocbs \subseteq Req \ {r} /\ freed' = freed
    BY <1>2, <1>10 DEF Somewhere
  <2>4. \A q \in Req : state'[q] # 2 => dst'[q] = Fresh(q)'
    BY <1>2, <1>6, <2>1, <2>2 DEF Destinations
  <2>5. \A q \in iocbs' : state'[q] = 2 => dst'[q] = Created(Fresh(q))'
    BY <1>2, <1>6, <2>1, <2>2, <2>3 DEF Destinations, Created
  <2>6. \A x \in inflight' : x.op = "write" => dst'[x.req] = Created(Fresh(x.req))'
    BY <1>10, <2>1, <2>2 DEF Destinations, Created, Known
  <2>7. \A x \in Returned' :
          x.op = "write" /\ x.res = fsize'[x.req] => dst'[x.req] = Whole(x.req)'
    BY <1>4, <1>6, <1>10, <2>1, <2>2 DEF Destinations, Known, Returned
  <2>8. \A q \in freed' : dst'[q] = Whole(q)'
    BY <2>1, <2>2, <2>3 DEF Destinations
  <2>9. QED
    BY <2>4, <2>5, <2>6, <2>7, <2>8 DEF Destinations
<1>13. Descriptors'
  BY <1>2, <1>5, <1>6, <1>10 DEF Descriptors
<1>14. Stages'
  BY <1>1, <1>2, <1>4, <1>6, <1>10 DEF Stages, DispatchByState, Somewhere
<1>15. Counts'
  <2>1. main_pc # "add_push" /\ main_pc' = main_pc
    BY DEF Mutexes
  <2>2. QED
    BY <1>1, <2>1 DEF Counts, ListLengths, TypeOK, CounterTypes
<1>16. Mutexes' /\ Control'
  BY DEF Mutexes, Control
<1>17. QED
  BY <1>7, <1>8, <1>9, <1>11, <1>12, <1>13, <1>14, <1>15, <1>16 DEF Data
\* A request of the write list joins the batch, its destination open.
LEMMA PrepWriteStep ==
  ASSUME IndInv, PrepWrite
  PROVE  Data' /\ Stages' /\ Counts' /\ Mutexes' /\ Control'
<1> DEFINE r == Head(write_head)
<1> USE DEF IndInv, PrepWrite, inputs, locks, kernel
<1>1. /\ r \in ToSet(write_head)
      /\ ToSet(write_head') = ToSet(write_head) \ {r}
      /\ Len(write_head') = Len(write_head) - 1
      /\ IsInjective(write_head')
  BY TailElements DEF TypeOK, CounterTypes, Apart
<1>2. /\ r \in issued /\ r \in Req /\ state[r] = 1
      /\ r \notin adding \cup ToSet(read_head) \cup freed \cup iocbs
      /\ iocbs' = iocbs \cup {r}
      /\ \A x \in Known : x.req # r
  BY <1>1 DEF Somewhere, Apart, Stages, TypeOK, RequestTypes
<1>3. Known' = Known /\ Returned' = Returned
  BY DEF Known, Returned
<1>4. /\ state' = [state EXCEPT ![r] = 2]
      /\ dst' = [dst EXCEPT ![r] = Created(dst[r])]
      /\ open_src' = open_src /\ open_dst' = open_dst \cup {r}
  BY DEF PrepWrite
<1>5. /\ \A q \in Req \ {r} : state'[q] = state[q] /\ dst'[q] = dst[q]
      /\ state'[r] = 2 /\ dst'[r] = Created(dst[r])
  BY <1>2, <1>4 DEF TypeOK, RequestTypes, FileTypes
<1>6. Somewhere'
  BY <1>1, <1>2, <1>3 DEF Somewhere
<1>7. Apart'
  BY <1>1, <1>2, <1>3 DEF Apart
<1>8. OneOperation'
  BY <1>3 DEF OneOperation
<1>9. issued \subseteq Req /\ \A x \in Known : x.req \in Req \ {r}
  BY <1>2 DEF Somewhere, TypeOK, RequestTypes
<1>10. Buffers'
  BY <1>1, <1>2, <1>3, <1>5, <1>9 DEF Buffers, files, Known, Returned
<1>11. Destinations'
  <2>1. \A q \in Req : Fresh(q)' = Fresh(q) /\ Whole(q)' = Whole(q)
    BY DEF files, Fresh, Whole
  <2>2. freed \subseteq Req \ {r} /\ iocbs \subseteq Req \ {r} /\ freed' = freed
    BY <1>2, <1>9 DEF Somewhere
  <2>3. dst[r] = Fresh(r)
    BY <1>2 DEF Destinations
  <2>4. \A q \in Req : state'[q] # 2 => dst'[q] = Fresh(q)'
    BY <1>5, <2>1 DEF Destinations
  <2>5. \A q \in iocbs' : state'[q] = 2 => dst'[q] = Created(Fresh(q))'
    BY <1>2, <1>5, <2>1, <2>2, <2>3 DEF Destinations, Created
  <2>6. \A x \in inflight' : x.op = "write" => dst'[x.req] = Created(Fresh(x.req))'
    BY <1>5, <1>9, <2>1 DEF Destinations, Created, Known
  <2>7. \A x \in Returned' :
          x.op = "write" /\ x.res = fsize'[x.req] => dst'[x.req] = Whole(x.req)'
    BY <1>3, <1>5, <1>9, <2>1 DEF Destinations, Known, Returned
  <2>8. \A q \in freed' : dst'[q] = Whole(q)'
    BY <1>5, <2>1, <2>2 DEF Destinations
  <2>9. QED
    BY <2>4, <2>5, <2>6, <2>7, <2>8 DEF Destinations
<1>12. Descriptors'
  BY <1>1, <1>2, <1>4, <1>5, <1>9 DEF Descriptors
<1>13. Stages'
  BY <1>1, <1>2, <1>3, <1>5, <1>9 DEF Stages, DispatchByState, Somewhere
<1>14. Counts'
  BY <1>1 DEF Counts, ListLengths, TypeOK, CounterTypes
<1>15. Mutexes' /\ Control'
  BY DEF Mutexes, Control
<1>16. QED
  BY <1>6, <1>7, <1>8, <1>10, <1>11, <1>12, <1>13, <1>14, <1>15 DEF Data

\* io_submit: the batch becomes operations of the kernel.
LEMMA SubmitStep ==
  ASSUME IndInv, SubmitReads \/ SubmitWrites
  PROVE  Data' /\ Stages' /\ Counts' /\ Mutexes' /\ Control'
<1> USE DEF IndInv, inputs, files, fields, counters, lists, locks
<1>1. PICK op \in Op :
        /\ aio_pc = op
        /\ inflight' = inflight \cup [req : iocbs, op : {op}]
  BY DEF SubmitReads, SubmitWrites, Submit, Op
<1>2. /\ iocbs' = {} /\ ring' = ring /\ events' = events
      /\ \A r \in iocbs : fsize[r] >= 0
      /\ UNCHANGED <<inputs, fields, counters, lists, locks, main_pc, status>>
      /\ aio_pc' \in {"unlock_request", "unlock_flush"}
      /\ aio_pc = "read" <=> aio_pc' = "unlock_request"
  BY DEF SubmitReads, SubmitWrites, Submit, KernelTakes, Submittable
<1>3. \A x \in inflight' : x \in inflight \/ (x.req \in iocbs /\ x.op = op)
  BY <1>1
<1>4. \A r \in iocbs : \E x \in inflight' : x.req = r
  <2>1. SUFFICES ASSUME NEW r \in iocbs PROVE \E x \in inflight' : x.req = r
    OBVIOUS
  <2>2. [req |-> r, op |-> op] \in inflight'
    BY <1>1
  <2>3. QED
    BY <2>2
<1>5. Returned' = Returned
  BY <1>2 DEF Returned
<1>6. /\ \A x \in Known' : x \in Known \/ (x.req \in iocbs /\ x.op = op)
      /\ Known \subseteq Known' /\ inflight' \subseteq Known'
  <2>1. inflight \subseteq inflight'
    BY <1>1
  <2>2. QED
    BY <1>2, <1>3, <2>1 DEF Known
<1>7. Somewhere'
  BY <1>2, <1>4, <1>6 DEF Somewhere
<1>8. Apart'
  BY <1>2, <1>6 DEF Apart
<1>9. OneOperation'
  <2>1. \A x, y \in [req : iocbs, op : {op}] : x.req = y.req => x = y
    OBVIOUS
  <2>2. \A x, y \in inflight' : x.req = y.req => x = y
    BY <1>1, <2>1 DEF OneOperation, Apart, Known
  <2>3. \A x \in inflight', y \in Returned : x.req # y.req
    BY <1>3 DEF OneOperation, Apart, Known, Returned
  <2>4. QED
    BY <1>2, <1>5, <2>2, <2>3 DEF OneOperation
<1>10. Buffers'
  BY <1>2, <1>5, <1>6 DEF Buffers
<1>11. \A r \in iocbs : state[r] = IF op = "read" THEN 1 ELSE 2
  BY <1>1 DEF Stages, Op
<1>12. Destinations'
  BY <1>2, <1>3, <1>5, <1>11 DEF Destinations, Fresh, Whole
<1>13. Descriptors'
  BY <1>2 DEF Descriptors
<1>14. Stages'
  BY <1>2, <1>6, <1>11 DEF Stages, DispatchByState
<1>15. Counts'
  BY <1>2 DEF Counts, ListLengths
<1>16. Mutexes' /\ Control'
  BY <1>1, <1>2 DEF Mutexes, Control, Op
<1>17. QED
  BY <1>7, <1>8, <1>9, <1>10, <1>12, <1>13, <1>14, <1>15, <1>16 DEF Data
EventOf(io, res) == [req |-> io.req, op |-> io.op, res |-> res]

\* A completion: the operation becomes an event of the same request and kind.
LEMMA CompleteStep ==
  ASSUME IndInv, NEW io \in inflight, NEW res \in Int, Complete(io, res)
  PROVE  /\ Somewhere' /\ Apart' /\ OneOperation' /\ Descriptors'
         /\ Stages' /\ Counts' /\ Mutexes' /\ Control'
         /\ inflight' \subseteq inflight /\ Returned' = Returned \cup {EventOf(io, res)}
         /\ \A x \in Known' : x \in Known \/ x = EventOf(io, res)
         /\ \A x \in inflight' \cup Returned : x.req # io.req
         /\ io.req \in Req \ (freed \cup iocbs \cup ToSet(write_head))
         /\ state[io.req] = IF io.op = "read" THEN 1 ELSE 2
         /\ fsize[io.req] \in Int /\ fsize[io.req] >= 0
<1> DEFINE e == EventOf(io, res)
<1> USE DEF IndInv, Complete, EventOf, inputs, files, counters, lists, locks, aio
<1>1. /\ e.req = io.req /\ e.op = io.op
      /\ inflight' = inflight \ {io} /\ ring' = ring \cup {e}
      /\ events' = events /\ iocbs' = iocbs /\ io \in Known
  BY DEF Known
<1>2. /\ Returned' = Returned \cup {e}
      /\ \A x \in Known' : x \in Known \/ x = e
      /\ e \in Known'
      /\ \A x \in Known : x \in Known' \/ x = io
  BY <1>1 DEF Known, Returned
<1>3. \A x \in inflight' \cup Returned : x.req # io.req
  BY <1>1 DEF OneOperation
<1>4. Somewhere'
  BY <1>1, <1>2 DEF Somewhere
<1>5. Apart'
  BY <1>1, <1>2 DEF Apart
<1>6. OneOperation'
  BY <1>1, <1>2, <1>3 DEF OneOperation, Returned
<1>7. Descriptors'
  BY DEF Descriptors
<1>8. Stages'
  BY <1>1, <1>2 DEF Stages, DispatchByState
<1>9. Counts' /\ Mutexes' /\ Control'
  BY DEF Counts, ListLengths, Mutexes, Control
<1>10. io.req \in Req \ (freed \cup iocbs \cup ToSet(write_head))
  BY <1>1 DEF Apart, Somewhere, TypeOK, RequestTypes
<1>11. state[io.req] = IF io.op = "read" THEN 1 ELSE 2
  BY <1>1 DEF Stages, DispatchByState
<1>12. fsize[io.req] >= 0
  BY <1>1 DEF Buffers
<1>13. fsize[io.req] \in Int
  BY <1>10 DEF TypeOK, RequestTypes, IntRange
<1>14. QED
  BY <1>1, <1>2, <1>3, <1>4, <1>5, <1>6, <1>7, <1>8, <1>9, <1>10, <1>11, <1>12, <1>13

\* A completed read fills the buffer.
LEMMA CompleteReadStep ==
  ASSUME IndInv, NEW io \in inflight, CompleteRead(io)
  PROVE  Data' /\ Stages' /\ Counts' /\ Mutexes' /\ Control'
<1> DEFINE r == io.req
           e == EventOf(io, fsize[r])
<1>1. fsize[r] \in Int
  BY DEF IndInv, TypeOK, RequestTypes, KernelTypes, IO, IntRange
<1>2. /\ Somewhere' /\ Apart' /\ OneOperation' /\ Descriptors'
      /\ Stages' /\ Counts' /\ Mutexes' /\ Control'
      /\ inflight' \subseteq inflight /\ Returned' = Returned \cup {e}
      /\ \A x \in Known' : x \in Known \/ x = e
      /\ r \in Req \ (freed \cup iocbs \cup ToSet(write_head))
      /\ state[r] = 1 /\ fsize[r] >= 0
      /\ \A x \in inflight' \cup Returned : x.req # r
  <2>1. Complete(io, fsize[r]) /\ io.op = "read"
    BY DEF CompleteRead
  <2>2. QED
    BY <1>1, <2>1, CompleteStep
<1>3. /\ \A q \in Req \ {r} : buffer'[q] = buffer[q]
      /\ buffer'[r] = fsize[r]
      /\ e.req = r /\ e.op = "read"
      /\ UNCHANGED <<state, fsize, st_size, old_len, dst, write_head, iocbs, freed>>
  BY <1>2 DEF CompleteRead, Complete, EventOf, IndInv, TypeOK, RequestTypes, inputs, files, lists, aio
<1>4. \A x \in Known : x.req \in Req
  BY DEF IndInv, Somewhere, TypeOK, RequestTypes
<1>5. Buffers'
  <2>1. \A q \in Req : state'[q] # 0 => fsize'[q] = ToInt(st_size'[q])
    BY <1>3 DEF IndInv, Buffers
  <2>2. \A q \in Req : state'[q] = 2 \/ q \in ToSet(write_head') =>
          buffer'[q] = fsize'[q] /\ fsize'[q] >= 0
    BY <1>2, <1>3 DEF IndInv, Buffers
  <2>3. \A x \in Known' : fsize'[x.req] >= 0
    BY <1>2, <1>3 DEF IndInv, Buffers
  <2>4. \A x \in Returned' :
          x.op = "read" /\ x.res = fsize'[x.req] => buffer'[x.req] = fsize'[x.req]
    BY <1>2, <1>3, <1>4 DEF IndInv, Buffers, Known, Returned
  <2>5. QED
    BY <2>1, <2>2, <2>3, <2>4 DEF Buffers
<1>6. Destinations'
  BY <1>2, <1>3 DEF IndInv, Destinations, Fresh, Whole
<1>7. QED
  BY <1>2, <1>5, <1>6 DEF Data

\* A completed write leaves the whole buffer at the beginning of the destination.
LEMMA CompleteWriteStep ==
  ASSUME IndInv, NEW io \in inflight, CompleteWrite(io)
  PROVE  Data' /\ Stages' /\ Counts' /\ Mutexes' /\ Control'
<1> DEFINE r == io.req
           e == EventOf(io, fsize[r])
<1>1. fsize[r] \in Int
  BY DEF IndInv, TypeOK, RequestTypes, KernelTypes, IO, IntRange
<1>2. /\ Somewhere' /\ Apart' /\ OneOperation' /\ Descriptors'
      /\ Stages' /\ Counts' /\ Mutexes' /\ Control'
      /\ inflight' \subseteq inflight /\ Returned' = Returned \cup {e}
      /\ \A x \in Known' : x \in Known \/ x = e
      /\ r \in Req \ (freed \cup iocbs \cup ToSet(write_head))
      /\ state[r] = 2 /\ fsize[r] >= 0
      /\ \A x \in inflight' \cup Returned : x.req # r
  <2>1. Complete(io, fsize[r]) /\ io.op = "write"
    BY DEF CompleteWrite
  <2>2. QED
    BY <1>1, <2>1, CompleteStep
<1>3. buffer[r] = fsize[r] /\ dst[r] = Created(Fresh(r))
  BY <1>2 DEF IndInv, Buffers, Destinations, CompleteWrite
<1>4. /\ \A q \in Req \ {r} : dst'[q] = dst[q]
      /\ dst'[r] = Whole(r)
      /\ e.req = r /\ e.op = "write"
      /\ UNCHANGED <<state, fsize, st_size, old_len, buffer, write_head, iocbs, freed>>
  BY <1>2, <1>3 DEF CompleteWrite, Complete, EventOf, IndInv, TypeOK, FileTypes, inputs, files, lists,
     aio, Whole
<1>5. \A x \in Known : x.req \in Req
  BY DEF IndInv, Somewhere, TypeOK, RequestTypes
<1>6. Buffers'
  BY <1>2, <1>4 DEF IndInv, Buffers
<1>7. Destinations'
  <2>1. \A q : Fresh(q)' = Fresh(q) /\ Whole(q)' = Whole(q)
    BY <1>4 DEF Fresh, Whole
  <2>2. \A q \in Req : state'[q] # 2 => dst'[q] = Fresh(q)'
    BY <1>2, <1>4, <2>1 DEF IndInv, Destinations
  <2>3. \A q \in iocbs' : state'[q] = 2 => dst'[q] = Created(Fresh(q))'
    BY <1>2, <1>4, <2>1 DEF IndInv, Destinations, Created, TypeOK, RequestTypes
  <2>4. \A x \in inflight' : x.op = "write" => dst'[x.req] = Created(Fresh(x.req))'
    BY <1>2, <1>4, <1>5, <2>1 DEF IndInv, Destinations, Created, Known
  <2>5. \A x \in Returned' :
          x.op = "write" /\ x.res = fsize'[x.req] => dst'[x.req] = Whole(x.req)'
    BY <1>2, <1>4, <1>5, <2>1 DEF IndInv, Destinations, Known, Returned
  <2>6. \A q \in freed' : dst'[q] = Whole(q)'
    BY <1>2, <1>4, <2>1 DEF IndInv, Destinations, TypeOK, RequestTypes
  <2>7. QED
    BY <2>2, <2>3, <2>4, <2>5, <2>6 DEF Destinations
<1>8. QED
  BY <1>2, <1>6, <1>7 DEF Data

\* A failed operation returns a result that is not a length.
LEMMA CompleteBadStep ==
  ASSUME IndInv, NEW io \in inflight, CompleteBad(io)
  PROVE  Data' /\ Stages' /\ Counts' /\ Mutexes' /\ Control'
<1> DEFINE r == io.req
           e == EventOf(io, BadRes)
<1>1. BadRes \in Int /\ BadRes < 0
  BY DEF BadRes
<1>2. /\ Somewhere' /\ Apart' /\ OneOperation' /\ Descriptors'
      /\ Stages' /\ Counts' /\ Mutexes' /\ Control'
      /\ inflight' \subseteq inflight /\ Returned' = Returned \cup {e}
      /\ \A x \in Known' : x \in Known \/ x = e
      /\ fsize[r] \in Int /\ fsize[r] >= 0
  <2>1. Complete(io, BadRes)
    BY DEF CompleteBad
  <2>2. QED
    BY <1>1, <2>1, CompleteStep
<1>3. /\ e.req = r /\ e.res # fsize[r]
      /\ UNCHANGED <<state, fsize, st_size, old_len, buffer, dst, write_head, iocbs, freed>>
  BY <1>1, <1>2 DEF CompleteBad, Complete, EventOf, inputs, files, lists, aio
<1>4. Buffers'
  BY <1>2, <1>3 DEF IndInv, Buffers
<1>5. Destinations'
  BY <1>2, <1>3 DEF IndInv, Destinations, Fresh, Whole
<1>6. QED
  BY <1>2, <1>4, <1>5 DEF Data
LEMMA IndInvStep == IndInv /\ [Next]_vars => IndInv'
<1> SUFFICES ASSUME IndInv, [Next]_vars PROVE IndInv'
  OBVIOUS
<1>1. TypeOK'
  BY TypeOKStep DEF IndInv
<1> SUFFICES Data' /\ Stages' /\ Counts' /\ Mutexes' /\ Control'
  BY <1>1 DEF IndInv, Data
<1>2. ASSUME NEW r \in Req, CopyReg(r)
      PROVE  Data' /\ Stages' /\ Counts' /\ Mutexes' /\ Control'
  BY <1>2, CopyRegStep
<1>3. ASSUME NEW r \in Req, AddPush(r)
      PROVE  Data' /\ Stages' /\ Counts' /\ Mutexes' /\ Control'
  BY <1>3, AddPushStep
<1>4. CASE \/ AddLock \/ AddCount \/ ClientFail \/ ClientDone \/ WaitLock \/ WaitSet \/ Join \/ Destroy
           \/ LockFlush \/ StayInLoop \/ LockRequest \/ UnlockRequest \/ UnlockFlush
           \/ PrepFail \/ SubmitFail
  BY <1>4, QuietActions
<1>5. CASE GetEvents
  BY <1>5, GetEventsStep
<1>6. ASSUME NEW e \in events, HandleBadEvent(e)
      PROVE  Data' /\ Stages' /\ Counts' /\ Mutexes' /\ Control'
  <2>1. Data' /\ Stages'
    BY <1>6, QuietStep DEF HandleBadEvent, IndInv, Data, requests, inputs, files, fields,
       lists, kernel, aio
  <2>2. Counts' /\ Mutexes' /\ Control'
    BY <1>6 DEF HandleBadEvent, IndInv, Counts, ListLengths, Mutexes, Control, inputs, files,
       fields, lists, locks, counters, kernel, aio
  <2>3. QED
    BY <2>1, <2>2
<1>7. ASSUME NEW e \in events, HandleRead(e)
      PROVE  Data' /\ Stages' /\ Counts' /\ Mutexes' /\ Control'
  BY <1>7, HandleReadStep
<1>8. ASSUME NEW e \in events, HandleWrite(e)
      PROVE  Data' /\ Stages' /\ Counts' /\ Mutexes' /\ Control'
  BY <1>8, HandleWriteStep
<1>9. CASE LeaveLoop
  BY <1>9, LeaveLoopStep
<1>10. CASE PrepRead
  BY <1>10, PrepReadStep
<1>11. CASE PrepWrite
  BY <1>11, PrepWriteStep
<1>12. CASE SubmitReads \/ SubmitWrites
  BY <1>12, SubmitStep
<1>13. ASSUME NEW io \in inflight, CompleteRead(io)
       PROVE  Data' /\ Stages' /\ Counts' /\ Mutexes' /\ Control'
  BY <1>13, CompleteReadStep
<1>14. ASSUME NEW io \in inflight, CompleteWrite(io)
       PROVE  Data' /\ Stages' /\ Counts' /\ Mutexes' /\ Control'
  BY <1>14, CompleteWriteStep
<1>15. ASSUME NEW io \in inflight, CompleteBad(io)
       PROVE  Data' /\ Stages' /\ Counts' /\ Mutexes' /\ Control'
  BY <1>15, CompleteBadStep
<1>16. CASE UNCHANGED vars
  <2>1. Data' /\ Stages'
    BY <1>16, QuietStep DEF vars, IndInv, Data, requests, inputs, aio
  <2>2. Counts' /\ Mutexes' /\ Control'
    BY <1>16 DEF vars, IndInv, Counts, ListLengths, Mutexes, Control, inputs, files,
       fields, lists, locks, counters, kernel, aio
  <2>3. QED
    BY <2>1, <2>2
<1>17. QED
  BY <1>2, <1>3, <1>4, <1>5, <1>6, <1>7, <1>8, <1>9, <1>10, <1>11, <1>12, <1>13, <1>14,
     <1>15, <1>16 DEF Next, MainNext, AioNext, KernelNext, Terminated

\* The invariant of AioManagerInv holds in every run.
THEOREM Inductive == Spec => []IndInv
<1>1. QED
  BY InitIndInv, IndInvStep, PTL DEF Spec

\* No batch loop of aio_loop runs past the end of its list.
THEOREM ListsAgree == Spec => []ListLengths
<1>1. IndInv => ListLengths
  BY DEF IndInv, Counts
<1>2. QED
  BY <1>1, Inductive, PTL

\* An event is always handled as the operation that completed.
THEOREM DispatchCorrect == Spec => []DispatchByState
<1>1. IndInv => DispatchByState
  BY DEF IndInv, Stages
<1>2. QED
  BY <1>1, Inductive, PTL

\* When flush is set the counter that aio_loop reads without a lock is final.
THEOREM FlushCorrect == Spec => []FlushAfterLastAdd
<1>1. IndInv => FlushAfterLastAdd
  BY DEF IndInv, Counts, Control, FlushAfterLastAdd
<1>2. QED
  BY <1>1, Inductive, PTL

\* No buffer is written before it was read as a whole.
THEOREM WriteCorrect == Spec => []WriteAfterFullRead
<1>1. IndInv => WriteAfterFullRead
  BY DEF IndInv, Buffers, WriteAfterFullRead, TypeOK, RequestTypes
<1>2. QED
  BY <1>1, Inductive, PTL

\* No descriptor leaks and none is closed while its operation is pending.
THEOREM DescriptorsCorrect == Spec => []DescriptorsFollowIO
<1> DEFINE Using(op) == {x.req : x \in {y \in Known : y.op = op}}
                          \cup (IF aio_pc = op THEN iocbs ELSE {})
<1>1. ASSUME IndInv PROVE open_src = Using("read")
  <2>1. ASSUME NEW r \in open_src PROVE r \in Using("read")
    BY <1>1, <2>1 DEF IndInv, Descriptors, Stages, DispatchByState, Somewhere
  <2>2. ASSUME NEW r \in Using("read") PROVE r \in open_src
    BY <1>1, <2>2 DEF IndInv, Descriptors, Stages, DispatchByState, Somewhere, Apart
  <2>3. QED
    BY <2>1, <2>2
<1>2. ASSUME IndInv PROVE open_dst = Using("write")
  <2>1. \A x \in Known : x.op \in {"read", "write"}
    BY <1>2 DEF IndInv, TypeOK, KernelTypes, Known, IO, Event, Op
  <2>2. ASSUME NEW r \in open_dst PROVE r \in Using("write")
    BY <1>2, <2>1, <2>2 DEF IndInv, Descriptors, Stages, DispatchByState, Somewhere, Control
  <2>3. ASSUME NEW r \in Using("write") PROVE r \in open_dst
    BY <1>2, <2>3 DEF IndInv, Descriptors, Stages, DispatchByState, Somewhere, Apart
  <2>4. QED
    BY <2>2, <2>3
<1>3. IndInv => DescriptorsFollowIO
  BY <1>1, <1>2 DEF DescriptorsFollowIO
<1>4. QED
  BY <1>3, Inductive, PTL

\* When aio_loop has returned, everything is done and given back.
THEOREM JoinCorrect == Spec => []CleanJoin
<1>1. ASSUME IndInv, aio_pc = "done"
      PROVE  /\ freed = issued
             /\ read_head = << >> /\ write_head = << >>
             /\ iocbs = {} /\ Known = {}
             /\ open_src = {} /\ open_dst = {}
             /\ request_mutex = "free" /\ flush_mutex = "free"
  <2>1. freed = issued /\ iocbs = {} /\ adding = {}
    BY <1>1 DEF IndInv, Control
  <2>2. ToSet(write_head) = {} /\ Known = {}
    <3>1. \A r \in ToSet(write_head) : r \in freed /\ state[r] = 1 /\ state[r] = 2
      BY <1>1, <2>1 DEF IndInv, Somewhere, Stages
    <3>2. \A x \in Known : x.req \in freed /\ x.req \notin freed
      BY <1>1, <2>1 DEF IndInv, Somewhere, Apart
    <3>3. QED
      BY <3>1, <3>2
  <2>3. ToSet(read_head) = {}
    BY <1>1, <2>1 DEF IndInv, Somewhere, Stages
  <2>4. ASSUME NEW list \in Seq(Req), ToSet(list) = {} PROVE list = << >>
    <3>1. SUFFICES ASSUME list # << >> PROVE FALSE
      OBVIOUS
    <3>2. 1 \in DOMAIN list
      BY <3>1
    <3>3. list[1] \in ToSet(list)
      BY <3>2 DEF ToSet
    <3>4. QED
      BY <2>4, <3>3
  <2>5. read_head = << >> /\ write_head = << >>
    BY <1>1, <2>2, <2>3, <2>4 DEF IndInv, TypeOK, CounterTypes
  <2>6. open_src = {} /\ open_dst = {}
    BY <1>1, <2>1 DEF IndInv, Descriptors, Stages
  <2>7. request_mutex = "free" /\ flush_mutex = "free"
    BY <1>1 DEF IndInv, Mutexes, Control, TypeOK, ControlTypes
  <2>8. QED
    BY <2>1, <2>2, <2>5, <2>6, <2>7
<1>2. IndInv => CleanJoin
  BY <1>1 DEF CleanJoin
<1>3. QED
  BY <1>2, Inductive, PTL

\* A length below 2^32 that is stored as a non-negative number is stored exactly.
LEMMA ToIntExact ==
  ASSUME NEW n \in Nat, n < IntMod, ToInt(n) >= 0
  PROVE  ToInt(n) = n
<1>1. n % IntMod = n
  BY IntAssumption
<1>2. QED
  BY <1>1, IntAssumption DEF ToInt

\* Exit status 0 means that every file was copied, if its length is below 2^32; of
\* a longer file that was in the way the tail remains, and nothing else.
THEOREM SuccessCorrect == Spec => []SuccessMeansCopied
<1>1. ASSUME IndInv, status = "success", NEW r \in issued, st_size[r] < IntMod
      PROVE  dst[r] = [same |-> st_size[r], len |-> Max2(st_size[r], old_len[r])]
  <2>1. r \in freed /\ r \in Req
    BY <1>1 DEF IndInv, Control, TypeOK, RequestTypes
  <2>2. state[r] = 2
    BY <1>1, <2>1 DEF IndInv, Stages
  <2>3. fsize[r] = ToInt(st_size[r]) /\ fsize[r] >= 0
    BY <1>1, <2>1, <2>2 DEF IndInv, Buffers
  <2>4. st_size[r] \in Nat /\ old_len[r] \in Nat \cup {Absent}
    BY <1>1, <2>1 DEF IndInv, TypeOK, FileTypes
  <2>5. fsize[r] = st_size[r]
    BY <1>1, <2>3, <2>4, ToIntExact
  <2>6. dst[r] = Whole(r)
    BY <1>1, <2>1 DEF IndInv, Destinations
  <2>7. Whole(r) = [same |-> st_size[r], len |-> Max2(Max2(old_len[r], 0), st_size[r])]
    BY <2>4, <2>5 DEF Whole, Written, Created, Fresh
  <2>8. Max2(Max2(old_len[r], 0), st_size[r]) = Max2(st_size[r], old_len[r])
    BY <2>4 DEF Max2, Absent
  <2>9. QED
    BY <2>6, <2>7, <2>8
<1>2. IndInv => SuccessMeansCopied
  BY <1>1 DEF SuccessMeansCopied
<1>3. QED
  BY <1>2, Inductive, PTL

\* So the copy is the source, unless a longer file was in the way.
LEMMA CopiedIsIdentical ==
  ASSUME TypeOK, SuccessMeansCopied, status = "success", NEW r \in issued,
         st_size[r] < IntMod, old_len[r] <= st_size[r]
  PROVE  Identical(r)
<1>1. dst[r] = [same |-> st_size[r], len |-> Max2(st_size[r], old_len[r])]
  BY DEF SuccessMeansCopied
<1>2. st_size[r] \in Nat /\ old_len[r] \in Nat \cup {Absent}
  BY DEF TypeOK, RequestTypes, FileTypes
<1>3. Max2(st_size[r], old_len[r]) = st_size[r]
  BY <1>2 DEF Max2, Absent
<1>4. QED
  BY <1>1, <1>3 DEF Identical

\* No step touches a request after free(): neither its fields nor its destination,
\* and it returns to no list and no batch.
THEOREM FreedCorrect == Spec => FreedUntouched
<1> DEFINE Untouched(r) == /\ state'[r] = state[r] /\ fsize'[r] = fsize[r]
                           /\ buffer'[r] = buffer[r] /\ dst'[r] = dst[r]
<1>1. ASSUME IndInv, IndInv', [Next]_vars, NEW r \in freed PROVE r \in freed' /\ Untouched(r)
  <2> USE <1>1 DEF inputs, files, fields, lists, counters, locks, kernel, aio
  <2>1. r \in Req /\ state[r] = 2
    BY DEF IndInv, Stages, TypeOK, RequestTypes
  <2>2. CASE PrepRead
    <3>1. Head(read_head) # r
      BY <2>1, <2>2, TailElements DEF PrepRead, IndInv, Stages, Apart, TypeOK, CounterTypes
    <3>2. QED
      BY <2>1, <2>2, <3>1 DEF PrepRead, IndInv, TypeOK, RequestTypes
  <2>3. CASE PrepWrite
    <3>1. Head(write_head) # r
      BY <2>1, <2>3, TailElements DEF PrepWrite, IndInv, Stages, Apart, TypeOK, CounterTypes
    <3>2. QED
      BY <2>1, <2>3, <3>1 DEF PrepWrite, IndInv, TypeOK, RequestTypes, FileTypes
  <2>4. \A io \in inflight : io.req # r
    BY DEF IndInv, Apart, Known
  <2>5. ASSUME NEW io \in inflight, CompleteRead(io) \/ CompleteWrite(io) \/ CompleteBad(io)
        PROVE  r \in freed' /\ Untouched(r)
    BY <2>1, <2>4, <2>5 DEF CompleteRead, CompleteWrite, CompleteBad, Complete, IndInv, TypeOK,
       RequestTypes, FileTypes
  <2>6. ASSUME NEW q \in Req, CopyReg(q) \/ AddPush(q) PROVE r \in freed' /\ Untouched(r)
    BY <2>6 DEF CopyReg, AddPush
  <2>7. ASSUME NEW e \in events, HandleBadEvent(e) \/ HandleRead(e) \/ HandleWrite(e)
        PROVE  r \in freed' /\ Untouched(r)
    BY <2>7 DEF HandleBadEvent, HandleRead, HandleWrite
  <2>8. CASE \/ AddLock \/ AddCount \/ ClientFail \/ ClientDone \/ WaitLock \/ WaitSet \/ Join \/ Destroy
    BY <2>8 DEF AddLock, AddCount, ClientFail, ClientDone, WaitLock, WaitSet, Join, Destroy
  <2>9. CASE \/ LockFlush \/ GetEvents \/ LeaveLoop \/ StayInLoop \/ LockRequest
             \/ UnlockRequest \/ UnlockFlush \/ PrepFail \/ SubmitFail
    BY <2>9 DEF LockFlush, GetEvents, LeaveLoop, StayInLoop, LockRequest, UnlockRequest,
       UnlockFlush, PrepFail, SubmitFail
  <2>10. CASE SubmitReads \/ SubmitWrites
    BY <2>10 DEF SubmitReads, SubmitWrites, Submit
  <2>11. CASE UNCHANGED vars
    BY <2>11 DEF vars
  <2>12. QED
    BY <2>2, <2>3, <2>5, <2>6, <2>7, <2>8, <2>9, <2>10, <2>11
       DEF Next, MainNext, AioNext, KernelNext, Terminated
<1>2. ASSUME IndInv', NEW r \in freed'
      PROVE  r \notin ToSet(read_head') \cup ToSet(write_head') \cup iocbs'
  BY <1>2 DEF IndInv, Stages, Apart
<1>3. IndInv /\ IndInv' /\ [Next]_vars =>
        [\A r \in freed :
           /\ r \in freed'
           /\ state'[r] = state[r] /\ fsize'[r] = fsize[r]
           /\ buffer'[r] = buffer[r] /\ dst'[r] = dst[r]
           /\ r \notin ToSet(read_head') \cup ToSet(write_head') \cup iocbs']_vars
  BY <1>1, <1>2
<1>4. QED
  BY <1>3, Inductive, PTL DEF Spec, FreedUntouched
\* Two sets of requests without a common element.
LEMMA DisjointUnion ==
  ASSUME NEW S \in SUBSET Req, NEW T \in SUBSET Req, S \cap T = {}
  PROVE  /\ S \cup T \in SUBSET Req
         /\ Cardinality(S \cup T) = Cardinality(S) + Cardinality(T)
<1>1. IsFiniteSet(S) /\ IsFiniteSet(T)
  BY ReqAssumption, FS_Subset
<1>2. Cardinality(S) \in Nat /\ Cardinality(T) \in Nat
  BY <1>1, FS_CardinalityType
<1>3. Cardinality(S \cup T) = Cardinality(S) + Cardinality(T) - Cardinality(S \cap T)
  BY <1>1, FS_Union
<1>4. Cardinality(S \cap T) = 0
  BY FS_EmptySet
<1>5. QED
  BY <1>2, <1>3, <1>4

\* A list without repetition has as many elements as places.
LEMMA ListCardinality ==
  ASSUME NEW list \in Seq(Req), IsInjective(list)
  PROVE  ToSet(list) \in SUBSET Req /\ Cardinality(ToSet(list)) = Len(list)
<1>1. Len(list) \in Nat /\ DOMAIN list = 1 .. Len(list) /\ list \in [1 .. Len(list) -> Req]
  OBVIOUS
<1>2. ToSet(list) \in SUBSET Req
  BY <1>1 DEF ToSet
<1>3. list \in Bijection(1 .. Len(list), ToSet(list))
  BY <1>1 DEF Bijection, Injection, Surjection, IsInjective, ToSet
<1>4. QED
  BY <1>1, <1>2, <1>3, FS_CountingElements DEF ExistsBijection

\* Operations of different requests are as many as their requests.
LEMMA OperationCardinality ==
  ASSUME NEW S, \A x \in S : x.req \in Req, \A x, y \in S : x.req = y.req => x = y
  PROVE  ReqsOf(S) \in SUBSET Req /\ Cardinality(ReqsOf(S)) = Cardinality(S)
<1> DEFINE f == [x \in S |-> x.req]
<1>1. ReqsOf(S) \in SUBSET Req
  BY DEF ReqsOf
<1>2. f \in Bijection(S, ReqsOf(S))
  BY DEF Bijection, Injection, Surjection, IsInjective, ReqsOf
<1>3. IsFiniteSet(S)
  <2>1. f \in Injection(S, Req)
    BY DEF Injection, IsInjective
  <2>2. QED
    BY <2>1, ReqAssumption, FS_Injection
<1>4. QED
  BY <1>1, <1>2, <1>3, FS_Bijection DEF ExistsBijection

\* A request is in one place: the places cover what was issued, and their sizes
\* add up to it.
THEOREM PlacesCorrect == Spec => []OnePlace
<1>1. ASSUME IndInv PROVE OnePlace
  <2> DEFINE L == ToSet(read_head)
             W == ToSet(write_head)
             I == ReqsOf(inflight)
             R == ReqsOf(ring)
             E == ReqsOf(events)
  <2>1. /\ adding \in SUBSET Req /\ iocbs \in SUBSET Req /\ freed \in SUBSET Req
        /\ issued \subseteq Req
    BY <1>1 DEF IndInv, TypeOK, RequestTypes
  <2>2. /\ L \in SUBSET Req /\ Cardinality(L) = Len(read_head)
        /\ W \in SUBSET Req /\ Cardinality(W) = Len(write_head)
    BY <1>1, ListCardinality DEF IndInv, Apart, TypeOK, CounterTypes
  <2>3. \A x \in Known : x.req \in Req
    BY <1>1, <2>1 DEF IndInv, Somewhere
  <2>4. /\ I \in SUBSET Req /\ Cardinality(I) = Cardinality(inflight)
        /\ R \in SUBSET Req /\ Cardinality(R) = Cardinality(ring)
        /\ E \in SUBSET Req /\ Cardinality(E) = Cardinality(events)
    BY <1>1, <2>3, OperationCardinality DEF IndInv, OneOperation, Known, Returned
  <2>5. I \cap R = {} /\ I \cap E = {} /\ R \cap E = {}
    BY <1>1 DEF IndInv, OneOperation, Returned, ReqsOf
  <2>6. (I \cup R \cup E) \cap (iocbs \cup W \cup freed) = {}
    BY <1>1 DEF IndInv, Apart, Known, ReqsOf
  <2>7. \A r \in adding \cup L : state[r] = 0 /\ r \notin iocbs \cup W \cup freed
    BY <1>1 DEF IndInv, Stages
  <2>8. (I \cup R \cup E) \cap (adding \cup L) = {}
    BY <1>1, <2>7 DEF IndInv, Stages, DispatchByState, Known, ReqsOf
  <2>9. adding \cap L = {} /\ W \cap freed = {} /\ iocbs \cap (W \cup freed) = {}
    BY <1>1 DEF IndInv, Apart, Stages
  <2>10. issued = adding \cup L \cup iocbs \cup (I \cup R \cup E) \cup W \cup freed
    <3>1. ReqsOf(Known) = I \cup R \cup E
      BY DEF ReqsOf, Known
    <3>2. \A r : r \in ReqsOf(Known) <=> \E x \in Known : x.req = r
      BY DEF ReqsOf
    <3>3. QED
      BY <1>1, <3>1, <3>2 DEF IndInv, Somewhere
  <2>11. ReqsOf(Known) = I \cup R \cup E
    BY DEF ReqsOf, Known
  <2> DEFINE c1 == adding \cup L
             c2 == c1 \cup iocbs
             k1 == I \cup R
             k2 == k1 \cup E
             c3 == c2 \cup k2
             c4 == c3 \cup W
             c5 == c4 \cup freed
  <2>12. /\ c1 \in SUBSET Req
         /\ Cardinality(c1) = Cardinality(adding) + Cardinality(L)
    BY <2>1, <2>2, <2>9, DisjointUnion
  <2>13. /\ c2 \in SUBSET Req
         /\ Cardinality(c2) = Cardinality(c1) + Cardinality(iocbs)
    <3>1. c1 \cap iocbs = {}
      BY <2>7
    <3>2. QED
      BY <2>1, <2>12, <3>1, DisjointUnion
  <2>14. /\ k1 \in SUBSET Req
         /\ Cardinality(k1) = Cardinality(I) + Cardinality(R)
    BY <2>4, <2>5, DisjointUnion
  <2>15. /\ k2 \in SUBSET Req
         /\ Cardinality(k2) = Cardinality(k1) + Cardinality(E)
    <3>1. k1 \cap E = {}
      BY <2>5
    <3>2. QED
      BY <2>4, <2>14, <3>1, DisjointUnion
  <2>16. /\ c3 \in SUBSET Req
         /\ Cardinality(c3) = Cardinality(c2) + Cardinality(k2)
    <3>1. c2 \cap k2 = {}
      BY <2>6, <2>8
    <3>2. QED
      BY <2>13, <2>15, <3>1, DisjointUnion
  <2>17. /\ c4 \in SUBSET Req
         /\ Cardinality(c4) = Cardinality(c3) + Cardinality(W)
    <3>1. c3 \cap W = {}
      BY <2>6, <2>7, <2>9
    <3>2. QED
      BY <2>2, <2>16, <3>1, DisjointUnion
  <2>18. Cardinality(c5) = Cardinality(c4) + Cardinality(freed)
    <3>1. c4 \cap freed = {}
      BY <2>6, <2>7, <2>9
    <3>2. QED
      BY <2>1, <2>17, <3>1, DisjointUnion
  <2>19. /\ Cardinality(adding) \in Nat /\ Cardinality(iocbs) \in Nat
         /\ Cardinality(freed) \in Nat /\ Cardinality(L) \in Nat /\ Cardinality(W) \in Nat
         /\ Cardinality(I) \in Nat /\ Cardinality(R) \in Nat /\ Cardinality(E) \in Nat
    BY <2>1, <2>2, <2>4, ReqAssumption, FS_Subset, FS_CardinalityType
  <2>20. issued = c5
    BY <2>10
  <2> HIDE DEF L, W, I, R, E, c1, c2, c3, c4, c5, k1, k2
  <2>21. Cardinality(issued) =
           Cardinality(adding) + Len(read_head) + Cardinality(iocbs)
           + Cardinality(inflight) + Cardinality(ring) + Cardinality(events)
           + Len(write_head) + Cardinality(freed)
    BY <2>2, <2>4, <2>12, <2>13, <2>14, <2>15, <2>16, <2>17, <2>18, <2>19, <2>20
  <2>22. QED
    BY <2>10, <2>11, <2>21 DEF OnePlace, L, W
<1>2. QED
  BY <1>1, Inductive, PTL

\* A context with a slot for each file never refuses a batch for want of slots.
THEOREM SlotsCorrect == Spec => []SlotsSuffice
<1>1. ASSUME IndInv, OnePlace PROVE SlotsSuffice
  <2>1. issued \subseteq Req /\ adding \subseteq Req /\ iocbs \subseteq Req /\ freed \subseteq Req
    BY <1>1 DEF IndInv, TypeOK, RequestTypes
  <2>2. \A x \in Known : x.req \in Req
    BY <1>1, <2>1 DEF IndInv, Somewhere
  <2>3. /\ ReqsOf(inflight) \in SUBSET Req /\ ReqsOf(ring) \in SUBSET Req
        /\ ReqsOf(events) \in SUBSET Req
        /\ Cardinality(ReqsOf(inflight)) = Cardinality(inflight)
        /\ Cardinality(ReqsOf(ring)) = Cardinality(ring)
        /\ Cardinality(ReqsOf(events)) = Cardinality(events)
    BY <1>1, <2>2, OperationCardinality DEF IndInv, OneOperation, Known, Returned
  <2>4. /\ Cardinality(adding) \in Nat /\ Cardinality(iocbs) \in Nat
        /\ Cardinality(freed) \in Nat /\ Cardinality(inflight) \in Nat
        /\ Cardinality(ring) \in Nat /\ Cardinality(events) \in Nat
        /\ Cardinality(Req) \in Nat /\ Cardinality(issued) <= Cardinality(Req)
    BY <2>1, <2>3, ReqAssumption, FS_Subset, FS_CardinalityType
  <2>5. Len(read_head) \in Nat /\ Len(write_head) \in Nat /\ MaxEvents \in Nat
    BY <1>1, LimitAssumption DEF IndInv, TypeOK, CounterTypes
  <2>6. QED
    BY <1>1, <2>4, <2>5 DEF OnePlace, SlotsSuffice, Outstanding
<1>2. QED
  BY <1>1, Inductive, PlacesCorrect, PTL
-----------------------------------------------------------------------------
(* AioManager implements the abstract copy job CopyJob, step by step. *)

\* The files the manager can copy: lengths below 2^32 and no destination that is
\* longer than its source.
FilesFit ==
  /\ \A n \in Sizes : n < IntMod
  /\ \A n \in Sizes, o \in OldLens : o <= n

\* The source files and the old destinations are those of the beginning.
Given == st_size \in [Req -> Sizes] /\ old_len \in [Req -> OldLens]

LEMMA GivenStep == Given /\ [Next]_vars => Given'
<1> SUFFICES ASSUME [Next]_vars PROVE UNCHANGED files
  BY DEF Given, files
<1> USE DEF inputs, vars, Main, Aio, ExitFailure
<1>1. ASSUME NEW r \in Req, CopyReg(r) \/ AddPush(r) PROVE UNCHANGED files
  BY <1>1 DEF CopyReg, AddPush
<1>2. CASE \/ AddLock \/ AddCount \/ ClientFail \/ ClientDone \/ WaitLock \/ WaitSet \/ Join \/ Destroy
  BY <1>2 DEF AddLock, AddCount, ClientFail, ClientDone, WaitLock, WaitSet, Join, Destroy
<1>3. ASSUME NEW e \in events, HandleBadEvent(e) \/ HandleRead(e) \/ HandleWrite(e)
      PROVE  UNCHANGED files
  BY <1>3 DEF HandleBadEvent, HandleRead, HandleWrite
<1>4. CASE \/ LockFlush \/ GetEvents \/ LeaveLoop \/ StayInLoop \/ LockRequest
           \/ PrepRead \/ UnlockRequest \/ PrepWrite \/ UnlockFlush \/ PrepFail \/ SubmitFail
  BY <1>4 DEF LockFlush, GetEvents, LeaveLoop, StayInLoop, LockRequest, PrepRead,
     UnlockRequest, PrepWrite, UnlockFlush, PrepFail, SubmitFail
<1>5. CASE SubmitReads \/ SubmitWrites
  BY <1>5 DEF SubmitReads, SubmitWrites, Submit
<1>6. ASSUME NEW io \in inflight, CompleteRead(io) \/ CompleteWrite(io) \/ CompleteBad(io)
      PROVE  UNCHANGED files
  BY <1>6 DEF CompleteRead, CompleteWrite, CompleteBad, Complete
<1>7. CASE UNCHANGED vars
  BY <1>7
<1>8. QED
  BY <1>1, <1>2, <1>3, <1>4, <1>5, <1>6, <1>7
     DEF Next, MainNext, AioNext, KernelNext, Terminated

\* The files of the beginning are those of the end.
LEMMA GivenAlways == Spec => []Given
<1>1. Init => Given
  BY DEF Init, Given
<1>2. QED
  BY <1>1, GivenStep, PTL DEF Spec

copied == {r \in freed : Identical(r)}

\* What is freed has been copied.
LEMMA FreedIsCopied ==
  ASSUME FilesFit, Given, IndInv
  PROVE  copied = freed
<1> SUFFICES ASSUME NEW r \in freed PROVE Identical(r)
  BY DEF copied
<1>1. r \in Req /\ state[r] = 2
  BY DEF IndInv, Stages, TypeOK, RequestTypes
<1>2. st_size[r] \in Nat /\ old_len[r] \in Nat \cup {Absent}
  BY <1>1 DEF IndInv, TypeOK, FileTypes
<1>3. st_size[r] < IntMod /\ old_len[r] <= st_size[r]
  BY <1>1 DEF FilesFit, Given
<1>4. fsize[r] = ToInt(st_size[r]) /\ fsize[r] >= 0
  BY <1>1 DEF IndInv, Buffers
<1>5. fsize[r] = st_size[r]
  BY <1>2, <1>3, <1>4, ToIntExact
<1>6. dst[r] = Whole(r)
  BY DEF IndInv, Destinations
<1>7. Whole(r) = [same |-> st_size[r], len |-> st_size[r]]
  BY <1>2, <1>3, <1>5 DEF Whole, Written, Created, Fresh, Max2, Absent
<1>8. QED
  BY <1>6, <1>7 DEF Identical

\* The manager starts as the job does.
LEMMA JobInit == Init => Job!Init
  BY DEF Init, Job!Init, copied, Job!vars

\* Every step of the manager is one of the job, or changes nothing of it: copy_reg
\* accepts, the end of a write copies, destroy_aio_manager succeeds, and what ends
\* the process before that fails.
LEMMA JobStep ==
  ASSUME IndInv, copied = freed, copied' = freed', [Next]_vars
  PROVE  [Job!Next]_(Job!vars)
<1> USE DEF inputs, files, fields, lists, counters, locks, kernel, aio, copied, Main, Aio,
            ExitFailure
<1>1. SUFFICES \/ \E r \in Req :
                    /\ status = "running" /\ r \notin issued
                    /\ issued' = issued \cup {r} /\ UNCHANGED <<freed, status>>
               \/ \E r \in Req :
                    /\ status = "running" /\ r \in issued \ freed
                    /\ freed' = freed \cup {r} /\ UNCHANGED <<issued, status>>
               \/ /\ status = "running" /\ freed = issued
                  /\ status' = "success" /\ UNCHANGED <<issued, freed>>
               \/ /\ status = "running"
                  /\ status' = "failure" /\ UNCHANGED <<issued, freed>>
               \/ UNCHANGED <<issued, freed, status>>
  BY DEF Job!Next, Job!Accept, Job!Copy, Job!Succeed, Job!Fail, Job!vars
<1>2. ASSUME NEW r \in Req, CopyReg(r)
      PROVE  /\ status = "running" /\ r \notin issued
             /\ issued' = issued \cup {r} /\ UNCHANGED <<freed, status>>
  BY <1>2 DEF CopyReg, Running
<1>3. ASSUME NEW e \in events, HandleWrite(e)
      PROVE  /\ status = "running" /\ e.req \in Req /\ e.req \in issued \ freed
             /\ freed' = freed \cup {e.req} /\ UNCHANGED <<issued, status>>
  BY <1>3 DEF HandleWrite, Running, IndInv, Somewhere, Apart, Known, TypeOK, RequestTypes
<1>4. CASE Destroy
  BY <1>4 DEF Destroy, Running, IndInv, Control
<1>5. CASE ClientFail \/ PrepFail \/ SubmitFail \/ \E e \in events : HandleBadEvent(e)
  BY <1>5 DEF ClientFail, PrepFail, SubmitFail, HandleBadEvent, Running
<1>6. CASE \/ AddLock \/ AddCount \/ ClientDone \/ WaitLock \/ WaitSet \/ Join
           \/ \E r \in Req : AddPush(r)
  BY <1>6 DEF AddLock, AddCount, ClientDone, WaitLock, WaitSet, Join, AddPush
<1>7. CASE \/ LockFlush \/ GetEvents \/ LeaveLoop \/ StayInLoop \/ LockRequest
           \/ PrepRead \/ UnlockRequest \/ PrepWrite \/ UnlockFlush
           \/ \E e \in events : HandleRead(e)
  BY <1>7 DEF LockFlush, GetEvents, LeaveLoop, StayInLoop, LockRequest, PrepRead,
     UnlockRequest, PrepWrite, UnlockFlush, HandleRead
<1>8. CASE SubmitReads \/ SubmitWrites
  BY <1>8 DEF SubmitReads, SubmitWrites, Submit
<1>9. ASSUME NEW io \in inflight, CompleteRead(io) \/ CompleteWrite(io) \/ CompleteBad(io)
      PROVE  UNCHANGED <<issued, freed, status>>
  BY <1>9 DEF CompleteRead, CompleteWrite, CompleteBad, Complete
<1>10. CASE UNCHANGED vars
  BY <1>10 DEF vars
<1>11. QED
  BY <1>2, <1>3, <1>4, <1>5, <1>6, <1>7, <1>8, <1>9, <1>10
     DEF Next, MainNext, AioNext, KernelNext, Terminated

\* For files that fit, the manager never does what the copy job would not do: in
\* particular it reports success only when every accepted file has been copied.
THEOREM ImplementsJob == ASSUME FilesFit PROVE Spec => Job!Spec
<1>1. Given /\ IndInv => copied = freed
  BY FreedIsCopied
<1>2. IndInv /\ copied = freed /\ (copied = freed)' /\ [Next]_vars => [Job!Next]_(Job!vars)
  BY JobStep
<1>3. QED
  BY <1>1, <1>2, GivenAlways, JobInit, Inductive, PTL DEF Spec, Job!Spec

\* The sanity check of exp.py:98 holds of every run of cpr whose files fit: a length
\* of 2^32 or more, or a destination that is longer than its source, is the only
\* way to exit status 0 with a copy that differs.
THEOREM SanityCorrect == ASSUME FilesFit PROVE Spec => []SanityCheck
<1>1. ASSUME Given, TypeOK, SuccessMeansCopied PROVE SanityCheck
  <2>1. SUFFICES ASSUME status = "success", NEW r \in issued PROVE Identical(r)
    BY DEF SanityCheck
  <2>2. r \in Req
    BY <1>1 DEF TypeOK, RequestTypes
  <2>3. st_size[r] < IntMod /\ old_len[r] <= st_size[r]
    BY <1>1, <2>2 DEF FilesFit, Given
  <2>4. QED
    BY <1>1, <2>1, <2>3, CopiedIsIdentical
<1>2. QED
  BY <1>1, GivenAlways, TypeCorrect, SuccessCorrect, PTL
=============================================================================
