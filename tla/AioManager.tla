----------------------------- MODULE AioManager -----------------------------
(***************************************************************************)
(* The asynchronous copy manager of cpr (cpr/aio_manager.c).               *)
(*                                                                         *)
(* The main thread hands copy requests to the manager (add_copy_req) and   *)
(* at the end asks it to flush and waits for it (wait_for_aio_finish).     *)
(* A second thread (aio_loop) moves every request through two rounds of    *)
(* kernel AIO: read the source into a buffer, write the buffer to the      *)
(* destination.  Requests wait for their round in two linked lists and are *)
(* submitted in batches, or all at once after the flush.                   *)
(*                                                                         *)
(* Threads interleave at lock operations, system calls and single loop     *)
(* iterations, and main also between reading the head of the read list and *)
(* replacing it.  A linked list is the sequence of its elements, head      *)
(* first.                                                                  *)
(* The iocbs of a batch, the kernel's completion ring and the events of    *)
(* one io_getevents call are sets: the order in which asynchronous         *)
(* operations complete is arbitrary.                                       *)
(***************************************************************************)
EXTENDS CopyData, SequencesExt, FiniteSets

CONSTANTS
  Req,         \* the copy_request_t objects copy_reg may allocate
  Sizes,       \* the st_size values a source file may have
  OldLens,     \* the lengths a destination may have, Absent if there is none
  ReadBatch,   \* read_batch_size: what atoi made of the third argument
  WriteBatch,  \* write_batch_size: the same number in cpr.c
  EventsMax,   \* the length of the events array, 10 in the code
  MaxEvents,   \* MAX_EVENTS: the operations the AIO context has room for
  Faults       \* the failures of the environment that may happen

FaultKinds == {"client", "open", "mmap", "submit", "io"}

ASSUME ReqAssumption   == IsFiniteSet(Req)
ASSUME SizeAssumption  == Sizes \subseteq Nat /\ OldLens \subseteq Nat \cup {Absent}
ASSUME BatchAssumption == ReadBatch \in Int /\ WriteBatch \in Int
ASSUME LimitAssumption == EventsMax \in Nat \ {0} /\ MaxEvents \in Nat
ASSUME FaultAssumption == Faults \subseteq FaultKinds

VARIABLES
  st_size,         \* the length of each source file
  old_len,         \* the length of each destination before the copy
  dst,             \* each destination: its length, and how many of its
                   \* leading bytes are those of the source
  issued,          \* the requests main has allocated (copy_reg)
  freed,           \* the requests aio_loop has freed
  state, fsize, buffer,         \* fields of copy_request_t
  open_src, open_dst,           \* requests whose src_fd, dst_fd is open
  req_count,                    \* the global of cpr.c
  request_count, finished_count, read_len, write_len, flush,
  read_head, write_head,        \* the two linked lists
  request_mutex, flush_mutex,
  main_pc, adding,              \* main: where it is, the request in hand
  rest,                         \* copy_request->next: what read_head was when it was read
  aio_pc, todo, iocbs, events,  \* aio_loop: where it is, its loop variables
  inflight, ring,               \* kernel: pending operations, completions
  status                        \* the exit status of the process

files == <<st_size, old_len>>
inputs == <<files, issued, req_count, adding, rest>>
fields == <<state, fsize, buffer, open_src, open_dst, dst, freed>>
counters == <<request_count, finished_count, read_len, write_len, flush>>
lists == <<read_head, write_head>>
locks == <<request_mutex, flush_mutex>>
aio == <<aio_pc, todo, iocbs, events>>
kernel == <<inflight, ring>>
vars == <<inputs, fields, counters, lists, locks, main_pc, aio, kernel, status>>

Running == status = "running"
-----------------------------------------------------------------------------
(* Lists, descriptors and operations. *)

\* Insertion at the head of a linked list: next first, then the head.
Push(r, list) == <<r>> \o list

\* close(): the set of requests whose descriptor remains open.
Closed_Forgotten(open, r) == open
Closed(open, r) == open \ {r}

Op == {"read", "write"}
IO == [req : Req, op : Op]

\* BadRes is any res but the requested length: an error or a short count.
Event == [req : Req, op : Op, res : Int]

Identical(r) == dst[r] = [same |-> st_size[r], len |-> st_size[r]]
-----------------------------------------------------------------------------
(* init_aio_manager and start_aio_thread, before the first request. *)
Init ==
  /\ st_size \in [Req -> Sizes]
  /\ old_len \in [Req -> OldLens]
  /\ dst = [r \in Req |-> [same |-> 0, len |-> old_len[r]]]
  /\ issued = {} /\ freed = {}
  /\ state = [r \in Req |-> 0]
  /\ fsize = [r \in Req |-> 0]
  /\ buffer = [r \in Req |-> NoBuffer]
  /\ open_src = {} /\ open_dst = {}
  /\ req_count = 0
  /\ request_count = 0 /\ finished_count = 0
  /\ read_len = 0 /\ write_len = 0
  /\ flush = FALSE
  /\ read_head = << >> /\ write_head = << >>
  /\ request_mutex = "free" /\ flush_mutex = "free"
  /\ main_pc = "client" /\ adding = {} /\ rest = << >>
  /\ aio_pc = "lock_flush" /\ todo = 0 /\ iocbs = {} /\ events = {}
  /\ inflight = {} /\ ring = {}
  /\ status = "running"
-----------------------------------------------------------------------------
(* The main thread. *)

Main(from, to) == Running /\ main_pc = from /\ main_pc' = to

CopyReg_AfterWait(r) ==
  /\ Running /\ main_pc \in {"client", "join"} /\ main_pc' = "add_lock"
  /\ r \in Req \ issued
  /\ req_count' = req_count + 1
  /\ issued' = issued \cup {r}
  /\ adding' = {r}
  /\ UNCHANGED <<files, rest, fields, counters, lists, locks, aio, kernel, status>>

\* copy_internal counts a regular file, copy_reg allocates its request.
CopyReg(r) ==
  /\ Main("client", "add_lock")
  /\ r \in Req \ issued
  /\ req_count' = req_count + 1
  /\ issued' = issued \cup {r}
  /\ adding' = {r}
  /\ UNCHANGED <<files, rest, fields, counters, lists, locks, aio, kernel, status>>

\* pthread_mutex_lock(&request_mutex) in add_copy_req.
AddLock_NoWait ==
  /\ Main("add_lock", "add_count")
  /\ UNCHANGED <<inputs, fields, counters, lists, locks, aio, kernel, status>>
AddLock ==
  /\ Main("add_lock", "add_count")
  /\ request_mutex = "free"
  /\ request_mutex' = "main"
  /\ UNCHANGED <<inputs, fields, counters, lists, flush_mutex, aio, kernel, status>>

\* The counters and the next of the request, for which the head is read.
AddCount ==
  /\ Main("add_count", "add_push")
  /\ request_count' = request_count + 1
  /\ read_len' = read_len + 1
  /\ rest' = read_head
  /\ UNCHANGED <<files, issued, req_count, adding, fields, finished_count,
                 write_len, flush, lists, locks, aio, kernel, status>>

\* The request becomes the head, whatever the head is by now; then the unlock.
AddPush(r) ==
  /\ Main("add_push", "client")
  /\ adding = {r}
  /\ read_head' = Push(r, rest)
  /\ rest' = << >>
  /\ request_mutex' = "free"
  /\ adding' = {}
  /\ UNCHANGED <<files, issued, req_count, fields, counters, write_head,
                 flush_mutex, aio, kernel, status>>

\* copy_internal reports an error: main returns -1 without waiting.
ClientFail ==
  /\ Running /\ main_pc = "client"
  /\ "client" \in Faults
  /\ status' = "failure"
  /\ UNCHANGED <<inputs, fields, counters, lists, locks, main_pc, aio, kernel>>

\* copy_internal returns 0: wait_for_aio_finish is called.
ClientDone ==
  /\ Main("client", "wait_lock")
  /\ UNCHANGED <<inputs, fields, counters, lists, locks, aio, kernel, status>>

WaitLock ==
  /\ Main("wait_lock", "wait_set")
  /\ flush_mutex = "free"
  /\ flush_mutex' = "main"
  /\ UNCHANGED <<inputs, fields, counters, lists, request_mutex, aio, kernel, status>>

WaitSet ==
  /\ Main("wait_set", "join")
  /\ flush' = TRUE
  /\ flush_mutex' = "free"
  /\ UNCHANGED <<inputs, fields, request_count, finished_count, read_len,
                 write_len, lists, request_mutex, aio, kernel, status>>

Join ==
  /\ Main("join", "destroy")
  /\ aio_pc = "done"
  /\ UNCHANGED <<inputs, fields, counters, lists, locks, aio, kernel, status>>

\* pthread_mutex_destroy refuses a locked mutex; main then returns -1.
Destroy ==
  /\ Main("destroy", "exit")
  /\ status' = IF request_mutex = "free" /\ flush_mutex = "free"
                 THEN "success" ELSE "failure"
  /\ UNCHANGED <<inputs, fields, counters, lists, locks, aio, kernel>>
-----------------------------------------------------------------------------
(* The aio thread, one iteration of the loop in aio_loop from top to bottom. *)

Aio(from, to) == Running /\ aio_pc = from /\ aio_pc' = to

\* perror and exit(1): the whole process ends.
ExitFailure ==
  /\ status' = "failure"
  /\ UNCHANGED <<inputs, fields, counters, lists, locks, main_pc, aio, kernel>>

LockFlush ==
  /\ Aio("lock_flush", "get_events")
  /\ flush_mutex = "free"
  /\ flush_mutex' = "aio"
  /\ UNCHANGED <<inputs, fields, counters, lists, request_mutex, main_pc,
                 todo, iocbs, events, kernel, status>>

\* io_getevents(ctx, 0, 10, ...) takes what is there, at most EventsMax.
GetEvents ==
  /\ Aio("get_events", "handle")
  /\ \E got \in SUBSET ring :
       /\ Cardinality(got) = IF Cardinality(ring) <= EventsMax
                               THEN Cardinality(ring) ELSE EventsMax
       /\ events' = got
       /\ ring' = ring \ got
  /\ UNCHANGED <<inputs, fields, counters, lists, locks, main_pc, todo, iocbs,
                 inflight, status>>

\* curr_event->res against copy_req->fsize.
ResOK_Unsigned(e) == TRUE
ResOK(e) == e.res = fsize[e.req]

HandleBadEvent(e) ==
  /\ Running /\ aio_pc = "handle"
  /\ e \in events
  /\ ~ResOK(e)
  /\ ExitFailure

\* An event for a request in state 1, the finished read, or 2, the finished write.
HandleRead_FreesRequest(e) ==
  /\ Aio("handle", "handle")
  /\ e \in events
  /\ ResOK(e)
  /\ state[e.req] = 1
  /\ freed' = freed \cup {e.req}
  /\ write_head' = Push(e.req, write_head)
  /\ write_len' = write_len + 1
  /\ events' = events \ {e}
  /\ UNCHANGED <<inputs, state, fsize, buffer, open_src, open_dst, dst,
                 request_count, finished_count, read_len, flush, read_head,
                 locks, main_pc, todo, iocbs, kernel, status>>
HandleRead(e) ==
  /\ Aio("handle", "handle")
  /\ e \in events
  /\ ResOK(e)
  /\ state[e.req] = 1
  /\ open_src' = Closed(open_src, e.req)
  /\ write_head' = Push(e.req, write_head)
  /\ write_len' = write_len + 1
  /\ events' = events \ {e}
  /\ UNCHANGED <<inputs, state, fsize, buffer, open_dst, dst, freed,
                 request_count, finished_count, read_len, flush, read_head,
                 locks, main_pc, todo, iocbs, kernel, status>>

HandleWrite(e) ==
  /\ Aio("handle", "handle")
  /\ e \in events
  /\ ResOK(e)
  /\ state[e.req] = 2
  /\ open_dst' = Closed(open_dst, e.req)
  /\ finished_count' = finished_count + 1
  /\ freed' = freed \cup {e.req}
  /\ events' = events \ {e}
  /\ UNCHANGED <<inputs, state, fsize, buffer, open_src, dst, request_count,
                 read_len, write_len, flush, lists, locks, main_pc, todo,
                 iocbs, kernel, status>>

Finished_WrongCounter == flush /\ req_count = request_count
Finished == flush /\ req_count = finished_count

LeaveLoop ==
  /\ Aio("handle", "done")
  /\ events = {}
  /\ Finished
  /\ flush_mutex' = "free"
  /\ UNCHANGED <<inputs, fields, counters, lists, request_mutex, main_pc, todo,
                 iocbs, events, kernel, status>>

StayInLoop ==
  /\ Aio("handle", "lock_request")
  /\ events = {}
  /\ ~Finished
  /\ UNCHANGED <<inputs, fields, counters, lists, locks, main_pc, todo, iocbs,
                 events, kernel, status>>

\* How many requests of a list to submit now: all of them after the flush, one
\* full batch, or none.  Nothing is submitted for a batch size below 1.
BatchSize_NoFlush(len, batch) == IF len >= batch THEN batch ELSE 0
BatchSize_FlushLast(len, batch) ==
  IF len >= batch THEN batch ELSE IF flush THEN len ELSE 0
BatchSize(len, batch) ==
  IF flush THEN len ELSE IF len >= batch THEN batch ELSE 0

LockRequest_NoWait ==
  /\ Aio("lock_request", IF BatchSize(read_len, ReadBatch) > 0
                           THEN "read" ELSE "unlock_request")
  /\ todo' = BatchSize(read_len, ReadBatch)
  /\ UNCHANGED <<inputs, fields, counters, lists, locks, main_pc, iocbs,
                 events, kernel, status>>
LockRequest ==
  /\ Aio("lock_request", IF BatchSize(read_len, ReadBatch) > 0
                           THEN "read" ELSE "unlock_request")
  /\ request_mutex = "free"
  /\ request_mutex' = "aio"
  /\ todo' = BatchSize(read_len, ReadBatch)
  /\ UNCHANGED <<inputs, fields, counters, lists, flush_mutex, main_pc, iocbs,
                 events, kernel, status>>

\* open, fstat, mmap and io_prep_pread for the request at the head of the list.
PrepRead ==
  /\ Aio("read", "read")
  /\ todo > 0 /\ read_head # << >>
  /\ LET curr == Head(read_head)
         n == ToInt(st_size[curr])
     IN /\ open_src' = open_src \cup {curr}
        /\ fsize' = [fsize EXCEPT ![curr] = n]
        /\ \E b \in MmapResults(n, "mmap" \in Faults) :
             buffer' = [buffer EXCEPT ![curr] = b]
        /\ state' = [state EXCEPT ![curr] = 1]
        /\ iocbs' = iocbs \cup {curr}
  /\ read_head' = Tail(read_head)
  /\ read_len' = read_len - 1
  /\ todo' = todo - 1
  /\ UNCHANGED <<inputs, open_dst, dst, freed, request_count, finished_count,
                 write_len, flush, write_head, locks, main_pc, events, kernel,
                 status>>

\* open with O_CREAT and io_prep_pwrite.
PrepWrite ==
  /\ Aio("write", "write")
  /\ todo > 0 /\ write_head # << >>
  /\ LET curr == Head(write_head)
     IN /\ open_dst' = open_dst \cup {curr}
        /\ dst' = [dst EXCEPT ![curr] = Created(@)]
        /\ state' = [state EXCEPT ![curr] = 2]
        /\ iocbs' = iocbs \cup {curr}
  /\ write_head' = Tail(write_head)
  /\ write_len' = write_len - 1
  /\ todo' = todo - 1
  /\ UNCHANGED <<inputs, fsize, buffer, open_src, freed, request_count,
                 finished_count, read_len, flush, read_head, locks, main_pc,
                 events, kernel, status>>

\* open or fstat fails.
PrepFail ==
  /\ Running /\ aio_pc \in {"read", "write"}
  /\ todo > 0
  /\ "open" \in Faults
  /\ ExitFailure

KernelTakes(r) == Submittable(fsize[r], buffer[r])

\* Slots of the context: taken at io_submit, given back at io_getevents.
Outstanding == Cardinality(inflight) + Cardinality(ring)

\* io_submit takes the whole batch.
Submit(pc, op, next) ==
  /\ Aio(pc, next)
  /\ todo = 0
  /\ \A r \in iocbs : KernelTakes(r)
  /\ inflight' = inflight \cup [req : iocbs, op : {op}]
  /\ iocbs' = {}
  /\ UNCHANGED <<inputs, fields, counters, lists, locks, main_pc, todo, events,
                 ring, status>>

SubmitReads_KeepsBatch ==
  /\ Aio("read", "unlock_request") /\ todo = 0
  /\ inflight' = inflight \cup [req : iocbs, op : {"read"}]
  /\ UNCHANGED <<inputs, fields, counters, lists, locks, main_pc, todo, iocbs,
                 events, ring, status>>
SubmitReads == Submit("read", "read", "unlock_request")
SubmitWrites_Pread == Submit("write", "read", "unlock_flush")
SubmitWrites == Submit("write", "write", "unlock_flush")

\* io_submit takes fewer requests than it is given.
SubmitFail ==
  /\ Running /\ aio_pc \in {"read", "write"}
  /\ todo = 0
  /\ \/ \E r \in iocbs : ~KernelTakes(r) \/ fsize[r] = 0
     \/ Outstanding + Cardinality(iocbs) > MaxEvents
     \/ "submit" \in Faults
  /\ ExitFailure

UnlockRequest ==
  /\ Aio("unlock_request", IF BatchSize(write_len, WriteBatch) > 0
                             THEN "write" ELSE "unlock_flush")
  /\ request_mutex' = "free"
  /\ todo' = BatchSize(write_len, WriteBatch)
  /\ UNCHANGED <<inputs, fields, counters, lists, flush_mutex, main_pc, iocbs,
                 events, kernel, status>>

UnlockFlush ==
  /\ Aio("unlock_flush", "lock_flush")
  /\ flush_mutex' = "free"
  /\ UNCHANGED <<inputs, fields, counters, lists, request_mutex, main_pc, todo,
                 iocbs, events, kernel, status>>
-----------------------------------------------------------------------------
(* The kernel's side of AIO (external to the repository). *)

Complete(io, res) ==
  /\ Running
  /\ io \in inflight
  /\ inflight' = inflight \ {io}
  /\ ring' = ring \cup {[req |-> io.req, op |-> io.op, res |-> res]}
  /\ UNCHANGED <<inputs, state, fsize, open_src, open_dst, freed, counters,
                 lists, locks, main_pc, aio, status>>

CompleteRead(io) ==
  /\ io.op = "read"
  /\ Complete(io, fsize[io.req])
  /\ buffer' = [buffer EXCEPT ![io.req] = fsize[io.req]]
  /\ UNCHANGED dst

CompleteWrite(io) ==
  /\ io.op = "write"
  /\ Complete(io, fsize[io.req])
  /\ dst' = [dst EXCEPT ![io.req] = Written(@, buffer[io.req], fsize[io.req])]
  /\ UNCHANGED buffer

\* No property looks at the data of an operation that failed.
CompleteBad(io) ==
  /\ "io" \in Faults
  /\ Complete(io, BadRes)
  /\ UNCHANGED <<buffer, dst>>

\* The process has ended.
Terminated == ~Running /\ UNCHANGED vars
-----------------------------------------------------------------------------
MainNext ==
  \/ \E r \in Req : CopyReg(r) \/ AddPush(r)
  \/ AddLock \/ AddCount \/ ClientFail \/ ClientDone
  \/ WaitLock \/ WaitSet \/ Join \/ Destroy

AioNext ==
  \/ LockFlush \/ GetEvents
  \/ \E e \in events : HandleBadEvent(e) \/ HandleRead(e) \/ HandleWrite(e)
  \/ LeaveLoop \/ StayInLoop
  \/ LockRequest \/ PrepRead \/ SubmitReads \/ UnlockRequest
  \/ PrepWrite \/ SubmitWrites \/ PrepFail \/ SubmitFail \/ UnlockFlush

KernelNext ==
  \E io \in inflight : CompleteRead(io) \/ CompleteWrite(io) \/ CompleteBad(io)

Next == MainNext \/ AioNext \/ KernelNext \/ Terminated

Spec == Init /\ [][Next]_vars
-----------------------------------------------------------------------------
(* Fairness: the scheduler runs both threads and the kernel completes what it
   accepted.  A mutex a thread waits for is given to it eventually, although
   the other thread takes it again and again. *)
Fairness ==
  /\ WF_vars(MainNext) /\ WF_vars(AioNext) /\ WF_vars(KernelNext)
  /\ SF_vars(AddLock) /\ SF_vars(WaitLock)

FairSpec == Spec /\ Fairness
-----------------------------------------------------------------------------
(* What a state consists of. *)
FileTypes ==
  /\ st_size \in [Req -> Nat]
  /\ old_len \in [Req -> Nat \cup {Absent}]
  /\ dst \in [Req -> [same : Int, len : Nat \cup {Absent}]]

RequestTypes ==
  /\ issued \subseteq Req
  /\ freed \subseteq Req
  /\ adding \subseteq Req
  /\ iocbs \subseteq Req
  /\ state \in [Req -> {0, 1, 2}]
  /\ fsize \in [Req -> IntRange]
  /\ buffer \in [Req -> IntRange \cup {NoBuffer, MapFailed}]
  /\ open_src \subseteq Req
  /\ open_dst \subseteq Req

CounterTypes ==
  /\ req_count \in Nat
  /\ request_count \in Nat
  /\ finished_count \in Nat
  /\ read_len \in Int
  /\ write_len \in Int
  /\ todo \in Int
  /\ flush \in BOOLEAN
  /\ rest \in Seq(Req)
  /\ read_head \in Seq(Req)
  /\ write_head \in Seq(Req)

ControlTypes ==
  /\ request_mutex \in {"free", "main", "aio"}
  /\ flush_mutex \in {"free", "main", "aio"}
  /\ main_pc \in {"client", "add_lock", "add_count", "add_push", "wait_lock",
                  "wait_set", "join", "destroy", "exit"}
  /\ aio_pc \in {"lock_flush", "get_events", "handle", "lock_request", "read",
                 "unlock_request", "write", "unlock_flush", "done"}
  /\ status \in {"running", "success", "failure"}

KernelTypes ==
  /\ inflight \subseteq IO
  /\ ring \subseteq Event
  /\ events \subseteq Event

TypeOK == FileTypes /\ RequestTypes /\ CounterTypes /\ ControlTypes /\ KernelTypes

\* The operations the kernel knows of or has just handed back.
Known == inflight \cup ring \cup events
ReqsOf(S) == {x.req : x \in S}

\* read_len and write_len are the lengths of the lists but while main holds the
\* lock, so neither batch loop dereferences a NULL head (aio_manager.c:94, 143).
ListLengths ==
  /\ read_len = Len(read_head) + (IF main_pc = "add_push" THEN 1 ELSE 0)
  /\ write_len = Len(write_head)
  /\ aio_pc = "read" => todo <= Len(read_head)
  /\ aio_pc = "write" => todo <= Len(write_head)

\* A request is never lost and never handled twice: from malloc to free it is
\* in main's hands, in one list, in the batch or known to the kernel, once.
OnePlace ==
  /\ issued = adding \cup ToSet(read_head) \cup iocbs \cup ReqsOf(Known)
                     \cup ToSet(write_head) \cup freed
  /\ Cardinality(issued) =
       Cardinality(adding) + Len(read_head) + Cardinality(iocbs)
       + Cardinality(inflight) + Cardinality(ring) + Cardinality(events)
       + Len(write_head) + Cardinality(freed)

\* aio_loop decides by copy_req->state what an event stands for: it is always
\* the operation that really completed.
DispatchByState ==
  \A x \in Known : state[x.req] = IF x.op = "read" THEN 1 ELSE 2

\* The comment at aio_manager.c:72: once flush is set, no request is being
\* added and req_count, read without a lock, is final.
FlushAfterLastAdd ==
  flush => adding = {} /\ req_count = request_count
                       /\ request_count = Cardinality(issued)

\* A write is given to the kernel only when the buffer holds the whole read.
WriteAfterFullRead ==
  \A r \in issued :
    r \in ToSet(write_head) \/ state[r] = 2 => buffer[r] = fsize[r]

\* A file descriptor is open exactly while an operation on it is prepared,
\* pending or waiting to be handled: none leaks and none is closed early.
DescriptorsFollowIO ==
  LET Using(op) == {x.req : x \in {y \in Known : y.op = op}}
                     \cup (IF aio_pc = op THEN iocbs ELSE {})
  IN open_src = Using("read") /\ open_dst = Using("write")

\* When aio_loop returns everything is done and given back, so that
\* destroy_aio_manager finds an idle context and unlocked mutexes.
CleanJoin ==
  aio_pc = "done" =>
    /\ freed = issued
    /\ read_head = << >> /\ write_head = << >>
    /\ iocbs = {} /\ Known = {}
    /\ open_src = {} /\ open_dst = {}
    /\ request_mutex = "free" /\ flush_mutex = "free"

\* MAX_EVENTS slots are enough for as many files, whatever the batch size: a
\* request has one operation at a time, so that io_submit is never cut short for
\* want of slots (cpr.c:22, aio_manager.c:125, 167).
SlotsSuffice ==
  Cardinality(Req) <= MaxEvents => Outstanding + Cardinality(iocbs) <= MaxEvents

\* Exit status 0 means that every file handed to the manager has been copied,
\* if its length fits the 32 bits of fsize; and behind the copy stands nothing but
\* the tail of a longer file that was in the way (open has no O_TRUNC, 144).
SuccessMeansCopied ==
  status = "success" =>
    \A r \in issued : st_size[r] < IntMod =>
      dst[r] = [same |-> st_size[r], len |-> Max2(st_size[r], old_len[r])]

\* No step reads, writes or completes anything for a request after free().
FreedUntouched ==
  [][\A r \in freed :
       /\ r \in freed'
       /\ state'[r] = state[r] /\ fsize'[r] = fsize[r]
       /\ buffer'[r] = buffer[r] /\ dst'[r] = dst[r]
       /\ r \notin ToSet(read_head') \cup ToSet(write_head') \cup iocbs']_vars

\* The sanity check of experiments/exp.py:98, for every run that reports success:
\* the destination is the same as the source.
SanityCheck == status = "success" => \A r \in issued : Identical(r)

\* The manager implements a copy job: a request is accepted when copy_reg creates
\* it and copied when it is freed with the destination equal to the source.
Job == INSTANCE CopyJob WITH
  File <- Req,
  accepted <- issued,
  copied <- {r \in freed : Identical(r)}

JobSpec == Job!FairSpec
=============================================================================
