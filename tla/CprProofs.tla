------------------------------ MODULE CprProofs ------------------------------
(* Theorems about the whole program, for every source tree. *)
EXTENDS Cpr, AioManagerProofs, ListLemmas

\* What the walk is done with: directories made, files handed over, the rest.
Seen == made \cup issued \cup {n \in Node : Kind[n] = "other"}

\* The walk waits for ever, or fails: the name of the destination was taken.
Taken == queue = <<Root>> /\ walk \in {"stat", "mkdir"} /\ Root \in made /\ unread = {}

\* Where the walk stands.
WalkTypes ==
  /\ queue \in Seq(Node)
  /\ walk \in {"stat", "mkdir", "readdir", "free"}
  /\ unread \subseteq Node
  /\ made \subseteq Dirs
  /\ issued \subseteq Req

Position ==
  /\ walk # "stat" => queue # << >>
  /\ walk # "readdir" => unread = {}
  /\ walk \in {"mkdir", "readdir"} => curr \in Dirs
  /\ walk = "readdir" => curr \in made /\ unread \subseteq Entries[curr]
  /\ walk = "free" => curr \in Seen
  /\ main_pc \notin {"client", "add_lock", "add_count", "add_push"} =>
       walk = "stat" /\ queue = << >>

\* What was found is in a directory that was made.
Parents == \A n \in ToSet(queue) \cup issued : ParentOf(n) \subseteq made

\* Nothing found is lost: an entry of a directory that was made is waiting,
\* unread or done with.
Found ==
  /\ Root \in ToSet(queue) \cup Seen
  /\ Taken \/ \A d \in made : Entries[d] \subseteq ToSet(queue) \cup unread \cup Seen

WalkInv == WalkTypes /\ Position /\ Parents /\ Found

USE DEF Main, Aio, ExitFailure

LEMMA InitWalkInv == CprInit => WalkInv
<1> SUFFICES ASSUME CprInit PROVE WalkInv
  OBVIOUS
<1>1. /\ Root \in Node /\ queue = <<Root>> /\ walk = "stat" /\ unread = {}
      /\ made \in {{}, {Root} \cap Dirs} /\ issued = {} /\ main_pc = "client"
  BY NodeAssumption DEF CprInit, Init
<1>2. queue \in Seq(Node) /\ ToSet(queue) = {Root}
  <2>1. DOMAIN queue = {1} /\ queue[1] = Root /\ queue \in Seq(Node)
    BY <1>1
  <2>2. QED
    BY <2>1 DEF ToSet
<1>3. WalkTypes /\ Position
  BY <1>1, <1>2 DEF WalkTypes, Position
<1>4. Parents
  <2>1. ToSet(queue) \cup issued = {Root}
    BY <1>1, <1>2
  <2>2. ParentOf(Root) = {}
    BY NodeAssumption DEF ParentOf, Dirs
  <2>3. QED
    BY <2>1, <2>2 DEF Parents
<1>5. Found
  BY <1>1, <1>2 DEF Found, Taken
<1>6. QED
  BY <1>3, <1>4, <1>5 DEF WalkInv

\* What the walk does not see: the manager's steps outside the walk.
LEMMA WalkUnaware ==
  ASSUME WalkInv, UNCHANGED <<walkVars, issued>>,
         \/ main_pc' = main_pc
         \/ main_pc' = "client"
         \/ main_pc \in {"add_lock", "add_count"} /\ main_pc' \in {"add_count", "add_push"}
         \/ main_pc \notin {"client", "add_lock", "add_count", "add_push"}
  PROVE  WalkInv'
<1> USE DEF walkVars
<1>1. WalkTypes'
  BY DEF WalkInv, WalkTypes
<1>2. Position'
  BY DEF WalkInv, Position, Seen, curr
<1>3. Parents'
  BY DEF WalkInv, Parents
<1>4. Found'
  BY DEF WalkInv, Found, Taken, Seen
<1>5. QED
  BY <1>1, <1>2, <1>3, <1>4 DEF WalkInv

\* Neither the thread nor the kernel touches what main works with.
LEMMA ThreadLeavesMain ==
  ASSUME AioNext \/ KernelNext
  PROVE  UNCHANGED <<inputs, main_pc>>
<1>1. CASE AioNext
  <2> USE DEF inputs
  <2>1. ASSUME NEW e \in events, HandleBadEvent(e) \/ HandleRead(e) \/ HandleWrite(e)
        PROVE  UNCHANGED <<inputs, main_pc>>
    BY <2>1 DEF HandleBadEvent, HandleRead, HandleWrite
  <2>2. CASE LockFlush \/ GetEvents \/ LeaveLoop \/ StayInLoop \/ LockRequest
    BY <2>2 DEF LockFlush, GetEvents, LeaveLoop, StayInLoop, LockRequest
  <2>3. CASE PrepRead \/ PrepWrite \/ PrepFail
    BY <2>3 DEF PrepRead, PrepWrite, PrepFail
  <2>4. CASE SubmitReads \/ SubmitWrites \/ SubmitFail \/ UnlockRequest \/ UnlockFlush
    BY <2>4 DEF SubmitReads, SubmitWrites, Submit, SubmitFail, UnlockRequest, UnlockFlush
  <2>5. QED
    BY <1>1, <2>1, <2>2, <2>3, <2>4 DEF AioNext
<1>2. CASE KernelNext
  BY <1>2 DEF KernelNext, CompleteRead, CompleteWrite, CompleteBad, Complete
<1>3. QED
  BY <1>1, <1>2

\* Every step of the program that is not a step of the walk alone.
LEMMA CallStep == WalkInv /\ (CallNext \/ ThreadNext) => WalkInv'
<1> SUFFICES ASSUME WalkInv, CallNext \/ ThreadNext PROVE WalkInv'
  OBVIOUS
<1>1. CASE ThreadNext
  <2>1. UNCHANGED <<inputs, main_pc>>
    BY <1>1, ThreadLeavesMain DEF ThreadNext
  <2>2. UNCHANGED <<walkVars, issued>> /\ main_pc' = main_pc
    BY <1>1, <2>1 DEF ThreadNext, inputs
  <2>3. QED
    BY <2>2, WalkUnaware
<1>2. CASE CallNext
  <2>1. CASE AddLock \/ AddCount \/ \E r \in Req : AddPush(r)
    <3>1. /\ UNCHANGED <<walkVars, issued>>
          /\ \/ main_pc' = "client"
             \/ main_pc \in {"add_lock", "add_count"} /\ main_pc' \in {"add_count", "add_push"}
      BY <1>2, <2>1 DEF CallNext, AddLock, AddCount, AddPush, inputs
    <3>2. QED
      BY <3>1, WalkUnaware
  <2>2. CASE WaitLock \/ WaitSet \/ Join \/ Destroy
    BY <1>2, <2>2, WalkUnaware DEF CallNext, WaitLock, WaitSet, Join, Destroy, inputs
  <2>3. QED
    BY <1>2, <2>1, <2>2 DEF CallNext
<1>3. QED
  BY <1>1, <1>2

LEMMA StatStep == WalkInv /\ (StatDir \/ StatOther \/ StatReg) => WalkInv'
<1> SUFFICES ASSUME WalkInv, StatDir \/ StatOther \/ StatReg PROVE WalkInv'
  OBVIOUS
<1>1. /\ WalkTypes /\ Position /\ Parents /\ Found
      /\ main_pc = "client" /\ walk = "stat" /\ queue # << >> /\ unread = {}
      /\ curr \in Node /\ curr \in ToSet(queue)
      /\ UNCHANGED <<queue, unread, made>> /\ curr' = curr
  BY TailCovers DEF WalkInv, WalkTypes, Position, StatDir, StatOther, StatReg, Walk, curr
<1>2. CASE StatDir
  <2>1. walk' = "mkdir" /\ curr \in Dirs /\ UNCHANGED <<issued, main_pc>>
    BY <1>1, <1>2 DEF StatDir, Walk, Dirs, vars, inputs
  <2>2. WalkTypes' /\ Parents'
    BY <1>1, <2>1 DEF WalkTypes, Parents
  <2>3. Position'
    BY <1>1, <2>1 DEF Position
  <2>4. Found'
    BY <1>1, <2>1 DEF Found, Taken, Seen
  <2>5. QED
    BY <2>2, <2>3, <2>4 DEF WalkInv
<1>3. CASE StatOther
  <2>1. walk' = "free" /\ curr \in Seen /\ UNCHANGED <<issued, main_pc>>
    BY <1>1, <1>3 DEF StatOther, Walk, Seen, vars, inputs
  <2>2. WalkTypes' /\ Parents'
    BY <1>1, <2>1 DEF WalkTypes, Parents
  <2>3. Position'
    BY <1>1, <2>1 DEF Position, Seen
  <2>4. ~Taken
    <3>1. Kind[curr] = "other"
      BY <1>3 DEF StatOther
    <3>2. Taken => curr = Root /\ Root \in Dirs
      BY <1>1 DEF Taken, curr, WalkTypes
    <3>3. QED
      BY <3>1, <3>2 DEF Dirs
  <2>5. Found'
    BY <1>1, <2>1, <2>4 DEF Found, Seen
  <2>6. QED
    BY <2>2, <2>3, <2>5 DEF WalkInv
<1>4. CASE StatReg
  <2>1. /\ walk' = "free" /\ issued' = issued \cup {curr} /\ curr \in Req
        /\ main_pc' = "add_lock"
    BY <1>1, <1>4 DEF StatReg, Walk, CopyReg
  <2>2. WalkTypes'
    BY <1>1, <2>1 DEF WalkTypes
  <2>3. Parents'
    BY <1>1, <2>1 DEF Parents
  <2>4. Position'
    BY <1>1, <2>1 DEF Position, Seen
  <2>5. ~Taken
    <3>1. Kind[curr] = "reg"
      BY <1>4 DEF StatReg
    <3>2. Taken => curr = Root /\ Root \in Dirs
      BY <1>1 DEF Taken, curr, WalkTypes
    <3>3. QED
      BY <3>1, <3>2 DEF Dirs
  <2>6. Found'
    BY <1>1, <2>1, <2>5 DEF Found, Seen
  <2>7. QED
    BY <2>2, <2>3, <2>4, <2>6 DEF WalkInv
<1>5. QED
  BY <1>2, <1>3, <1>4

LEMMA MkDirStep == WalkInv /\ MkDir => WalkInv'
<1> SUFFICES ASSUME WalkInv, MkDir PROVE WalkInv'
  OBVIOUS
<1>1. /\ WalkTypes /\ Position /\ Parents /\ Found
      /\ main_pc = "client" /\ walk = "mkdir" /\ walk' = "readdir"
      /\ queue # << >> /\ unread = {} /\ curr \in Dirs
      /\ curr \notin made /\ made' = made \cup {curr} /\ unread' = Entries[curr]
      /\ UNCHANGED <<queue, issued, main_pc>> /\ curr' = curr
  BY DEF WalkInv, Position, MkDir, Walk, curr, vars, inputs
<1>2. Entries[curr] \subseteq Node
  BY <1>1, NodeAssumption DEF Dirs
<1>3. WalkTypes'
  BY <1>1, <1>2 DEF WalkTypes
<1>4. Position'
  BY <1>1 DEF Position
<1>5. Parents'
  BY <1>1 DEF Parents
<1>6. ~Taken
  BY <1>1 DEF Taken, curr
<1>7. Found'
  BY <1>1, <1>6 DEF Found, Seen
<1>8. QED
  BY <1>3, <1>4, <1>5, <1>7 DEF WalkInv

LEMMA ReadEntryStep == ASSUME WalkInv, NEW n \in unread, ReadEntry(n) PROVE WalkInv'
<1>1. /\ WalkTypes /\ Position /\ Parents /\ Found
      /\ main_pc = "client" /\ walk = "readdir" /\ walk' = "readdir"
      /\ queue # << >> /\ curr \in Dirs /\ curr \in made
      /\ n \in Entries[curr] /\ n \in Node
      /\ queue' = Append(queue, n) /\ unread' = unread \ {n}
      /\ UNCHANGED <<made, issued, main_pc>>
  BY DEF WalkInv, WalkTypes, Position, ReadEntry, Walk, vars, inputs
<1>2. /\ queue' \in Seq(Node) /\ queue' # << >>
      /\ ToSet(queue') = ToSet(queue) \cup {n} /\ curr' = curr
  BY <1>1, AppendElements DEF WalkTypes, curr
<1>3. WalkTypes'
  BY <1>1, <1>2 DEF WalkTypes
<1>4. Position'
  BY <1>1, <1>2 DEF Position
<1>5. Parents'
  <2>1. ParentOf(n) \subseteq {curr}
    BY <1>1, NodeAssumption DEF ParentOf
  <2>2. QED
    BY <1>1, <1>2, <2>1 DEF Parents
<1>6. Found'
  BY <1>1, <1>2 DEF Found, Taken, Seen
<1>7. QED
  BY <1>3, <1>4, <1>5, <1>6 DEF WalkInv

LEMMA EndDirStep == WalkInv /\ EndDir => WalkInv'
<1> SUFFICES ASSUME WalkInv, EndDir PROVE WalkInv'
  OBVIOUS
<1>1. /\ WalkTypes /\ Position /\ Parents /\ Found
      /\ main_pc = "client" /\ walk = "readdir" /\ walk' = "free" /\ unread = {}
      /\ queue # << >> /\ curr \in made
      /\ UNCHANGED <<queue, unread, made, issued, main_pc>> /\ curr' = curr
  BY DEF WalkInv, Position, EndDir, Walk, curr, vars, inputs
<1>2. WalkTypes' /\ Parents'
  BY <1>1 DEF WalkTypes, Parents
<1>3. Position'
  BY <1>1 DEF Position, Seen
<1>4. Found'
  BY <1>1 DEF Found, Taken, Seen
<1>5. QED
  BY <1>2, <1>3, <1>4 DEF WalkInv

LEMMA FreeNodeStep == WalkInv /\ FreeNode => WalkInv'
<1> SUFFICES ASSUME WalkInv, FreeNode PROVE WalkInv'
  OBVIOUS
<1>1. /\ WalkTypes /\ Position /\ Parents /\ Found
      /\ main_pc = "client" /\ walk = "free" /\ walk' = "stat" /\ unread = {}
      /\ queue # << >> /\ curr \in Seen /\ queue' = Tail(queue)
      /\ UNCHANGED <<unread, made, issued, main_pc>>
  BY DEF WalkInv, Position, FreeNode, Walk, vars, inputs
<1>2. queue' \in Seq(Node) /\ ToSet(queue) = ToSet(queue') \cup {curr}
  BY <1>1, TailCovers DEF WalkTypes, curr
<1>3. WalkTypes'
  BY <1>1, <1>2 DEF WalkTypes
<1>4. Position'
  BY <1>1 DEF Position
<1>5. Parents'
  BY <1>1, <1>2 DEF Parents
<1>6. Found'
  BY <1>1, <1>2 DEF Found, Taken, Seen
<1>7. QED
  BY <1>3, <1>4, <1>5, <1>6 DEF WalkInv

LEMMA WalkDoneStep == WalkInv /\ WalkDone => WalkInv'
<1> SUFFICES ASSUME WalkInv, WalkDone PROVE WalkInv'
  OBVIOUS
<1>1. /\ WalkTypes /\ Position /\ Parents /\ Found
      /\ walk = "stat" /\ queue = << >>
      /\ UNCHANGED <<queue, walk, unread, made, issued>>
  BY DEF WalkInv, WalkDone, ClientDone, walkVars, inputs
<1>2. WalkTypes' /\ Parents'
  BY <1>1 DEF WalkTypes, Parents
<1>3. Position'
  BY <1>1 DEF Position
<1>4. Found'
  BY <1>1 DEF Found, Taken, Seen
<1>5. QED
  BY <1>2, <1>3, <1>4 DEF WalkInv

LEMMA WalkInvStep == WalkInv /\ [CprNext]_cprVars => WalkInv'
<1> SUFFICES ASSUME WalkInv, [CprNext]_cprVars PROVE WalkInv'
  OBVIOUS
<1>1. CASE WalkFail \/ \E n \in unread : ReadSpecial(n)
  <2>1. UNCHANGED <<walkVars, issued>> /\ main_pc' = main_pc
    BY <1>1 DEF WalkFail, ClientFail, ReadSpecial, inputs
  <2>2. QED
    BY <2>1, WalkUnaware
<1>2. CASE (Terminated /\ UNCHANGED walkVars) \/ UNCHANGED cprVars
  <2>1. UNCHANGED <<walkVars, issued>> /\ main_pc' = main_pc
    BY <1>2 DEF Terminated, cprVars, vars, inputs
  <2>2. QED
    BY <2>1, WalkUnaware
<1>3. CASE WalkNext
  BY <1>1, <1>3, StatStep, MkDirStep, ReadEntryStep, EndDirStep, FreeNodeStep, WalkDoneStep
     DEF WalkNext
<1>4. QED
  BY <1>2, <1>3, CallStep DEF CprNext

THEOREM WalkInductive == CprSpec => []WalkInv
<1>1. QED
  BY InitWalkInv, WalkInvStep, PTL DEF CprSpec

\* The walk of cpr.c uses the manager only as AioManager allows: copy_reg between
\* two calls, nothing after wait_for_aio_finish.  What is proved about the
\* manager alone holds in the program.
THEOREM UsesManager == CprSpec => ManagerSpec
<1>1. CprInit => Init
  BY DEF CprInit
<1>2. ASSUME [CprNext]_cprVars PROVE [Next]_vars
  <2>1. CASE WalkNext
    <3>1. CASE StatReg
      <4>1. CopyReg(curr) /\ curr \in Req
        BY <3>1 DEF StatReg, CopyReg
      <4>2. QED
        BY <4>1 DEF Next, MainNext
    <3>2. CASE WalkFail \/ WalkDone
      BY <3>2 DEF WalkFail, WalkDone, Next, MainNext
    <3>3. CASE \E n \in unread : ReadSpecial(n)
      <4>1. ClientFail
        BY <3>3, FailureAssumption DEF ReadSpecial, ClientFail
      <4>2. QED
        BY <4>1 DEF Next, MainNext
    <3>4. CASE \E n \in unread : ReadEntry(n)
      BY <3>4 DEF ReadEntry
    <3>5. CASE StatDir \/ StatOther \/ MkDir \/ EndDir \/ FreeNode
      BY <3>5 DEF StatDir, StatOther, MkDir, EndDir, FreeNode
    <3>6. QED
      BY <2>1, <3>1, <3>2, <3>3, <3>4, <3>5 DEF WalkNext
  <2>2. CASE CallNext \/ ThreadNext
    BY <2>2 DEF CallNext, ThreadNext, Next, MainNext
  <2>3. CASE Terminated \/ UNCHANGED cprVars
    BY <2>3 DEF cprVars, Next
  <2>4. QED
    BY <1>2, <2>1, <2>2, <2>3 DEF CprNext
<1>3. QED
  BY <1>1, <1>2, PTL DEF CprSpec, Spec, ManagerSpec

\* The types of the program: the manager's and the walk's.
THEOREM CprTypeCorrect == CprSpec => []CprTypeOK
<1>1. TypeOK /\ WalkInv => CprTypeOK
  BY DEF CprTypeOK, WalkInv, WalkTypes
<1>2. CprSpec => []TypeOK
  BY UsesManager, TypeCorrect DEF ManagerSpec
<1>3. QED
  BY <1>1, <1>2, WalkInductive, PTL

\* copy_dir's mkdir comes before the request of any file in the directory.
THEOREM DirectoryCorrect == CprSpec => []DirectoryBeforeFile
<1>1. WalkInv => DirectoryBeforeFile
  BY DEF WalkInv, Parents, DirectoryBeforeFile
<1>2. QED
  BY <1>1, WalkInductive, PTL

\* An empty queue means that the whole tree was visited.
LEMMA WalkComplete ==
  ASSUME WalkInv, main_pc \notin {"client", "add_lock", "add_count", "add_push"}
  PROVE  queue = << >> /\ unread = {} /\ Req \subseteq issued /\ Dirs \subseteq made
<1>1. /\ WalkTypes /\ Found /\ queue = << >> /\ unread = {}
  BY DEF WalkInv, Position
<1>2. ToSet(queue) = {}
  BY <1>1 DEF ToSet
<1>3. Seen \subseteq Node /\ Root \in Seen
  BY <1>1, <1>2, RequestAssumption DEF Regs, Seen, Found, WalkTypes, Dirs
<1>4. ASSUME NEW d \in Seen \cap Dirs PROVE Entries[d] \subseteq Seen
  <2>1. d \in made
    BY <1>1, <1>4, RequestAssumption DEF Regs, Seen, Dirs, WalkTypes
  <2>2. ~Taken
    BY <1>1 DEF Taken
  <2>3. QED
    BY <1>1, <1>2, <2>1, <2>2 DEF Found
<1>5. Seen = Node
  BY <1>3, <1>4, ReachAssumption
<1>6. Req \subseteq issued /\ Dirs \subseteq made
  BY <1>1, <1>5, RequestAssumption DEF Regs, Seen, Dirs, WalkTypes
<1>7. QED
  BY <1>1, <1>6

\* wait_for_aio_finish is called when the whole tree has been handed over.
THEOREM FlushAfterWalkCorrect == CprSpec => []FlushAfterWalk
<1>1. WalkInv => FlushAfterWalk
  BY WalkComplete DEF FlushAfterWalk
<1>2. QED
  BY <1>1, WalkInductive, PTL

\* Exit status 0 of the program: every directory of the source tree exists at the
\* destination, and every regular file is identical to its source.
THEOREM TreeCorrect == CprSpec => []TreeCopied
<1>1. ASSUME WalkInv, IndInv, SuccessMeansCopied PROVE TreeCopied
  <2>1. SUFFICES ASSUME status = "success" PROVE TreeCopied
    BY DEF TreeCopied
  <2>2. main_pc = "exit"
    BY <1>1, <2>1 DEF IndInv, Control
  <2>3. Req \subseteq issued /\ Dirs \subseteq made
    BY <1>1, <2>2, WalkComplete
  <2>4. TypeOK
    BY <1>1 DEF IndInv
  <2>5. QED
    BY <1>1, <2>1, <2>3, <2>4, CopiedIsIdentical DEF TreeCopied
<1>2. CprSpec => []IndInv /\ []SuccessMeansCopied
  BY UsesManager, Inductive, SuccessCorrect, PTL DEF ManagerSpec
<1>3. QED
  BY <1>1, <1>2, WalkInductive, PTL
-----------------------------------------------------------------------------
\* The whole program is a copy job: for files that fit, its walk and its two
\* threads do nothing that CopyJob does not allow.
THEOREM ProgramIsJob == ASSUME FilesFit PROVE CprSpec => Job!Spec
<1>1. QED
  BY UsesManager, ImplementsJob DEF ManagerSpec

\* Nothing but directories and files: the source argument is one, and readdir tells
\* the type of everything else.
TypesKnown ==
  /\ Kind[Root] # "other"
  /\ \A n \in Node : Kind[n] = "other" => DType[n] \subseteq {"special"}

\* What is neither stays where it is: no step goes past it.
OthersUnread ==
  Taken \/ \A d \in made : \A n \in Entries[d] : Kind[n] = "other" => n \in unread

LEMMA OthersStep ==
  ASSUME TypesKnown, WalkInv, OthersUnread, [CprNext]_cprVars
  PROVE  OthersUnread'
<1> USE DEF cprVars, walkVars
<1>1. CASE StatDir \/ StatOther \/ StatReg
  <2>1. UNCHANGED <<queue, unread, made>> /\ queue # << >> /\ walk = "stat"
    BY <1>1 DEF StatDir, StatOther, StatReg, Walk
  <2>2. CASE Taken
    <3>1. curr = Root /\ Root \in Dirs
      BY <2>2 DEF Taken, curr, WalkInv, WalkTypes
    <3>2. StatDir
      BY <1>1, <3>1 DEF StatOther, StatReg, Dirs
    <3>3. Taken'
      BY <2>1, <2>2, <3>2 DEF Taken, StatDir, Walk
    <3>4. QED
      BY <3>3 DEF OthersUnread
  <2>3. QED
    BY <2>1, <2>2 DEF OthersUnread
<1>2. CASE MkDir
  <2>1. /\ ~ Taken /\ unread = {}
        /\ made' = made \cup {curr} /\ unread' = Entries[curr]
    BY <1>2 DEF MkDir, Walk, Taken, curr, WalkInv, Position
  <2>2. QED
    BY <2>1 DEF OthersUnread
<1>3. ASSUME NEW n \in unread, ReadEntry(n) PROVE OthersUnread'
  <2>1. ~ Taken /\ made' = made /\ unread' = unread \ {n}
    BY <1>3 DEF ReadEntry, Walk, Taken
  <2>2. n \in Node /\ ~ (DType[n] \subseteq {"special"})
    BY <1>3 DEF ReadEntry, WalkInv, WalkTypes
  <2>3. Kind[n] # "other"
    BY <2>2 DEF TypesKnown
  <2>4. QED
    BY <2>1, <2>3 DEF OthersUnread
<1>4. CASE EndDir \/ FreeNode
  <2>1. ~ Taken /\ UNCHANGED <<made, unread>>
    BY <1>4 DEF EndDir, FreeNode, Walk, Taken
  <2>2. QED
    BY <2>1 DEF OthersUnread
<1>5. CASE WalkFail \/ WalkDone \/ CallNext \/ ThreadNext \/ \E n \in unread : ReadSpecial(n)
  <2>1. UNCHANGED walkVars
    BY <1>5 DEF WalkFail, WalkDone, CallNext, ThreadNext, ReadSpecial
  <2>2. QED
    BY <2>1 DEF OthersUnread, Taken
<1>6. CASE (Terminated /\ UNCHANGED walkVars) \/ UNCHANGED cprVars
  BY <1>6 DEF OthersUnread, Taken
<1>7. QED
  BY <1>1, <1>2, <1>3, <1>4, <1>5, <1>6 DEF CprNext, WalkNext

\* When the argument is a directory or a file and readdir tells the types of all
\* entries, exit status 0 means that no path of the source is missing (exp.py:58):
\* an entry gets past the error of cpr.c:141-157 only with a type that is not known.
THEOREM NothingLeftOutCorrect ==
  ASSUME TypesKnown PROVE CprSpec => []NothingLeftOut
<1>1. CprInit => OthersUnread
  <2> SUFFICES ASSUME CprInit PROVE OthersUnread
    OBVIOUS
  <2>1. made = {} \/ Taken
    BY DEF CprInit, Taken
  <2>2. QED
    BY <2>1 DEF OthersUnread
<1>2. ASSUME WalkInv, OthersUnread, IndInv PROVE NothingLeftOut
  <2>1. SUFFICES ASSUME status = "success" PROVE Node \subseteq made \cup issued
    BY DEF NothingLeftOut
  <2>2. main_pc = "exit"
    BY <1>2, <2>1 DEF IndInv, Control
  <2>3. queue = << >> /\ unread = {} /\ Req \subseteq issued /\ Dirs \subseteq made
    BY <1>2, <2>2, WalkComplete
  <2>4. \A d \in Dirs : \A n \in Entries[d] : n \in Node /\ Kind[n] # "other"
    BY <1>2, <2>3, NodeAssumption DEF OthersUnread, Taken, Dirs
  <2>5. \A n \in Node : Kind[n] # "other" => n \in Dirs \cup Regs
    BY NodeAssumption DEF Dirs, Regs
  <2>6. Root \in Dirs \cup Regs
    BY <2>5, NodeAssumption DEF TypesKnown
  <2>7. Dirs \cup Regs \in SUBSET Node
    BY DEF Dirs, Regs
  <2>8. Dirs \cup Regs = Node
    BY <2>4, <2>5, <2>6, <2>7, ReachAssumption
  <2>9. QED
    BY <2>3, <2>8, RequestAssumption
<1>3. CprSpec => []IndInv
  BY UsesManager, Inductive DEF ManagerSpec
<1>4. QED
  BY <1>1, <1>2, <1>3, OthersStep, WalkInductive, PTL DEF CprSpec
=============================================================================
