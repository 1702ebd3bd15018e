----------------------------- MODULE CprOldProofs -----------------------------
(* Theorems about cpr_old, for every source tree, number of processes and
   failure. *)
EXTENDS CprOld, AioCopyPProofs, ListLemmas, FiniteSetTheorems

USE DEF walkVars, procVars, files, locals

LEMMA CurrFacts ==
  ASSUME TypeOK, queue # << >>
  PROVE  curr \in Node /\ curr \in ToSet(queue) /\ Kind[curr] \in {"dir", "reg", "other"}
BY TailCovers, NodeAssumption DEF TypeOK, curr

LEMMA OldInit == Init => OldInv
<1> SUFFICES ASSUME Init PROVE OldInv
  OBVIOUS
<1>1. /\ Root \in Node /\ queue = <<Root>> /\ walk = "stat" /\ unread = {}
      /\ made \in {{}, {Root} \cap Dirs} /\ skipped = {} /\ reaped = {} /\ status = "running"
      /\ pc = [r \in Req |-> "none"] /\ failed = {}
  BY NodeAssumption DEF Init, ProcInit
<1>2. /\ queue \in Seq(Node) /\ ToSet(queue) = {Root} /\ IsInjective(queue)
      /\ Head(queue) = Root
  <2>1. DOMAIN queue = {1} /\ queue[1] = Root /\ queue \in Seq(Node)
    BY <1>1
  <2>2. QED
    BY <2>1 DEF ToSet, IsInjective
<1>3. TypeOK
  BY <1>1, <1>2, ProcTypeInit DEF Init, TypeOK
<1>4. Started = {}
  BY <1>1 DEF Started
<1>5. Position
  BY <1>1 DEF Position
<1>6. Once
  BY <1>1, <1>2, <1>4 DEF Once
<1>7. Parents
  <2>1. ParentOf(Root) = {}
    BY NodeAssumption DEF ParentOf, Dirs
  <2>2. QED
    BY <1>1, <1>2, <1>4, <2>1 DEF Parents
<1>8. Found
  BY <1>1, <1>2 DEF Found, Taken
<1>9. Copies
  BY CopyInvInit DEF Init, ProcInit, Copies, NotLonger
<1>10. QED
  BY <1>3, <1>5, <1>6, <1>7, <1>8, <1>9 DEF OldInv

\* What main's steps that start no process leave as it is.
LEMMA ProcessesUntouched ==
  ASSUME OldInv, UNCHANGED <<files, dst, pc, locals, pending, res>>, failed \subseteq failed'
  PROVE  Copies' /\ Started' = Started
<1>1. Started' = Started
  BY DEF Started
<1>2. ASSUME NEW r \in Req PROVE CopyInv(r)' /\ (old_len'[r] <= st_size'[r] => NotLonger(r)')
  BY DEF OldInv, Copies, CopyInv, NotLonger
<1>3. QED
  BY <1>1, <1>2 DEF Copies

LEMMA StatStep == OldInv /\ StatNotReg => OldInv'
<1> SUFFICES ASSUME OldInv, StatNotReg PROVE OldInv'
  OBVIOUS
<1>1. /\ queue # << >> /\ Kind[curr] # "reg" /\ walk = "stat" /\ status = "running"
      /\ walk' = IF Kind[curr] = "dir" THEN "mkdir" ELSE "free"
      /\ UNCHANGED <<procVars, queue, unread, made, skipped, reaped, status>>
  BY DEF StatNotReg, Walk
<1>2. curr \in Node /\ Kind[curr] \in {"dir", "other"} /\ curr' = curr
  BY <1>1, CurrFacts DEF OldInv, curr
<1>3. TypeOK'
  BY <1>1 DEF OldInv, TypeOK, ProcTypeOK
<1>4. Copies' /\ Started' = Started /\ Seen' = Seen /\ Children' = Children
  BY <1>1, ProcessesUntouched DEF Seen, Children
<1>5. Position'
  <2>1. Kind[curr] = "dir" => curr \in Dirs
    BY <1>2 DEF Dirs
  <2>2. Kind[curr] = "other" => curr \in Seen
    BY <1>2 DEF Seen
  <2>3. QED
    BY <1>1, <1>2, <1>4, <2>1, <2>2 DEF OldInv, Position
<1>6. Once'
  BY <1>1, <1>4 DEF OldInv, Once
<1>7. Parents'
  BY <1>1, <1>4 DEF OldInv, Parents
<1>8. Found'
  <2>1. Taken => Taken'
    <3>1. Taken => curr \in Dirs
      BY <1>1, <1>2 DEF Taken, curr, OldInv, TypeOK
    <3>2. QED
      BY <1>1, <3>1 DEF Taken, Dirs
  <2>2. QED
    BY <1>1, <1>4, <2>1 DEF OldInv, Found
<1>9. QED
  BY <1>3, <1>4, <1>5, <1>6, <1>7, <1>8 DEF OldInv

\* A new process.
LEMMA ForkStep == OldInv /\ Fork => OldInv'
<1> SUFFICES ASSUME OldInv, Fork PROVE OldInv'
  OBVIOUS
<1>1. /\ queue # << >> /\ Kind[curr] = "reg" /\ walk = "stat" /\ walk' = "free"
      /\ status = "running" /\ pc' = [pc EXCEPT ![curr] = "setup"]
      /\ UNCHANGED <<files, dst, locals, pending, res, ret, failed>>
      /\ UNCHANGED <<queue, unread, made, skipped, reaped, status>>
  BY DEF Fork, Walk, StartProcess
<1>2. curr \in Req /\ curr \in ToSet(queue) /\ curr' = curr /\ curr \notin Dirs
  BY <1>1, CurrFacts, FileAssumption DEF OldInv, curr, Regs, Dirs
<1>3. pc[curr] = "none"
  BY <1>1, <1>2 DEF OldInv, Once, Started
<1>4. Started' = Started \cup {curr} /\ Seen \subseteq Seen' /\ curr \in Seen'
  <2>1. Started' = Started \cup {curr}
    BY <1>1, <1>2 DEF Started, OldInv, TypeOK, ProcTypeOK
  <2>2. QED
    BY <1>1, <2>1 DEF Seen
<1>5. TypeOK'
  BY <1>1, <1>2 DEF OldInv, TypeOK, ProcTypeOK
<1>6. Copies'
  <2>1. ASSUME NEW r \in Req PROVE CopyInv(r)' /\ (old_len'[r] <= st_size'[r] => NotLonger(r)')
    <3>1. CASE r = curr
      <4>1. pc'[r] = "setup" /\ r \notin pending
        BY <1>1, <1>2, <1>3, <3>1 DEF OldInv, Copies, CopyInv, TypeOK, ProcTypeOK
      <4>2. QED
        BY <1>1, <4>1 DEF OldInv, Copies, CopyInv, NotLonger
    <3>2. CASE r # curr
      <4>1. pc'[r] = pc[r]
        BY <1>1, <3>2 DEF OldInv, TypeOK, ProcTypeOK
      <4>2. QED
        BY <1>1, <4>1 DEF OldInv, Copies, CopyInv, NotLonger
    <3>3. QED
      BY <3>1, <3>2
  <2>2. QED
    BY <2>1 DEF Copies
<1>7. Position'
  <2>1. \A r \in reaped : r # curr /\ pc'[r] = "exit"
    BY <1>1, <1>3 DEF OldInv, Position, TypeOK, ProcTypeOK
  <2>2. QED
    BY <1>1, <1>2, <1>4, <2>1 DEF OldInv, Position, TypeOK
<1>8. Once'
  BY <1>1, <1>2, <1>4 DEF OldInv, Once, Position
<1>9. Parents'
  BY <1>1, <1>2, <1>4 DEF OldInv, Parents
<1>10. Found'
  <2>1. ~Taken
    BY <1>1, <1>2 DEF Taken, curr, OldInv, TypeOK
  <2>2. QED
    BY <1>1, <1>4, <2>1 DEF OldInv, Found
<1>11. QED
  BY <1>5, <1>6, <1>7, <1>8, <1>9, <1>10 DEF OldInv

\* The file or the node is left out.
LEMMA LeftOutStep == OldInv /\ (ForkFail \/ NameDamaged) => OldInv'
<1> SUFFICES ASSUME OldInv, ForkFail \/ NameDamaged PROVE OldInv'
  OBVIOUS
<1>1. /\ queue # << >> /\ walk = "stat" /\ walk' = "free" /\ status = "running"
      /\ UNCHANGED <<files, dst, pc, locals, pending, res, ret>>
      /\ UNCHANGED <<queue, unread, made, reaped, status>>
  BY DEF ForkFail, NameDamaged, Walk
<1>2. curr \in Node /\ curr \in ToSet(queue) /\ curr' = curr
  BY <1>1, CurrFacts DEF OldInv, curr
<1>3. /\ failed' \subseteq Req /\ skipped' \subseteq Node
      /\ failed \subseteq failed' /\ skipped \subseteq skipped' /\ curr \in failed' \cup skipped'
  <2>1. CASE ForkFail
    <3>1. curr \in Req
      BY <1>2, <2>1, FileAssumption DEF ForkFail, Regs
    <3>2. QED
      BY <2>1, <3>1 DEF ForkFail, OldInv, TypeOK, ProcTypeOK
  <2>2. CASE NameDamaged
    BY <1>2, <2>2 DEF NameDamaged, OldInv, TypeOK, ProcTypeOK
  <2>3. QED
    BY <2>1, <2>2
<1>4. TypeOK'
  BY <1>1, <1>3 DEF OldInv, TypeOK, ProcTypeOK
<1>5. Copies' /\ Started' = Started /\ Children' = Children
  BY <1>1, <1>3, ProcessesUntouched DEF Children
<1>6. Seen \subseteq Seen' /\ curr \in Seen'
  BY <1>1, <1>3, <1>5 DEF Seen
<1>7. Position'
  BY <1>1, <1>2, <1>5, <1>6 DEF OldInv, Position
<1>8. Once'
  BY <1>1, <1>5 DEF OldInv, Once
<1>9. Parents'
  BY <1>1, <1>5 DEF OldInv, Parents
<1>10. Found'
  <2>1. CASE Taken
    <3>1. curr = Root /\ made' = {curr}
      BY <1>1, <2>1 DEF Taken, curr
    <3>2. NameDamaged /\ curr \in skipped'
      <4>1. ~ForkFail
        BY <2>1, <3>1 DEF ForkFail, OldInv, TypeOK, Taken, Dirs
      <4>2. QED
        BY <4>1 DEF NameDamaged
    <3>3. made' \ skipped' = {}
      BY <3>1, <3>2
    <3>4. QED
      BY <1>1, <1>6, <3>3 DEF OldInv, Found
  <2>2. CASE ~Taken
    BY <1>1, <1>3, <1>6, <2>2 DEF OldInv, Found
  <2>3. QED
    BY <2>1, <2>2
<1>11. QED
  BY <1>4, <1>5, <1>7, <1>8, <1>9, <1>10 DEF OldInv

\* The directory is new: what is in it was not found before.
LEMMA MkDirStep == OldInv /\ MkDir => OldInv'
<1> SUFFICES ASSUME OldInv, MkDir PROVE OldInv'
  OBVIOUS
<1>1. /\ walk = "mkdir" /\ walk' = "readdir" /\ status = "running" /\ curr \notin made
      /\ made' = made \cup {curr} /\ unread' = Entries[curr]
      /\ UNCHANGED <<procVars, queue, skipped, reaped, status>>
  BY DEF MkDir, Walk
<1>2. /\ queue # << >> /\ curr \in Node /\ curr \in ToSet(queue) /\ curr' = curr
      /\ curr \in Dirs /\ unread = {} /\ Entries[curr] \subseteq Node
  <2>1. queue # << >> /\ curr \in Dirs /\ unread = {}
    BY <1>1 DEF OldInv, Position
  <2>2. QED
    BY <1>1, <2>1, CurrFacts, NodeAssumption DEF OldInv, curr
<1>3. TypeOK'
  BY <1>1, <1>2 DEF OldInv, TypeOK, ProcTypeOK
<1>4. /\ Copies' /\ Started' = Started /\ Children' = Children /\ Seen' = Seen \cup {curr}
      /\ failed' = failed
  BY <1>1, ProcessesUntouched DEF Seen, Children
<1>5. Position'
  BY <1>1, <1>2, <1>4 DEF OldInv, Position
<1>6. \A n \in Entries[curr] : n \notin ToSet(queue) \cup Started
  <2>1. \A n \in Entries[curr] : curr \in ParentOf(n)
    BY <1>2 DEF ParentOf
  <2>2. QED
    BY <1>1, <2>1 DEF OldInv, Parents
<1>7. Once'
  BY <1>1, <1>4, <1>6 DEF OldInv, Once
<1>8. Parents'
  <2>1. ASSUME NEW n \in ToSet(queue) \cup Started PROVE ParentOf(n) \subseteq made'
    BY <1>1, <2>1 DEF OldInv, Parents
  <2>2. ASSUME NEW n \in Entries[curr] PROVE ParentOf(n) \subseteq made'
    BY <1>1, <1>2, <2>2, NodeAssumption DEF ParentOf
  <2>3. QED
    BY <1>1, <1>4, <2>1, <2>2 DEF Parents
<1>9. Found'
  <2>1. ~Taken
    BY <1>1 DEF Taken, curr
  <2>2. \A d \in made \ skipped : Entries[d] \subseteq ToSet(queue) \cup Seen
    BY <1>2, <2>1 DEF OldInv, Found
  <2>3. QED
    BY <1>1, <1>4, <2>2 DEF OldInv, Found
<1>10. QED
  BY <1>3, <1>4, <1>5, <1>7, <1>8, <1>9 DEF OldInv

LEMMA ReadStep ==
  ASSUME OldInv, NEW n \in unread, ReadEntry(n)
  PROVE  OldInv'
<1>1. /\ walk = "readdir" /\ walk' = "readdir" /\ status = "running"
      /\ queue' = Append(queue, n) /\ unread' = unread \ {n}
      /\ UNCHANGED <<procVars, made, skipped, reaped, status>>
  BY DEF ReadEntry, Walk
<1>2. /\ n \in Node /\ queue \in Seq(Node) /\ queue # << >> /\ n \notin ToSet(queue)
      /\ n \notin Started /\ IsInjective(queue)
  BY <1>1 DEF OldInv, TypeOK, Position, Once
<1>3. /\ queue' \in Seq(Node) /\ queue' # << >> /\ ToSet(queue') = ToSet(queue) \cup {n}
      /\ curr' = curr /\ IsInjective(queue')
  <2>1. IsInjective(Append(queue, n))
    BY <1>2, AppendDistinct
  <2>2. QED
    BY <1>1, <1>2, <2>1, AppendElements DEF curr
<1>4. TypeOK'
  BY <1>1, <1>3 DEF OldInv, TypeOK, ProcTypeOK
<1>5. Copies' /\ Started' = Started /\ Children' = Children /\ Seen' = Seen
  BY <1>1, ProcessesUntouched DEF Seen, Children
<1>6. Position'
  BY <1>1, <1>3, <1>5 DEF OldInv, Position
<1>7. Once'
  BY <1>1, <1>2, <1>3, <1>5 DEF OldInv, Once
<1>8. Parents'
  BY <1>1, <1>3, <1>5 DEF OldInv, Parents
<1>9. Found'
  BY <1>1, <1>3, <1>5 DEF OldInv, Found, Taken
<1>10. QED
  BY <1>4, <1>5, <1>6, <1>7, <1>8, <1>9 DEF OldInv

\* Names that are not looked at, because of their type or because readdir failed.
LEMMA SkipStep ==
  ASSUME OldInv, EndDir \/ \E n \in unread : SkipEntry(n)
  PROVE  OldInv'
<1>1. /\ walk = "readdir" /\ walk' \in {"readdir", "free"} /\ status = "running"
      /\ skipped \subseteq skipped' /\ unread' \subseteq unread
      /\ unread \subseteq unread' \cup skipped' /\ skipped' \subseteq skipped \cup unread
      /\ walk' = "free" => unread' = {}
      /\ UNCHANGED <<procVars, queue, made, reaped, status>>
  BY DEF EndDir, SkipEntry, Walk
<1>2. queue # << >> /\ curr' = curr /\ curr \in made
  BY <1>1 DEF OldInv, Position, curr
<1>3. TypeOK'
  BY <1>1 DEF OldInv, TypeOK, ProcTypeOK
<1>4. /\ Copies' /\ Started' = Started /\ Children' = Children /\ Seen' = Seen \cup skipped'
  BY <1>1, ProcessesUntouched DEF Seen, Children
<1>5. Position'
  <2>1. curr \in Seen
    BY <1>2 DEF Seen
  <2>2. QED
    BY <1>1, <1>2, <1>4, <2>1 DEF OldInv, Position
<1>6. Once'
  BY <1>1, <1>4 DEF OldInv, Once
<1>7. Parents'
  BY <1>1, <1>4 DEF OldInv, Parents
<1>8. Found'
  BY <1>1, <1>4 DEF OldInv, Found, Taken
<1>9. QED
  BY <1>3, <1>4, <1>5, <1>6, <1>7, <1>8 DEF OldInv

LEMMA FreeStep == OldInv /\ FreeNode => OldInv'
<1> SUFFICES ASSUME OldInv, FreeNode PROVE OldInv'
  OBVIOUS
<1>1. /\ walk = "free" /\ walk' = "stat" /\ status = "running" /\ queue' = Tail(queue)
      /\ UNCHANGED <<procVars, unread, made, skipped, reaped, status>>
  BY DEF FreeNode, Walk
<1>2. queue \in Seq(Node) /\ queue # << >> /\ IsInjective(queue) /\ curr \in Seen /\ unread = {}
  BY <1>1 DEF OldInv, TypeOK, Position, Once
<1>3. queue' \in Seq(Node) /\ ToSet(queue) = ToSet(queue') \cup {curr}
  BY <1>1, <1>2, TailCovers DEF curr
<1>4. IsInjective(queue') /\ curr \notin ToSet(queue')
  BY <1>1, <1>2, TailDistinct DEF curr
<1>5. TypeOK'
  BY <1>1, <1>3 DEF OldInv, TypeOK, ProcTypeOK
<1>6. Copies' /\ Started' = Started /\ Children' = Children /\ Seen' = Seen
  BY <1>1, ProcessesUntouched DEF Seen, Children
<1>7. Position'
  BY <1>1, <1>6 DEF OldInv, Position
<1>8. Once'
  BY <1>1, <1>3, <1>4, <1>6 DEF OldInv, Once
<1>9. Parents'
  BY <1>1, <1>3, <1>6 DEF OldInv, Parents
<1>10. Found'
  BY <1>1, <1>2, <1>3, <1>6 DEF OldInv, Found, Taken
<1>11. QED
  BY <1>5, <1>6, <1>7, <1>8, <1>9, <1>10 DEF OldInv

\* The end of the walk, of the waiting, and of main.
LEMMA EndStep ==
  ASSUME OldInv, WalkFail \/ WalkDone \/ WaitDone \/ \E r \in Req : Reap(r)
  PROVE  OldInv'
<1>1. /\ UNCHANGED <<procVars, queue, unread, made, skipped>> /\ status = "running"
      /\ \/ walk' = walk
         \/ walk = "stat" /\ walk' = "wait" /\ queue = << >>
      /\ reaped \subseteq reaped' /\ reaped' \subseteq reaped \cup {r \in Req : pc[r] = "exit"}
      /\ status' \in {"running", "failure", "success"}
      /\ status' = "success" => walk' = "wait" /\ Children = {} /\ reaped' = reaped
  BY DEF WalkFail, WalkDone, WaitDone, Reap, Walk, Children
<1>2. TypeOK'
  BY <1>1 DEF OldInv, TypeOK, ProcTypeOK
<1>3. Copies' /\ Started' = Started /\ Seen' = Seen /\ curr' = curr
  BY <1>1, ProcessesUntouched DEF Seen, curr
<1>4. Position'
  <2>1. status' = "success" => Children' = {}
    BY <1>1 DEF Children
  <2>2. QED
    BY <1>1, <1>3, <2>1 DEF OldInv, Position
<1>5. Once'
  BY <1>1, <1>3 DEF OldInv, Once
<1>6. Parents'
  BY <1>1, <1>3 DEF OldInv, Parents
<1>7. Found'
  BY <1>1, <1>3 DEF OldInv, Found, Taken
<1>8. QED
  BY <1>2, <1>3, <1>4, <1>5, <1>6, <1>7 DEF OldInv

\* A process neither starts another one nor comes back from its end.
LEMMA ProcessPlaces ==
  ASSUME TypeOK, NEW r \in Req, ProcStep(r)
  PROVE  /\ Started' = Started /\ failed \subseteq failed'
         /\ \A q \in Req : pc[q] = "exit" => pc'[q] = "exit"
<1> USE DEF TypeOK, ProcTypeOK
<1>1. /\ pc[r] \notin {"none", "exit"} /\ failed \subseteq failed'
      /\ pc' = pc \/ \E to \in {"setup", "read", "reading", "write", "writing", "exit"} :
                       pc' = [pc EXCEPT ![r] = to]
  BY DEF ProcStep, Process, At, Fail, Setup, SetupFail, SubmitRead, SubmitReadFail, SpinRead,
         SubmitWrite, SubmitWriteFail, SpinWrite, Killed, CompleteRead, CompleteWrite
<1>2. QED
  BY <1>1 DEF Started

LEMMA ProcessStep ==
  ASSUME OldInv, NEW r \in Req, ProcStep(r), UNCHANGED <<walkVars, reaped, status>>
  PROVE  OldInv'
<1>1. pc[r] \in {"reading", "writing"} /\ r \in pending => fsize[r] >= 0
  BY DEF OldInv, Copies, CopyInv
<1>2. TypeOK'
  BY <1>1, ProcTypeStep DEF OldInv, TypeOK
<1>3. /\ Started' = Started /\ failed \subseteq failed'
      /\ \A q \in Req : pc[q] = "exit" => pc'[q] = "exit"
  BY ProcessPlaces DEF OldInv
<1>4. curr' = curr /\ Seen \subseteq Seen' /\ Children' = Children
  <2>1. Children = Started \ reaped /\ Children' = Started' \ reaped'
    BY DEF Children, Started
  <2>2. QED
    BY <1>3, <2>1 DEF curr, Seen
<1>5. Position'
  BY <1>3, <1>4 DEF OldInv, Position
<1>6. Once'
  BY <1>3, <1>4 DEF OldInv, Once
<1>7. Parents'
  BY <1>3 DEF OldInv, Parents
<1>8. Found'
  BY <1>4 DEF OldInv, Found, Taken
<1>9. Copies'
  <2>1. ASSUME NEW q \in Req PROVE CopyInv(q)' /\ (old_len'[q] <= st_size'[q] => NotLonger(q)')
    <3>1. ProcTypeOK /\ CopyInv(q) /\ (old_len[q] <= st_size[q] => NotLonger(q))
      BY DEF OldInv, Copies, TypeOK
    <3>2. CopyInv(q)'
      BY <3>1, CopyInvStep
    <3>3. NotLonger(q) => NotLonger(q)'
      BY <3>1, NotLongerStep
    <3>4. UNCHANGED files
      BY DEF ProcStep, Process, At, Fail, Setup, SetupFail, SubmitRead, SubmitReadFail, SpinRead,
             SubmitWrite, SubmitWriteFail, SpinWrite, Killed, CompleteRead, CompleteWrite
    <3>5. QED
      BY <3>1, <3>2, <3>3, <3>4
  <2>2. QED
    BY <2>1 DEF Copies
<1>10. QED
  BY <1>2, <1>5, <1>6, <1>7, <1>8, <1>9 DEF OldInv

LEMMA OldStep == OldInv /\ [Next]_vars => OldInv'
<1> SUFFICES ASSUME OldInv, [Next]_vars PROVE OldInv'
  OBVIOUS
<1>1. CASE MainNext
  <2>1. CASE StatNotReg \/ Fork \/ ForkFail \/ NameDamaged \/ MkDir \/ FreeNode
    BY <2>1, StatStep, ForkStep, LeftOutStep, MkDirStep, FreeStep
  <2>2. CASE EndDir \/ \E n \in unread : ReadEntry(n) \/ SkipEntry(n)
    BY <2>2, SkipStep, ReadStep
  <2>3. CASE WalkFail \/ WalkDone \/ WaitDone \/ \E r \in Req : Reap(r)
    BY <2>3, EndStep
  <2>4. QED
    BY <1>1, <2>1, <2>2, <2>3 DEF MainNext
<1>2. CASE \E r \in Req : ProcNext(r)
  BY <1>2, ProcessStep DEF ProcNext, ProcStep
<1>3. CASE KernelNext
  <2>1. PICK r \in pending : CompleteRead(r) \/ CompleteWrite(r)
    BY <1>3 DEF KernelNext, Kernel
  <2>2. r \in Req /\ ProcStep(r)
    BY <2>1 DEF ProcStep, OldInv, TypeOK, ProcTypeOK
  <2>3. QED
    BY <1>3, <2>2, ProcessStep DEF KernelNext
<1>4. CASE UNCHANGED vars
  <2>1. UNCHANGED <<procVars, walkVars, reaped, status>>
    BY <1>4 DEF vars
  <2>2. Copies' /\ Started' = Started /\ Seen' = Seen /\ curr' = curr /\ Children' = Children
    BY <2>1, ProcessesUntouched DEF Seen, curr, Children
  <2>3. TypeOK'
    BY <2>1 DEF OldInv, TypeOK, ProcTypeOK
  <2>4. Position' /\ Once'
    BY <2>1, <2>2 DEF OldInv, Position, Once
  <2>5. Parents' /\ Found'
    BY <2>1, <2>2 DEF OldInv, Parents, Found, Taken
  <2>6. QED
    BY <2>2, <2>3, <2>4, <2>5 DEF OldInv
<1>5. QED
  BY <1>1, <1>2, <1>3, <1>4 DEF Next, Terminated
-----------------------------------------------------------------------------
\* OldInv holds of cpr_old, for every tree, limit and set of failures.
THEOREM OldInductive == Spec => []OldInv
<1>1. QED
  BY OldInit, OldStep, PTL DEF Spec

\* The types of cpr_old's state.
THEOREM OldTypeCorrect == Spec => []TypeOK
<1>1. OldInv => TypeOK
  BY DEF OldInv
<1>2. QED
  BY <1>1, OldInductive, PTL

\* cpr_old.c:60-81: the directory of a file was made before its process started.
THEOREM DirectoryProcessCorrect == Spec => []DirectoryBeforeProcess
<1>1. OldInv => DirectoryBeforeProcess
  BY DEF OldInv, Parents, Started, DirectoryBeforeProcess
<1>2. QED
  BY <1>1, OldInductive, PTL

\* wait_for_children: with exit status 0 no process and no operation is left.
THEOREM NoneLeftCorrect == Spec => []NoneLeftRunning
<1>1. OldInv => NoneLeftRunning
  <2> SUFFICES ASSUME OldInv, status = "success", NEW r \in Req
               PROVE  pc[r] \in {"none", "exit"} /\ r \notin pending
    BY DEF NoneLeftRunning
  <2>1. pc[r] # "none" => pc[r] = "exit"
    BY DEF OldInv, Position, Children
  <2>2. QED
    BY <2>1 DEF OldInv, Copies, CopyInv
<1>2. QED
  BY <1>1, OldInductive, PTL

\* What main is done with at its success is accounted for.
LEMMA SeenAccounted ==
  ASSUME OldInv, status = "success", NEW n \in Seen
  PROVE  Accounted(n)
<1>1. CASE n \in made
  BY <1>1 DEF OldInv, TypeOK, Dirs, Accounted
<1>2. CASE n \in skipped
  BY <1>2 DEF Accounted
<1>3. CASE n \in failed
  <2>1. Kind[n] = "reg"
    BY <1>3, FileAssumption DEF OldInv, TypeOK, ProcTypeOK, Regs
  <2>2. QED
    BY <1>3, <2>1 DEF Accounted
<1>4. CASE n \in Started
  <2>1. n \in Req /\ Kind[n] = "reg" /\ pc[n] = "exit"
    BY <1>4, FileAssumption DEF OldInv, Position, Children, Started, Regs
  <2>2. ASSUME n \notin failed, Fits(n) PROVE Identical(n)
    <3>1. /\ dst[n].same = st_size[n] /\ dst[n].len >= st_size[n] /\ dst[n].len <= st_size[n]
      BY <2>1, <2>2 DEF OldInv, Copies, CopyInv, NotLonger, Fits
    <3>2. /\ dst[n] \in [same : Int, len : Nat \cup {Absent}]
          /\ dst[n].len \in Int /\ st_size[n] \in Nat
      BY <2>1, ProcTypeUse DEF OldInv, TypeOK
    <3>3. dst[n].len = st_size[n]
      BY <3>1, <3>2
    <3>4. QED
      BY <3>1, <3>2, <3>3 DEF Identical
  <2>3. QED
    BY <2>1, <2>2 DEF Accounted
<1>5. CASE n \in Node /\ Kind[n] = "other"
  BY <1>5 DEF Accounted
<1>6. QED
  BY <1>1, <1>2, <1>3, <1>4, <1>5 DEF Seen

\* With exit status 0 every entry of the directories made was copied, left out at
\* its name or type, or met a failure: the walk and the waiting lose nothing.
THEOREM AccountedCorrect == Spec => []EveryNodeAccounted
<1>1. OldInv => EveryNodeAccounted
  <2> SUFFICES ASSUME OldInv, status = "success"
               PROVE  /\ Accounted(Root)
                      /\ \A d \in made \ skipped : \A n \in Entries[d] : Accounted(n)
    BY DEF EveryNodeAccounted
  <2>1. queue = << >> /\ unread = {} /\ ~Taken /\ ToSet(queue) = {}
    <3>1. walk = "wait" /\ queue = << >> /\ unread = {}
      BY DEF OldInv, Position
    <3>2. DOMAIN queue = {}
      BY <3>1
    <3>3. QED
      BY <3>1, <3>2 DEF Taken, ToSet
  <2>2. Root \in Seen /\ \A d \in made \ skipped : Entries[d] \subseteq Seen
    BY <2>1 DEF OldInv, Found
  <2>3. QED
    BY <2>2, SeenAccounted
<1>2. QED
  BY <1>1, OldInductive, PTL
-----------------------------------------------------------------------------
(* The copy job CopyJob. *)

copied == {r \in reaped : Identical(r)}
AllWell == failed = {} /\ \A r \in Req : Fits(r)

\* What wait has returned has been copied.
LEMMA ReapedIsCopied ==
  ASSUME OldInv, AllWell
  PROVE  copied = reaped
<1> SUFFICES ASSUME NEW r \in reaped PROVE Identical(r)
  BY DEF copied
<1>1. r \in Req /\ pc[r] = "exit" /\ r \notin failed
  BY DEF OldInv, TypeOK, Position, AllWell
<1>2. st_size[r] < IntMod /\ old_len[r] <= st_size[r]
  BY <1>1 DEF AllWell, Fits
<1>3. /\ dst[r].same = st_size[r] /\ dst[r].len >= st_size[r] /\ dst[r].len <= st_size[r]
  BY <1>1, <1>2 DEF OldInv, Copies, CopyInv, NotLonger
<1>4. /\ dst[r] \in [same : Int, len : Nat \cup {Absent}]
      /\ dst[r].len \in Int /\ st_size[r] \in Nat
  BY <1>1, ProcTypeUse DEF OldInv, TypeOK
<1>5. dst[r].len = st_size[r]
  BY <1>3, <1>4
<1>6. QED
  BY <1>3, <1>4, <1>5 DEF Identical

\* Every step is one of the job, or changes nothing of it: fork accepts, wait copies
\* and at last succeeds, an error of the walk fails.
LEMMA OldJobStep ==
  ASSUME OldInv, copied = reaped, copied' = reaped', [Next]_vars
  PROVE  [Job!Next]_(Job!vars)
<1> USE DEF copied
<1>1. SUFFICES \/ \E r \in Req :
                    /\ status = "running" /\ r \notin Started
                    /\ Started' = Started \cup {r} /\ UNCHANGED <<reaped, status>>
               \/ \E r \in Req :
                    /\ status = "running" /\ r \in Started \ reaped
                    /\ reaped' = reaped \cup {r} /\ UNCHANGED <<Started, status>>
               \/ /\ status = "running" /\ reaped = Started
                  /\ status' = "success" /\ UNCHANGED <<Started, reaped>>
               \/ /\ status = "running"
                  /\ status' = "failure" /\ UNCHANGED <<Started, reaped>>
               \/ UNCHANGED <<Started, reaped, status>>
  BY DEF Job!Next, Job!Accept, Job!Copy, Job!Succeed, Job!Fail, Job!vars
<1>2. CASE Fork
  <2>1. curr \in Node /\ curr \in ToSet(queue) /\ Kind[curr] = "reg" /\ walk = "stat"
    BY <1>2, CurrFacts DEF Fork, Walk, OldInv
  <2>2. curr \in Req /\ curr \notin Started
    BY <2>1, FileAssumption DEF Regs, OldInv, Once
  <2>3. /\ status = "running" /\ UNCHANGED <<reaped, status>>
        /\ pc' = [pc EXCEPT ![curr] = "setup"] /\ DOMAIN pc = Req
    BY <1>2 DEF Fork, Walk, StartProcess, OldInv, TypeOK, ProcTypeOK
  <2>4. Started' = Started \cup {curr}
    BY <2>2, <2>3 DEF Started
  <2>5. QED
    BY <2>2, <2>3, <2>4
<1>3. ASSUME NEW r \in Req, Reap(r)
      PROVE  /\ status = "running" /\ r \in Started \ reaped
             /\ reaped' = reaped \cup {r} /\ UNCHANGED <<Started, status>>
  BY <1>3 DEF Reap, Children, Started
<1>4. CASE WaitDone
  <2>1. reaped \subseteq Started
    BY DEF OldInv, Position, Started
  <2>2. Started \subseteq reaped
    BY <1>4 DEF WaitDone, Children, Started
  <2>3. QED
    BY <1>4, <2>1, <2>2 DEF WaitDone, Started
<1>5. CASE WalkFail
  BY <1>5 DEF WalkFail, Started
<1>6. CASE \/ StatNotReg \/ ForkFail \/ NameDamaged \/ MkDir
           \/ (\E n \in unread : ReadEntry(n) \/ SkipEntry(n))
           \/ EndDir \/ FreeNode \/ WalkDone
  BY <1>6 DEF StatNotReg, ForkFail, NameDamaged, MkDir, ReadEntry, SkipEntry, EndDir,
              FreeNode, WalkDone, Walk, Started
<1>7. ASSUME NEW r \in Req, ProcStep(r), UNCHANGED <<walkVars, reaped, status>>
      PROVE  UNCHANGED <<Started, reaped, status>>
  BY <1>7, ProcessPlaces DEF OldInv
<1>8. CASE \E r \in Req : ProcNext(r)
  BY <1>7, <1>8 DEF ProcNext, ProcStep
<1>9. CASE KernelNext
  <2>1. PICK r \in pending : CompleteRead(r) \/ CompleteWrite(r)
    BY <1>9 DEF KernelNext, Kernel
  <2>2. r \in Req /\ ProcStep(r)
    BY <2>1 DEF ProcStep, OldInv, TypeOK, ProcTypeOK
  <2>3. QED
    BY <1>7, <1>9, <2>2 DEF KernelNext
<1>10. CASE UNCHANGED vars
  BY <1>10 DEF vars, Started
<1>11. QED
  BY <1>2, <1>3, <1>4, <1>5, <1>6, <1>8, <1>9, <1>10 DEF Next, MainNext, Terminated

\* No failure is forgotten, and the files stay as they are.
LEMMA HarmStays ==
  ASSUME [Next]_vars
  PROVE  failed \subseteq failed' /\ UNCHANGED files
<1>1. CASE MainNext
  BY <1>1 DEF MainNext, StatNotReg, Fork, StartProcess, ForkFail, NameDamaged, MkDir, ReadEntry,
     SkipEntry, EndDir, FreeNode, WalkFail, WalkDone, Reap, WaitDone, procVars
<1>2. ASSUME NEW r, Process(r) \/ CompleteRead(r) \/ CompleteWrite(r)
      PROVE  failed \subseteq failed' /\ UNCHANGED files
  BY <1>2 DEF Process, Fail, Setup, SetupFail, SubmitRead, SubmitReadFail, SpinRead,
     SubmitWrite, SubmitWriteFail, SpinWrite, Killed, CompleteRead, CompleteWrite
<1>3. CASE \E r \in Req : ProcNext(r)
  BY <1>2, <1>3 DEF ProcNext
<1>4. CASE KernelNext
  BY <1>2, <1>4 DEF KernelNext, Kernel
<1>5. CASE UNCHANGED vars
  BY <1>5 DEF vars, procVars
<1>6. QED
  BY <1>1, <1>3, <1>4, <1>5 DEF Next, Terminated

\* As long as nothing has harmed a copy, every step is one of the job: cpr_old
\* returns 0 only when every process it started has copied its file.
THEOREM OldJobSteps == Spec => JobSteps
<1>1. ASSUME OldInv, OldInv', (OldInv /\ AllWell => copied = reaped)',
             [Next]_vars, failed' = {}, \A r \in Req : Fits(r)
      PROVE  [Job!Next]_(Job!vars)
  <2>1. failed \subseteq failed' /\ UNCHANGED files
    BY <1>1, HarmStays
  <2>2. AllWell /\ AllWell'
    BY <1>1, <2>1 DEF AllWell, Fits, files
  <2>3. copied = reaped
    BY <1>1, <2>2, ReapedIsCopied
  <2>4. QED
    BY <1>1, <2>2, <2>3, OldJobStep
<1>2. OldInv /\ AllWell => copied = reaped
  BY ReapedIsCopied
<1>3. QED
  BY <1>1, <1>2, OldInductive, PTL DEF Spec, JobSteps
-----------------------------------------------------------------------------
(* cpr_old implements the abstract copy job CopyJob when only main can fail. *)

\* A process gets what it asks for, and can copy its file: no failure but those of
\* main's walk, as many processes and contexts as there are files, lengths that
\* are positive and fit an int, no destination that is longer than its source.
Gentle ==
  /\ Faults \subseteq {"walk", "readdir", "heap"}
  /\ Cardinality(Req) <= MaxProcs /\ Cardinality(Req) <= MaxContexts
  /\ \A n \in Sizes : n > 0 /\ 2 * n < IntMod
  /\ \A n \in Sizes, o \in OldLens : o <= n

\* The files are those of the beginning, and no process has failed.
Unharmed ==
  /\ st_size \in [Req -> Sizes] /\ old_len \in [Req -> OldLens]
  /\ failed = {}

\* Some files are less than all.
LEMMA SomeAreFewer ==
  ASSUME NEW T \in SUBSET Req, NEW r \in Req, r \notin T
  PROVE  Cardinality(T) < Cardinality(Req)
<1>1. /\ Cardinality(T) <= Cardinality(Req) /\ Cardinality(T) # Cardinality(Req)
      /\ IsFiniteSet(T)
  BY ReqAssumption, FS_Subset
<1>2. Cardinality(T) \in Nat /\ Cardinality(Req) \in Nat
  BY <1>1, ReqAssumption, FS_CardinalityType
<1>3. QED
  BY <1>1, <1>2

\* The length of a file that fits is stored exactly, and mmap gives a buffer for it.
LEMMA SizeFits ==
  ASSUME Gentle, Unharmed, NEW r \in Req
  PROVE  /\ ToInt(st_size[r]) = st_size[r] /\ st_size[r] \in Nat \ {0}
         /\ st_size[r] < IntMod /\ old_len[r] <= st_size[r]
<1>1. PICK n : n = st_size[r]
  OBVIOUS
<1>2. n \in Sizes /\ old_len[r] \in OldLens
  BY <1>1 DEF Unharmed
<1>3. n \in Nat /\ n > 0 /\ 2 * n < IntMod /\ old_len[r] <= n
  BY <1>2, SizeAssumption DEF Gentle
<1>4. n % IntMod = n
  BY <1>3, IntAssumption
<1>5. ToInt(n) = n
  BY <1>3, <1>4 DEF ToInt
<1>6. n < IntMod
  BY <1>3, IntAssumption
<1>7. QED
  BY <1>1, <1>3, <1>5, <1>6

\* Then no process fails.
LEMMA ProcessSucceeds ==
  ASSUME Gentle, OldInv, Unharmed, NEW r \in Req, ProcStep(r)
  PROVE  Unharmed'
<1>1. UNCHANGED files
  BY DEF ProcStep, Process, At, Fail, Setup, SetupFail, SubmitRead, SubmitReadFail, SpinRead,
         SubmitWrite, SubmitWriteFail, SpinWrite, Killed, CompleteRead, CompleteWrite
<1>2. ~ SetupFail(r)
  <2>1. SUFFICES ASSUME SetupFail(r) PROVE FALSE
    OBVIOUS
  <2>2. Contexts \in SUBSET Req /\ r \notin Contexts
    BY <2>1 DEF SetupFail, Fail, At, Contexts
  <2>3. Cardinality(Contexts) < Cardinality(Req) /\ Cardinality(Contexts) >= MaxContexts
    BY <2>1, <2>2, SomeAreFewer DEF SetupFail
  <2>4. Cardinality(Contexts) \in Nat /\ Cardinality(Req) \in Nat
    BY <2>2, ReqAssumption, FS_Subset, FS_CardinalityType
  <2>5. QED
    BY <2>3, <2>4, ContextAssumption DEF Gentle
<1>3. ~ SubmitReadFail(r)
  <2>1. PICK n : n = st_size[r] /\ ToInt(n) = n /\ n \in Nat /\ n > 0
    BY SizeFits
  <2>2. {"open", "submit"} \cap Faults = {} /\ "mmap" \notin Faults
    BY DEF Gentle
  <2>3. \A b \in MmapResults(n, "mmap" \in Faults) : b = 0
    BY <2>1, <2>2 DEF MmapResults
  <2>4. Submittable(n, 0)
    BY <2>1 DEF Submittable, MapFailed
  <2>5. QED
    BY <2>1, <2>2, <2>3, <2>4 DEF SubmitReadFail
<1>4. ~ SubmitWriteFail(r)
  <2>1. SUFFICES ASSUME SubmitWriteFail(r) PROVE FALSE
    OBVIOUS
  <2>2. fsize[r] = 0 /\ pc[r] = "write"
    BY <2>1 DEF SubmitWriteFail, Fail, At, Gentle
  <2>3. fsize[r] = ToInt(st_size[r])
    BY <2>2 DEF OldInv, Copies, CopyInv
  <2>4. QED
    BY <2>2, <2>3, SizeFits
<1>5. ~ Killed(r)
  BY DEF Killed, Gentle
<1>6. "io" \notin Faults
  BY DEF Gentle
<1>7. failed' = failed
  BY <1>2, <1>3, <1>4, <1>5, <1>6
     DEF ProcStep, Process, Setup, SubmitRead, SpinRead, SubmitWrite, SpinWrite,
         CompleteRead, CompleteWrite
<1>8. QED
  BY <1>1, <1>7 DEF Unharmed

\* Nor does fork.
LEMMA ForkSucceeds ==
  ASSUME Gentle, OldInv
  PROVE  ~ ForkFail
<1>1. SUFFICES ASSUME ForkFail PROVE FALSE
  OBVIOUS
<1>2. /\ walk = "stat" /\ queue # << >> /\ curr \in Req /\ Cardinality(Children) >= MaxProcs
  <2>1. queue # << >> /\ Kind[curr] = "reg" /\ walk = "stat" /\ "fork" \notin Faults
    BY <1>1 DEF ForkFail, Walk, Gentle
  <2>2. curr \in Node
    BY <2>1, CurrFacts DEF OldInv
  <2>3. QED
    BY <1>1, <2>1, <2>2, FileAssumption DEF ForkFail, Regs
<1>3. curr \in ToSet(queue)
  BY <1>2, CurrFacts DEF OldInv
<1>4. curr \notin Started
  BY <1>2, <1>3 DEF OldInv, Once
<1>5. Children \in SUBSET Req /\ curr \notin Children
  BY <1>2, <1>4 DEF Children, Started
<1>6. Cardinality(Children) < Cardinality(Req)
  BY <1>2, <1>5, SomeAreFewer
<1>7. Cardinality(Children) \in Nat /\ Cardinality(Req) \in Nat
  BY <1>5, ReqAssumption, FS_Subset, FS_CardinalityType
<1>8. QED
  BY <1>2, <1>6, <1>7, ProcsAssumption DEF Gentle

LEMMA UnharmedStep ==
  ASSUME Gentle, OldInv, Unharmed, [Next]_vars
  PROVE  Unharmed'
<1>1. CASE MainNext
  <2>1. ~ ForkFail
    BY ForkSucceeds
  <2>2. UNCHANGED <<files, failed>>
    BY <1>1, <2>1 DEF MainNext, StatNotReg, Fork, StartProcess, NameDamaged, MkDir, ReadEntry,
       SkipEntry, EndDir, FreeNode, WalkFail, WalkDone, Reap, WaitDone
  <2>3. QED
    BY <2>2 DEF Unharmed
<1>2. CASE \E r \in Req : ProcNext(r)
  BY <1>2, ProcessSucceeds DEF ProcNext, ProcStep
<1>3. CASE KernelNext
  <2>1. PICK r \in pending : CompleteRead(r) \/ CompleteWrite(r)
    BY <1>3 DEF KernelNext, Kernel
  <2>2. r \in Req /\ ProcStep(r)
    BY <2>1 DEF ProcStep, OldInv, TypeOK, ProcTypeOK
  <2>3. QED
    BY <2>2, ProcessSucceeds
<1>4. CASE UNCHANGED vars
  BY <1>4 DEF vars, Unharmed
<1>5. QED
  BY <1>1, <1>2, <1>3, <1>4 DEF Next, Terminated

\* When no process can fail, cpr_old does nothing that the copy job of cpr would not
\* do: it returns 0 only when every process it started has copied its file, although
\* it never looks at what a process returned.
THEOREM OldImplementsJob == ASSUME Gentle PROVE Spec => Job!Spec
<1>1. Init => Unharmed
  BY DEF Init, ProcInit, Unharmed
<1>2. Init => Job!Init
  BY DEF Init, ProcInit, Job!Init, Started, copied
<1>3. Gentle /\ OldInv /\ Unharmed => copied = reaped
  <2>1. Gentle /\ Unharmed => AllWell
    BY SizeFits DEF Unharmed, AllWell, Fits
  <2>2. QED
    BY <2>1, ReapedIsCopied
<1>4. OldInv /\ copied = reaped /\ (copied = reaped)' /\ [Next]_vars => [Job!Next]_(Job!vars)
  BY OldJobStep
<1>5. Gentle /\ OldInv /\ Unharmed /\ [Next]_vars => Unharmed'
  BY UnharmedStep
<1>6. Spec => []Unharmed
  BY <1>1, <1>5, OldInductive, PTL DEF Spec
<1>7. QED
  BY <1>2, <1>3, <1>4, <1>6, OldInductive, PTL DEF Spec, Job!Spec
=============================================================================
