------------------------------- MODULE CprOld -------------------------------
(***************************************************************************)
(* The predecessor of cpr (cpr/old/cpr_old.c): main walks the source tree  *)
(* as cpr does, forks a process for every regular file, and at the end     *)
(* waits for all of them.  What the processes return is looked at nowhere. *)
(***************************************************************************)
EXTENDS AioCopyP, SourceTree, SequencesExt

CONSTANT MaxProcs   \* how many children main may have, zombies included

FaultKinds == {"walk", "readdir", "heap", "fork",
               "open", "mmap", "submit", "io", "kill"}

ASSUME FileAssumption == Req = Regs
ASSUME ProcsAssumption == MaxProcs \in Nat
ASSUME FaultAssumption == Faults \subseteq FaultKinds

VARIABLES
  queue, walk, unread, made,  \* as in Cpr; walk also tells where main is
  skipped,                    \* history: nodes left out without an error
  reaped,                     \* the children wait has returned
  status                      \* the exit status of main

walkVars == <<queue, walk, unread, made, skipped>>
vars == <<procVars, walkVars, reaped, status>>

curr == Head(queue)
Children == {r \in Req : pc[r] # "none"} \ reaped
-----------------------------------------------------------------------------
Init ==
  /\ ProcInit
  /\ queue = <<Root>>
  /\ walk = "stat"
  /\ unread = {}
  /\ made \in {{}, {Root} \cap Dirs}
  /\ skipped = {}
  /\ reaped = {}
  /\ status = "running"

Walk(from, to) ==
  /\ status = "running" /\ walk = from /\ walk' = to
  /\ UNCHANGED <<reaped, status>>

\* stat finds a directory or, which only the source argument can be, something
\* that is neither a directory nor a file.
StatNotReg ==
  /\ queue # << >> /\ Kind[curr] # "reg"
  /\ Walk("stat", IF Kind[curr] = "dir" THEN "mkdir" ELSE "free")
  /\ UNCHANGED <<procVars, queue, unread, made, skipped>>

StartProcess(r) ==
  /\ pc' = [pc EXCEPT ![r] = "setup"]
  /\ UNCHANGED <<files, dst, locals, pending, res, ret, failed>>

Fork_AlsoMkdir ==
  /\ Walk("stat", "mkdir")
  /\ queue # << >> /\ Kind[curr] = "reg"
  /\ Cardinality(Children) < MaxProcs
  /\ StartProcess(curr)
  /\ UNCHANGED <<queue, unread, made, skipped>>
\* copy_reg: a process for the file.
Fork ==
  /\ Walk("stat", "free")
  /\ queue # << >> /\ Kind[curr] = "reg"
  /\ Cardinality(Children) < MaxProcs
  /\ StartProcess(curr)
  /\ UNCHANGED <<queue, unread, made, skipped>>

\* fork returns -1, which is taken for the parent's side of it.
ForkFail ==
  /\ Walk("stat", "free")
  /\ queue # << >> /\ Kind[curr] = "reg"
  /\ Cardinality(Children) >= MaxProcs \/ "fork" \in Faults
  /\ failed' = failed \cup {curr}
  /\ UNCHANGED <<files, dst, pc, locals, pending, res, ret, queue, unread, made,
                 skipped>>

\* The blocks for the names are one byte short (53-54, 102-103): where malloc has
\* rounded nothing up, a name may be damaged by the next block, and what is made
\* of this node and below it gets another name.
NameDamaged ==
  /\ Walk("stat", "free")
  /\ queue # << >> /\ "heap" \in Faults
  /\ skipped' = skipped \cup {curr}
  /\ UNCHANGED <<procVars, queue, unread, made>>

\* mkdir makes the directory and opendir opens the source.
MkDir_Forgotten ==
  /\ Walk("mkdir", "readdir")
  /\ curr \notin made
  /\ unread' = Entries[curr]
  /\ UNCHANGED <<procVars, queue, made, skipped>>
MkDir ==
  /\ Walk("mkdir", "readdir")
  /\ curr \notin made
  /\ ParentOf(curr) \subseteq made
  /\ made' = made \cup {curr}
  /\ unread' = Entries[curr]
  /\ UNCHANGED <<procVars, queue, skipped>>

\* copy_dir takes the entries whose d_type is DT_DIR or DT_REG.
ReadEntry(n) ==
  /\ Walk("readdir", "readdir")
  /\ n \in unread
  /\ DType[n] \cap {"DT_DIR", "DT_REG"} # {}
  /\ queue' = Append(queue, n)
  /\ unread' = unread \ {n}
  /\ UNCHANGED <<procVars, made, skipped>>

SkipEntry(n) ==
  /\ Walk("readdir", "readdir")
  /\ n \in unread
  /\ DType[n] \ {"DT_DIR", "DT_REG"} # {}
  /\ skipped' = skipped \cup {n}
  /\ unread' = unread \ {n}
  /\ UNCHANGED <<procVars, queue, made>>

\* readdir returns NULL at the end, and when it fails.
EndDir ==
  /\ Walk("readdir", "free")
  /\ unread = {} \/ "readdir" \in Faults
  /\ skipped' = skipped \cup unread
  /\ unread' = {}
  /\ UNCHANGED <<procVars, queue, made>>

\* curr is freed, then removed, as in cpr.c.
FreeNode ==
  /\ Walk("free", "stat")
  /\ queue' = Tail(queue)
  /\ UNCHANGED <<procVars, unread, made, skipped>>

\* stat, mkdir or opendir fails, or malloc or free finds the damage: main ends
\* at once and leaves its children alone.
WalkFail ==
  /\ status = "running"
  /\ \/ walk = "mkdir" /\ (curr \in made \/ "walk" \in Faults)
     \/ walk = "stat" /\ queue # << >> /\ "walk" \in Faults
     \/ walk \in {"stat", "readdir", "free"} /\ queue # << >> /\ "heap" \in Faults
  /\ status' = "failure"
  /\ UNCHANGED <<procVars, walkVars, reaped>>

WalkDone ==
  /\ Walk("stat", "wait")
  /\ queue = << >>
  /\ UNCHANGED <<procVars, queue, unread, made, skipped>>

\* wait returns a child that has ended.  Its status is not used.
Reap_OnlySuccess(r) ==
  /\ status = "running" /\ walk = "wait"
  /\ r \in Children /\ pc[r] = "exit" /\ ret[r] = 0
  /\ reaped' = reaped \cup {r}
  /\ UNCHANGED <<procVars, walkVars, status>>
Reap(r) ==
  /\ status = "running" /\ walk = "wait"
  /\ r \in Children /\ pc[r] = "exit"
  /\ reaped' = reaped \cup {r}
  /\ UNCHANGED <<procVars, walkVars, status>>

\* wait returns -1 when there is no child left.
WaitDone_FirstChild ==
  /\ status = "running" /\ walk = "wait"
  /\ reaped # {} \/ Children = {}
  /\ status' = "success"
  /\ UNCHANGED <<procVars, walkVars, reaped>>
WaitDone ==
  /\ status = "running" /\ walk = "wait"
  /\ Children = {}
  /\ status' = "success"
  /\ UNCHANGED <<procVars, walkVars, reaped>>

MainNext ==
  \/ StatNotReg \/ Fork \/ ForkFail \/ NameDamaged \/ MkDir
  \/ \E n \in unread : ReadEntry(n) \/ SkipEntry(n)
  \/ EndDir \/ FreeNode \/ WalkFail \/ WalkDone
  \/ (\E r \in Req : Reap(r)) \/ WaitDone

\* The processes and their operations go on whatever main does.
ProcNext(r) == Process(r) /\ UNCHANGED <<walkVars, reaped, status>>
KernelNext == Kernel /\ UNCHANGED <<walkVars, reaped, status>>

Terminated ==
  /\ status # "running" /\ \A r \in Req : pc[r] \in {"none", "exit"}
  /\ UNCHANGED vars

Next == MainNext \/ (\E r \in Req : ProcNext(r)) \/ KernelNext \/ Terminated

Spec == Init /\ [][Next]_vars

\* main, every process and the kernel run.
FairSpec ==
  /\ Spec
  /\ WF_vars(MainNext)
  /\ \A r \in Req : WF_vars(ProcNext(r))
  /\ WF_vars(KernelNext)
-----------------------------------------------------------------------------
TypeOK ==
  /\ ProcTypeOK
  /\ queue \in Seq(Node)
  /\ walk \in {"stat", "mkdir", "readdir", "free", "wait"}
  /\ unread \subseteq Node
  /\ made \subseteq Dirs
  /\ skipped \subseteq Node
  /\ reaped \subseteq Req
  /\ status \in {"running", "success", "failure"}

\* A process starts when the directory for its file exists, so that it never has
\* to wait for main's mkdir.
DirectoryBeforeProcess == \A r \in Req : pc[r] # "none" => ParentOf(r) \subseteq made

\* Only a failure of main leaves processes behind it.
NoneLeftRunning ==
  status = "success" => \A r \in Req : pc[r] \in {"none", "exit"} /\ r \notin pending

\* Exit status 0 means that each entry of a directory made is copied, was
\* left out at its name or its type, or met a failure.
Accounted(n) ==
  \/ n \in skipped
  \/ CASE Kind[n] = "dir" -> n \in made
       [] Kind[n] = "reg" -> n \in failed \/ (Fits(n) => Identical(n))
       [] OTHER -> TRUE

EveryNodeAccounted ==
  status = "success" => Accounted(Root) /\ \A d \in made \ skipped : \A n \in Entries[d] : Accounted(n)

\* cpr_old.c:173-175: a process whose read failed returns -1 and writes nothing.
FailedReadReported == \A r \in Req : pc[r] = "write" => res[r] >= 0

\* main comes to its end, whatever becomes of the processes.
Completion == <>(status # "running")

-----------------------------------------------------------------------------
(* The inductive invariant of the proofs. *)
Started == {r \in Req : pc[r] # "none"}

\* What the walk is done with.
Seen == made \cup skipped \cup failed \cup Started \cup {n \in Node : Kind[n] = "other"}

\* The name of the destination was taken: the walk can only fail.
Taken == queue = <<Root>> /\ walk \in {"stat", "mkdir"} /\ made = {Root}

\* Where the walk stands.
Position ==
  /\ walk = "wait" => queue = << >>
  /\ walk \notin {"stat", "wait"} => queue # << >>
  /\ walk # "readdir" => unread = {}
  /\ walk = "mkdir" => curr \in Dirs
  /\ walk = "readdir" => curr \in made /\ unread \subseteq Entries[curr]
  /\ walk = "free" => curr \in Seen
  /\ status = "success" => walk = "wait" /\ Children = {}
  /\ reaped \subseteq {r \in Req : pc[r] = "exit"}

\* Every node is found once: a file gets one process.
Once ==
  /\ IsInjective(queue)
  /\ ToSet(queue) \cap unread = {}
  /\ \A n \in Started : n \notin unread /\ (n \in ToSet(queue) => n = curr /\ walk = "free")

\* What was found is in a directory that was made.
Parents == \A n \in ToSet(queue) \cup unread \cup Started : ParentOf(n) \subseteq made

\* Nothing found is lost.
Found ==
  /\ Root \in ToSet(queue) \cup Seen
  /\ Taken \/ \A d \in made \ skipped : Entries[d] \subseteq ToSet(queue) \cup unread \cup Seen

Copies == \A r \in Req : CopyInv(r) /\ (old_len[r] <= st_size[r] => NotLonger(r))

OldInv == TypeOK /\ Position /\ Once /\ Parents /\ Found /\ Copies
-----------------------------------------------------------------------------
\* What cpr_old has of a copy job: a file is accepted by fork and copied when wait
\* has returned its process.
Job == INSTANCE CopyJob WITH
  File <- Req,
  accepted <- Started,
  copied <- {r \in reaped : Identical(r)}

\* Main never looks at what a process returns.  Still, as long as no process has
\* failed and all files fit, each of its steps is one of the job cpr promises: in
\* particular it returns 0 only when all it has started are copied (36, 41-46).
JobSteps ==
  [][failed' = {} /\ (\A r \in Req : Fits(r)) => [Job!Next]_(Job!vars)]_vars
=============================================================================
