--------------------------------- MODULE Cpr ---------------------------------
(***************************************************************************)
(* The whole program: main and copy_internal of cpr/cpr.c on top of the    *)
(* copy manager.  The main thread walks the source tree breadth first with *)
(* a queue of nodes, makes the destination directories itself and hands    *)
(* the regular files to the manager, whose thread is already copying.      *)
(*                                                                         *)
(* The requests of AioManager are the regular files of the tree.           *)
(***************************************************************************)
EXTENDS AioManager, SourceTree

CONSTANT WalkFaults   \* may stat, mkdir, opendir, readdir or closedir fail?

ASSUME WalkAssumption == WalkFaults \in BOOLEAN
ASSUME RequestAssumption == Req = Regs
ASSUME FailureAssumption == "client" \in Faults

VARIABLES
  queue,   \* the TAILQ of copy_internal, curr is its first node
  walk,    \* where copy_internal and copy_dir are
  unread,  \* the entries readdir has not returned yet
  made     \* the destination directories that exist

walkVars == <<queue, walk, unread, made>>
cprVars == <<vars, walkVars>>

curr == Head(queue)
-----------------------------------------------------------------------------
\* The destination of the source argument may be a directory already.
CprInit ==
  /\ Init
  /\ queue = <<Root>>
  /\ walk = "stat"
  /\ unread = {}
  /\ made \in {{}, {Root} \cap Dirs}

\* A step of copy_internal while no call into the manager is going on.
Walk(from, to) == main_pc = "client" /\ Running /\ walk = from /\ walk' = to

\* stat(curr->src_name) finds a directory, or neither directory nor file.
StatDir ==
  /\ queue # << >> /\ Kind[curr] = "dir"
  /\ Walk("stat", "mkdir")
  /\ UNCHANGED <<vars, queue, unread, made>>

StatOther ==
  /\ queue # << >> /\ Kind[curr] = "other"
  /\ Walk("stat", "free")
  /\ UNCHANGED <<vars, queue, unread, made>>

StatReg_Uncounted ==
  /\ queue # << >> /\ Kind[curr] = "reg"
  /\ Walk("stat", "free")
  /\ main_pc' = "add_lock"
  /\ issued' = issued \cup {curr}
  /\ adding' = {curr}
  /\ UNCHANGED <<files, req_count, rest, fields, counters, lists, locks, aio, kernel,
                 status, queue, unread, made>>
StatReg_AlsoMkdir ==
  /\ queue # << >> /\ Kind[curr] = "reg"
  /\ Walk("stat", "mkdir")
  /\ CopyReg(curr)
  /\ UNCHANGED <<queue, unread, made>>

\* stat finds a regular file: copy_reg, whose add_copy_req follows.
StatReg ==
  /\ queue # << >> /\ Kind[curr] = "reg"
  /\ Walk("stat", "free")
  /\ CopyReg(curr)
  /\ UNCHANGED <<queue, unread, made>>

MkDir_Forgotten ==
  /\ Walk("mkdir", "readdir")
  /\ curr \notin made
  /\ unread' = Entries[curr]
  /\ UNCHANGED <<vars, queue, made>>

\* mkdir makes the directory and opendir opens the source.
MkDir ==
  /\ Walk("mkdir", "readdir")
  /\ curr \notin made
  /\ ParentOf(curr) \subseteq made
  /\ made' = made \cup {curr}
  /\ unread' = Entries[curr]
  /\ UNCHANGED <<vars, queue>>

\* copy_dir appends an entry it can handle (names . and .. are not in Entries).
ReadEntry(n) ==
  /\ Walk("readdir", "readdir")
  /\ n \in unread
  /\ DType[n] \ {"special"} # {}
  /\ queue' = Append(queue, n)
  /\ unread' = unread \ {n}
  /\ UNCHANGED <<vars, made>>

ReadSpecial_Skipped(n) ==
  /\ Walk("readdir", "readdir")
  /\ n \in unread
  /\ "special" \in DType[n]
  /\ unread' = unread \ {n}
  /\ UNCHANGED <<vars, queue, made>>

\* The process exits at the first link, device, pipe or socket.
ReadSpecial(n) ==
  /\ Running /\ main_pc = "client" /\ walk = "readdir"
  /\ n \in unread
  /\ "special" \in DType[n]
  /\ ExitFailure
  /\ UNCHANGED walkVars

EndDir ==
  /\ Walk("readdir", "free")
  /\ unread = {}
  /\ UNCHANGED <<vars, queue, unread, made>>

\* curr is freed and then removed.  TAILQ_REMOVE reads its links after free():
\* they lie behind the two words that free() of this build overwrites.
FreeNode ==
  /\ Walk("free", "stat")
  /\ queue' = Tail(queue)
  /\ UNCHANGED <<vars, unread, made>>

\* copy_internal returns 1: mkdir found the name taken, or a call failed (stat;
\* mkdir or opendir; readdir or closedir).
WalkFail ==
  /\ \/ walk = "mkdir" /\ curr \in made
     \/ WalkFaults /\ walk \in {"mkdir", "readdir"}
     \/ WalkFaults /\ walk = "stat" /\ queue # << >>
  /\ ClientFail
  /\ UNCHANGED walkVars

WalkDone_OneLeft ==
  /\ walk = "stat" /\ Len(queue) <= 1
  /\ ClientDone
  /\ UNCHANGED walkVars
WalkDone ==
  /\ walk = "stat" /\ queue = << >>
  /\ ClientDone
  /\ UNCHANGED walkVars

WalkNext ==
  \/ StatDir \/ StatOther \/ StatReg \/ MkDir
  \/ \E n \in unread : ReadEntry(n) \/ ReadSpecial(n)
  \/ EndDir \/ FreeNode \/ WalkFail \/ WalkDone

\* Main inside the manager's functions.
CallNext ==
  /\ \/ AddLock \/ AddCount \/ \E r \in Req : AddPush(r)
     \/ WaitLock \/ WaitSet \/ Join \/ Destroy
  /\ UNCHANGED walkVars

ThreadNext == (AioNext \/ KernelNext) /\ UNCHANGED walkVars

CprNext ==
  WalkNext \/ CallNext \/ ThreadNext \/ (Terminated /\ UNCHANGED walkVars)

CprSpec == CprInit /\ [][CprNext]_cprVars

\* As in AioManager: both threads run, a mutex waited for is obtained.
CprFairSpec ==
  /\ CprSpec
  /\ WF_cprVars(WalkNext \/ CallNext)
  /\ WF_cprVars(AioNext /\ UNCHANGED walkVars)
  /\ WF_cprVars(KernelNext /\ UNCHANGED walkVars)
  /\ SF_cprVars(AddLock /\ UNCHANGED walkVars)
  /\ SF_cprVars(WaitLock /\ UNCHANGED walkVars)
-----------------------------------------------------------------------------
CprTypeOK ==
  /\ TypeOK
  /\ queue \in Seq(Node)
  /\ walk \in {"stat", "mkdir", "readdir", "free"}
  /\ unread \subseteq Node
  /\ made \subseteq Dirs

\* The directory a file goes to exists before the manager learns of the file,
\* so open(O_CREAT) in the other thread cannot come before mkdir.
DirectoryBeforeFile == \A r \in issued : ParentOf(r) \subseteq made

\* Nothing of the walk is left when main asks the manager to flush.
FlushAfterWalk ==
  main_pc \notin {"client", "add_lock", "add_count", "add_push"} =>
    queue = << >> /\ unread = {} /\ Req \subseteq issued

\* Exit status 0 means that the whole tree is there: every directory made and
\* every regular file identical (file lengths below 2^32, directories are new).
TreeCopied ==
  status = "success" =>
    /\ Dirs \subseteq made
    /\ \A r \in Req :
         st_size[r] < IntMod /\ old_len[r] <= st_size[r] => Identical(r)

\* The comparison of experiments/exp.py:58: no path is only in the source.
NothingLeftOut == status = "success" => Node \subseteq made \cup issued

\* The walk uses the manager as AioManager allows.
ManagerSpec == Spec

\* If the destination is new and nothing fails, the program ends with status 0.
CprCompletion == made = {} => <>(status = "success")
=============================================================================
