----------------------------- MODULE GrowingTree -----------------------------
(***************************************************************************)
(* The walk of cpr/cpr.c over a file system that changes while it is read: *)
(* main makes directories, the thread of the manager creates files, and    *)
(* when the destination lies inside the source the walk finds both.        *)
(* SourceTree and Cpr leave this case out.                                 *)
(*                                                                         *)
(* A path is the sequence of its names.  The nodes of the queue are paths  *)
(* relative to the arguments, since src_name and dst_name of a node differ *)
(* in the argument only.  Of the manager only the creation of files is     *)
(* kept.                                                                   *)
(***************************************************************************)
EXTENDS Integers, SequencesExt

CONSTANTS
  Source,      \* the first argument, a path
  OldDirs,     \* the directories that exist at the start
  OldRegs,     \* the regular files that exist at the start
  Dests,       \* the second arguments that are tried
  MaxPath      \* PATH_MAX: a longer path is refused

ASSUME SourceAssumption == Source \in OldDirs
ASSUME BoundAssumption == MaxPath \in Nat
\* A file system: what a path lies in is a directory.
ASSUME TreeAssumption ==
  /\ OldDirs \cup OldRegs \cup Dests \subseteq Seq(STRING)
  /\ OldDirs \cap OldRegs = {}
  /\ \A p \in OldDirs \cup OldRegs : \A k \in 0 .. Len(p) - 1 : SubSeq(p, 1, k) \in OldDirs

VARIABLES
  dest,            \* the second argument
  dirs, regs,      \* the directories and regular files that exist
  queue, walk,     \* as in Cpr
  unread,          \* entries readdir must still return: they were there at opendir
  returned,        \* entries it has returned
  handed,          \* the files whose requests the manager has
  status           \* the exit status of the process

treeVars == <<dirs, regs>>
readVars == <<unread, returned>>
vars == <<dest, treeVars, queue, walk, readVars, handed, status>>

curr == Head(queue)
SrcOf(p) == Source \o p
DstOf(p) == dest \o p

\* The names in a directory when these paths exist.
Names(dir, paths) == {Last(p) : p \in {p \in paths : p # << >> /\ Front(p) = dir}}
Visible == IF queue = << >> THEN {} ELSE Names(SrcOf(curr), dirs \cup regs)
Short(path) == Len(path) <= MaxPath
-----------------------------------------------------------------------------
Init ==
  /\ dest \in Dests
  /\ dirs = OldDirs /\ regs = OldRegs
  /\ queue = << << >> >> /\ walk = "stat"
  /\ unread = {} /\ returned = {}
  /\ handed = {}
  /\ status = "running"

Walk(from, to) == status = "running" /\ walk = from /\ walk' = to

StatDir ==
  /\ queue # << >> /\ SrcOf(curr) \in dirs /\ Short(SrcOf(curr))
  /\ Walk("stat", "mkdir")
  /\ UNCHANGED <<dest, treeVars, queue, readVars, handed, status>>

\* copy_reg and add_copy_req.
StatReg ==
  /\ queue # << >> /\ SrcOf(curr) \in regs /\ Short(SrcOf(curr))
  /\ Walk("stat", "free")
  /\ handed' = handed \cup {curr}
  /\ UNCHANGED <<dest, treeVars, queue, readVars, status>>

\* What readdir must return: main has made the destination before opendir.
Listed_BeforeMkDir(dir) == Names(dir, dirs \cup regs)
Listed(dir) == Names(dir, dirs' \cup regs)

Makeable_OverFile(path) == Front(path) \in dirs /\ Short(path)
Makeable(path) == path \notin dirs \cup regs /\ Front(path) \in dirs /\ Short(path)

MkDir ==
  /\ Walk("mkdir", "readdir")
  /\ Makeable(DstOf(curr))
  /\ dirs' = dirs \cup {DstOf(curr)}
  /\ unread' = Listed(SrcOf(curr))
  /\ returned' = {}
  /\ UNCHANGED <<dest, regs, queue, handed, status>>

\* src_name and dst_name of the new node: those of the directory and the entry.
Entry_NameOnly(n) == <<n>>
Entry(n) == Append(curr, n)

\* An entry that came after opendir may be returned, too.
ReadEntry(n) ==
  /\ Walk("readdir", "readdir")
  /\ n \in Visible \ returned
  /\ queue' = Append(queue, Entry(n))
  /\ unread' = unread \ {n}
  /\ returned' = returned \cup {n}
  /\ UNCHANGED <<dest, treeVars, handed, status>>

EndDir ==
  /\ Walk("readdir", "free")
  /\ unread = {}
  /\ UNCHANGED <<dest, treeVars, queue, readVars, handed, status>>

FreeNode ==
  /\ Walk("free", "stat")
  /\ queue' = Tail(queue)
  /\ UNCHANGED <<dest, treeVars, readVars, handed, status>>

Exit(s) == status' = s /\ UNCHANGED <<dest, treeVars, queue, walk, readVars, handed>>

\* A path is too long, or mkdir finds its name taken.
WalkFail ==
  /\ status = "running" /\ queue # << >>
  /\ \/ walk = "stat" /\ ~Short(SrcOf(curr))
     \/ walk = "mkdir" /\ ~Makeable(DstOf(curr))
  /\ Exit("failure")

\* wait_for_aio_finish returns when every file has been copied.
Finish ==
  /\ status = "running" /\ walk = "stat" /\ queue = << >> /\ handed = {}
  /\ Exit("success")

MainNext ==
  \/ StatDir \/ StatReg \/ MkDir
  \/ \E n \in Visible : ReadEntry(n)
  \/ EndDir \/ FreeNode \/ WalkFail \/ Finish
-----------------------------------------------------------------------------
(* The manager's thread. *)

Counted_Forgotten(p) == handed
Counted(p) == handed \ {p}

CreateFile(p) ==
  /\ status = "running"
  /\ p \in handed /\ Short(DstOf(p))
  /\ regs' = regs \cup {DstOf(p)}
  /\ handed' = Counted(p)
  /\ UNCHANGED <<dest, dirs, queue, walk, readVars, status>>

\* open fails; or the source is a file the program has created, still empty, and
\* io_submit refuses its length.
CreateFail(p) ==
  /\ status = "running"
  /\ p \in handed /\ (~Short(DstOf(p)) \/ SrcOf(p) \notin OldRegs)
  /\ Exit("failure")

ThreadNext == \E p \in handed : CreateFile(p) \/ CreateFail(p)

Terminated == status # "running" /\ UNCHANGED vars

Next == MainNext \/ ThreadNext \/ Terminated

Spec == Init /\ [][Next]_vars

\* The scheduler runs both threads.
FairSpec == Spec /\ WF_vars(MainNext) /\ WF_vars(ThreadNext)
-----------------------------------------------------------------------------
Old == OldDirs \cup OldRegs
Inside == IsPrefix(Source, dest)

\* The paths of the queue that stand for a source in S.
Below(S) == {SubSeq(q, Len(Source) + 1, Len(q)) : q \in {q \in S : IsPrefix(Source, q)}}

TypeOK ==
  /\ dest \in Dests
  /\ dirs \cup regs \subseteq Seq(STRING) /\ dirs \cap regs = {}
  /\ queue \in Seq(Seq(STRING))
  /\ walk \in {"stat", "mkdir", "readdir", "free"}
  /\ unread \subseteq STRING /\ returned \subseteq STRING
  /\ handed \subseteq Seq(STRING)
  /\ status \in {"running", "success", "failure"}

\* A destination outside the source: the walk meets only what was there before
\* and makes the image of it, all of it when the status is 0 (cpr.c:78-107).
CopiesWhatWasThere ==
  ~Inside =>
    /\ \A i \in DOMAIN queue : SrcOf(queue[i]) \in Old
    /\ LET Image == {DstOf(p) : p \in Below(Old)}
       IN /\ (dirs \cup regs) \ Old \subseteq Image
          /\ status = "success" => Image \subseteq dirs \cup regs

\* A destination inside the source: the walk always finds the directory it made
\* last, until a path is too long.  It never reports success (cpr.c:88, 93).
NeverCopiesItself == Inside => queue # << >> /\ status # "success"

\* The program ends, also when it copies what it has made: PATH_MAX ends it.
Completion == <>(status # "running")

-----------------------------------------------------------------------------
(* The inductive invariant of the proofs. *)
Closed == \A p \in dirs \cup regs : \A k \in 0 .. Len(p) - 1 : SubSeq(p, 1, k) \in dirs

\* The name of the destination was taken: nothing is made.
Taken ==
  /\ queue = << << >> >> /\ walk \in {"stat", "mkdir"} /\ handed = {}
  /\ dirs = OldDirs /\ regs = OldRegs

\* What is new is the image of something of its kind.
Made ==
  /\ OldDirs \subseteq dirs /\ OldRegs \subseteq regs
  /\ dest \in Old => Taken
  /\ \A x \in dirs \ OldDirs : \E p \in Below(dirs) : x = DstOf(p)
  /\ \A x \in regs \ OldRegs : \E p \in Below(regs) : x = DstOf(p)

\* What was found exists, and the directory for its copy was made.
Met(p) ==
  /\ SrcOf(p) \in dirs \cup regs
  /\ p # << >> => DstOf(Front(p)) \in dirs

Position ==
  /\ \A i \in DOMAIN queue : Met(queue[i])
  /\ \A p \in handed : Met(p) /\ SrcOf(p) \in regs
  /\ walk # "stat" => queue # << >>
  /\ walk \in {"mkdir", "readdir"} => SrcOf(curr) \in dirs
  /\ walk = "readdir" => DstOf(curr) \in dirs
  /\ status = "success" => queue = << >> /\ handed = {}

\* The walk will come to t: it has still to visit t or what leads to it.
Pending(t) ==
  \E k \in 0 .. Len(t) :
    \/ \E i \in DOMAIN queue :
         queue[i] = SubSeq(t, 1, k) /\ (i # 1 \/ walk \in {"stat", "mkdir"})
    \/ walk = "readdir" /\ k < Len(t) /\ curr = SubSeq(t, 1, k) /\ t[k + 1] \in unread

Handled(t) == t \in handed \/ DstOf(t) \in dirs \cup regs

NothingLost == \A t \in Below(Old) : Pending(t) \/ Handled(t)

\* The destination as seen from the source.  A path is in the copies of itself when
\* it goes on repeating this.
Rel == SubSeq(dest, Len(Source) + 1, Len(dest))
GoesOn ==
  Inside => \E t \in Below(dirs) : t = SubSeq(Rel \o t, 1, Len(t)) /\ Pending(t)

TreeInv == TypeOK /\ Closed /\ Made /\ Position /\ NothingLost /\ GoesOn
=============================================================================
