------------------------------- MODULE CopyJob -------------------------------
(***************************************************************************)
(* What cpr promises of a copy job, without threads, batches or kernel:    *)
(* files are accepted and copied one at a time, in any order, and the job  *)
(* succeeds only when every accepted file has been copied.  It may fail at *)
(* any moment, and says so.                                                *)
(***************************************************************************)
CONSTANT File
VARIABLES accepted, copied, status

vars == <<accepted, copied, status>>

Init == accepted = {} /\ copied = {} /\ status = "running"

Accept(f) ==
  /\ status = "running"
  /\ f \notin accepted
  /\ accepted' = accepted \cup {f}
  /\ UNCHANGED <<copied, status>>

Copy(f) ==
  /\ status = "running"
  /\ f \in accepted \ copied
  /\ copied' = copied \cup {f}
  /\ UNCHANGED <<accepted, status>>

Succeed ==
  /\ status = "running"
  /\ copied = accepted
  /\ status' = "success"
  /\ UNCHANGED <<accepted, copied>>

Fail ==
  /\ status = "running"
  /\ status' = "failure"
  /\ UNCHANGED <<accepted, copied>>

Next == (\E f \in File : Accept(f) \/ Copy(f)) \/ Succeed \/ Fail

\* The job does not stay unfinished for ever.
Spec == Init /\ [][Next]_vars
FairSpec == Spec /\ WF_vars(Next)
=============================================================================
