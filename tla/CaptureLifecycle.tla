-------------------------- MODULE CaptureLifecycle --------------------------
(***************************************************************************)
(* What the capture queue promises, without its processes, calls or files: *)
(* the life of the rows of table capture_jobs and the outcome stored with  *)
(* each catalog target.  A job is reserved only from the queue, reported   *)
(* only while it is reserved, and its outcome and the outcome of its       *)
(* target change in one transaction.                                       *)
(*                                                                         *)
(* CaptureControl implements this specification when no request outlives   *)
(* the worker that sent it; CaptureControlProofs proves it.                *)
(***************************************************************************)
CONSTANTS
  Jobs,      \* identifiers of rows of capture_jobs; none is used twice
  Targets,   \* rows of dls_targets
  NoTarget   \* stands for the target of a job that does not exist yet

VARIABLES
  status,    \* capture_jobs.status, with "unused" before and "cleared" after
  jobTarget, \* capture_jobs.target_id
  last       \* dls_targets.last_capture_status

vars == <<status, jobTarget, last>>

Init ==
  /\ status = [j \in Jobs |-> "unused"]
  /\ jobTarget = [j \in Jobs |-> NoTarget]
  /\ last = [t \in Targets |-> "none"]

\* A row is inserted for a target.
Enqueue(j, t) ==
  /\ status[j] = "unused"
  /\ status' = [status EXCEPT ![j] = "queued"]
  /\ jobTarget' = [jobTarget EXCEPT ![j] = t]
  /\ UNCHANGED last

\* The worker's reservation.
Reserve(j) ==
  /\ status[j] = "queued"
  /\ status' = [status EXCEPT ![j] = "running"]
  /\ UNCHANGED <<jobTarget, last>>

\* Every interrupted reservation goes back to the queue at once.
Requeue ==
  /\ status' = [j \in Jobs |-> IF status[j] = "running" THEN "queued"
                                                        ELSE status[j]]
  /\ UNCHANGED <<jobTarget, last>>

\* A reserved job ends; its target shows the outcome.
Report(j, outcome) ==
  /\ status[j] = "running"
  /\ status' = [status EXCEPT ![j] = outcome]
  /\ last' = [last EXCEPT ![jobTarget[j]] = outcome]
  /\ UNCHANGED jobTarget

\* The analyst removes queued rows, failed rows, or both.
Clear(S) ==
  /\ status' = [j \in Jobs |-> IF status[j] \in S THEN "cleared"
                                                  ELSE status[j]]
  /\ UNCHANGED <<jobTarget, last>>

Next ==
  \/ \E j \in Jobs, t \in Targets : Enqueue(j, t)
  \/ \E j \in Jobs : Reserve(j)
  \/ Requeue
  \/ \E j \in Jobs, outcome \in {"completed", "failed"} : Report(j, outcome)
  \/ \E S \in SUBSET {"queued", "failed"} : Clear(S)

Spec == Init /\ [][Next]_vars
=============================================================================
