------------------------------ MODULE JobQueue ------------------------------
(***************************************************************************)
(* What the table ai_jobs promises the people who submit background tasks, *)
(* without workers, restarts or the work itself: one job runs at a time,   *)
(* the oldest first; an interruption puts it back in its old place; a job  *)
(* that has ended stays as it ended.                                       *)
(*                                                                         *)
(* BackgroundWork implements this specification.  WebCenter takes it as    *)
(* its server.                                                             *)
(***************************************************************************)
EXTENDS Naturals

CONSTANT MaxJobs   \* bound: rows ever inserted into ai_jobs

VARIABLE status    \* ai_jobs.status; "unused" before the row

Jobs == 1 .. MaxJobs   \* in the order of created_at
Ended == {"completed", "failed"}
Statuses == {"unused", "queued", "running"} \cup Ended

Init == status = [j \in Jobs |-> "unused"]

\* enqueue_ai_job: created_at is chosen before the row is inserted, and the row of
\* an older job may come after that of a younger one.
Submit(j) ==
  /\ status[j] = "unused"
  /\ status' = [status EXCEPT ![j] = "queued"]

Oldest(j) ==
  /\ status[j] = "queued"
  /\ \A i \in Jobs : i < j => status[i] # "queued"

Take(j) ==
  /\ Oldest(j)
  /\ \A i \in Jobs : status[i] # "running"
  /\ status' = [status EXCEPT ![j] = "running"]

End(j, outcome) ==
  /\ status[j] = "running"
  /\ status' = [status EXCEPT ![j] = outcome]

Interrupt ==
  status' = [j \in Jobs |-> IF status[j] = "running" THEN "queued" ELSE status[j]]

Next ==
  \/ \E j \in Jobs : Submit(j) \/ Take(j)
  \/ \E j \in Jobs, outcome \in Ended : End(j, outcome)
  \/ Interrupt

Spec == Init /\ [][Next]_status
=============================================================================
