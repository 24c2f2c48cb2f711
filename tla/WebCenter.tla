----------------------------- MODULE WebCenter -----------------------------
(***************************************************************************)
(* The AI tasks in the corner of the web console: App's poll of the jobs   *)
(* every two seconds and the list of AIJobCenter (App.tsx).  The server is *)
(* the queue of JobQueue.  WebFrame has the dialog of a result.            *)
(*                                                                         *)
(* The timer sends a poll whether or not the last one was answered.  A     *)
(* poll is the snapshot the server took for it; the polls are kept in the  *)
(* order of their snapshots and may be answered in any.                    *)
(***************************************************************************)
EXTENDS Naturals, Sequences, SequencesExt

CONSTANTS
  MaxJobs,     \* bound: rows ever inserted into ai_jobs
  MaxPolls     \* bound: polls without an answer

ASSUME CenterAssumption == MaxJobs \in Nat /\ MaxPolls \in Nat

VARIABLES
  queue,       \* server: ai_jobs.status
  seenAt,      \* server: the jobs with seen_at
  polls,       \* the polls under way
  aiJobs,      \* App's aiJobs: statuses and seen_at as last answered
  watched,     \* aiJobStatuses: the statuses of the last answer
  marks,       \* markAIJobSeen's calls
  refreshed,   \* history: refreshes the end of a job has started
  noticed,     \* history: jobs an answer has shown as queued or running
  overtaken    \* history: a poll was answered after a later one

centerVars == <<queue, seenAt, polls, aiJobs, watched, marks, refreshed, noticed, overtaken>>

Server == INSTANCE JobQueue WITH status <- queue

CenterJobs == 1 .. MaxJobs
Pending == {"queued", "running"}
HasEnded == {"completed", "failed"}
Statuses == [CenterJobs -> {"unused"} \cup Pending \cup HasEnded]
Answers == [status : Statuses, seen : SUBSET CenterJobs]

CenterTypeOK ==
  /\ queue \in Statuses
  /\ seenAt \subseteq CenterJobs
  /\ Len(polls) <= MaxPolls
  /\ \A i \in DOMAIN polls : polls[i].answer \in Answers /\ polls[i].late \in BOOLEAN
  /\ aiJobs \in Answers
  /\ watched \in Statuses
  /\ marks \in [CenterJobs -> {"none", "sent", "served"}]
  /\ refreshed \in [CenterJobs -> 0 .. 2]
  /\ noticed \subseteq CenterJobs
  /\ overtaken \in BOOLEAN

CenterInit ==
  /\ Server!Init
  /\ seenAt = {}
  /\ polls = <<>>
  /\ aiJobs = [status |-> queue, seen |-> {}]
  /\ watched = queue
  /\ marks = [j \in CenterJobs |-> "none"]
  /\ refreshed = [j \in CenterJobs |-> 0]
  /\ noticed = {}
  /\ overtaken = FALSE

shownVars == <<aiJobs, watched, refreshed, noticed, overtaken>>

\* Another page queues a job; the worker of the AI jobs; a restart.
QueueMoves ==
  /\ Server!Next
  /\ UNCHANGED <<seenAt, polls, marks, shownVars>>

\* GET /api/v1/ai/jobs, for a poll the timer has sent.
ServePoll ==
  /\ Len(polls) < MaxPolls
  /\ polls' = Append(polls, [answer |-> [status |-> queue, seen |-> seenAt], late |-> FALSE])
  /\ UNCHANGED <<queue, seenAt, marks, shownVars>>

\* Mutant: every job that has ended counts, again and again.
FinishedEver(old, new, j) == new[j] \in HasEnded

FinishedNow(old, new, j) == new[j] \in HasEnded /\ old[j] \in Pending

\* poll: a job it had last seen queued or running and now finds ended makes
\* App refresh its dashboard.
ReceivePoll(i) ==
  LET answer == polls[i].answer IN
  /\ i \in DOMAIN polls
  /\ refreshed' = [j \in CenterJobs |->
       IF FinishedNow(watched, answer.status, j) /\ refreshed[j] < 2
         THEN refreshed[j] + 1 ELSE refreshed[j]]
  /\ watched' = answer.status
  /\ aiJobs' = answer
  /\ noticed' = noticed \cup {j \in CenterJobs : answer.status[j] \in Pending}
  /\ overtaken' = (overtaken \/ polls[i].late)
  /\ polls' = RemoveAt([k \in DOMAIN polls |-> [polls[k] EXCEPT !.late = @ \/ k < i]], i)
  /\ UNCHANGED <<queue, seenAt, marks>>

-----------------------------------------------------------------------------
(* The analyst. *)

\* The latest three jobs are listed.
Latest == {j \in CenterJobs :
             /\ aiJobs.status[j] # "unused"
             /\ j + 3 > MaxJobs \/ \A k \in j + 3 .. MaxJobs : aiJobs.status[k] = "unused"}

\* openAIJob marks the job it shows as seen; so does onDismiss, whose button
\* is there for a job that is not.
MarkSeen(j) ==
  /\ j \in Latest /\ aiJobs.status[j] \in HasEnded
  /\ marks[j] = "none"
  /\ marks' = [marks EXCEPT ![j] = "sent"]
  /\ UNCHANGED <<queue, seenAt, polls, shownVars>>

-----------------------------------------------------------------------------
(* Marking a job as seen. *)

ServeMark(j) ==
  /\ marks[j] = "sent"
  /\ seenAt' = seenAt \cup {j}
  /\ marks' = [marks EXCEPT ![j] = "served"]
  /\ UNCHANGED <<queue, polls, shownVars>>

\* The answer replaces one job of the list, an answered poll all of them.
ReceiveMark(j) ==
  /\ marks[j] = "served"
  /\ marks' = [marks EXCEPT ![j] = "none"]
  /\ aiJobs' = IF aiJobs.status[j] = "unused" THEN aiJobs
               ELSE [status |-> [aiJobs.status EXCEPT ![j] = queue[j]],
                     seen |-> aiJobs.seen \cup {j}]
  /\ UNCHANGED <<queue, seenAt, polls, watched, refreshed, noticed, overtaken>>

CenterNext ==
  \/ QueueMoves
  \/ ServePoll \/ \E i \in 1 .. MaxPolls : ReceivePoll(i)
  \/ \E j \in CenterJobs : MarkSeen(j) \/ ServeMark(j) \/ ReceiveMark(j)

\* The timer fires while the console is open, and a poll is answered.
CenterProgress == ServePoll \/ \E i \in 1 .. MaxPolls : ReceivePoll(i)

-----------------------------------------------------------------------------
(* Properties. *)

\* Each job that the console has followed to its end makes it refresh its
\* dashboard exactly once, unless polls were answered out of order: then a job
\* goes back to running on the screen and ends a second time.
RefreshedOncePerJob ==
  ~overtaken => \A j \in CenterJobs :
    refreshed[j] = IF j \in noticed /\ watched[j] \in HasEnded THEN 1 ELSE 0

\* The answers that undo one another do not last: once the jobs rest, the
\* corner shows the statuses and the seen marks that the server has.
CenterConverges ==
  <>[][FALSE]_<<queue, seenAt>> => <>[](aiJobs = [status |-> queue, seen |-> seenAt])

=============================================================================
