--------------------------- MODULE BackgroundWork ---------------------------
(***************************************************************************)
(* The background tasks of the control plane: the worker of the AI jobs,   *)
(* the scheduler, and the victim digest, which both of them and an         *)
(* analyst's request can send (main.py, service.py).                       *)
(*                                                                         *)
(* The tasks share one event loop, so between two awaits only the threads  *)
(* of synchronous endpoints (submitting a job, changing a setting,         *)
(* ingesting a claim) and a crash come in; a step ends at an await or at a *)
(* commit.                                                                 *)
(***************************************************************************)
EXTENDS Naturals

CONSTANTS
  Claims,     \* public claims of distinct victims
  Requests,   \* requests of POST /api/v1/notifications/victim-digest/send
  MaxJobs,    \* bound: rows ever inserted into ai_jobs
  MaxStops    \* bound: how often the server stops and is started again

ASSUME BoundsAssumption == MaxJobs \in Nat /\ MaxStops \in Nat
ASSUME ActorsAssumption == "worker" \notin Requests /\ "scheduler" \notin Requests

Jobs == 1 .. MaxJobs   \* in the order of created_at
NoJob == 0
Kinds == {"assessment", "digest"}
Ended == {"completed", "failed"}
Modes == {"active", "passive", "off"}
Senders == {"worker", "scheduler"} \cup Requests

VARIABLES
  status,     \* ai_jobs.status; "unused" before the INSERT
  kind,       \* ai_jobs.job_type: what stores a result, or the digest
  effects,    \* how often a job has stored its result
  worker,     \* ai_job_worker_loop
  digest,     \* the executions of send_victim_digest
  claim,      \* claims: "dated" once received_at is chosen, "stored" after the commit
  marked,     \* app_settings.last_victim_digest_at is stored
  newer,      \* the claims with received_at > last_victim_digest_at; all before a mark
  mailed,     \* how many digests with the claim have been sent
  settings,   \* app_settings.operating_mode; capture_enabled of a site
  scheduler,  \* scheduler_loop, with the mode its pass has read; whether a claim was
              \* stored or a client deleted beside its collections; history: a switch
              \* during it
  stops,      \* how often the server has stopped
  exposed,    \* history: claims that arrived beside a digest
  repeated,   \* history: claims read by two digests at once, or mailed without a mark
  outlived    \* history: claims older than the interval when a digest was read
              \* before the first mark

jobVars == <<status, kind, effects, worker>>
newsVars == <<claim, marked, newer, mailed, exposed, repeated, outlived>>
digestVars == <<digest, newsVars>>
vars == <<jobVars, digestVars, settings, scheduler, stops>>

Idle == [step |-> "none", claims |-> {}]
Asleep == [pc |-> "asleep", mode |-> "off", posted |-> FALSE, deleted |-> FALSE,
           switched |-> FALSE]

TypeOK ==
  /\ status \in [Jobs -> {"unused", "queued", "running"} \cup Ended]
  /\ kind \in [Jobs -> Kinds]
  /\ effects \in [Jobs -> Nat]
  /\ worker \in [pc : {"starting", "idle", "execute", "stored", "digest"},
                 job : Jobs \cup {NoJob}]
  /\ digest \in [Senders -> [step : {"none", "await", "sent", "done", "failed", "broken"},
                             claims : SUBSET Claims]]
  /\ claim \in [Claims -> {"absent", "dated", "stored"}]
  /\ marked \in BOOLEAN
  /\ newer \subseteq Claims
  /\ mailed \in [Claims -> Nat]
  /\ settings \in [mode : Modes, allowed : BOOLEAN]
  /\ scheduler \in [pc : {"asleep", "collect", "capture", "queue", "digest", "ended"},
                    mode : Modes, posted : BOOLEAN, deleted : BOOLEAN,
                    switched : BOOLEAN]
  /\ stops \in 0 .. MaxStops
  /\ exposed \subseteq Claims
  /\ repeated \subseteq Claims
  /\ outlived \subseteq Claims

Init ==
  /\ status = [j \in Jobs |-> "unused"]
  /\ kind = [j \in Jobs |-> "assessment"]
  /\ effects = [j \in Jobs |-> 0]
  /\ worker = [pc |-> "starting", job |-> NoJob]
  /\ digest = [d \in Senders |-> Idle]
  /\ claim = [c \in Claims |-> "absent"]
  /\ marked = FALSE
  /\ newer = {}
  /\ mailed = [c \in Claims |-> 0]
  /\ settings = [mode |-> "active", allowed |-> TRUE]
  /\ scheduler = Asleep
  /\ stops = 0
  /\ exposed = {}
  /\ repeated = {}
  /\ outlived = {}

-----------------------------------------------------------------------------
(* Threads of the synchronous endpoints. *)

\* POST /api/v1/ai/jobs: enqueue_ai_job.  created_at is chosen before the INSERT,
\* so that the row of an older job can be stored after that of a younger one.
SubmitJob(j, k) ==
  /\ status[j] = "unused"
  /\ status' = [status EXCEPT ![j] = "queued"]
  /\ kind' = [kind EXCEPT ![j] = k]
  /\ UNCHANGED <<effects, worker, digestVars, settings, scheduler, stops>>

\* update_runtime_settings and update_dls_target.
ChangeSettings ==
  /\ \E m \in Modes, a \in BOOLEAN :
       /\ settings' = [mode |-> m, allowed |-> a]
       /\ scheduler' = [scheduler EXCEPT !.switched =
            @ \/ /\ scheduler.pc # "asleep"
                 /\ settings.mode # m \/ settings.allowed # a]
  /\ UNCHANGED <<jobVars, digestVars, stops>>

\* delete_client, while a collection matches its claims.  (the clients and their
\* alerts are those of AlertDesk)
DeleteClient ==
  /\ scheduler.pc = "collect"
  /\ scheduler' = [scheduler EXCEPT !.deleted = TRUE]
  /\ UNCHANGED <<jobVars, digestVars, settings, stops>>

UnderWay(d) == digest[d].step \in {"await", "sent"}

\* ingest_many chooses received_at for its rows ...
ReceiveClaim(c) ==
  /\ claim[c] = "absent"
  /\ claim' = [claim EXCEPT ![c] = "dated"]
  /\ newer' = newer \cup {c}
  /\ exposed' = IF \E d \in Senders : UnderWay(d) THEN exposed \cup {c} ELSE exposed
  /\ UNCHANGED <<jobVars, digest, marked, mailed, repeated, outlived, settings, scheduler,
                 stops>>

\* ... and then inserts them in one transaction.
StoreClaim(c) ==
  /\ claim[c] = "dated"
  /\ claim' = [claim EXCEPT ![c] = "stored"]
  /\ scheduler' = [scheduler EXCEPT !.posted = @ \/ scheduler.pc = "collect"]
  /\ UNCHANGED <<jobVars, digest, marked, newer, mailed, exposed, repeated, outlived,
                 settings, stops>>

-----------------------------------------------------------------------------
(* send_victim_digest, whoever runs it. *)

\* victim_digest_context: the claims since the last digest or, before the first
\* mark, of the last interval_hours, which leaves the old ones out; any may be old.
\* With none there is nothing to send.
DigestReads(d) ==
  \E old \in SUBSET newer :
    LET news == {c \in newer \ old : claim[c] = "stored"}
        others == UNION {digest[e].claims : e \in {e \in Senders : UnderWay(e)}}
    IN /\ digest[d] = Idle
       /\ marked => old = {}
       /\ digest' = [digest EXCEPT ![d] =
            [step |-> IF news = {} THEN "done" ELSE "await", claims |-> news]]
       /\ exposed' = exposed \cup {c \in Claims : claim[c] = "dated"}
       /\ repeated' = repeated \cup (news \cap others)
       /\ outlived' = outlived \cup old
       /\ UNCHANGED <<claim, marked, newer, mailed>>

\* The summary has arrived or failed, and the mail server has taken the mail.
DigestIsSent(d) ==
  /\ digest[d].step = "await"
  /\ digest' = [digest EXCEPT ![d].step = "sent"]
  /\ mailed' = [c \in Claims |-> IF c \in digest[d].claims THEN mailed[c] + 1
                                                           ELSE mailed[c]]
  /\ UNCHANGED <<claim, marked, newer, exposed, repeated, outlived>>

\* MailDeliveryError, raised as an HTTPException: the server has not taken the
\* mail, or its reply or the end of the connection is lost after it has.
DigestFails(d) ==
  /\ UnderWay(d)
  /\ digest' = [digest EXCEPT ![d].step = "failed"]
  /\ repeated' = IF digest[d].step = "sent" THEN repeated \cup digest[d].claims ELSE repeated
  /\ UNCHANGED <<claim, marked, newer, mailed, exposed, outlived>>

\* An exception of another kind: the summary's highlights are no list, or no mail
\* can be built of it.
DigestBreaks(d) ==
  /\ digest[d].step = "await"
  /\ digest' = [digest EXCEPT ![d].step = "broken"]
  /\ UNCHANGED newsVars

\* Mutant of DigestIsMarked: the mark is made in a finally clause.
DigestIsMarkedAlways(d) ==
  /\ digest[d].step \in {"sent", "failed"}
  /\ digest' = [digest EXCEPT ![d].step = "done"]
  /\ newer' = {}
  /\ marked' = TRUE
  /\ UNCHANGED <<claim, mailed, exposed, repeated, outlived>>

\* Mutant of DigestIsMarked: only the run is marked, not the digest.
DigestIsNotMarked(d) ==
  /\ digest[d].step = "sent"
  /\ digest' = [digest EXCEPT ![d].step = "done"]
  /\ UNCHANGED newsVars

\* mark_victim_digest_sent: now is later than every received_at chosen so far.
DigestIsMarked(d) ==
  /\ digest[d].step = "sent"
  /\ digest' = [digest EXCEPT ![d].step = "done"]
  /\ newer' = {}
  /\ marked' = TRUE
  /\ UNCHANGED <<claim, mailed, exposed, repeated, outlived>>

DigestGoesOn(d) ==
  /\ DigestIsSent(d) \/ DigestFails(d) \/ DigestBreaks(d) \/ DigestIsMarked(d)
  /\ UNCHANGED <<jobVars, settings, scheduler, stops>>

\* send_victim_digest_now in a request of its own.
RequestDigest(r) ==
  /\ worker.pc # "starting"   \* the application serves after its start
  /\ DigestReads(r)
  /\ UNCHANGED <<jobVars, settings, scheduler, stops>>

\* mark_schedule_run, or the exception, ends the request.
RequestEnds(r) ==
  /\ digest[r].step \in {"done", "failed", "broken"}
  /\ digest' = [digest EXCEPT ![r] = Idle]
  /\ UNCHANGED <<jobVars, newsVars, settings, scheduler, stops>>

-----------------------------------------------------------------------------
(* ai_job_worker_loop. *)

\* Mutant of RequeueInterrupted: the worker starts without it.
RequeueNothing ==
  /\ worker.pc = "starting"
  /\ worker' = [worker EXCEPT !.pc = "idle"]
  /\ UNCHANGED <<status, kind, effects, digestVars, settings, scheduler, stops>>

\* requeue_interrupted_ai_jobs, once, when the task starts.
RequeueInterrupted ==
  /\ worker.pc = "starting"
  /\ status' = [j \in Jobs |-> IF status[j] = "running" THEN "queued" ELSE status[j]]
  /\ worker' = [worker EXCEPT !.pc = "idle"]
  /\ UNCHANGED <<kind, effects, digestVars, settings, scheduler, stops>>

\* Mutant of ClaimJob: ORDER BY created_at is dropped.
ClaimAnyJob(j) ==
  /\ worker.pc = "idle"
  /\ status[j] = "queued"
  /\ status' = [status EXCEPT ![j] = "running"]
  /\ worker' = [pc |-> IF kind[j] = "digest" THEN "digest" ELSE "execute", job |-> j]
  /\ UNCHANGED <<kind, effects, digestVars, settings, scheduler, stops>>

\* claim_next_ai_job: BEGIN IMMEDIATE makes the SELECT and the UPDATE one step.
ClaimJob(j) ==
  /\ worker.pc = "idle"
  /\ status[j] = "queued"
  /\ \A i \in Jobs : i < j => status[i] # "queued"
  /\ status' = [status EXCEPT ![j] = "running"]
  /\ worker' = [pc |-> IF kind[j] = "digest" THEN "digest" ELSE "execute", job |-> j]
  /\ UNCHANGED <<kind, effects, digestVars, settings, scheduler, stops>>

\* The answer of the model is stored, before the job ends.
StoreResult ==
  /\ worker.pc = "execute"
  /\ worker' = [worker EXCEPT !.pc = "stored"]
  /\ effects' = [effects EXCEPT ![worker.job] = @ + 1]
  /\ UNCHANGED <<status, kind, digestVars, settings, scheduler, stops>>

WorkerReadsDigest ==
  /\ worker.pc = "digest"
  /\ DigestReads("worker")
  /\ UNCHANGED <<jobVars, settings, scheduler, stops>>

\* Mutant of EndJob: the worker forgets its digest, not its job.
EndJobHeld(outcome) ==
  /\ status' = [status EXCEPT ![worker.job] = outcome]
  /\ worker' = [worker EXCEPT !.pc = "ended"]
  /\ digest' = [digest EXCEPT !["worker"] = Idle]
  /\ UNCHANGED <<kind, effects, newsVars, settings, scheduler, stops>>

EndJob(outcome) ==
  /\ status' = [status EXCEPT ![worker.job] = outcome]
  /\ worker' = [pc |-> "idle", job |-> NoJob]
  /\ digest' = [digest EXCEPT !["worker"] = Idle]
  /\ UNCHANGED <<kind, effects, newsVars, settings, scheduler, stops>>

\* Mutant of FinishJob: the job ends before its result is stored.
FinishUnstoredJob ==
  /\ \/ worker.pc \in {"execute", "stored"}
     \/ worker.pc = "digest" /\ digest["worker"].step = "done"
  /\ EndJob("completed")

\* finish_ai_job.
FinishJob ==
  /\ \/ worker.pc = "stored"
     \/ worker.pc = "digest" /\ digest["worker"].step = "done"
  /\ EndJob("completed")

\* fail_ai_job: the model, the store or the mail server has failed.
FailJob ==
  /\ \/ worker.pc = "execute"
     \/ worker.pc = "digest" /\ digest["worker"].step \in {"failed", "broken"}
  /\ EndJob("failed")

-----------------------------------------------------------------------------
(* scheduler_loop.  The digest's switch and the time since its last run      *)
(* decide only whether it is due, and anything may be due.                  *)

SchedulerWakes ==
  /\ scheduler.pc = "asleep"
  /\ settings.mode # "off"
  /\ scheduler' = [Asleep EXCEPT !.pc = "collect", !.mode = settings.mode]
  /\ UNCHANGED <<jobVars, digestVars, settings, stops>>

\* collect_sources and sync_catalog, awaited.  Their errors are reported as the
\* health of a source, but not a sqlite3.IntegrityError, which ends the task: of an
\* observation whose claim another thread has stored first, or of an alert whose
\* client was deleted after list_clients.
SchedulerCollects ==
  /\ scheduler.pc = "collect"
  /\ \/ scheduler' = [scheduler EXCEPT !.pc = "capture"]
     \/ /\ scheduler.posted \/ scheduler.deleted
        /\ scheduler' = [scheduler EXCEPT !.pc = "ended"]
  /\ UNCHANGED <<jobVars, digestVars, settings, stops>>

\* Mutant of SchedulerSelects: the mode of the pass is not looked at.
SchedulerSelectsInAnyMode ==
  /\ scheduler.pc = "capture"
  /\ \E due \in BOOLEAN :
       scheduler' = [scheduler EXCEPT !.pc =
         IF due /\ settings.allowed THEN "queue" ELSE "digest"]
  /\ UNCHANGED <<jobVars, digestVars, settings, stops>>

\* schedule_active_captures: the SELECT of the sites, under the mode that the
\* pass has read.
SchedulerSelects ==
  /\ scheduler.pc = "capture"
  /\ \E due \in BOOLEAN :
       scheduler' = [scheduler EXCEPT !.pc =
         IF due /\ scheduler.mode = "active" /\ settings.allowed THEN "queue"
                                                                 ELSE "digest"]
  /\ UNCHANGED <<jobVars, digestVars, settings, stops>>

\* queue_capture looks at the site and at the mode again, and refuses with a
\* PermissionError that nobody catches: the task ends.
SchedulerQueues ==
  /\ scheduler.pc = "queue"
  /\ scheduler' = [scheduler EXCEPT !.pc =
       IF settings.allowed /\ settings.mode = "active" THEN "digest" ELSE "ended"]
  /\ UNCHANGED <<jobVars, digestVars, settings, stops>>

SchedulerReadsDigest ==
  /\ scheduler.pc = "digest"
  /\ DigestReads("scheduler")
  /\ UNCHANGED <<jobVars, settings, scheduler, stops>>

\* The digest is off, not due, sent or has failed: mark_schedule_run, sleep.
SchedulerSleeps ==
  /\ scheduler.pc = "digest"
  /\ digest["scheduler"].step \in {"none", "done", "failed"}
  /\ digest' = [digest EXCEPT !["scheduler"] = Idle]
  /\ scheduler' = Asleep
  /\ UNCHANGED <<jobVars, newsVars, settings, stops>>

\* Only an HTTPException of the digest is caught: another one ends the task.
SchedulerBreaks ==
  /\ scheduler.pc = "digest"
  /\ digest["scheduler"].step = "broken"
  /\ scheduler' = [scheduler EXCEPT !.pc = "ended"]
  /\ UNCHANGED <<jobVars, digestVars, settings, stops>>

-----------------------------------------------------------------------------
\* The process ends, by a signal or a crash, and is started again: tasks and
\* threads are gone, what they have committed stays.
ServerStops ==
  /\ stops < MaxStops
  /\ stops' = stops + 1
  /\ worker' = [pc |-> "starting", job |-> NoJob]
  /\ scheduler' = Asleep
  /\ repeated' = repeated \cup
       UNION {digest[d].claims : d \in {d \in Senders : digest[d].step = "sent"}}
  /\ digest' = [d \in Senders |-> Idle]
  /\ claim' = [c \in Claims |-> IF claim[c] = "dated" THEN "absent" ELSE claim[c]]
  /\ newer' = {c \in newer : claim[c] = "stored"}
  /\ UNCHANGED <<status, kind, effects, marked, mailed, settings, exposed, outlived>>

Worker ==
  \/ RequeueInterrupted
  \/ \E j \in Jobs : ClaimJob(j)
  \/ StoreResult
  \/ WorkerReadsDigest
  \/ DigestGoesOn("worker")
  \/ FinishJob
  \/ FailJob

Scheduler ==
  \/ SchedulerWakes
  \/ SchedulerCollects
  \/ SchedulerSelects
  \/ SchedulerQueues
  \/ SchedulerReadsDigest
  \/ DigestGoesOn("scheduler")
  \/ SchedulerSleeps
  \/ SchedulerBreaks

Request(r) == RequestDigest(r) \/ DigestGoesOn(r) \/ RequestEnds(r)

Next ==
  \/ \E j \in Jobs, k \in Kinds : SubmitJob(j, k)
  \/ ChangeSettings
  \/ DeleteClient
  \/ \E c \in Claims : ReceiveClaim(c) \/ StoreClaim(c)
  \/ \E r \in Requests : Request(r)
  \/ Worker
  \/ Scheduler
  \/ ServerStops

\* The event loop runs the worker: each of its awaits is bounded by a timeout.
Fairness == WF_vars(Worker)

Spec == Init /\ [][Next]_vars
FairSpec == Spec /\ Fairness

-----------------------------------------------------------------------------
\* Jobs run one at a time in the order they were submitted, an interrupted one
\* again, and the end of a job is final, although finish_ai_job and fail_ai_job
\* do not look at the status they overwrite.
Queue == INSTANCE JobQueue WITH status <- status, MaxJobs <- MaxJobs
QueueSpec == Queue!Spec

\* A job that shows as completed has stored its result, and no result is stored
\* twice unless the server stopped in between.  (the result is committed before
\* finish_ai_job)
ResultsAreStored ==
  \A j \in Jobs : kind[j] = "assessment" =>
    /\ status[j] = "completed" => effects[j] >= 1
    /\ effects[j] <= 1 + stops

\* A claim leaves the window of the next digest only in a mail, unless it came
\* in while a digest was read or under way, or had outlived the interval when one
\* was read before the first mark.  (mark_victim_digest_sent stores the time after
\* the mail, not the time of the SELECT, and without a mark the window has an end)
NewsIsMailed ==
  \A c \in Claims : claim[c] = "stored" /\ c \notin newer =>
    mailed[c] > 0 \/ c \in exposed \/ c \in outlived

\* A claim is mailed twice only by two digests at once, which nothing excludes,
\* or when the mark of the first mail is missing, because the server stopped or
\* the sending failed after the mail was taken.
MailedTwiceOnlyBeside ==
  \A c \in Claims : mailed[c] > 1 => c \in repeated

\* The scheduler's task ends only if, while its pass was under way, the mode or
\* an allowlist was switched, a claim was stored or a client deleted beside its
\* collections, or its digest broke.  (the mode it acts on was read before the
\* collections; run_one does not catch an IntegrityError, and the loop catches
\* nothing of a digest but an HTTPException)
SchedulerEndsForCause ==
  scheduler.pc = "ended" =>
    \/ scheduler.switched \/ scheduler.posted \/ scheduler.deleted
    \/ digest["scheduler"].step = "broken"

\* Every submitted job ends, across restarts.
JobsEnd == \A j \in Jobs : status[j] = "queued" ~> status[j] \in Ended
=============================================================================
