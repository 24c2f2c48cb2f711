--------------------------- MODULE CaptureControl ---------------------------
(***************************************************************************)
(* The isolated capture pipeline: the control plane's tables capture_jobs  *)
(* and dls_targets, the threads that queue work, the request handlers of   *)
(* the worker's internal API, the worker process itself, and the evidence  *)
(* files both sides share.                                                 *)
(*                                                                         *)
(* A handler runs in a thread of the server.  A SELECT outside of a write  *)
(* transaction and the UPDATE after it are two steps, and a handler goes   *)
(* on when the worker that sent the request has given up, was stopped or   *)
(* was killed.  The worker is one sequential process with one call         *)
(* outstanding at a time.                                                  *)
(***************************************************************************)
EXTENDS Naturals

CONSTANTS
  Targets,          \* rows of dls_targets, all of them public victim lists
  NoTarget,         \* the target of a job that does not exist yet
  Requesters,       \* threads that queue captures: analysts' requests, scheduler
  MaxJobs,          \* bound: rows ever inserted into capture_jobs
  MaxRuns,          \* bound: evidence path names in use at one time
  MaxSlots,         \* bound: request handlers at work at one time
  MaxFaults,        \* bound: timeouts, interrupts, kills and server crashes
  LateCalls,        \* may a request that its worker gave up still be executed?
  LongErrorTargets  \* sites whose errors are texts of 0 or over 500 characters

ASSUME TargetsAssumption == NoTarget \notin Targets /\ LongErrorTargets \subseteq Targets
ASSUME BoundsAssumption ==
  /\ MaxJobs \in Nat /\ MaxRuns \in Nat /\ MaxSlots \in Nat /\ MaxFaults \in Nat
ASSUME LateCallsAssumption == LateCalls \in BOOLEAN

Jobs == 1 .. MaxJobs     \* in the order of requested_at
Runs == 1 .. MaxRuns     \* one per reservation: group directory and started_at
Slots == 1 .. MaxSlots
NoJob == 0
NoRun == 0
NoSlot == 0

Status == {"unused", "queued", "running", "completed", "failed", "cleared"}
Readiness == {"not_assessed", "not_ready", "ready"}  \* "ready": also "review"
Outcome == {"none", "completed", "failed"}
Artifacts == {"pages", "text"}   \* the screenshots of a run, its text record

VARIABLES
  mode,       \* app_settings.operating_mode; "passive": every other mode
  allowed,    \* dls_targets.capture_enabled, the analyst's allowlist
  catalog,    \* dls_targets.enabled and .available: "up", "down" or "retired"
  last,       \* dls_targets.last_capture_status
  status,     \* capture_jobs.status; "unused" no row yet, "cleared" row deleted
  jobTarget,  \* capture_jobs.target_id
  evidence,   \* the run whose files capture_jobs.screenshot_paths/text_path name
  readiness,  \* capture_jobs.evidence_readiness
  files,      \* data/captures: the artifacts each run has on disk
  owner,      \* the job each run captured for
  requester,  \* the threads that are queueing captures
  calls,      \* the request handlers of the server
  worker,     \* the capture worker process
  faults      \* how many faults have happened

jobVars == <<status, jobTarget, evidence, readiness>>
targetVars == <<allowed, catalog, last>>
fileVars == <<files, owner>>
vars == <<mode, allowed, catalog, last, status, jobTarget, evidence, readiness,
          files, owner, requester, calls, worker, faults>>

FreeCall == [op |-> "none", pc |-> "free", job |-> NoJob, run |-> NoRun,
             valid |-> TRUE, verdict |-> "not_assessed"]

CallRecord ==
  [op : {"none", "requeue", "claim", "context", "complete", "fail", "overview"},
   pc : {"free", "received", "checked", "selected", "committed", "assessing",
         "ok", "refused"},
   job : Jobs \cup {NoJob}, run : Runs \cup {NoRun},
   valid : BOOLEAN,           \* does the body pass the endpoint's schema?
   verdict : Readiness]

\* A worker between jobs.
Parked(pc) == [pc |-> pc, job |-> NoJob, run |-> NoRun, known |-> FALSE,
               stopping |-> FALSE, valid |-> TRUE, call |-> NoSlot]

WorkerRecord ==
  [pc : {"stopped", "down", "recover", "requeue", "poll", "claim", "reserved",
         "context", "capture", "captured", "written", "complete", "cleanup",
         "report", "fail"},
   job : Jobs \cup {NoJob}, run : Runs \cup {NoRun},
   known : BOOLEAN,           \* has screenshot_paths been assigned?
   stopping : BOOLEAN,        \* in the CancelledError branch
   valid : BOOLEAN,           \* is str(error) between 1 and 500 characters?
   call : Slots \cup {NoSlot}]

RequesterRecord ==
  [pc : {"idle", "target", "mode", "insert"}, batch : SUBSET Targets,
   target : Targets \cup {NoTarget}]

IdleRequester == [pc |-> "idle", batch |-> {}, target |-> NoTarget]

TypeOK ==
  /\ mode \in {"active", "passive"}
  /\ allowed \in [Targets -> BOOLEAN]
  /\ catalog \in [Targets -> {"up", "down", "retired"}]
  /\ last \in [Targets -> Outcome]
  /\ status \in [Jobs -> Status]
  /\ jobTarget \in [Jobs -> Targets \cup {NoTarget}]
  /\ evidence \in [Jobs -> Runs \cup {NoRun}]
  /\ readiness \in [Jobs -> Readiness]
  /\ files \in [Runs -> SUBSET Artifacts]
  /\ owner \in [Runs -> Jobs \cup {NoJob}]
  /\ requester \in [Requesters -> RequesterRecord]
  /\ calls \in [Slots -> CallRecord]
  /\ worker \in WorkerRecord
  /\ faults \in 0 .. MaxFaults

Init ==
  /\ mode = "active"
  /\ allowed = [t \in Targets |-> TRUE]
  /\ catalog = [t \in Targets |-> "up"]
  /\ last = [t \in Targets |-> "none"]
  /\ status = [j \in Jobs |-> "unused"]
  /\ jobTarget = [j \in Jobs |-> NoTarget]
  /\ evidence = [j \in Jobs |-> NoRun]
  /\ readiness = [j \in Jobs |-> "not_assessed"]
  /\ files = [r \in Runs |-> {}]
  /\ owner = [r \in Runs |-> NoJob]
  /\ requester = [q \in Requesters |-> IdleRequester]
  /\ calls = [s \in Slots |-> FreeCall]
  /\ worker = Parked("down")
  /\ faults = 0

-----------------------------------------------------------------------------
(* The operators' switches and the catalog. *)

\* update_runtime_settings: one transaction.
SetMode(m) ==
  /\ mode # m
  /\ mode' = m
  /\ UNCHANGED <<targetVars, jobVars, fileVars, requester, calls, worker, faults>>

\* update_dls_target and update_dls_targets: the allowlist of any targets.
SetAllowed(S, b) ==
  /\ allowed' = [t \in Targets |-> IF t \in S THEN b ELSE allowed[t]]
  /\ UNCHANGED <<mode, catalog, last, jobVars, fileVars, requester, calls, worker, faults>>

\* sync_dls_catalog: a union of the providers lists some targets; when it is
\* complete the others are retired, and capture_enabled is never touched.
SyncCatalog(listed, retireMissing) ==
  /\ catalog' = [t \in Targets |->
                   IF t \in DOMAIN listed THEN listed[t]
                   ELSE IF retireMissing THEN "retired" ELSE catalog[t]]
  /\ UNCHANGED <<mode, allowed, last, jobVars, fileVars, requester, calls, worker, faults>>

\* A plausible error: a clean-up of the queue takes the reserved rows along.
ClearUnfinished(S) ==
  /\ S \subseteq {"queued", "failed"}
  /\ S # {}
  /\ status' = [j \in Jobs |-> IF status[j] \in S \cup {"running"} THEN "cleared"
                                                                   ELSE status[j]]
  /\ UNCHANGED <<mode, targetVars, jobTarget, evidence, readiness, fileVars,
                 requester, calls, worker, faults>>

\* clear_capture_jobs: DELETE of the queued rows, the failed rows or both.
ClearJobs(S) ==
  /\ S \subseteq {"queued", "failed"}
  /\ S # {}
  /\ status' = [j \in Jobs |-> IF status[j] \in S THEN "cleared" ELSE status[j]]
  /\ evidence' = [j \in Jobs |-> IF status[j] \in S THEN NoRun ELSE evidence[j]]
  /\ UNCHANGED <<mode, targetVars, jobTarget, readiness, fileVars, requester,
                 calls, worker, faults>>

-----------------------------------------------------------------------------
(* Queueing: queue_capture reads the target and then the mode on two        *)
(* connections and inserts on a third.                                      *)

Active(t) ==
  \E j \in Jobs : jobTarget[j] = t /\ status[j] \in {"queued", "running"}

\* queue_direct_capture, or queue_alert_capture after it chose the target.
RequestCapture(q, t) ==
  /\ requester[q].pc = "idle"
  /\ requester' = [requester EXCEPT ![q] = [pc |-> "target", batch |-> {t},
                                            target |-> NoTarget]]
  /\ UNCHANGED <<mode, targetVars, jobVars, fileVars, calls, worker, faults>>

\* schedule_active_captures: the SELECT of the targets of one pass.
ScheduleSelect(q) ==
  LET due == {t \in Targets : allowed[t] /\ catalog[t] = "up" /\ ~Active(t)}
  IN /\ requester[q].pc = "idle"
     /\ due # {}
     /\ requester' = [requester EXCEPT ![q] = [pc |-> "target", batch |-> due,
                                               target |-> NoTarget]]
     /\ UNCHANGED <<mode, targetVars, jobVars, fileVars, calls, worker, faults>>

\* queue_capture's read of the target; PermissionError ends the whole pass.
QueueTarget(q, t) ==
  /\ requester[q].pc = "target"
  /\ t \in requester[q].batch
  /\ requester' = [requester EXCEPT ![q] =
       IF allowed[t] THEN [@ EXCEPT !.pc = "mode", !.target = t]
                     ELSE IdleRequester]
  /\ UNCHANGED <<mode, targetVars, jobVars, fileVars, calls, worker, faults>>

\* queue_capture's read of the mode.
QueueMode(q) ==
  /\ requester[q].pc = "mode"
  /\ requester' = [requester EXCEPT ![q] =
       IF mode = "active" THEN [@ EXCEPT !.pc = "insert"] ELSE IdleRequester]
  /\ UNCHANGED <<mode, targetVars, jobVars, fileVars, calls, worker, faults>>

\* queue_capture's INSERT of a new row; the pass goes on with its next target.
QueueInsert(q) ==
  /\ requester[q].pc = "insert"
  /\ \E j \in Jobs :
       /\ status[j] = "unused"
       /\ \A i \in Jobs : status[i] = "unused" => j <= i
       /\ status' = [status EXCEPT ![j] = "queued"]
       /\ jobTarget' = [jobTarget EXCEPT ![j] = requester[q].target]
  /\ requester' = [requester EXCEPT ![q] =
       LET rest == requester[q].batch \ {requester[q].target}
       IN IF rest = {} THEN IdleRequester
          ELSE [pc |-> "target", batch |-> rest, target |-> NoTarget]]
  /\ UNCHANGED <<mode, targetVars, evidence, readiness, fileVars, calls, worker, faults>>

-----------------------------------------------------------------------------
(* The handlers of the worker's internal API. *)

\* The handler of slot s ends with record c; nobody hears an abandoned one.
Answer(s, c) ==
  calls' = [calls EXCEPT ![s] = IF worker.call = s THEN c ELSE FreeCall]

At(s, op, pc) == calls[s].op = op /\ calls[s].pc = pc

\* requeue_interrupted_capture_jobs: one UPDATE of every running row.
ServeRequeue(s) ==
  /\ At(s, "requeue", "received")
  /\ status' = [j \in Jobs |-> IF status[j] = "running" THEN "queued" ELSE status[j]]
  /\ Answer(s, [calls[s] EXCEPT !.pc = "ok"])
  /\ UNCHANGED <<mode, targetVars, jobTarget, evidence, readiness, fileVars,
                 requester, worker, faults>>

\* A plausible error: the catalog's availability decides about queued jobs too.
ClaimableOnlyIfUp ==
  {j \in Jobs : /\ status[j] = "queued"
                /\ \E t \in Targets : t = jobTarget[j] /\ allowed[t] /\ catalog[t] = "up"
                /\ mode = "active"}

\* A plausible error: only queueing looks at the mode.
ClaimableInAnyMode ==
  {j \in Jobs : /\ status[j] = "queued"
                /\ \E t \in Targets : t = jobTarget[j] /\ allowed[t] /\ catalog[t] # "retired"}

\* The rows claim_next_capture_job may take.
Claimable ==
  {j \in Jobs : /\ status[j] = "queued"
                /\ \E t \in Targets : /\ t = jobTarget[j]
                                      /\ allowed[t]
                                      /\ catalog[t] # "retired"
                /\ mode = "active"}

\* claim_next_capture_job's SELECT of the oldest such row.
ClaimSelect(s) ==
  /\ At(s, "claim", "received")
  /\ \/ /\ Claimable = {}
        /\ Answer(s, [calls[s] EXCEPT !.pc = "ok"])
     \/ \E j \in Claimable :
          /\ \A i \in Claimable : j <= i
          /\ calls' = [calls EXCEPT ![s] = [@ EXCEPT !.pc = "selected", !.job = j]]
  /\ UNCHANGED <<mode, targetVars, jobVars, fileVars, requester, worker, faults>>

\* A plausible error: names are not looked up in the directory.
RunsNotInUse == {r \in Runs : worker.run # r /\ \A s \in Slots : calls[s].run # r}

\* A run's path names can be taken again once no row, worker or call names them.
FreeRuns ==
  {r \in Runs : /\ \A j \in Jobs : evidence[j] # r
                /\ \A s \in Slots : calls[s].run # r
                /\ worker.run # r}

\* A plausible error: the UPDATE names the row only.
ClaimUpdateById(s) ==
  /\ At(s, "claim", "selected")
  /\ \E r \in FreeRuns :
       /\ \A i \in FreeRuns : r <= i
       /\ status' = [status EXCEPT ![calls[s].job] = "running"]
       /\ files' = [files EXCEPT ![r] = {}]
       /\ owner' = [owner EXCEPT ![r] = calls[s].job]
       /\ Answer(s, [calls[s] EXCEPT !.pc = "ok", !.run = r])
  /\ UNCHANGED <<mode, targetVars, jobTarget, evidence, readiness, requester,
                 worker, faults>>

\* Its UPDATE ... WHERE id = ? AND status = 'queued', and its answer.
ClaimUpdate(s) ==
  /\ At(s, "claim", "selected")
  /\ LET j == calls[s].job
     IN \/ /\ status[j] = "queued"
           /\ \E r \in FreeRuns :
                /\ \A i \in FreeRuns : r <= i
                /\ status' = [status EXCEPT ![j] = "running"]
                /\ files' = [files EXCEPT ![r] = {}]
                /\ owner' = [owner EXCEPT ![r] = j]
                /\ Answer(s, [calls[s] EXCEPT !.pc = "ok", !.run = r])
        \/ /\ status[j] # "queued"
           /\ Answer(s, [calls[s] EXCEPT !.pc = "ok", !.job = NoJob])
           /\ UNCHANGED <<status, fileVars>>
  /\ UNCHANGED <<mode, targetVars, jobTarget, evidence, readiness, requester,
                 worker, faults>>

\* capture_worker_job_context: 404 or 409 unless the row is running.
ServeContext(s) ==
  /\ At(s, "context", "received")
  /\ Answer(s, [calls[s] EXCEPT !.pc =
       IF status[calls[s].job] = "running" THEN "ok" ELSE "refused"])
  /\ UNCHANGED <<mode, targetVars, jobVars, fileVars, requester, worker, faults>>

\* complete_capture_job's checks that every artifact it was sent is a file.
CompleteCheckFiles(s) ==
  /\ At(s, "complete", "received")
  /\ IF Artifacts \subseteq files[calls[s].run]
       THEN calls' = [calls EXCEPT ![s].pc = "checked"]
       ELSE Answer(s, [calls[s] EXCEPT !.pc = "refused"])
  /\ UNCHANGED <<mode, targetVars, jobVars, fileVars, requester, worker, faults>>

\* Its SELECT of the row's status.
CompleteSelect(s) ==
  /\ At(s, "complete", "checked")
  /\ IF status[calls[s].job] = "running"
       THEN calls' = [calls EXCEPT ![s].pc = "selected"]
       ELSE Answer(s, [calls[s] EXCEPT !.pc = "refused"])
  /\ UNCHANGED <<mode, targetVars, jobVars, fileVars, requester, worker, faults>>

\* A plausible error: the target's outcome is not written with the row.
CompleteRowOnly(s) ==
  /\ At(s, "complete", "selected")
  /\ status' = [status EXCEPT ![calls[s].job] = "completed"]
  /\ evidence' = [evidence EXCEPT ![calls[s].job] = calls[s].run]
  /\ calls' = [calls EXCEPT ![s].pc = "committed"]
  /\ UNCHANGED <<mode, targetVars, jobTarget, readiness, fileVars, requester,
                 worker, faults>>

\* Its UPDATE ... WHERE id = ? and the target's, in one transaction; the row
\* may be gone, its status is not looked at again.
CompleteUpdate(s) ==
  /\ At(s, "complete", "selected")
  /\ LET j == calls[s].job
     IN IF status[j] = "cleared"
          THEN /\ Answer(s, [calls[s] EXCEPT !.pc = "refused"])
               /\ UNCHANGED <<status, evidence, last>>
          ELSE /\ status' = [status EXCEPT ![j] = "completed"]
               /\ evidence' = [evidence EXCEPT ![j] = calls[s].run]
               /\ last' = [last EXCEPT ![jobTarget[j]] = "completed"]
               /\ calls' = [calls EXCEPT ![s].pc = "committed"]
  /\ UNCHANGED <<mode, allowed, catalog, jobTarget, readiness, fileVars,
                 requester, worker, faults>>

\* A handler ends by reading the row it answers with: 404 if it was cleared.
RowAnswer(s) ==
  [calls[s] EXCEPT !.pc = IF status[calls[s].job] = "cleared" THEN "refused" ELSE "ok"]

\* assess_capture_job_evidence, at the end of complete_capture_job or for the
\* overview: read the row and its text file, and judge it.
AssessRead(s) ==
  /\ calls[s].pc = "committed"
  /\ LET j == calls[s].job
     IN IF status[j] # "completed"
          THEN Answer(s, RowAnswer(s))
          ELSE \E v \in {"not_ready", "ready"} :
                 /\ v = "ready" => \E r \in Runs : r = evidence[j] /\ "text" \in files[r]
                 /\ calls' = [calls EXCEPT ![s] = [@ EXCEPT !.pc = "assessing", !.verdict = v]]
  /\ UNCHANGED <<mode, targetVars, jobVars, fileVars, requester, worker, faults>>

\* A plausible error: the verdict's UPDATE names the row only.
AssessAnyRow(s) ==
  /\ calls[s].pc = "assessing"
  /\ readiness' = [readiness EXCEPT ![calls[s].job] = calls[s].verdict]
  /\ Answer(s, [calls[s] EXCEPT !.pc = "ok"])
  /\ UNCHANGED <<mode, targetVars, status, jobTarget, evidence, fileVars,
                 requester, worker, faults>>

\* The verdict's UPDATE ... WHERE id = ? AND status = 'completed'.
AssessWrite(s) ==
  /\ calls[s].pc = "assessing"
  /\ LET j == calls[s].job
     IN readiness' = [readiness EXCEPT ![j] =
                        IF status[j] = "completed" THEN calls[s].verdict ELSE @]
  /\ Answer(s, RowAnswer(s))
  /\ UNCHANGED <<mode, targetVars, status, jobTarget, evidence, fileVars,
                 requester, worker, faults>>

\* A plausible error: a failure is accepted for a row in any status.
FailAnyRow(s) ==
  /\ At(s, "fail", "received")
  /\ calls' = [calls EXCEPT ![s].pc = "selected"]
  /\ UNCHANGED <<mode, targetVars, jobVars, fileVars, requester, worker, faults>>

\* capture_worker_fail: the body's schema, then fail_capture_job's SELECT.
FailSelect(s) ==
  /\ At(s, "fail", "received")
  /\ IF calls[s].valid /\ status[calls[s].job] = "running"
       THEN calls' = [calls EXCEPT ![s].pc = "selected"]
       ELSE Answer(s, [calls[s] EXCEPT !.pc = "refused"])
  /\ UNCHANGED <<mode, targetVars, jobVars, fileVars, requester, worker, faults>>

\* A plausible error: the failed target keeps its last outcome.
FailRowOnly(s) ==
  /\ At(s, "fail", "selected")
  /\ status' = [status EXCEPT ![calls[s].job] = "failed"]
  /\ readiness' = [readiness EXCEPT ![calls[s].job] = "not_ready"]
  /\ Answer(s, [calls[s] EXCEPT !.pc = "ok"])
  /\ UNCHANGED <<mode, targetVars, jobTarget, evidence, fileVars, requester,
                 worker, faults>>

\* A plausible error: the row is given the status where it wants a readiness.
FailUpdateSwapped(s) ==
  /\ At(s, "fail", "selected")
  /\ status' = [status EXCEPT ![calls[s].job] = "failed"]
  /\ readiness' = [readiness EXCEPT ![calls[s].job] = "failed"]
  /\ last' = [last EXCEPT ![jobTarget[calls[s].job]] = "failed"]
  /\ Answer(s, [calls[s] EXCEPT !.pc = "ok"])
  /\ UNCHANGED <<mode, allowed, catalog, jobTarget, evidence, fileVars,
                 requester, worker, faults>>

\* Its UPDATE ... WHERE id = ? and the target's; a clean-up may remove the failed
\* row before the handler reads it to answer.
FailUpdate(s) ==
  /\ At(s, "fail", "selected")
  /\ LET j == calls[s].job
     IN IF status[j] = "cleared"
          THEN /\ Answer(s, [calls[s] EXCEPT !.pc = "refused"])
               /\ UNCHANGED <<status, readiness, last>>
          ELSE /\ status' = [status EXCEPT ![j] = "failed"]
               /\ readiness' = [readiness EXCEPT ![j] = "not_ready"]
               /\ last' = [last EXCEPT ![jobTarget[j]] = "failed"]
               /\ \E pc \in {"ok", "refused"} : Answer(s, [calls[s] EXCEPT !.pc = pc])
  /\ UNCHANGED <<mode, allowed, catalog, jobTarget, evidence, fileVars,
                 requester, worker, faults>>

FreeSlot(s) ==
  /\ calls[s].pc = "free"
  /\ \A k \in Slots : calls[k].pc = "free" => s <= k

\* capture_overview judges the completed rows that no one has judged yet.
Overview(j) ==
  /\ status[j] = "completed"
  /\ readiness[j] = "not_assessed"
  /\ \E s \in Slots :
       /\ FreeSlot(s)
       /\ calls' = [calls EXCEPT ![s] = [FreeCall EXCEPT !.op = "overview",
                                           !.pc = "committed", !.job = j]]
  /\ UNCHANGED <<mode, targetVars, jobVars, fileVars, requester, worker, faults>>

-----------------------------------------------------------------------------
(* The worker process. *)

\* The worker sends a request and waits in state pc.
Send(op, pc) ==
  \E s \in Slots :
    /\ FreeSlot(s)
    /\ calls' = [calls EXCEPT ![s] =
                   [FreeCall EXCEPT !.op = op, !.pc = "received",
                      !.job = worker.job, !.run = worker.run,
                      !.valid = worker.valid]]
    /\ worker' = [worker EXCEPT !.pc = pc, !.call = s]

\* A plausible error: the worker polls at once, whatever it left behind.
WorkerStartPolling(pc) ==
  /\ worker.pc = pc
  /\ worker' = Parked("poll")
  /\ UNCHANGED <<mode, targetVars, jobVars, fileVars, requester, calls, faults>>

\* capture_worker_loop starts; a killed process is restarted by the service.
WorkerStart(pc) ==
  /\ worker.pc = pc
  /\ worker' = Parked("recover")
  /\ UNCHANGED <<mode, targetVars, jobVars, fileVars, requester, calls, faults>>

\* A plausible error: the worker does not wait for the requeueing.
WorkerSendUnawaited ==
  /\ \/ /\ worker.pc = "recover"
        /\ \E s \in Slots :
             /\ FreeSlot(s)
             /\ calls' = [calls EXCEPT ![s] = [FreeCall EXCEPT !.op = "requeue",
                                                               !.pc = "received"]]
             /\ worker' = Parked("poll")
     \/ worker.pc = "poll" /\ Send("claim", "claim")
     \/ worker.pc = "reserved" /\ Send("context", "context")
     \/ worker.pc = "written" /\ Send("complete", "complete")
     \/ worker.pc = "report" /\ Send("fail", "fail")
  /\ UNCHANGED <<mode, targetVars, jobVars, fileVars, requester, faults>>

\* The calls of capture_worker_loop and run_capture_job, in their order.
WorkerSend ==
  /\ \/ worker.pc = "recover" /\ Send("requeue", "requeue")
     \/ worker.pc = "poll" /\ Send("claim", "claim")
     \/ worker.pc = "reserved" /\ Send("context", "context")
     \/ worker.pc = "written" /\ Send("complete", "complete")
     \/ worker.pc = "report" /\ Send("fail", "fail")
  /\ UNCHANGED <<mode, targetVars, jobVars, fileVars, requester, faults>>

\* A plausible error: the outer loop goes on polling after an error.
RaisedPolling(valid) ==
  IF worker.pc = "complete"
    THEN [worker EXCEPT !.pc = "cleanup", !.valid = valid, !.call = NoSlot]
    ELSE Parked(IF worker.stopping THEN "stopped" ELSE "poll")

\* What the worker becomes when the call raises: an error of the completion is
\* handled by run_capture_job's except branch, every other one ends in the outer
\* loop.
Raised(valid) ==
  IF worker.pc = "complete"
    THEN [worker EXCEPT !.pc = "cleanup", !.valid = valid, !.call = NoSlot]
    ELSE Parked(IF worker.stopping THEN "stopped" ELSE "recover")

\* The worker gets the answer it waits for.
WorkerReceive ==
  /\ worker.call # NoSlot
  /\ LET c == calls[worker.call]
     IN \/ /\ c.pc = "ok"
           /\ \/ /\ worker.pc \in {"requeue", "complete"}
                 /\ worker' = Parked("poll")
              \/ /\ worker.pc = "claim"
                 /\ c.job = NoJob
                 /\ worker' = Parked("poll")
              \/ /\ worker.pc = "claim"
                 /\ c.job # NoJob
                 /\ worker' = [Parked("reserved") EXCEPT !.job = c.job, !.run = c.run]
              \/ /\ worker.pc = "context"
                 /\ worker' = [worker EXCEPT !.pc = "capture", !.call = NoSlot]
              \/ /\ worker.pc = "fail"
                 /\ worker' = Parked(IF worker.stopping THEN "stopped" ELSE "poll")
        \/ /\ c.pc = "refused"
           /\ worker' = Raised(TRUE)
  /\ calls' = [calls EXCEPT ![worker.call] = FreeCall]
  /\ UNCHANGED <<mode, targetVars, jobVars, fileVars, requester, faults>>

\* capture_review_pages writes pages while capture_interactive_evidence runs.
WritePages ==
  /\ worker.pc = "capture"
  /\ files' = [files EXCEPT ![worker.run] = @ \cup {"pages"}]
  /\ UNCHANGED <<mode, targetVars, jobVars, owner, requester, calls, worker, faults>>

\* capture_interactive_evidence returns and its paths are assigned.
PagesReturned ==
  /\ worker.pc = "capture"
  /\ "pages" \in files[worker.run]
  /\ worker' = [worker EXCEPT !.pc = "captured", !.known = TRUE]
  /\ UNCHANGED <<mode, targetVars, jobVars, fileVars, requester, calls, faults>>

\* The text record is accepted and written.
WriteText ==
  /\ worker.pc = "captured"
  /\ files' = [files EXCEPT ![worker.run] = @ \cup {"text"}]
  /\ worker' = [worker EXCEPT !.pc = "written"]
  /\ UNCHANGED <<mode, targetVars, jobVars, owner, requester, calls, faults>>

\* Tor, the browser, the page, OCR or the evidence check raises.
CaptureRaises ==
  /\ worker.pc \in {"capture", "captured", "written"}
  /\ worker' = [worker EXCEPT !.pc = "cleanup",
                  !.valid = jobTarget[worker.job] \notin LongErrorTargets]
  /\ UNCHANGED <<mode, targetVars, jobVars, fileVars, requester, calls, faults>>

\* The except branches unlink the paths they know and the text record.
CleanUp ==
  /\ worker.pc = "cleanup"
  /\ files' = [files EXCEPT ![worker.run] = @ \ (IF worker.known THEN Artifacts
                                                                 ELSE {"text"})]
  /\ worker' = [worker EXCEPT !.pc = "report"]
  /\ UNCHANGED <<mode, targetVars, jobVars, owner, requester, calls, faults>>

-----------------------------------------------------------------------------
(* Faults. *)

\* Whether the worker may stop waiting now.  With LateCalls it may at any time
\* and the handler goes on; without, only for a handler that has nothing left
\* to change but the readiness of a completed job.
MayGiveUp ==
  ~LateCalls => \A s \in Slots : s = worker.call =>
                   calls[s].pc \in {"committed", "assessing", "ok", "refused"}

\* The worker stops waiting: an answer that is there already is lost.
GiveUp ==
  /\ MayGiveUp
  /\ calls' = [s \in Slots |-> IF s = worker.call /\ calls[s].pc \in {"ok", "refused"}
                                 THEN FreeCall ELSE calls[s]]

Fault ==
  /\ faults < MaxFaults
  /\ faults' = faults + 1

\* The HTTP client's 30 seconds are over; str() of its exception is empty.
Timeout ==
  /\ Fault
  /\ worker.call # NoSlot
  /\ GiveUp
  /\ worker' = Raised(FALSE)
  /\ UNCHANGED <<mode, targetVars, jobVars, fileVars, requester>>

\* Ctrl-C: run_capture_job's CancelledError branch cleans up and reports with a
\* fixed message; anywhere else the process ends.
Interrupt ==
  /\ Fault
  /\ worker.pc \notin {"stopped", "down"}
  /\ ~worker.stopping
  /\ GiveUp
  /\ worker' = IF worker.pc \in {"capture", "captured", "written", "complete"}
                 THEN [worker EXCEPT !.pc = "cleanup", !.stopping = TRUE,
                         !.valid = TRUE, !.call = NoSlot]
                 ELSE Parked("stopped")
  /\ UNCHANGED <<mode, targetVars, jobVars, fileVars, requester>>

\* asyncio.run cancels the capture task again once the heartbeat's has ended:
\* the CancelledError branch may be cut short at any of its awaits.
CancelAgain ==
  /\ worker.stopping
  /\ GiveUp
  /\ worker' = Parked("stopped")
  /\ UNCHANGED <<mode, targetVars, jobVars, fileVars, requester, faults>>

\* The worker process is killed.
Kill ==
  /\ Fault
  /\ worker.pc \notin {"stopped", "down"}
  /\ GiveUp
  /\ worker' = Parked("down")
  /\ UNCHANGED <<mode, targetVars, jobVars, fileVars, requester>>

\* The control plane dies and comes back: its threads are gone, a waiting
\* worker sees the connection fail.
ServerCrash ==
  /\ Fault
  /\ calls' = [s \in Slots |-> FreeCall]
  /\ requester' = [q \in Requesters |-> IdleRequester]
  /\ worker' = IF worker.call = NoSlot THEN worker ELSE Raised(TRUE)
  /\ UNCHANGED <<mode, targetVars, jobVars, fileVars>>

-----------------------------------------------------------------------------
Handler(s) ==
  \/ ServeRequeue(s) \/ ClaimSelect(s) \/ ClaimUpdate(s) \/ ServeContext(s)
  \/ CompleteCheckFiles(s) \/ CompleteSelect(s) \/ CompleteUpdate(s)
  \/ AssessRead(s) \/ AssessWrite(s)
  \/ FailSelect(s) \/ FailUpdate(s)

WorkerStep ==
  \/ WorkerSend \/ WorkerReceive
  \/ WritePages \/ PagesReturned \/ WriteText \/ CaptureRaises \/ CleanUp

Listings == UNION {[S -> {"up", "down", "retired"}] : S \in SUBSET Targets}

Operators ==
  \/ \E m \in {"active", "passive"} : SetMode(m)
  \/ \E S \in SUBSET Targets, b \in BOOLEAN : SetAllowed(S, b)
  \/ \E listed \in Listings, b \in BOOLEAN : SyncCatalog(listed, b)
  \/ \E S \in SUBSET {"queued", "failed"} : ClearJobs(S)
  \/ \E q \in Requesters, t \in Targets : RequestCapture(q, t)
  \/ \E q \in Requesters : ScheduleSelect(q)

Queueing(q) ==
  (\E t \in Targets : QueueTarget(q, t)) \/ QueueMode(q) \/ QueueInsert(q)

Faults == Timeout \/ Interrupt \/ CancelAgain \/ Kill \/ ServerCrash

Next ==
  \/ Operators
  \/ \E q \in Requesters : Queueing(q)
  \/ \E s \in Slots : Handler(s)
  \/ \E j \in Jobs : Overview(j)
  \/ \E pc \in {"down", "stopped"} : WorkerStart(pc)
  \/ WorkerStep
  \/ Faults

Spec == Init /\ [][Next]_vars

\* Threads of the server run, the worker's event loop runs and every step of a
\* capture is bounded by a timeout, the service manager restarts a killed
\* worker.  Analysts, a stopped worker and faults owe nothing.
Fairness ==
  /\ \A s \in Slots : WF_vars(Handler(s))
  /\ \A q \in Requesters : WF_vars(Queueing(q))
  /\ WF_vars(WorkerStep)
  /\ WF_vars(WorkerStart("down"))

FairSpec == Spec /\ Fairness

-----------------------------------------------------------------------------
(* Properties of every execution, late requests and faults included. *)

\* Evidence once recorded as complete is never captured again nor deleted by a
\* queue clean-up: a completed row can only be overwritten by a failure report
\* whose SELECT came first.  (guarded UPDATE of claim_next_capture_job, WHERE
\* clauses of requeue_interrupted_capture_jobs and clear_capture_jobs)
CompletedIsNeverRecaptured ==
  [][\A j \in Jobs : status[j] = "completed" => status'[j] \in {"completed", "failed"}]_vars

\* An assessment never presents a row as usable evidence that is not completed,
\* though it reads the row and writes its verdict in two transactions while
\* other reports arrive.  (WHERE status = 'completed' of the verdict's UPDATE,
\* fail_capture_job's reset of evidence_readiness)
ReadyOnlyIfCompleted ==
  \A j \in Jobs : readiness[j] = "ready" => status[j] = "completed"

\* The catalog shows a last capture as completed only while a completed row of
\* that target exists, in whatever order reports arrive.  (complete and
\* fail_capture_job update both tables in one transaction)
LastOutcomeJustified ==
  \A t \in Targets : last[t] = "completed" =>
    \E j \in Jobs : jobTarget[j] = t /\ status[j] = "completed"

-----------------------------------------------------------------------------
(* Properties of executions in which no request outlives its worker, that   *)
(* is, with LateCalls = FALSE.                                              *)

Pending == {"received", "checked", "selected"}

\* Only the call the worker waits for can still change the row of a job.
OnlyTheWorkersCallPends ==
  \A s \in Slots : calls[s].pc \in Pending => worker.call = s

\* The call the worker waits for is the one of its state, about its job.
CallMatchesWorker ==
  worker.call # NoSlot =>
    /\ calls[worker.call].op = worker.pc
    /\ calls[worker.call].pc # "free"
    /\ worker.pc # "claim" => calls[worker.call].job = worker.job

\* A report that was admitted is written on a row that is still reserved.
\* (the SELECT of complete_capture_job and fail_capture_job)
AdmittedReportIsCurrent ==
  \A s \in Slots :
    calls[s].pc = "selected" /\ calls[s].op \in {"complete", "fail"} =>
      status[calls[s].job] = "running"

\* The worker spends Tor traffic only on a job that is reserved for it: no
\* clean-up, switch or recovery takes the reservation away underneath it.
CapturesOnlyItsReservation ==
  worker.pc \in {"reserved", "context", "capture", "captured", "written"} =>
    \E j \in Jobs : j = worker.job /\ status[j] = "running"

\* No reservation is forgotten: the worker holds it, is being told of it, or is
\* on its way to requeue everything.  (capture_worker_loop's outer loop)
NoReservationIsForgotten ==
  \A j \in Jobs : status[j] = "running" =>
    \/ worker.pc \in {"down", "stopped", "recover", "requeue"}
    \/ worker.job = j
    \/ /\ worker.pc = "claim"
       /\ \E s \in Slots : /\ s = worker.call
                           /\ At(s, "claim", "ok")
                           /\ calls[s].job = j

\* The parts that the two properties above rest on: what the worker holds in
\* each of its states, and what an answer that is under way to it implies.
WorkerShape ==
  /\ worker.pc \in {"down", "stopped", "recover", "requeue", "poll", "claim"} =>
       worker.job = NoJob
  /\ worker.pc \notin {"down", "stopped", "recover", "requeue", "poll", "claim"} =>
       worker.job \in Jobs /\ worker.run \in Runs
  /\ worker.pc \in {"requeue", "claim", "context", "complete", "fail"} <=>
       worker.call # NoSlot

AnswerShape ==
  \A s \in Slots : s = worker.call =>
    /\ At(s, "requeue", "ok") => \A j \in Jobs : status[j] # "running"
    /\ calls[s].pc \in {"committed", "assessing"} => calls[s].op = "complete"
    /\ At(s, "claim", "received") => calls[s].job = NoJob
    /\ At(s, "claim", "selected") => calls[s].job \in Jobs
    /\ At(s, "claim", "ok") /\ calls[s].job # NoJob =>
         status[calls[s].job] = "running" /\ calls[s].run \in Runs
    /\ calls[s].op = "complete" =>
         (calls[s].pc \in Pending <=> status[calls[s].job] = "running")
           \/ calls[s].pc = "refused"
    /\ At(s, "fail", "ok") => status[calls[s].job] # "running"

\* The inductive invariant of executions without late requests: every part
\* is needed to keep the others.
QueueInv ==
  /\ OnlyTheWorkersCallPends
  /\ CallMatchesWorker
  /\ WorkerShape
  /\ AnswerShape
  /\ AdmittedReportIsCurrent
  /\ CapturesOnlyItsReservation
  /\ NoReservationIsForgotten

\* The queue is the one CaptureLifecycle describes: the status of a job and the
\* outcome of its target move only together, and only along its life.
Lifecycle == INSTANCE CaptureLifecycle WITH
  Jobs <- Jobs, Targets <- Targets, NoTarget <- NoTarget,
  status <- status, jobTarget <- jobTarget, last <- last
LifecycleSpec == Lifecycle!Spec

\* A reservation ends, whatever answers are lost and whenever the worker is
\* killed, unless an analyst has stopped the worker.
ReservationsEnd ==
  \A j \in Jobs :
    status[j] = "running" ~> (status[j] # "running" \/ worker.pc = "stopped")

\* Switching the mode off drains the pipeline for good: the reservation under
\* way ends and is not renewed, even if its site's error cannot be reported and
\* the job is requeued again and again.  (the mode condition in the SELECT of
\* claim_next_capture_job, the outer loop of capture_worker_loop)
SwitchedOffDrains ==
  <>[](mode # "active" /\ worker.pc # "stopped") =>
    <>[](\A j \in Jobs : status[j] # "running")

\* "Worker must record a terminal job state and continue": while capture is on
\* and the worker runs, every queued job completes, fails or is cleared.
QueuedJobsSettle ==
  <>[](/\ mode = "active" /\ worker.pc # "stopped"
       /\ \A t \in Targets : allowed[t] /\ catalog[t] # "retired") =>
    \A j \in Jobs : status[j] = "queued" ~>
                      status[j] \in {"completed", "failed", "cleared"}

-----------------------------------------------------------------------------
(* Properties that hold only if nothing fails, or not at all. *)

\* Every completed job has its pages and its text on disk.
CompletedHasEvidence ==
  \A j \in Jobs : status[j] = "completed" =>
    \E r \in Runs : r = evidence[j] /\ Artifacts \subseteq files[r]

\* As long as no call, worker or server has failed, every completed job has its
\* pages and its text: no other run of the same second, and no clean-up of a
\* failed capture, takes a stored file away.  (evidence_path and the except
\* branches of run_capture_job)
FaultlessEvidenceIsKept == faults = 0 => CompletedHasEvidence

\* "Passive/Off mode is checked atomically before each queued job is reserved."
ReservedOnlyWhileActive ==
  [][\A j \in Jobs : status[j] # "running" /\ status'[j] = "running" =>
       mode = "active"]_vars
=============================================================================
