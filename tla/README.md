# ExtortSignal in TLA+

A verification project for ExtortSignal, the self-hosted monitor of public
ransomware claims under `src/`. It models the parts of the program whose
correctness depends on the order in which things happen, checks them with TLC on
small instances, and proves the main results with TLAPS for every value of the
constants.

## 1. The system

One FastAPI process (the *control plane*, `backend/ransom_monitor/main.py`) serves
an analyst's browser and runs three background tasks on its event loop: the
scheduler, the AI-job worker and the start-up tasks. Synchronous endpoints run in
the server's thread pool. All durable state is one SQLite database in WAL mode
(`database.py`), reached through `service.py`; every
`with self.database.connection()` block is one connection that commits at its end.
Python's `sqlite3` opens a transaction at the first write, so a `SELECT` that comes
before the first write of a block sees a state of its own: it is a separate step.
A second, optional process, the *capture worker* (`capture_worker_process.py`),
takes screenshots of allowlisted direct leak sites through Tor. It never touches
the database: it calls the control plane's internal API on the loopback interface
and shares the directory `data/captures` with it.

### Inventory

| Component | State | Operations | Hard because |
|---|---|---|---|
| Capture queue and evidence records (`service.py` 734-758, 3692-4509) | tables `capture_jobs`, `dls_targets`, setting `operating_mode` | queue, claim, requeue, complete, fail, clear, assess, overview, catalog sync, allowlist | several connections per operation, handlers that outlive their client, an analyst at work at any time |
| Isolated capture worker (`capture_worker*.py`) | its one job, evidence files | requeue, poll, capture, report, clean up | timeouts, interrupts, kills, restarts; a lost answer looks like a failure |
| Capture endpoints (`main.py` 2021-2190) | worker heartbeat | endpoints of the analyst and of the worker | threads |
| Alert desk (`service.py` 760-930, 2423-2700, 3013-3362; `matching.py`) | `clients`, `claims`, `alerts`, `analyst_feedback`, `source_observations` | ingest, match, rematch, triage, false positives, delete client | stale copies of clients and alerts, a crash between insert and match |
| Scheduler and victim digest (`main.py` 188-299, 575-618; `service.py` 667-732) | `last_*_at` settings | collect, sync, schedule captures, send the digest | settings read once before long awaits; a manual digest beside the scheduled one |
| AI and OSINT jobs (`main.py` 640-771; `service.py` 1835-1980) | `ai_jobs` | enqueue, claim, finish, fail, requeue at start | results stored before the job is finished, unguarded updates |
| Collectors and catalog (`collectors.py`, `source_metadata.py`) | source health, the union of mirrors | fetch feeds, reconcile providers, retire missing mirrors | a partial union must retire nothing |
| Organization profiles (`service.py` 1981-2260, `organization_context.py`) | `organization_profiles` | merge AI findings | merge of lists and dates |
| Pure algorithms (`capture_worker.py` 394-410, 486-535, `capture_analysis.py`, claim merge and leak-size rules in `service.py`) | none | page ranges, text comparison, merge priorities | boundaries |
| Secret store (`secret_store.py`) | one JSON file | get, set, delete | an unreadable file reads as empty |
| Web interface (`frontend/src/App.tsx`, `api.ts`, `types.ts`) | the browser's: what each page shows, its controls, its forms, calls under way | ask, poll, show an answer, edit and save, bulk operations | answers come in any order, some never; dialogs are closed and opened meanwhile; other analysts and the background tasks change what is shown |
| Web security, configuration, static knowledge, scripts | none of interest | | not modelled |

### What makes each part correct

* *Capture*: a row goes queued, running, then completed or failed and is cleared
  only when queued or failed; a completed row is never captured again; a
  reservation is never lost; the worker captures only for the row reserved for it;
  a target's stored outcome has a row to justify it; readiness is shown only of
  completed rows; every queued job ends while the worker runs; switching the mode
  off drains the pipeline; completed rows have their files.
* *Alert desk*: every stored claim a client matches has an alert, or a thread at work will
  raise it; what a reviewed alert says is not rewritten by a rematch; an alert goes
  only with its client or when it no longer matches; nothing refers to a row that is gone.
* *Scheduler, digest*: every claim is in exactly one digest; one failing task does
  not end the others.
* *AI jobs*: every job ends; a restart repeats work but loses none.
* *Web interface*: what the controls ask for is what is shown once nothing is under
  way; what is shown converges to what is stored; a call acts on what the analyst saw
  when he gave it, once; nothing that was typed or chosen goes unnoticed.
* *Catalog*: a partial union retires nothing.

## 2. Plan

| # | Module | Models | Composes | Status |
|---|---|---|---|---|
| 1 | `CaptureLifecycle` | the promise of the capture queue | | done |
| 1 | `CaptureControl` | queue, handlers, worker, files, faults | implements `CaptureLifecycle` | done |
| 1 | `CaptureControlProofs`, `CaptureQueueProofs` | theorems about both | | done |
| 2 | `AlertDesk` | clients, claims, alerts, triage, crashes between insert and match | | done but for the merge rules |
| 2 | `AlertDeskProofs`, `AlertDeskMatchProofs` | its theorems | | done |
| 3 | `JobQueue` | the promise of the table `ai_jobs` | | done |
| 3 | `BackgroundWork` | the AI jobs' worker, the scheduler's pass, the digest, restarts | implements `JobQueue` | done but for what is due when |
| 4 | `WebAlerts`, `WebDrawer`, `WebDrafts`, `WebClients`, `WebEditors`, `WebCenter` | the alert work in the browser | `WebCenter` has `JobQueue` as its server | done |
| 4 | `WebTriage` | a visit to one of them | all six | done |
| 5 | `WebFrame`, `WebTasks`, `WebSites`, `WebJobs`, `WebSettings`, `WebResearch`, `WebProfiles` | the frame and the other pages with state of their own | | done |
| 5 | `WebConsole` | a visit to one of them | all seven | done |
| 6 | `BackgroundWorkProofs` | theorems about 3 | | done |
| 6 | `WebLemmas` | sequences of calls, slices of ids, induction on naturals | | done |
| 6 | `WebTriageProofs`, `WebConsoleProofs` | theorems about 4 and 5 | | done |
| 7 | `Catalog` | union of two providers and retirement | feeds `SyncCatalog` of `CaptureControl` | planned |
| 8 | `PageRanges`, `ClaimMerge` | pure algorithms against reference definitions | | planned |

Every safety property and action property that holds in a run is now proved for all
values of the constants; what only TLC checks is liveness and the properties that
fail. Left: the modules 7 and 8, with two runs (no retirement by a partial union;
coverage of a page by `review_page_ranges`) and the theorems about them.

## 3. The capture pipeline

### State

`CaptureControl` has one variable per column or process:

| Variable | Code |
|---|---|
| `mode` | `app_settings.operating_mode`; "passive" stands for passive and off |
| `allowed`, `catalog`, `last` | `dls_targets.capture_enabled`; `enabled` and `available` as one of up, down, retired; `last_capture_status` |
| `status`, `jobTarget`, `evidence`, `readiness` | columns of `capture_jobs`; "unused" before the INSERT, "cleared" after the DELETE |
| `files`, `owner` | per run, the artifacts on disk, and the job it captured for |
| `requester` | threads inside `queue_capture`, alone or from `schedule_active_captures` |
| `calls` | the handlers of the internal API, one record per request at work |
| `worker` | the worker's program counter, its job, its run, the call it waits for |
| `faults` | how many faults have happened; a bound |

### Actions

* Operators: `SetMode`, `SetAllowed`, `SyncCatalog`, `ClearJobs`, `RequestCapture`,
  `ScheduleSelect`. One transaction each. `queue_alert_capture` chooses any target:
  its choice among candidates and its allowlist check are repeated or subsumed by
  `queue_capture`.
* Queueing: `QueueTarget`, `QueueMode`, `QueueInsert` are the three connections of
  `queue_capture`. A `PermissionError` ends the whole pass of
  `schedule_active_captures`, as its list comprehension does.
* Handlers: `ServeRequeue`, `ClaimSelect`/`ClaimUpdate`, `ServeContext`,
  `CompleteCheckFiles`/`CompleteSelect`/`CompleteUpdate`,
  `AssessRead`/`AssessWrite`, `FailSelect`/`FailUpdate`, `Overview`. A handler goes on
  when its worker has left; its slot is then freed without an answer.
* Worker: `WorkerSend` and `WorkerReceive` are its calls in the order of
  `capture_worker_loop` and `run_capture_job`; `WritePages`, `PagesReturned`,
  `WriteText`, `CaptureRaises`, `CleanUp` are a capture. Navigation, scrolling, OCR
  and comparison are a capture that goes on or raises.
* Faults: `Timeout` (30 s of the HTTP client), `Interrupt` (Ctrl-C cancels the
  capture task), `CancelAgain` (`asyncio.run` cancels it once more when `gather` has
  ended, which cuts the clean-up or the report short), `Kill` (killed or crashed, restarted by
  the service unit), `ServerCrash`.

### Abstractions

* Times appear only as orders: `requested_at` is the order of the inserts, which is
  also their number.
* A run is the path stem of one reservation. A stem can be taken again when no row,
  call or worker names it; the code's stems carry the second and, on a collision, the job.
  Because `evidence_path` runs in the worker right after the claim, with no other worker
  about, the choice is made in `ClaimUpdate`.
* "ready" also stands for "review": both present a row as usable.
* Negotiation portals are refused without a change of state: `Targets` are public
  victim lists. Requests while the worker counts as unavailable change nothing, so
  they and the heartbeat are left out.
* The text baseline a capture is compared with, and the leak size an assessment
  copies into a claim, are not modelled yet.
* `LongErrorTargets` are sites whose failures have a text of no or more than 500
  characters, such as the call log in a browser's timeout message. Without such
  sites the report's schema accepts every error but that of the HTTP client's own
  timeouts, whose text is empty.
* `LateCalls` decides how long handlers may live. With TRUE, the worker may stop
  waiting at any time and the handler goes on, however long after: nothing in the code
  cancels a thread. With FALSE it stops waiting only when the handler has
  committed, which is the normal case: a handler takes milliseconds, the client's timeout 30
  seconds, and only the assessment, which reads a text of up to 5 MB after the
  commit, can take long.

### Properties and runs

| Run | Instance | Checks |
|---|---|---|
| `CaptureFull` | 1 target, 2 jobs, 2 handlers, 1 fault, late calls | `TypeOK`, `ReadyOnlyIfCompleted`, `LastOutcomeJustified`, `CompletedIsNeverRecaptured`: true whatever the order |
| `CapturePrompt` | 1 target, 2 jobs, 2 handlers, 2 faults | `QueueInv` and its parts `AdmittedReportIsCurrent`, `CapturesOnlyItsReservation`, `NoReservationIsForgotten`; `LifecycleSpec`; `FaultlessEvidenceIsKept`: until a first fault, completed rows have their pages and text |
| `CaptureLive` | 1 target, 1 job, 2 handlers, 2 faults, fairness | `QueuedJobsSettle` |
| `CapturePause` | as above, a site with long errors, 1 fault, fairness | `ReservationsEnd`, `SwitchedOffDrains` |
| `CaptureLongErrors` | a site with long errors, no fault | `QueuedJobsSettle` is violated |
| `CaptureLostAnswer` | 1 fault | `CompletedHasEvidence` is violated |
| `CaptureSwitchOff` | no fault | `ReservedOnlyWhileActive` is violated |

The bounds: two handlers let the worker's call overlap with an overview or with a
call it has given up; two jobs let a row be claimed while another is held,
completed or cleared; faults are one more than the number of steps an error handler can
be hit again in (a timeout, then a kill during the recovery). One job suffices for
liveness, where what could go wrong is a job that starves itself; two would only
multiply the operators' states. `NoneDown` keeps the catalog of three safety runs
to up and retired: down differs only for the scheduler's SELECT, and an analyst
may request what the scheduler does not.

Deadlock is checked in every run: there is none, an operator can always act.

*Fairness* (`Fairness`): weak fairness of each handler (threads of a live server run),
of each queueing thread, of the worker's own steps (an event loop, every await
bounded by a timeout) and of the restart of a killed worker (`Restart=on-failure`,
`setup-kali.sh` 289). Nothing is assumed of analysts, the scheduler, or a worker
that was stopped on purpose.

### Disagreements found

1. **An error text the API refuses starves the queue**
   (`CaptureLongErrors`). `run_capture_job` reports `str(error)` as it is
   (`capture_worker.py` 1477), `CaptureWorkerFailure.error` takes 1 to 500 characters
   (`schemas.py` 346). A longer or empty text is refused with 422; the exception
   leaves `run_capture_job`, the outer loop requeues the row, and as the oldest it is
   claimed again: it and every younger job never end. The comment at
   `capture_worker.py` 1468 says "Worker must record a terminal job state and
   continue." `CapturePause` shows what still holds then: the reservation itself always ends,
   and switching the mode off silences the worker.
2. **A lost answer deletes recorded evidence** (`CaptureLostAnswer`). An error of
   the completion call takes the branch of a failed capture, which unlinks the
   artifacts although the row was committed as completed (`README.md` 324:
   "Successful evidence is stored privately").
3. **The mode is not checked atomically with the reservation**
   (`CaptureSwitchOff`). `claim_next_capture_job` reads the mode in its SELECT;
   its UPDATE only looks at the row (`README.md` 324: "Passive/Off mode is checked
   atomically before each queued job is reserved").

### Proofs

`CaptureControlProofs` and `CaptureQueueProofs` prove, from the assumptions
`TargetsAssumption`, `BoundsAssumption` and `LateCallsAssumption` only:

| Theorem | Says |
|---|---|
| `TypeCorrect` | `Spec => []TypeOK` |
| `CompletedKept` | a completed row stays completed or becomes failed |
| `ReadyCorrect` | `ReadyOnlyIfCompleted` is an invariant |
| `LastOutcomeCorrect` | `LastOutcomeJustified` is an invariant |
| `QueueCorrect` | without late calls `QueueInv` is an invariant |
| `NothingForgotten`, `CapturesReserved`, `ReportsCurrent` | its three parts that matter to a user |
| `Implements` | without late calls `Spec` implements `CaptureLifecycle` |
| `FaultlessCorrect` | `FaultlessEvidenceIsKept` is an invariant, late calls or not |

The argument. All that happens to rows and outcomes is one of a handful of *row
steps* (`RowStep` in `CaptureQueueProofs`): insert, clear, requeue, reserve,
complete, fail, assess. `EveryRowStep` reduces each action to one of them, and the
first four theorems are then proved per row step, late calls included. They rest on
`NamesRows`: a call or worker that has got past its first SELECT names a row that
exists. `LastOutcomeJustified` is inductive as it stands because complete and fail
write both tables in one transaction; if a target shows "completed" its row is
completed, and only a failure report of the same target can change that.

The second group is about the protocol, and none of its parts is inductive alone.
That a completion finds its row still running needs: only the worker's current call can
still write (`OnlyTheWorkersCallPends`), the call matches the worker's state and job
(`CallMatchesWorker`), the worker's state says whether it holds a job
(`WorkerShape`), what an answer under way to it implies (`AnswerShape`), and that a
requeue happens only when the worker holds nothing. `QueueInv` is their conjunction;
TLC checks it in `CapturePrompt`. The effect of a handler on its own call is stated once
(`HandlerEffect`), so each case needs only that and the frame.
`Implements` uses `AdmittedReportIsCurrent` for the two reports, whose UPDATEs do not look at
the status, and the code's own guards for the rest.

`FaultlessCorrect` is about files, which the row steps do not see. `EvidenceInv` adds to
`QueueInv`: no row names the run of the worker until its report is recorded
(`RunUnnamed`), an answer to a claim hands over a run that no row names, a completion
past its check has its artifacts on disk, and one that is recorded has a completed row
(`CallHasEvidence`). So the clean-up of a failed capture unlinks what no row names, and a
reservation reuses no name of a row. All of it holds only while `faults = 0`: the lost answer of
finding 2 makes the worker clean up a recorded run. Before a fault nobody gives up a
call, so late calls need no exclusion here.

Only model-checked: the liveness properties; fairness and leads-to are out of the
prover's reach.

## 4. The alert desk

`AlertDesk` is about stale copies. A collection holds a claim and a list of clients, an edit
of a client holds a profile and a list of claims, and each writes alerts
from its copies while the other, an analyst, or the deletion of a client goes on.

### State

| Variable | Code |
|---|---|
| `client`, `profile` | `clients`; a deleted identifier (a UUID) never returns. The profile is the set of terms a client is watched by |
| `terms` | `claims`, by identity (normalized actor and victim, which the unique fingerprint hashes): the set of terms a claim shows, empty before its row |
| `archived` | `source_observations`, by record |
| `status`, `basis` | `alerts`, by claim and client: the status, and the match it was raised for (severity, score, reason, evidence). Every status but "new" is "reviewed" |
| `records` | alerts with a row in `notification_drafts`, `alert_ai_assessments` or `analyst_feedback` |
| `ingester` | threads in `ingest` and `ingest_many`, with the batch, the identifiers they made and the copies they hold |
| `editor` | threads in `create_client` and `update_client`, up to the end of `rematch_all_claims` |
| `lost` | no code: a history variable, the matches the code has given up |

### Actions

* Ingestion: `Lookup` (which claims are missing), `CollectInsert` (INSERT OR IGNORE) or
  `PostInsert` (INSERT, refused if the claim is there by now), `MergeRead` and
  `MergeWrite` (the first SELECT of `_merge_claim_metadata`, then the transaction its
  UPDATE opens), `Observe`, `ReadClaim`, `ListClients`, `MatchClaim` (one alert
  per step). `Abort` is an exception: it leaves new claims unmatched.
* Clients: `CreateClient` and `UpdateClient` commit the row; then `RematchClient`,
  `RematchClaims`, `RematchClaim` (one alert per step), `CleanupSelect`,
  `CleanupCheck`, `CleanupDelete`. Only the first DELETE opens a transaction, so
  only the first candidate's check of drafts and feedback can be out of date.
* Analysts: `DeleteClient`, `UpdateAlert`, `FalsePositive`, `SaveRecord`.
* `Crash`: the process stops anywhere; transactions are rolled back or committed.

### Abstractions

* `match_claim` looks for a domain or a name that claim and client share, in a fixed
  order, and reports the first. `Match` is the set of what they share: empty exactly
  when there is no match, and different when the report may differ. Similarity of names and
  keywords are terms like the others; a longer description replacing a shorter one
  is not modelled, a claim's terms only grow by a merge.
* An alert is named by its claim and client, as the UNIQUE constraint allows. The code's
  identifiers are never used again; so when a row goes, threads that hold its identifier
  forget it (`Forget`).
* Capture and AI jobs of an alert also keep it from the clean-up, but have no foreign
  key; they are left out.
* An identifier made for a claim that somebody else inserts first is a `phantom`: the merge skips it,
  and the foreign key of `source_observations` refuses it and ends the batch.
* The first record of a batch is any of them: payloads come in the order of the feed.

### Properties and runs

`AlertDesk` has two claims, two clients, a collection of two records, a posted record for one of
the claims with another term, one editor. `Bounded` cuts the product, not the
interleavings: one alert is triaged, posting and triage are not combined with a second
client, two matches may be given up. Every action fires. It checks:

* `NoOrphans`: foreign keys in the model are checked only where the code's statements
  meet them; the invariant says that is enough.
* `NoMatchIsForgotten`: between them, an ingestion and an edit that overlap miss nothing: a
  claim is inserted before its clients are read, and a client before its claims are.
  What is lost is lost in one of four ways, each of which the code has: an exception (a client
  deleted under the list, a phantom's observation), a crash, a merge that adds a term to
  a claim already matched, the clean-up.
* `ReviewedMatchIsKept`: the `WHERE alerts.status = 'new'` of the upsert.

`AlertDeskRemoved`, with one claim, one client, no triage and no posts, shows the fourth
disagreement:

4. **The clean-up deletes an alert that matches.** `rematch_all_claims` computes
   `matched_claim_ids` from the claims it reads first. A collection that inserts a
   claim after that and raises its alert, the client being stored, has it deleted by
   the clean-up as one that "no longer match[es] the edited profile" (comment at
   `service.py` 3305), also when the client has just been created and no
   profile was edited at all. The claim is stored by then, so no later collection matches it again.
   With triage allowed, the status read by the SELECT can also be out of date.

### Proofs

`AlertDeskProofs` and `AlertDeskMatchProofs`, from `PayloadsAssumption`, `InputsAssumption` and
`NamesAssumption` only:

| Theorem | Says |
|---|---|
| `DeskTypeCorrect` | `Spec => []TypeOK` |
| `OrphansCorrect` | `NoOrphans` is an invariant |
| `ReviewedCorrect` | `Spec => ReviewedMatchIsKept` |
| `NoneForgotten` | `NoMatchIsForgotten` is an invariant |

`NoOrphans` is not inductive: `MatchClaim` and `RematchClaim` write an alert for a claim
their thread remembers, and no statement of the model asks whether that claim is stored. The
strengthening is `PlansAreStored`: the claims a thread has inserted or read, and every
alert it has still to write, are about stored claims. Claims are never deleted
(`StoredStays`), so other threads' steps keep it (`OthersStay`).

`NoMatchIsForgotten` is far from inductive, because `Awaited` does not look at copies: a
thread that has read a claim without the term, or an old profile, will not write
the alert. `MatchesAreOwed` says what each thread owes at each of its steps: before its
reads, the match; after them, a copy that matches what is stored now; then the alert itself.
The interesting cases: a profile that changes makes the copies of other editors
useless, but its own editor starts to owe (`SaveOwes`); a merge that adds terms owes only
for claims its own thread has inserted, the rest is given up (`IngestOwes`); a crash
gives up whatever anybody owed (`CrashOwes`). It needs `PlansAreStored` for the converse: an editor
past its rematch holds no alert to write, so what its next edit overwrites was
owed by nobody (`NothingOwed`).

Every property of the passing run is proved; only `OnlyStaleAlertsGo`, which fails, is
TLC's alone.

## 5. The background work

`BackgroundWork` is about three users of one event loop and one digest: the worker of
the AI jobs, the scheduler, and a request that sends the digest at once. A step is what
the loop does between two awaits, or one commit of a thread of a synchronous endpoint.

### State

| Variable | Code |
|---|---|
| `status`, `kind` | `ai_jobs.status`; `job_type`: a job that stores a result, or the digest |
| `effects` | how often a job has stored its result (a draft, an assessment, a profile) |
| `worker` | `ai_job_worker_loop`: starting, idle, in `execute_ai_job` before and after the store, in the digest |
| `digest` | the executions of `send_victim_digest`, by sender: awaiting the summary and the mail, mailed, done, failed with an `HTTPException`, broken by another exception; with the claims read |
| `claim`, `newer` | `claims`: `received_at` chosen, then committed; those later than `last_victim_digest_at`, or all while there is none |
| `marked` | whether `last_victim_digest_at` is stored |
| `mailed` | how many digests with the claim a mail server has taken |
| `settings` | `operating_mode`; `capture_enabled` of a site |
| `scheduler` | `scheduler_loop`: where its pass is, and the mode it read when it woke |
| `stops` | restarts so far; a bound |
| `scheduler.posted`, `scheduler.deleted` | a claim was stored, a client deleted, beside the collections of the pass |
| `exposed`, `repeated`, `outlived`, `scheduler.switched` | no code: histories the properties except |

### Actions

* Threads: `SubmitJob` (`enqueue_ai_job`; `created_at` is chosen before the INSERT, so rows
  are stored in any order), `ChangeSettings`, `DeleteClient`, `ReceiveClaim` and
  `StoreClaim` (`received_at` is chosen before the transaction that inserts the row).
* Digest: `DigestReads` (`victim_digest_context`; before the first mark its window is the
  last `interval_hours`, which leaves out any claims that are older), `DigestIsSent`,
  `DigestFails` (`MailDeliveryError`, before the mail server has taken the mail or after it),
  `DigestBreaks` (any exception that is no `HTTPException`), `DigestIsMarked`
  (`mark_victim_digest_sent`), for whoever runs it; `RequestDigest` and `RequestEnds` are the
  endpoint's own.
* Worker: `RequeueInterrupted` once at its start, `ClaimJob` (one `BEGIN IMMEDIATE`),
  `StoreResult`, `WorkerReadsDigest`, `FinishJob`, `FailJob`.
* Scheduler: `SchedulerWakes` (reads the mode), `SchedulerCollects`, `SchedulerSelects`
  (`schedule_active_captures`), `SchedulerQueues` (`queue_capture`), the digest,
  `SchedulerSleeps`, `SchedulerBreaks`. Three kinds of exceptions are caught nowhere and end
  the task: the `PermissionError` of a site switched off since the SELECT; the
  `sqlite3.IntegrityError` of a batch, for a claim posted meanwhile or an alert whose client
  was deleted meanwhile; and an exception of the digest that is no `HTTPException`, such as
  that of a summary whose highlights are no list.
* `ServerStops`: the process ends anywhere and is started again.

### Abstractions

Time is an order, and what is due, or older than the interval, is any choice. A job's work is
a result that is stored or an error. Victims are distinct: the digest's removal of repeated
victims is left out; a mail lists at most 100 of the claims it counts, and a claim it counts
is mailed here. The two reads of `queue_capture` are one step here; `CaptureControl` has
them apart. Errors of the database itself, such as a lock held for longer than the timeout,
which would end a loop as well, are not modelled. Claims of the scheduler's own collections
are `ReceiveClaim` and `StoreClaim` too; clients and alerts are those of `AlertDesk`, and
`DeleteClient` keeps only that one went.

### Properties and run

`BackgroundWork` has two jobs, two claims, one request, one restart (588,277 states). `Bounded` keeps apart
what cannot meet: at most two digests overlap; the steps of a pass before its digest are
combined with claims in its collections only; switched settings are not combined with
claims or jobs, nor two jobs with claims. Every action fires.

* `QueueSpec`: the table implements `JobQueue`. `finish_ai_job` and `fail_ai_job` do not
  look at the status they overwrite; that nothing but the worker's own job is running
  makes it safe.
* `ResultsAreStored`: the result is committed before the job is completed, and more than
  once only across a restart.
* `NewsIsMailed`: the mark is the time after the mail, not that of the SELECT: a claim
  that comes in between is in no digest. Nor is one that is older than the interval when
  a digest is read before the first mark. The property says that nothing else is lost.
* `MailedTwiceOnlyBeside`: nothing excludes a second digest; a restart between mail and mark
  repeats one, and so does a mail server that takes a mail whose acceptance gets
  lost. Nothing else does.
* `SchedulerEndsForCause`: the task survives the failures of a source and of the mail; it
  ends only if a switch, a posted claim or a deleted client came beside its pass, or its
  digest broke.
* `JobsEnd`: with weak fairness of the worker, across restarts. Each await of
  `execute_ai_job` has a timeout, and the loop catches what it raises.

### Proofs

`BackgroundWorkProofs`, from `BoundsAssumption` and `ActorsAssumption` only; the bounds of
the run (`Bounded`) are no part of it, so digests, passes and claims mix without limit:

| Theorem | Says | Rests on |
|---|---|---|
| `WorkTypeCorrect` | `Spec => []TypeOK` | |
| `ResultsCorrect` | `ResultsAreStored` is an invariant | `WorkInv` |
| `ImplementsQueue` | `Spec => QueueSpec`: it implements `JobQueue` | `WorkInv` |
| `NewsCorrect` | `NewsIsMailed` is an invariant | `NewsInv`, `HeldInv` |
| `MailsCorrect` | `MailedTwiceOnlyBeside` is an invariant | `MailInv`, `HeldInv` |
| `SchedulerCorrect` | `SchedulerEndsForCause` is an invariant | `PassInv` |

* `WorkInv`: a row is running only while the worker has it, or is still to requeue it
  (`Holding`); that is what makes the unguarded updates of `finish_ai_job` and
  `fail_ai_job` steps of `JobQueue`. A job has stored its result at most once per start of the
  server, and once more while the worker is between store and finish (`Stored`).
* `NewsInv`: a digest under way has read every claim that is newer than the mark and did not
  arrive beside it and was not too old for it, and one that was sent has mailed all it read;
  so the mark drops nothing else. Without the middle part the mark of a digest says nothing about
  claims its sender did not read.
* `MailInv`: what could be mailed once more is in two digests that overlap, or waits for its
  mark, or lost it. It covers what two digests have read before either mails, as by the first
  mail it is too late to tell.
* `PassInv`: what the pass read when it woke, and selected, still holds unless settings were
  switched; so a site is refused only after a switch, and the other exceptions carry their
  cause with them.

`JobsEnd` is TLC's alone.

## 6. The web console

The frontend is one file of React components. The hard part is not what it draws but
what it believes: every page keeps copies of the server's data, sends calls whose answers
come in any order or not at all, and lets the analyst go on meanwhile. Each module models
one page with the server's part of its calls. A call is a record that the server serves at
one step and the page receives, or loses, at a later one.

`App` mounts one page at a time and a page that is left loses its state, so the pages are
composed by choice: a behaviour of `WebTriage` or `WebConsole` is one visit to one page.
Where two pages work on the same rows, each module has the other's writes as
steps of its server (other analysts, bulk runs, capture workers, background jobs).

| Module | Page | State of the browser | Hazard |
|---|---|---|---|
| `WebAlerts` | `AlertsPage`, `App.refresh` | rows, filters, selection, the bulk operation | a bulk run that fails half way; refreshes that overtake each other |
| `WebDrawer` | `AlertDrawer` | the alert given, status, note, `working` | the answer of a closed drawer changes the open one; others write the alert |
| `WebDrafts` | `NotificationDraftDialog` and the drawer's drafts | the context, the dialog's copy of a text | a draft created while another is edited |
| `WebClients` | `ClientsPage`, `ClientModal`, `ClientDeleteModal` | the open form and question | an answer closes whichever form is open |
| `WebEditors` | the form of a new client and its editors | name, domain, lists and typed texts | checks and limits of the schema the editors do not know |
| `WebCenter` | `App`'s poll of the AI jobs, `AIJobCenter` | jobs, last statuses, seen marks | an overtaken poll revives ended jobs |
| `WebFrame` | `App`: loader, tour, navigation, refresh | what is shown instead of a page | a loader that would never end |
| `WebTasks` | `BackgroundTasksPage` | filters, page, answer | answers to former filters |
| `WebSites` | `DirectSitesPage`: search, allowlist | answer, selection, commands | a count that is added to |
| `WebJobs` | `DirectSitesPage`: capture jobs | answer, filter, the three dialogs | polling that ends too early; late reports, deleted evidence |
| `WebSettings` | `SettingsPage`, capture controls of `DirectSitesPage` | a copy of all settings per page, the loads under way | a save takes back another's choice |
| `WebResearch` | `ActivityDetailPage` | filters, page, rows, selection, research run | a page that does not exist; claims researched twice |
| `WebProfiles` | `ActorProfilesPage` | index, choice, profile, synchronizations | a profile of another actor |

### Abstractions

* Data are what the properties tell apart: an alert is its status and the subject of its
  note, a text the draft it was written for, a profile or a setting the number of the edit that
  wrote it, a search the set of rows it matches, a capture job its status and its number
  of screenshots.
* Controls below an overlay are not used, although a keyboard can reach some. Dialogs
  disappear at once: their closing animations, during which buttons still answer, are left out.
* Bounds of calls: the modules name them (`MaxPolls`, `MaxCalls`, `MaxJobCalls`, ...).
  A form or a question leaves at most one call behind when it is closed; the sites page
  has one command under way besides its presses.
* In `WebResearch` the archive rests while the page is open; in `WebProfiles` the visit
  is the first to that page, with no choice stored, and synchronizations overlap where a page emptied between them
  has forgotten the first. In `WebDrawer` the list may show any
  version an alert has had (`versions`), and the buttons that queue a capture or an assessment,
  which change nothing the drawer shows, are left out. Others (`OthersWrite`) are other
  analysts and a bulk run of the page that was started before the row was opened.
* In `WebSettings` a load of the controls is one of several under way (`Loads`), and the
  schedule's button chooses the mode, too (`Sent`). The instance leaves out `testAI` and
  `sendDigest`, which save as `save` does; the proofs have them.
* `WebEditors` is the form of a new client; its name and domain are filled in together, and a text
  is blank, right or wrong for `ClientCreate` and the unique index of domains.
* In `WebJobs` grouping, sorting and zoom arrange what is shown and are left out, the text
  search is one more filter, and the jobs are few: the server lists the latest 50.
  `LateReport` may write any job that is queued or ended: whether a report had found it running
  before is `CaptureControl`'s matter, and the model has every such report and more.

### Properties and runs

`WebTriage` (2.3 million states) and `WebConsole` (2.6 million) take two alerts, two
clients, two sites, two claims, two actors, two jobs of each kind, and two or three calls
under way: two are enough for one answer to overtake another, three where a command's call
meets a refresh and a poll. `MCConstraint` stops following a behaviour of either run once a property of its
page excepts it, or a worker has deleted evidence, lets one job only have a late report, and
one editor of a form hold a text at a time; the state it stops at is still checked, and the
proofs go on.
Deadlock is not checked: a visit whose bounds are used up may rest.

Most properties have the form "this holds, unless": the exception is a history
variable that records one named crossing, and the property says that nothing but that
crossing breaks the page. They are what a reader should know of the frontend:

* `FailedRunKeepsTheRest`: after a run of bulk assessments that was refused, exactly the
  alerts that were not queued stay selected, unless the selection was touched: the code
  cuts the first ids off the selection of that moment.
* `TextStaysWithItsSubject`: notes and drafts are stored with what they were written
  about, unless the answer of a dialog that was closed too early, or a draft being created
  meanwhile, replaces what an open dialog was given.
* `LastActIsStored`: the status asked for last is the one stored, unless a call failed, the
  drawer was left with a call under way, the draft dialog sent one beside the drawer's, or
  somebody else, or a bulk run, wrote the alert after it was asked for.
* `UnsavedWorkIsKept`: a form goes with unsaved changes only by its own answer, or by that of a
  form that was closed too early.
* `OnlyUncheckedInputIsRefused`: keywords and cities never make the server refuse a form;
  names and domains, which are sent unchecked, and countries, industries and related
  organizations, whose editors have no limits, can.
* `RefreshedOncePerJob`: the end of a job refreshes the dashboard once, unless polls overtook
  each other.
* `ViewsConverge`: when the server rests, the alert list and the corner of the AI tasks
  become, and stay, what the server has.
* `AnswersMatchQuestions`: with nothing under way, sites, claims and profiles shown are
  those the controls ask for, and a capture started on the sites page is shown as it ended
  (`OwnCapturesAreFollowed`). The poll runs only while an unfinished job is shown; so an
  overtaken answer without one, shown last, ends it for good, and so does a refresh that
  fails when nothing unfinished is shown. A late report can turn an ended job (completed
  into failed) when the page has stopped looking. These are its exceptions; failed polls
  are none.
* `CountIsRight`: the allowlist's count is that of the sites shown, unless calls of the page
  cross: `toggle` adds one to whatever is shown.
* `ChoicesAreNotReverted`: a stored choice is replaced by an earlier one only by a page that
  was behind, or a save that crossed another call: every button sends every field. A
  page is behind after a save of the other page, a save of its own whose answer was lost, or
  a load that was overtaken by a save. The schedule's button takes back any other mode, but as a choice
  of its own.
* `PageAskedForExists`: of the claims, unless Next was pressed before a new filter was
  answered; of the screenshots under review, unless the worker deleted them, not knowing of
  its completion, or a late report has written the end of the job anew: clearing jobs never
  takes them away, however old the list.
* `ResearchedAsOftenAsChosen`: no claim is queued for research more often than it was
  chosen, unless a batch failed.
* `OnlyCurrentAnswers`, `ConsoleSettles`: the task history drops answers to former
  questions, and settles on a page that exists; the loading screen ends.

"Start one capture" is not disabled while its call is under way and the server does not ask
whether the site has a capture queued: every press queues one (`PressStart`), although the
dialog speaks of "one Tor-routed visit" (`App.tsx` 5795). The model has these presses; no
property depends on there being one.

*Fairness*: the timers of the browser fire and its requests are settled, by an answer or
an error (`fetch` ends when the connection does). In `WebConsole` fairness is assumed of
the refresh, the loader's minimum time and animation, and the task history's loads;
in `WebTriage` of the refreshes, the bulk operation and the polls. Nobody has to press
anything.

### Proofs

`WebTriageProofs` and `WebConsoleProofs` prove every safety property of the two runs for
any numbers of alerts, clients, sites, jobs, claims, actors, pages, words, calls under
way and edits, and any sizes of chunks and batches. `TriageInvariant` and
`ConsoleInvariant` say that `TriageInv` and `ConsoleInv`, the conjunctions of one invariant per
page, hold always. The pages share no variable, so a step of one is a stutter of the
others (`PartsStep`), and each invariant is kept by the steps of its own page.

| Theorem | Property | Rests on |
|---|---|---|
| `TriageTypeCorrect`, `ConsoleTypeCorrect` | `TriageTypeOK`, `ConsoleTypeOK` | the first parts of all invariants |
| `FailedRunCorrect` | `FailedRunKeepsTheRest` | `BulkInv`, `SelectionInv` |
| `TextCorrect` | `TextStaysWithItsSubject` | `NotesInv`, `DraftsInv`, `DrawerCalls` |
| `LastActCorrect` | `LastActIsStored` | `LastActInv`, `DrawerCalls` |
| `UnsavedWorkCorrect` | `UnsavedWorkIsKept` | `UnsavedInv` |
| `RefusalsCorrect` | `OnlyUncheckedInputIsRefused` | `ListsInv` |
| `RefreshCorrect` | `RefreshedOncePerJob` | `PollsInv`, `RefreshInv` |
| `AnswersCorrect` | `AnswersMatchQuestions` | `SearchInv`, `AskedInv`, `ChoiceInv`, `FollowInv` |
| `CountCorrect` | `CountIsRight` | `CountInv` |
| `ChoicesCorrect` | `ChoicesAreNotReverted` | `SavesInOrder`, `ValuesChosen` |
| `PagesCorrect` | `PageAskedForExists` | `AskInv`, `KnownInv`, `DialogInv` |
| `ResearchCorrect` | `ResearchedAsOftenAsChosen` | `RunInv` |
| `HistoryCorrect` | `OnlyCurrentAnswers` | `TasksInv` |

*Answers.* A history variable of a page says whether an answer has been shown that a later one had
overtaken; each call under way is marked late once a younger one has been answered. Until the
variable is set, the invariants say: of the calls not marked late the youngest asks what the
controls ask (`Awaited`), everything older than an answered call is marked (`Overtaken`), and with
no unmarked call under way the answer shown is the one asked for. The question is changed in one
place and the call sent in another, 200 ms later; `armed` stands for the time between.
`SettleFacts`, `AnswerFacts` and `QuestionFacts` of `WebLemmas` state once what sending and
answering do to such a sequence; four pages use them.

*Following captures.* `FollowInv` says of a capture started on the page: a question that
nothing has overtaken will show it (`Found`), or the list shows it, or an unfinished job is
shown and the poll goes on (`Followed`). It needs `KnownInv`: lists under way are snapshots
in order (`Snapshot`, `InOrder`), so a later one has every job of an earlier one that
was not cleared.

*Bulk runs.* `BulkInv` says which of the ids have been stored: the first `queued` ones, or, with an
answer on its way, those up to the end of its chunk. The catch of the code cuts the first
`queued` ids off the selection, which is the rest exactly while the selection is still the
run's (`SelectionInv`). `Paid` counts, for each claim, researches done, those the run still
owes and one for being selected, against the times it was chosen.

*Snapshots.* `PollsInv` orders the polls' answers (`After`): what has ended in one has ended in
the same way in a later one, so the corner's last statuses never go back unless polls
overtook each other, and each end is noticed once.

*Settings.* A page that is not behind holds nothing older than what is stored
(`PageIsNewer`), nor does a call under way (`CallIsNewer`); each save then moves every field forward.

The assumptions are the named ones of the modules: bounds are naturals; sites, claims, captures and
words are finite sets (the model counts and lists them); a capture has at least one
screenshot; the unfiltered archive is the longest; chunks and batches are not empty.
Induction on the length of a list is done with a set of naturals (`NatSetInduction`, from the
pigeonhole theorem of the library), which needs no operator parameter.

What the proofs changed. The chunk of a bulk run had been modelled as ending at
`queued + ChunkSize`, past the end of the ids when the size does not divide their number; the
code's `slice` stops at the end (`ChunkEnd`, `BatchEnd`). The instances of TLC take one id at a time and did
not show it.

Only model-checked: `ViewsConverge` and `ConsoleSettles`, which are liveness.

## 7. Not modelled

* *Collectors and catalog, pure algorithms*: planned (section 2). A sync is any union of
  sites in `CaptureControl`, a feed any batch of records in `AlertDesk`.
* *Organization profiles, dossiers*: a merge of two records within one transaction;
  what matters of it is data.
* *Secret store*: one file replaced atomically behind a lock; that an unreadable file reads
  as empty is a matter of its contents.
* *Claim merges*: only that a merge adds terms (`AlertDesk`); which of two values wins is data.
* *Of the frontend*: charts and the map, the read-only pages and dialogs (home, intelligence,
  sources, dossiers, claim details), export, the editors of recipients and credentials,
  styling and animation. The pages among them that ask by their controls ask as
  `ActivityDetailPage` does.
* Left out for good: parsing of feeds and pages, browser automation and OCR, prompts and
  providers of language models, mail transport, checks of headers and origins, configuration,
  constant tables of actors and techniques, installation scripts. They keep no state
  whose order matters, or are input and output only.

## 8. Running

    tlc -workers 2 -config CaptureFull.cfg MCCaptureControl.tla
    tlapm CaptureQueueProofs.tla
    tlc -workers 2 -config AlertDesk.cfg MCAlertDesk.tla
    tlapm AlertDeskMatchProofs.tla
    tlc -workers 2 -config BackgroundWork.cfg MCBackgroundWork.tla
    tlapm BackgroundWorkProofs.tla
    tlc -workers 2 -config WebTriage.cfg MCWebTriage.tla
    tlapm WebTriageProofs.tla
    tlc -workers 2 -config WebConsole.cfg MCWebConsole.tla
    tlapm WebConsoleProofs.tla
