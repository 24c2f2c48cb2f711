------------------------------- MODULE WebJobs -------------------------------
(***************************************************************************)
(* The capture jobs of the page of the threat-actor sites: the recent jobs *)
(* with their filters, the dialog that starts a capture, the one that      *)
(* clears jobs, and the review of a capture's screenshots (DirectSitesPage *)
(* in App.tsx).  WebSites has the page's search and allowlist.             *)
(*                                                                         *)
(* The page follows the jobs by polling, and polls only while the answer   *)
(* it shows holds an unfinished job.  As in WebSites, a question under way *)
(* is the snapshot the server took for it.  A dialog covers the page.      *)
(***************************************************************************)
EXTENDS Naturals, Sequences, FiniteSets, SequencesExt

CONSTANTS
  CaptureJobs,   \* the jobs there may be, at most the 50 that are listed
  OwnJobs,       \* those queued by this page, if they are queued
  Doubtful,      \* those whose completed capture needs attention
  JobFilters,    \* the cards in use
  Shots,         \* the screenshots of a completed capture
  MaxJobCalls    \* bound: calls without an answer

ASSUME JobFilterAssumption == "all" \in JobFilters
ASSUME OwnJobsAssumption == OwnJobs \subseteq CaptureJobs /\ IsFiniteSet(CaptureJobs)
ASSUME CallsAssumption == MaxJobCalls \in Nat \ {0}
ASSUME ShotsAssumption == Shots \in [CaptureJobs -> Nat \ {0}]

VARIABLES
  jobs,       \* server: the status of every job
  listed,     \* data.jobs: the statuses shown
  opening,    \* the timer of the first question is armed
  polled,     \* questions under way
  dialog,     \* confirmCapture, clearJobsOpen or reviewCapture
  jobFilter,  \* jobFilter and jobQuery
  queueing,   \* calls of queue: those sent, and the jobs of those served
  clearing,   \* the call of clearCaptureJobs
  lost,       \* server: the completed jobs without their files
  revised,    \* history: jobs whose end a late report has written anew
  missed      \* history: an answer has been lost, or overtaken, for good

serverVars == <<jobs, lost, revised>>
jobVars ==
  <<serverVars, listed, opening, polled, dialog, jobFilter, queueing, clearing, missed>>

Clearable == {"queued", "failed"}
Finished == {"completed", "failed"}
Statuses == {"none", "queued", "running", "cleared"} \cup Finished
NotLoaded == [j \in CaptureJobs |-> "unknown"]
NoDialog == [is |-> "none"]
Confirmation == [is |-> "confirm"]
Clearance == [is |-> "clear"]
ReviewOf(j, page) == [is |-> "review", job |-> j, page |-> page]
NoClearing == [step |-> "none", statuses |-> {}]

JobsTypeOK ==
  /\ jobs \in [CaptureJobs -> Statuses]
  /\ listed \in [CaptureJobs -> Statuses] \cup {NotLoaded}
  /\ Len(polled) <= MaxJobCalls
  /\ \A i \in DOMAIN polled :
       /\ polled[i].jobs \in [CaptureJobs -> Statuses]
       /\ polled[i].late \in BOOLEAN
  /\ \/ dialog \in {NoDialog, Confirmation, Clearance}
     \/ dialog.is = "review" /\ dialog.job \in CaptureJobs /\ dialog.page \in Nat \ {0}
  /\ jobFilter \in JobFilters
  /\ queueing.sent \in 0 .. MaxJobCalls /\ queueing.served \subseteq CaptureJobs
  /\ clearing \in [step : {"none", "sent", "served"}, statuses : SUBSET Clearable]
  /\ opening \in BOOLEAN /\ missed \in BOOLEAN
  /\ lost \subseteq CaptureJobs /\ revised \subseteq CaptureJobs

\* Others may queue, end and clear jobs before the page asks for them (JobMoves).
JobsInit ==
  /\ jobs = [j \in CaptureJobs |-> "none"]
  /\ listed = NotLoaded
  /\ opening = TRUE
  /\ polled = <<>>
  /\ dialog = NoDialog
  /\ jobFilter = "all"
  /\ queueing = [sent |-> 0, served |-> {}]
  /\ clearing = NoClearing
  /\ lost = {} /\ revised = {}
  /\ missed = FALSE

viewVars == <<dialog, jobFilter>>
commandVars == <<queueing, clearing>>

Loaded == listed # NotLoaded
Count(statuses) == Cardinality({j \in CaptureJobs : listed[j] \in statuses})
JobCalls ==
  Len(polled) + queueing.sent + Cardinality(queueing.served)
  + (IF clearing.step = "none" THEN 0 ELSE 1)

-----------------------------------------------------------------------------
(* Following the jobs. *)

\* Mutant: a running job is not waited for.
AwaitsTheQueued(list) == \E j \in CaptureJobs : list[j] = "queued"

\* The poll's effect: the answer shown holds a job that is not finished.
Awaits(list) == \E j \in CaptureJobs : list[j] \in {"queued", "running"}

\* GET /api/v1/direct-sites, as it is served; a cleared job is not listed.
Inquire ==
  polled' = Append(polled,
    [jobs |-> [j \in CaptureJobs |-> IF jobs[j] = "cleared" THEN "none" ELSE jobs[j]],
     late |-> FALSE])

OpenPage ==
  /\ opening /\ Inquire
  /\ opening' = FALSE
  /\ UNCHANGED <<serverVars, listed, viewVars, commandVars, missed>>

Poll ==
  /\ Awaits(listed) /\ JobCalls < MaxJobCalls
  /\ Inquire
  /\ UNCHANGED <<serverVars, listed, opening, viewVars, commandVars, missed>>

\* The other answers stay under way, the earlier ones overtaken by this one.
Settle(i) ==
  polled' = RemoveAt([k \in DOMAIN polled |-> [polled[k] EXCEPT !.late = @ \/ k < i]], i)

ShowJobs(i) ==
  /\ i \in DOMAIN polled
  /\ Settle(i)
  /\ listed' = polled[i].jobs
  /\ missed' = (missed \/ (polled[i].late /\ ~Awaits(polled[i].jobs)))
  /\ UNCHANGED <<serverVars, opening, viewVars, commandVars>>

\* A question that fails changes nothing; if an unfinished job is shown, the
\* next poll asks again.
MissJobs(i) ==
  /\ i \in DOMAIN polled
  /\ Settle(i)
  /\ missed' = (missed \/ ~Awaits(listed))
  /\ UNCHANGED <<serverVars, listed, opening, viewVars, commandVars>>

-----------------------------------------------------------------------------
(* Starting a capture. *)

Confirm ==
  /\ Loaded /\ dialog = NoDialog
  /\ dialog' = Confirmation
  /\ UNCHANGED <<serverVars, listed, opening, polled, jobFilter, commandVars, missed>>

CloseDialog ==
  /\ dialog # NoDialog
  /\ dialog = Clearance => clearing.step = "none"
  /\ dialog' = NoDialog
  /\ UNCHANGED <<serverVars, listed, opening, polled, jobFilter, commandVars, missed>>

\* Nothing disables the button while a call is under way: every press queues a
\* capture of its own.
PressStart ==
  /\ dialog = Confirmation /\ JobCalls < MaxJobCalls
  /\ queueing' = [queueing EXCEPT !.sent = @ + 1]
  /\ UNCHANGED <<serverVars, listed, opening, polled, viewVars, clearing, missed>>

ServeStart(j) ==
  /\ j \in OwnJobs /\ queueing.sent > 0 /\ jobs[j] = "none"
  /\ jobs' = [jobs EXCEPT ![j] = "queued"]
  /\ queueing' = [sent |-> queueing.sent - 1, served |-> queueing.served \cup {j}]
  /\ UNCHANGED <<lost, revised, listed, opening, polled, viewVars, clearing, missed>>

\* The answer closes the confirmation that is open by then.
ReceiveStart(j) ==
  /\ j \in queueing.served
  /\ queueing' = [queueing EXCEPT !.served = @ \ {j}]
  /\ dialog' = IF dialog = Confirmation THEN NoDialog ELSE dialog
  /\ Inquire
  /\ UNCHANGED <<serverVars, listed, opening, jobFilter, clearing, missed>>

RefuseStart ==
  /\ queueing.sent > 0
  /\ queueing' = [queueing EXCEPT !.sent = @ - 1]
  /\ UNCHANGED <<serverVars, listed, opening, polled, viewVars, clearing, missed>>

LoseStart(j) ==
  /\ j \in queueing.served
  /\ queueing' = [queueing EXCEPT !.served = @ \ {j}]
  /\ missed' = TRUE
  /\ UNCHANGED <<serverVars, listed, opening, polled, viewVars, clearing>>

-----------------------------------------------------------------------------
(* Clearing jobs. *)

OpenClearance ==
  /\ dialog = NoDialog /\ Loaded /\ Count(Clearable) > 0
  /\ dialog' = Clearance
  /\ UNCHANGED <<serverVars, listed, opening, polled, jobFilter, commandVars, missed>>

\* The statuses to clear are chosen in the dialog.
PressClear ==
  /\ dialog = Clearance /\ clearing.step = "none" /\ JobCalls < MaxJobCalls
  /\ \E statuses \in SUBSET Clearable :
       Count(statuses) > 0 /\ clearing' = [step |-> "sent", statuses |-> statuses]
  /\ UNCHANGED <<serverVars, listed, opening, polled, viewVars, queueing, missed>>

Cleared(j) == jobs[j] \in clearing.statuses

ServeClear ==
  /\ clearing.step = "sent"
  /\ jobs' = [j \in CaptureJobs |-> IF Cleared(j) THEN "cleared" ELSE jobs[j]]
  /\ clearing' = [clearing EXCEPT !.step = "served"]
  /\ UNCHANGED <<lost, revised, listed, opening, polled, viewVars, queueing, missed>>

ReceiveClear ==
  /\ clearing.step = "served"
  /\ clearing' = NoClearing
  /\ dialog' = NoDialog /\ jobFilter' = "all"
  /\ Inquire
  /\ UNCHANGED <<serverVars, listed, opening, queueing, missed>>

\* The dialog stays open with the error.
LoseClear ==
  /\ clearing.step # "none"
  /\ clearing' = NoClearing
  /\ UNCHANGED <<serverVars, listed, opening, polled, viewVars, queueing, missed>>

-----------------------------------------------------------------------------
(* Filters and review. *)

NeedsAttention(j) ==
  listed[j] = "failed" \/ (listed[j] = "completed" /\ j \in Doubtful)

\* Grouping and sorting only arrange the jobs that pass the filters.
Visible(j) ==
  \/ jobFilter = "all"
  \/ jobFilter = "attention" /\ NeedsAttention(j)
  \/ jobFilter = listed[j]

ChooseFilter(f) ==
  /\ dialog = NoDialog /\ Loaded /\ f # jobFilter
  /\ jobFilter' = f
  /\ UNCHANGED <<serverVars, listed, opening, polled, dialog, commandVars, missed>>

\* The dialog keeps the job as it was listed, whatever is listed later.  Its zoom
\* and its full screen are left out.
Review(j) ==
  /\ dialog = NoDialog /\ Visible(j) /\ listed[j] = "completed"
  /\ dialog' = ReviewOf(j, 1)
  /\ UNCHANGED <<serverVars, listed, opening, polled, jobFilter, commandVars, missed>>

TurnReview ==
  /\ dialog.is = "review"
  /\ \/ dialog.page > 1 /\ dialog' = [dialog EXCEPT !.page = @ - 1]
     \/ dialog.page < Shots[dialog.job] /\ dialog' = [dialog EXCEPT !.page = @ + 1]
  /\ UNCHANGED <<serverVars, listed, opening, polled, jobFilter, commandVars, missed>>

-----------------------------------------------------------------------------
(* The server: the capture worker, its requeue of interrupted jobs, and the *)
(* schedule and other visitors, who queue and clear jobs as well.           *)

JobSteps ==
  {<<"none", "queued">>, <<"queued", "running">>, <<"running", "completed">>,
   <<"running", "failed">>, <<"running", "queued">>,
   <<"queued", "cleared">>, <<"failed", "cleared">>}

JobMoves(j) ==
  /\ jobs[j] = "none" => j \notin OwnJobs
  /\ \E step \in JobSteps : jobs[j] = step[1] /\ jobs' = [jobs EXCEPT ![j] = step[2]]
  /\ UNCHANGED <<lost, revised, listed, opening, polled, viewVars, commandVars, missed>>

\* A report that found its row running writes it by its id alone, whatever has
\* become of it: queued once more, or ended by another report.
LateReport(j) ==
  /\ jobs[j] \in {"queued"} \cup Finished
  /\ \E end \in Finished : jobs' = [jobs EXCEPT ![j] = end]
  /\ revised' = IF jobs[j] \in Finished THEN revised \cup {j} ELSE revised
  /\ UNCHANGED <<lost, listed, opening, polled, viewVars, commandVars, missed>>

\* A worker that does not learn of its completion deletes the files of the capture;
\* the row stays as it is.
LoseFiles(j) ==
  /\ jobs[j] = "completed"
  /\ lost' = lost \cup {j}
  /\ UNCHANGED <<jobs, revised, listed, opening, polled, viewVars, commandVars, missed>>

JobsNext ==
  \/ OpenPage \/ Poll
  \/ \E i \in 1 .. MaxJobCalls : ShowJobs(i) \/ MissJobs(i)
  \/ Confirm \/ CloseDialog \/ PressStart \/ RefuseStart
  \/ \E j \in CaptureJobs : ServeStart(j) \/ ReceiveStart(j) \/ LoseStart(j)
  \/ OpenClearance \/ PressClear \/ ServeClear \/ ReceiveClear \/ LoseClear
  \/ \E f \in JobFilters : ChooseFilter(f)
  \/ \E j \in CaptureJobs : Review(j)
  \/ \E j \in CaptureJobs : JobMoves(j) \/ LateReport(j) \/ LoseFiles(j)
  \/ TurnReview

-----------------------------------------------------------------------------
(* Properties. *)

\* A capture started here is followed to its end: when nothing is under way and
\* the page does not poll any more, it shows the capture as it ended, unless
\* somebody has cleared it, or a late report has given it another end than the one
\* that was shown.  Polls may fail, and be overtaken; but the polling ends too early
\* when an overtaken answer without an unfinished job is shown last, or when the
\* refresh that would have shown the job fails.
OwnCapturesAreFollowed ==
  ~missed /\ ~opening /\ JobCalls = 0 /\ ~Awaits(listed) =>
    \A j \in OwnJobs :
      jobs[j] # "cleared" =>
        listed[j] = jobs[j] \/ (j \in revised /\ listed[j] \in Finished)

\* What GET .../screenshot/{page} can answer.
Served(j, page) == jobs[j] = "completed" /\ j \notin lost /\ page \in 1 .. Shots[j]

\* However old the list, the screenshot under review is one the server has: no
\* clearing takes it away, only a worker, with a late report or with the files of
\* a completion it did not learn of.
ReviewedShotExists ==
  dialog.is = "review" =>
    Served(dialog.job, dialog.page) \/ dialog.job \in lost \cup revised

=============================================================================
