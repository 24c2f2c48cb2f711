------------------------ MODULE BackgroundWorkProofs ------------------------
(***************************************************************************)
(* Proofs about BackgroundWork, for any numbers of jobs, claims, requests  *)
(* and stops: its types, the results of the jobs, the claims a digest      *)
(* mails or leaves out, the end of the scheduler's task, and that ai_jobs  *)
(* is the queue JobQueue describes.                                        *)
(*                                                                         *)
(* Each subject has an invariant of its own: what the worker holds and its *)
(* results (WorkInv, HeldInv), the news (NewsInv), the claims of digests   *)
(* under way (MailInv) and the scheduler's pass (PassInv).                 *)
(***************************************************************************)
EXTENDS BackgroundWork, TLAPS

Busy == worker.pc \in {"execute", "stored", "digest"}

\* The worker's job is the only one that runs, once the worker has requeued what
\* a restart interrupted, and has the kind that its step is for.
Holding ==
  /\ Busy => worker.job \in Jobs /\ status[worker.job] = "running"
  /\ \A j \in Jobs : status[j] = "running" =>
       worker.pc = "starting" \/ (Busy /\ worker.job = j)
  /\ worker.pc \in {"execute", "stored"} => kind[worker.job] = "assessment"
  /\ worker.pc = "digest" => kind[worker.job] = "digest"

\* A job stores its result once between two stops, and before it is completed.
Stored ==
  \A j \in Jobs :
    /\ effects[j] <= stops + (IF (worker.pc = "stored" /\ worker.job = j) \/ status[j] \in Ended
                                THEN 1 ELSE 0)
    /\ worker.pc = "stored" /\ worker.job = j => effects[j] >= 1
    /\ status[j] = "completed" /\ kind[j] = "assessment" => effects[j] >= 1
    /\ status[j] = "unused" => effects[j] = 0

WorkInv == Holding /\ Stored

\* A digest under way has all the news in its claims that did not arrive beside
\* it and were not too old for the window before the first mark, so that those are
\* mailed when it is marked as sent.
NewsInv ==
  /\ \A c \in Claims : claim[c] # "absent" /\ c \notin newer =>
       mailed[c] > 0 \/ c \in exposed \/ c \in outlived
  /\ \A d \in Senders, c \in newer :
       UnderWay(d) /\ claim[c] # "absent" =>
         c \in digest[d].claims \/ c \in exposed \/ c \in outlived
  /\ \A d \in Senders : digest[d].step = "sent" => \A c \in digest[d].claims : mailed[c] > 0

\* What may be mailed once more has been read by two digests, or its mark is
\* still to come.
MailInv ==
  /\ \A c \in Claims : mailed[c] > 1 => c \in repeated
  /\ \A c \in Claims : mailed[c] > 0 => claim[c] = "stored"
  /\ \A d \in Senders : UnderWay(d) => \A c \in digest[d].claims : claim[c] = "stored"
  /\ \A c \in newer : mailed[c] > 0 =>
       c \in repeated \/ \E d \in Senders : digest[d].step = "sent" /\ c \in digest[d].claims
  /\ \A d \in Senders : digest[d].step = "await" =>
       \A c \in digest[d].claims : mailed[c] > 0 => c \in repeated
  /\ \A d, e \in Senders : d # e /\ UnderWay(d) /\ UnderWay(e) =>
       digest[d].claims \cap digest[e].claims \subseteq repeated

\* The worker has a digest only while its job is one.
HeldInv == worker.pc # "digest" => digest["worker"] = Idle

\* What the scheduler's pass has read still holds, unless it was switched.
PassInv ==
  \/ scheduler.switched
  \/ /\ scheduler.pc \in {"collect", "capture", "queue"} => settings.mode = scheduler.mode
     /\ scheduler.pc = "queue" => settings.mode = "active" /\ settings.allowed
     /\ scheduler.pc = "ended" =>
          scheduler.posted \/ scheduler.deleted \/ digest["scheduler"].step = "broken"

-----------------------------------------------------------------------------
(* DigestReads, with the claims that it leaves out as old. *)

DigestReadsWithout(d, old) ==
  LET news == {c \in newer \ old : claim[c] = "stored"}
      others == UNION {digest[e].claims : e \in {e \in Senders : UnderWay(e)}}
  IN /\ digest[d] = Idle
     /\ digest' = [digest EXCEPT ![d] =
          [step |-> IF news = {} THEN "done" ELSE "await", claims |-> news]]
     /\ exposed' = exposed \cup {c \in Claims : claim[c] = "dated"}
     /\ repeated' = repeated \cup (news \cap others)
     /\ outlived' = outlived \cup old
     /\ UNCHANGED <<claim, marked, newer, mailed>>

LEMMA ReadsWithout ==
  ASSUME NEW d \in Senders, DigestReads(d)
  PROVE  \E old \in SUBSET newer : DigestReadsWithout(d, old)
BY DEF DigestReads, DigestReadsWithout

-----------------------------------------------------------------------------
(* Types. *)

LEMMA TypeInit == Init => TypeOK
<1> SUFFICES ASSUME Init
             PROVE  TypeOK
  OBVIOUS
<1>1. Idle \in [step : {"none", "await", "sent", "done", "failed", "broken"},
               claims : SUBSET Claims]
  BY DEF Idle
<1>2. /\ digest \in [Senders -> [step : {"none", "await", "sent", "done", "failed", "broken"},
                                claims : SUBSET Claims]]
      /\ claim \in [Claims -> {"absent", "dated", "stored"}]
      /\ newer \subseteq Claims /\ mailed \in [Claims -> Nat]
      /\ exposed \subseteq Claims /\ repeated \subseteq Claims /\ outlived \subseteq Claims
  BY <1>1 DEF Init
<1>3. marked \in BOOLEAN
  BY DEF Init
<1>4. /\ scheduler \in [pc : {"asleep", "collect", "capture", "queue", "digest", "ended"},
                        mode : Modes, posted : BOOLEAN, deleted : BOOLEAN,
                        switched : BOOLEAN]
      /\ settings \in [mode : Modes, allowed : BOOLEAN]
  BY DEF Init, Asleep, Modes
<1>5. /\ status \in [Jobs -> {"unused", "queued", "running"} \cup Ended]
      /\ kind \in [Jobs -> Kinds] /\ effects \in [Jobs -> Nat]
      /\ worker \in [pc : {"starting", "idle", "execute", "stored", "digest"},
                     job : Jobs \cup {NoJob}]
      /\ stops \in 0 .. MaxStops
  BY BoundsAssumption DEF Init, Kinds, NoJob
<1> QED BY <1>2, <1>3, <1>4, <1>5 DEF TypeOK

LEMMA TypeOfDigest ==
  ASSUME TypeOK, NEW d \in Senders, DigestReads(d) \/ DigestGoesOn(d)
  PROVE  /\ digest' \in [Senders -> [step : {"none", "await", "sent", "done", "failed", "broken"},
                                     claims : SUBSET Claims]]
         /\ claim' = claim
         /\ marked' \in BOOLEAN
         /\ newer' \subseteq Claims
         /\ mailed' \in [Claims -> Nat]
         /\ exposed' \subseteq Claims
         /\ repeated' \subseteq Claims
         /\ outlived' \subseteq Claims
<1> USE DEF TypeOK
<1>1. CASE DigestReads(d)
  <2>1. PICK old \in SUBSET newer : DigestReadsWithout(d, old)
    BY <1>1, ReadsWithout
  <2>2. {c \in newer \ old : claim[c] = "stored"} \subseteq Claims
    OBVIOUS
  <2> QED BY <2>1, <2>2 DEF DigestReadsWithout
<1>2. CASE DigestGoesOn(d)
  <2>1. digest[d].claims \subseteq Claims
    OBVIOUS
  <2>2. CASE DigestIsSent(d) \/ DigestBreaks(d)
    BY <2>2 DEF DigestIsSent, DigestBreaks, newsVars
  <2>3. CASE DigestFails(d)
    BY <2>1, <2>3 DEF DigestFails
  <2>4. CASE DigestIsMarked(d)
    BY <2>4 DEF DigestIsMarked
  <2> QED BY <1>2, <2>2, <2>3, <2>4 DEF DigestGoesOn
<1> QED BY <1>1, <1>2

LEMMA TypeStep == TypeOK /\ [Next]_vars => TypeOK'
<1> SUFFICES ASSUME TypeOK, [Next]_vars
             PROVE  TypeOK'
  OBVIOUS
<1> USE DEF TypeOK, jobVars, digestVars, newsVars
<1> Idle \in [step : {"none", "await", "sent", "done", "failed", "broken"}, claims : SUBSET Claims]
  BY DEF Idle
<1> "worker" \in Senders /\ "scheduler" \in Senders /\ Requests \subseteq Senders
  BY DEF Senders
<1>1. ASSUME NEW j \in Jobs, NEW k \in Kinds, SubmitJob(j, k)
      PROVE  TypeOK'
  BY <1>1 DEF SubmitJob
<1>2. CASE ChangeSettings
  <2>1. PICK m \in Modes, a \in BOOLEAN :
          /\ settings' = [mode |-> m, allowed |-> a]
          /\ scheduler' = [scheduler EXCEPT !.switched =
               @ \/ /\ scheduler.pc # "asleep"
                    /\ settings.mode # m \/ settings.allowed # a]
    BY <1>2 DEF ChangeSettings
  <2>2. \A b \in BOOLEAN : [scheduler EXCEPT !.switched = b] \in
          [pc : {"asleep", "collect", "capture", "queue", "digest", "ended"},
           mode : Modes, posted : BOOLEAN, deleted : BOOLEAN, switched : BOOLEAN]
    OBVIOUS
  <2>3. (\/ scheduler.switched
         \/ /\ scheduler.pc # "asleep"
            /\ settings.mode # m \/ settings.allowed # a) \in BOOLEAN
    OBVIOUS
  <2> QED BY <1>2, <2>1, <2>2, <2>3 DEF ChangeSettings
<1>3. ASSUME NEW c \in Claims, ReceiveClaim(c) \/ StoreClaim(c)
      PROVE  TypeOK'
  BY <1>3 DEF ReceiveClaim, StoreClaim
<1>9. CASE DeleteClient
  BY <1>9 DEF DeleteClient
<1>4. ASSUME NEW r \in Requests, Request(r)
      PROVE  TypeOK'
  <2>1. CASE RequestDigest(r) \/ DigestGoesOn(r)
    BY <1>4, <2>1, TypeOfDigest DEF RequestDigest, DigestGoesOn
  <2>2. CASE RequestEnds(r)
    BY <2>2 DEF RequestEnds
  <2> QED BY <1>4, <2>1, <2>2 DEF Request
<1>5. CASE Worker
  <2>1. CASE RequeueInterrupted
    BY <2>1 DEF RequeueInterrupted
  <2>2. ASSUME NEW j \in Jobs, ClaimJob(j)
        PROVE  TypeOK'
    BY <2>2 DEF ClaimJob
  <2>3. CASE StoreResult
    <3>1. effects' = [j \in Jobs |-> IF j = worker.job THEN effects[j] + 1 ELSE effects[j]]
      BY <2>3 DEF StoreResult
    <3>2. effects' \in [Jobs -> Nat]
      BY <3>1
    <3> QED BY <2>3, <3>2 DEF StoreResult
  <2>4. CASE WorkerReadsDigest \/ DigestGoesOn("worker")
    BY <2>4, TypeOfDigest DEF WorkerReadsDigest, DigestGoesOn
  <2>5. CASE FinishJob \/ FailJob
    BY <2>5 DEF FinishJob, FailJob, EndJob, Ended, NoJob
  <2> QED BY <1>5, <2>1, <2>2, <2>3, <2>4, <2>5 DEF Worker
<1>6. CASE Scheduler
  <2>1. CASE SchedulerWakes \/ SchedulerCollects
    BY <2>1 DEF SchedulerWakes, SchedulerCollects, Asleep, Modes
  <2>2. CASE SchedulerSelects \/ SchedulerQueues
    BY <2>2 DEF SchedulerSelects, SchedulerQueues
  <2>3. CASE SchedulerReadsDigest \/ DigestGoesOn("scheduler")
    BY <2>3, TypeOfDigest DEF SchedulerReadsDigest, DigestGoesOn
  <2>4. CASE SchedulerSleeps
    BY <2>4 DEF SchedulerSleeps, Asleep, Modes
  <2>5. CASE SchedulerBreaks
    BY <2>5 DEF SchedulerBreaks
  <2> QED BY <1>6, <2>1, <2>2, <2>3, <2>4, <2>5 DEF Scheduler
<1>7. CASE ServerStops
  <2>1. stops' \in 0 .. MaxStops
    BY <1>7, BoundsAssumption DEF ServerStops
  <2>2. UNION {digest[d].claims : d \in {d \in Senders : digest[d].step = "sent"}} \subseteq Claims
    OBVIOUS
  <2> QED BY <1>7, <2>1, <2>2 DEF ServerStops, Asleep, Modes, NoJob
<1>8. CASE UNCHANGED vars
  BY <1>8 DEF vars
<1> QED BY <1>1, <1>2, <1>3, <1>4, <1>5, <1>6, <1>7, <1>8, <1>9 DEF Next

\* Every variable keeps its type: TypeOK of the background tasks.
THEOREM WorkTypeCorrect == Spec => []TypeOK
BY TypeInit, TypeStep, PTL DEF Spec

-----------------------------------------------------------------------------
(* What the worker holds, and the results. *)

LEMMA WorkInit == Init => WorkInv
BY BoundsAssumption DEF Init, WorkInv, Holding, Stored, Busy, Ended

\* The steps that leave the jobs and their worker alone.
LEMMA WorkFrame == WorkInv /\ UNCHANGED <<jobVars, stops>> => WorkInv'
BY DEF WorkInv, Holding, Stored, Busy, jobVars

LEMMA WorkFrames ==
  ASSUME [Next]_vars
  PROVE  \/ UNCHANGED <<jobVars, stops>>
         \/ \E j \in Jobs, k \in Kinds : SubmitJob(j, k)
         \/ RequeueInterrupted \/ StoreResult \/ FinishJob \/ FailJob
         \/ \E j \in Jobs : ClaimJob(j)
         \/ ServerStops
<1>1. CASE Worker
  BY <1>1 DEF Worker, WorkerReadsDigest, DigestGoesOn
<1>2. CASE Scheduler
  BY <1>2 DEF Scheduler, SchedulerWakes, SchedulerCollects, SchedulerSelects,
              SchedulerQueues, SchedulerReadsDigest, DigestGoesOn, SchedulerSleeps,
              SchedulerBreaks
<1>3. ASSUME NEW r \in Requests, Request(r)
      PROVE  UNCHANGED <<jobVars, stops>>
  BY <1>3 DEF Request, RequestDigest, DigestGoesOn, RequestEnds
<1>4. CASE ChangeSettings \/ DeleteClient \/ \E c \in Claims : ReceiveClaim(c) \/ StoreClaim(c)
  BY <1>4 DEF ChangeSettings, DeleteClient, ReceiveClaim, StoreClaim
<1>5. CASE UNCHANGED vars
  BY <1>5 DEF vars
<1> QED BY <1>1, <1>2, <1>3, <1>4, <1>5 DEF Next

LEMMA EndOfJob ==
  ASSUME TypeOK, WorkInv, Busy, NEW outcome \in Ended, EndJob(outcome),
         outcome = "completed" => worker.pc \in {"stored", "digest"}
  PROVE  WorkInv'
<1> USE DEF TypeOK, EndJob
<1>1. worker.job \in Jobs /\ status[worker.job] = "running"
  BY DEF WorkInv, Holding
<1>2. status' = [status EXCEPT ![worker.job] = outcome] /\ effects' = effects
      /\ kind' = kind /\ stops' = stops /\ worker' = [pc |-> "idle", job |-> NoJob]
  OBVIOUS
<1>3. Holding'
  BY <1>1, <1>2 DEF WorkInv, Holding, Busy, Ended
<1>4. Stored'
  <2> SUFFICES ASSUME NEW j \in Jobs
               PROVE  /\ effects[j] <= stops + (IF status'[j] \in Ended THEN 1 ELSE 0)
                      /\ status'[j] = "completed" /\ kind[j] = "assessment" => effects[j] >= 1
                      /\ status'[j] = "unused" => effects[j] = 0
    BY <1>2 DEF Stored
  <2>1. CASE j = worker.job
    BY <1>1, <1>2, <2>1 DEF WorkInv, Holding, Stored, Busy, Ended
  <2>2. CASE j # worker.job
    BY <1>1, <1>2, <2>2 DEF WorkInv, Stored
  <2> QED BY <2>1, <2>2
<1> QED BY <1>3, <1>4 DEF WorkInv

LEMMA WorkStep == TypeOK /\ WorkInv /\ [Next]_vars => WorkInv'
<1> SUFFICES ASSUME TypeOK, WorkInv, [Next]_vars
             PROVE  WorkInv'
  OBVIOUS
<1> USE BoundsAssumption DEF TypeOK
<1>1. ASSUME NEW j \in Jobs, NEW k \in Kinds, SubmitJob(j, k)
      PROVE  WorkInv'
  <2>1. Holding'
    BY <1>1 DEF SubmitJob, WorkInv, Holding, Busy
  <2>2. Stored'
    BY <1>1 DEF SubmitJob, WorkInv, Holding, Stored, Busy, Ended, digestVars
  <2> QED BY <2>1, <2>2 DEF WorkInv
<1>2. CASE RequeueInterrupted
  <2>1. Holding'
    BY <1>2 DEF RequeueInterrupted, WorkInv, Holding, Busy
  <2>2. Stored'
    BY <1>2 DEF RequeueInterrupted, WorkInv, Holding, Stored, Busy, Ended
  <2> QED BY <2>1, <2>2 DEF WorkInv
<1>3. ASSUME NEW j \in Jobs, ClaimJob(j)
      PROVE  WorkInv'
  <2>1. Holding'
    BY <1>3 DEF ClaimJob, WorkInv, Holding, Busy, Kinds
  <2>2. Stored'
    BY <1>3 DEF ClaimJob, WorkInv, Holding, Stored, Busy, Ended
  <2> QED BY <2>1, <2>2 DEF WorkInv
<1>4. CASE StoreResult
  <2>1. worker.job \in Jobs
    BY <1>4 DEF StoreResult, WorkInv, Holding, Busy
  <2>2. Holding'
    BY <1>4 DEF StoreResult, WorkInv, Holding, Busy
  <2>3. Stored'
    BY <1>4, <2>1 DEF StoreResult, WorkInv, Holding, Stored, Busy, Ended
  <2> QED BY <2>2, <2>3 DEF WorkInv
<1>5. CASE FinishJob \/ FailJob
  BY <1>5, EndOfJob DEF FinishJob, FailJob, Busy, Ended
<1>6. CASE ServerStops
  <2>1. Holding'
    BY <1>6 DEF ServerStops, WorkInv, Holding, Busy
  <2>2. Stored'
    BY <1>6 DEF ServerStops, WorkInv, Holding, Stored, Busy, Ended
  <2> QED BY <2>1, <2>2 DEF WorkInv
<1>7. CASE UNCHANGED <<jobVars, stops>>
  BY <1>7, WorkFrame
<1> QED BY <1>1, <1>2, <1>3, <1>4, <1>5, <1>6, <1>7, WorkFrames

LEMMA WorkCorrect == Spec => []WorkInv
BY WorkInit, WorkStep, WorkTypeCorrect, PTL DEF Spec

\* ResultsAreStored: a completed job has stored its result, and no result is
\* stored twice but for a stop in between (the commit before finish_ai_job).
THEOREM ResultsCorrect == Spec => []ResultsAreStored
<1>1. TypeOK /\ WorkInv => ResultsAreStored
  BY DEF TypeOK, WorkInv, Stored, ResultsAreStored
<1> QED BY <1>1, WorkTypeCorrect, WorkCorrect, PTL

-----------------------------------------------------------------------------
(* The queue of the jobs. *)

LEMMA QueueInit == Init => Queue!Init
BY DEF Init, Queue!Init, Jobs, Queue!Jobs

LEMMA QueueStep == TypeOK /\ WorkInv /\ [Next]_vars => [Queue!Next]_status
<1> SUFFICES ASSUME TypeOK, WorkInv, [Next]_vars
             PROVE  Queue!Next \/ status' = status
  OBVIOUS
<1> USE DEF Jobs, Queue!Jobs, Ended, Queue!Ended
<1>1. ASSUME NEW j \in Jobs, NEW k \in Kinds, SubmitJob(j, k)
      PROVE  Queue!Next
  BY <1>1 DEF SubmitJob, Queue!Submit, Queue!Next
<1>2. CASE RequeueInterrupted
  BY <1>2 DEF RequeueInterrupted, Queue!Interrupt, Queue!Next
<1>3. ASSUME NEW j \in Jobs, ClaimJob(j)
      PROVE  Queue!Next
  <2>1. \A i \in Jobs : status[i] # "running"
    BY <1>3 DEF ClaimJob, WorkInv, Holding, Busy
  <2>2. Queue!Take(j)
    BY <1>3, <2>1 DEF ClaimJob, Queue!Take, Queue!Oldest
  <2> QED BY <2>2 DEF Queue!Next
<1>4. CASE FinishJob \/ FailJob
  <2>1. worker.job \in Jobs /\ status[worker.job] = "running"
    BY <1>4 DEF FinishJob, FailJob, WorkInv, Holding, Busy
  <2>2. \E outcome \in Ended : Queue!End(worker.job, outcome)
    BY <1>4, <2>1 DEF FinishJob, FailJob, EndJob, Queue!End
  <2> QED BY <2>1, <2>2 DEF Queue!Next
<1>5. CASE StoreResult \/ ServerStops
  BY <1>5 DEF StoreResult, ServerStops
<1>6. CASE UNCHANGED <<jobVars, stops>>
  BY <1>6 DEF jobVars
<1> QED BY <1>1, <1>2, <1>3, <1>4, <1>5, <1>6, WorkFrames

\* Seen through their statuses, the jobs are the queue of JobQueue: one at a time,
\* the oldest first, an interrupted one again in its place, an end final.
THEOREM ImplementsQueue == Spec => QueueSpec
BY QueueInit, QueueStep, WorkTypeCorrect, WorkCorrect, PTL
   DEF Spec, QueueSpec, Queue!Spec

-----------------------------------------------------------------------------
(* The scheduler's pass. *)

\* While its task has ended the scheduler has no other digest.
Kept ==
  scheduler.pc = "ended" /\ digest["scheduler"].step = "broken" =>
    digest'["scheduler"].step = "broken"

LEMMA StepOfAnother ==
  ASSUME TypeOK, NEW d \in Senders, d # "scheduler",
         \/ DigestReads(d) \/ DigestIsSent(d) \/ DigestFails(d) \/ DigestBreaks(d)
         \/ DigestIsMarked(d)
  PROVE  digest'["scheduler"] = digest["scheduler"]
BY DEF TypeOK, Senders, DigestReads, DigestIsSent, DigestFails, DigestBreaks, DigestIsMarked

LEMMA PassStep == TypeOK /\ PassInv /\ [Next]_vars => PassInv'
<1> SUFFICES ASSUME TypeOK, PassInv, [Next]_vars
             PROVE  PassInv'
  OBVIOUS
<1> USE DEF TypeOK, PassInv
<1>1. CASE ChangeSettings
  <2>1. PICK m \in Modes, a \in BOOLEAN :
          /\ settings' = [mode |-> m, allowed |-> a]
          /\ scheduler' = [scheduler EXCEPT !.switched =
               @ \/ /\ scheduler.pc # "asleep"
                    /\ settings.mode # m \/ settings.allowed # a]
    BY <1>1 DEF ChangeSettings
  <2>0. digest' = digest
    BY <1>1 DEF ChangeSettings, digestVars
  <2>2. CASE settings.mode = m /\ settings.allowed = a
    BY <2>0, <2>1, <2>2
  <2>3. CASE scheduler.pc = "asleep"
    BY <2>0, <2>1, <2>3
  <2>4. CASE scheduler.pc # "asleep" /\ (settings.mode # m \/ settings.allowed # a)
    <3>1. scheduler'.switched
      BY <2>1, <2>4
    <3> QED BY <3>1
  <2> QED BY <2>2, <2>3, <2>4
<1>2. ASSUME NEW c \in Claims, StoreClaim(c)
      PROVE  PassInv'
  <2>1. /\ scheduler'.pc = scheduler.pc /\ scheduler'.mode = scheduler.mode
        /\ scheduler'.switched = scheduler.switched /\ settings' = settings
        /\ scheduler'.deleted = scheduler.deleted /\ digest' = digest
    BY <1>2 DEF StoreClaim
  <2>2. scheduler.posted => scheduler'.posted
    BY <1>2 DEF StoreClaim
  <2> QED BY <2>1, <2>2
<1>3. CASE SchedulerWakes \/ SchedulerSleeps \/ ServerStops
  <2>1. CASE SchedulerWakes
    <3>1. settings' = settings /\ scheduler'.pc = "collect" /\ scheduler'.mode = settings.mode
      BY <2>1 DEF SchedulerWakes, Asleep
    <3> QED BY <3>1
  <2>2. CASE scheduler' = Asleep
    BY <2>2 DEF Asleep
  <2> QED BY <1>3, <2>1, <2>2 DEF SchedulerSleeps, ServerStops
<1>4. CASE SchedulerCollects
  BY <1>4 DEF SchedulerCollects
<1>5. CASE SchedulerSelects
  BY <1>5 DEF SchedulerSelects
<1>6. CASE SchedulerQueues
  BY <1>6 DEF SchedulerQueues
<1>7. CASE UNCHANGED <<settings, scheduler>> /\ Kept
  BY <1>7 DEF Kept
<1>9. CASE SchedulerBreaks
  BY <1>9 DEF SchedulerBreaks, digestVars
<1>10. CASE DeleteClient
  BY <1>10 DEF DeleteClient, digestVars
<1>8. \/ ChangeSettings \/ DeleteClient \/ (\E c \in Claims : StoreClaim(c))
      \/ SchedulerWakes \/ SchedulerSleeps \/ ServerStops \/ SchedulerCollects
      \/ SchedulerSelects \/ SchedulerQueues \/ SchedulerBreaks
      \/ UNCHANGED <<settings, scheduler>> /\ Kept
  <2>0. "worker" # "scheduler" /\ "worker" \in Senders /\ Requests \subseteq Senders
        /\ "scheduler" \in Senders /\ "scheduler" \notin Requests
    BY ActorsAssumption DEF Senders
  <2>1. ASSUME Worker
        PROVE  UNCHANGED <<settings, scheduler>> /\ Kept
    <3>1. ASSUME WorkerReadsDigest \/ DigestGoesOn("worker")
          PROVE  UNCHANGED <<settings, scheduler>> /\ Kept
      BY <2>0, <3>1, StepOfAnother DEF WorkerReadsDigest, DigestGoesOn, Kept
    <3>2. ASSUME FinishJob \/ FailJob
          PROVE  UNCHANGED <<settings, scheduler>> /\ Kept
      BY <2>0, <3>2 DEF FinishJob, FailJob, EndJob, Kept
    <3> QED BY <2>1, <3>1, <3>2
            DEF Worker, RequeueInterrupted, ClaimJob, StoreResult, digestVars, Kept
  <2>2. ASSUME SchedulerReadsDigest \/ DigestGoesOn("scheduler")
        PROVE  UNCHANGED <<settings, scheduler>> /\ Kept
    <3>1. CASE SchedulerReadsDigest
      BY <3>1 DEF SchedulerReadsDigest, Kept
    <3>2. CASE DigestGoesOn("scheduler")
      BY <3>2 DEF DigestGoesOn, DigestIsSent, DigestFails, DigestBreaks, DigestIsMarked,
                  UnderWay, Kept
    <3> QED BY <2>2, <3>1, <3>2
  <2>3. ASSUME NEW r \in Requests, Request(r)
        PROVE  UNCHANGED <<settings, scheduler>> /\ Kept
    <3>1. r \in Senders /\ r # "scheduler"
      BY <2>0
    <3>2. CASE RequestEnds(r)
      BY <2>0, <3>1, <3>2 DEF RequestEnds, Kept
    <3>3. CASE RequestDigest(r) \/ DigestGoesOn(r)
      BY <3>1, <3>3, StepOfAnother DEF RequestDigest, DigestGoesOn, Kept
    <3> QED BY <2>3, <3>2, <3>3 DEF Request
  <2>4. ASSUME UNCHANGED vars
        PROVE  UNCHANGED <<settings, scheduler>> /\ Kept
    BY <2>4 DEF vars, digestVars, Kept
  <2>5. ASSUME \/ \E j \in Jobs, k \in Kinds : SubmitJob(j, k)
               \/ \E c \in Claims : ReceiveClaim(c)
        PROVE  UNCHANGED <<settings, scheduler>> /\ Kept
    BY <2>5 DEF SubmitJob, ReceiveClaim, digestVars, Kept
  <2> QED BY <2>1, <2>2, <2>3, <2>4, <2>5 DEF Next, Scheduler
<1> QED BY <1>1, <1>2, <1>3, <1>4, <1>5, <1>6, <1>7, <1>8, <1>9, <1>10

\* SchedulerEndsForCause: its task ends only by a switch, a claim or a deletion
\* beside its pass, or by an exception of its digest.
THEOREM SchedulerCorrect == Spec => []SchedulerEndsForCause
<1>1. Init => PassInv
  BY DEF Init, PassInv, Asleep
<1>2. PassInv => SchedulerEndsForCause
  BY DEF PassInv, SchedulerEndsForCause
<1> QED BY <1>1, <1>2, PassStep, WorkTypeCorrect, PTL DEF Spec

-----------------------------------------------------------------------------
(* The news and the mails. *)

LEMMA HeldStep == TypeOK /\ HeldInv /\ [Next]_vars => HeldInv'
<1> SUFFICES ASSUME TypeOK, HeldInv, [Next]_vars
             PROVE  HeldInv'
  OBVIOUS
<1> USE DEF TypeOK, HeldInv
<1>0. "worker" \in Senders /\ "scheduler" \in Senders
  BY DEF Senders
<1>1. CASE Worker
  <2>1. CASE FinishJob \/ FailJob
    BY <2>1, <1>0 DEF FinishJob, FailJob, EndJob
  <2>2. CASE WorkerReadsDigest
    BY <2>2 DEF WorkerReadsDigest, jobVars
  <2>3. CASE DigestGoesOn("worker")
    <3>1. digest["worker"] # Idle
      BY <2>3 DEF DigestGoesOn, DigestIsSent, DigestFails, DigestBreaks, DigestIsMarked,
                  UnderWay, Idle
    <3> QED BY <2>3, <3>1 DEF DigestGoesOn, jobVars
  <2>4. CASE RequeueInterrupted \/ StoreResult \/ \E j \in Jobs : ClaimJob(j)
    BY <2>4 DEF RequeueInterrupted, StoreResult, ClaimJob, digestVars
  <2> QED BY <1>1, <2>1, <2>2, <2>3, <2>4 DEF Worker
<1>2. CASE Scheduler
  <2>1. digest'["worker"] = digest["worker"] /\ worker' = worker
    BY <1>2, <1>0 DEF Scheduler, SchedulerWakes, SchedulerCollects, SchedulerSelects,
                SchedulerQueues, SchedulerReadsDigest, DigestGoesOn, SchedulerSleeps,
                SchedulerBreaks, DigestReads, DigestIsSent, DigestFails, DigestBreaks,
                DigestIsMarked, jobVars, digestVars
  <2> QED BY <2>1
<1>3. ASSUME NEW r \in Requests, Request(r)
      PROVE  HeldInv'
  <2>1. r # "worker"
    BY ActorsAssumption
  <2>2. digest'["worker"] = digest["worker"] /\ worker' = worker
    BY <1>3, <1>0, <2>1 DEF Request, RequestDigest, DigestGoesOn, RequestEnds,
                DigestReads, DigestIsSent, DigestFails, DigestBreaks, DigestIsMarked, jobVars
  <2> QED BY <2>2
<1>4. CASE ServerStops
  BY <1>4, <1>0 DEF ServerStops
<1>5. CASE UNCHANGED <<jobVars, digest>>
  BY <1>5 DEF jobVars
<1>6. ASSUME NEW j \in Jobs, NEW k \in Kinds, SubmitJob(j, k)
      PROVE  HeldInv'
  BY <1>6 DEF SubmitJob, digestVars
<1>7. CASE UNCHANGED vars
  BY <1>7 DEF vars, digestVars, jobVars
<1> QED BY <1>1, <1>2, <1>3, <1>4, <1>5, <1>6, <1>7
        DEF Next, ChangeSettings, DeleteClient, ReceiveClaim, StoreClaim, digestVars

\* A digest that is not under way is put away.
Ends(d) == ~UnderWay(d) /\ digest' = [digest EXCEPT ![d] = Idle] /\ UNCHANGED newsVars

LEMMA DigestSteps ==
  ASSUME TypeOK, HeldInv, [Next]_vars
  PROVE  \/ \E d \in Senders : \/ DigestReads(d) \/ DigestIsSent(d) \/ DigestFails(d)
                               \/ DigestBreaks(d) \/ DigestIsMarked(d) \/ Ends(d)
         \/ \E c \in Claims : ReceiveClaim(c) \/ StoreClaim(c)
         \/ ServerStops
         \/ UNCHANGED digestVars
<1> "worker" \in Senders /\ "scheduler" \in Senders /\ Requests \subseteq Senders
  BY DEF Senders
<1>1. CASE Worker
  <2>1. ASSUME FinishJob \/ FailJob
        PROVE  Ends("worker")
    BY <2>1 DEF FinishJob, FailJob, EndJob, Ends, UnderWay, HeldInv, Idle
  <2> QED BY <1>1, <2>1 DEF Worker, RequeueInterrupted, ClaimJob, StoreResult,
                            WorkerReadsDigest, DigestGoesOn
<1>2. CASE Scheduler
  <2>1. ASSUME SchedulerSleeps
        PROVE  Ends("scheduler")
    BY <2>1 DEF SchedulerSleeps, Ends, UnderWay
  <2> QED BY <1>2, <2>1 DEF Scheduler, SchedulerWakes, SchedulerCollects, SchedulerSelects,
                            SchedulerQueues, SchedulerReadsDigest, DigestGoesOn,
                            SchedulerBreaks
<1>3. ASSUME NEW r \in Requests, Request(r)
      PROVE  \/ DigestReads(r) \/ DigestIsSent(r) \/ DigestFails(r) \/ DigestBreaks(r)
             \/ DigestIsMarked(r) \/ Ends(r)
  BY <1>3 DEF Request, RequestDigest, DigestGoesOn, RequestEnds, Ends, UnderWay
<1>4. CASE UNCHANGED vars
  BY <1>4 DEF vars
<1> QED BY <1>1, <1>2, <1>3, <1>4 DEF Next, SubmitJob, ChangeSettings, DeleteClient

LEMMA NewsStep == TypeOK /\ HeldInv /\ NewsInv /\ [Next]_vars => NewsInv'
<1> SUFFICES ASSUME TypeOK, HeldInv, NewsInv, [Next]_vars
             PROVE  NewsInv'
  OBVIOUS
<1> USE DEF TypeOK, NewsInv, UnderWay
<1>1. ASSUME NEW d \in Senders, DigestReads(d)
      PROVE  NewsInv'
  <2>1. PICK old \in SUBSET newer : DigestReadsWithout(d, old)
    BY <1>1, ReadsWithout
  <2> QED BY <2>1 DEF DigestReadsWithout
<1>2. ASSUME NEW d \in Senders, DigestIsSent(d)
      PROVE  NewsInv'
  BY <1>2 DEF DigestIsSent
<1>3. ASSUME NEW d \in Senders, DigestFails(d) \/ DigestBreaks(d) \/ Ends(d)
      PROVE  NewsInv'
  BY <1>3 DEF DigestFails, DigestBreaks, Ends, newsVars, Idle
<1>4. ASSUME NEW d \in Senders, DigestIsMarked(d)
      PROVE  NewsInv'
  BY <1>4 DEF DigestIsMarked
<1>5. ASSUME NEW c \in Claims, ReceiveClaim(c)
      PROVE  NewsInv'
  BY <1>5 DEF ReceiveClaim
<1>6. ASSUME NEW c \in Claims, StoreClaim(c)
      PROVE  NewsInv'
  BY <1>6 DEF StoreClaim
<1>7. CASE ServerStops
  BY <1>7 DEF ServerStops, Idle
<1>8. CASE UNCHANGED digestVars
  BY <1>8 DEF digestVars, newsVars
<1> QED BY <1>1, <1>2, <1>3, <1>4, <1>5, <1>6, <1>7, <1>8, DigestSteps

LEMMA MailStep == TypeOK /\ HeldInv /\ MailInv /\ [Next]_vars => MailInv'
<1> SUFFICES ASSUME TypeOK, HeldInv, MailInv, [Next]_vars
             PROVE  MailInv'
  OBVIOUS
<1> USE DEF TypeOK, MailInv, UnderWay
<1>1. ASSUME NEW d \in Senders, DigestReads(d)
      PROVE  MailInv'
  <2>0. PICK old \in SUBSET newer : DigestReadsWithout(d, old)
    BY <1>1, ReadsWithout
  <2> DEFINE news == {c \in newer \ old : claim[c] = "stored"}
             others == UNION {digest[e].claims : e \in {e \in Senders : UnderWay(e)}}
  <2>1. /\ digest[d] = Idle /\ claim' = claim /\ newer' = newer /\ mailed' = mailed
        /\ repeated' = repeated \cup (news \cap others)
        /\ digest'[d].claims = news
        /\ digest'[d].step \in {"done", "await"}
        /\ \A e \in Senders \ {d} : digest'[e] = digest[e]
    BY <2>0 DEF DigestReadsWithout
  <2>2. \A c \in news, e \in Senders : UnderWay(e) /\ c \in digest[e].claims => c \in repeated'
    BY <2>1
  <2>3. \A c \in news : mailed[c] > 0 => c \in repeated'
    BY <2>1, <2>2
  <2>4. \A e, f \in Senders : e # f /\ UnderWay(e)' /\ UnderWay(f)' =>
          digest'[e].claims \cap digest'[f].claims \subseteq repeated'
    BY <2>1, <2>2
  <2> HIDE DEF news, others
  <2>5. \A c \in newer : mailed[c] > 0 =>
          c \in repeated' \/ \E e \in Senders : digest'[e].step = "sent" /\ c \in digest'[e].claims
    <3> SUFFICES ASSUME NEW c \in newer, mailed[c] > 0, c \notin repeated
                 PROVE  \E e \in Senders : digest'[e].step = "sent" /\ c \in digest'[e].claims
      BY <2>1
    <3>1. PICK e \in Senders : digest[e].step = "sent" /\ c \in digest[e].claims
      OBVIOUS
    <3>2. e # d
      BY <2>1, <3>1 DEF Idle
    <3> QED BY <2>1, <3>1, <3>2
  <2>6. \A e \in Senders : UnderWay(e)' => \A c \in digest'[e].claims : claim'[c] = "stored"
    BY <2>1 DEF news
  <2>7. \A e \in Senders : digest'[e].step = "await" =>
          \A c \in digest'[e].claims : mailed'[c] > 0 => c \in repeated'
    BY <2>1, <2>3
  <2> QED BY <2>1, <2>4, <2>5, <2>6, <2>7
<1>2. ASSUME NEW d \in Senders, DigestIsSent(d)
      PROVE  MailInv'
  <2>1. /\ digest[d].step = "await" /\ digest'[d].step = "sent"
        /\ \A e \in Senders : digest'[e].claims = digest[e].claims
        /\ \A e \in Senders \ {d} : digest'[e].step = digest[e].step
        /\ claim' = claim /\ newer' = newer /\ repeated' = repeated
        /\ \A c \in Claims : mailed'[c] = IF c \in digest[d].claims THEN mailed[c] + 1
                                                                  ELSE mailed[c]
    BY <1>2 DEF DigestIsSent
  <2>2. \A c \in Claims : mailed'[c] > 1 => c \in repeated
    BY <2>1
  <2>3. \A c \in Claims : mailed'[c] > 0 => claim[c] = "stored"
    BY <2>1
  <2>4. \A e \in Senders : digest'[e].step = "await" =>
          \A c \in digest[e].claims : mailed'[c] > 0 => c \in repeated
    BY <2>1
  <2>5. \A c \in newer : mailed'[c] > 0 =>
          c \in repeated \/ \E e \in Senders : digest'[e].step = "sent" /\ c \in digest[e].claims
    <3> SUFFICES ASSUME NEW c \in newer, mailed'[c] > 0, c \notin repeated
                 PROVE  \E e \in Senders : digest'[e].step = "sent" /\ c \in digest[e].claims
      OBVIOUS
    <3>1. CASE c \in digest[d].claims
      BY <2>1, <3>1
    <3>2. CASE c \notin digest[d].claims
      <4>1. mailed[c] > 0
        BY <2>1, <3>2
      <4>2. PICK e \in Senders : digest[e].step = "sent" /\ c \in digest[e].claims
        BY <4>1
      <4> QED BY <2>1, <4>2
    <3> QED BY <3>1, <3>2
  <2>6. \A e \in Senders : UnderWay(e)' <=> UnderWay(e)
    BY <2>1
  <2> QED BY <2>1, <2>2, <2>3, <2>4, <2>5, <2>6
<1>3. ASSUME NEW d \in Senders, DigestFails(d) \/ DigestBreaks(d) \/ Ends(d)
      PROVE  MailInv'
  <2>1. /\ ~UnderWay(d)'
        /\ \A e \in Senders \ {d} : digest'[e] = digest[e]
        /\ claim' = claim /\ newer' = newer /\ mailed' = mailed
        /\ repeated \subseteq repeated'
        /\ digest[d].step = "sent" => digest[d].claims \subseteq repeated'
    BY <1>3 DEF DigestFails, DigestBreaks, Ends, Idle, newsVars
  <2>2. \A e \in Senders : UnderWay(e)' => e # d
    BY <2>1
  <2>3. \A c \in newer : mailed[c] > 0 =>
          c \in repeated' \/ \E e \in Senders : digest'[e].step = "sent" /\ c \in digest'[e].claims
    <3> SUFFICES ASSUME NEW c \in newer, mailed[c] > 0, c \notin repeated'
                 PROVE  \E e \in Senders : digest'[e].step = "sent" /\ c \in digest'[e].claims
      OBVIOUS
    <3>1. PICK e \in Senders : digest[e].step = "sent" /\ c \in digest[e].claims
      BY <2>1
    <3>2. e # d
      BY <2>1, <3>1
    <3> QED BY <2>1, <3>1, <3>2
  <2>4. \A e \in Senders : digest'[e].step = "await" =>
          \A c \in digest'[e].claims : mailed'[c] > 0 => c \in repeated'
    BY <2>1, <2>2
  <2>5. \A e, f \in Senders : e # f /\ UnderWay(e)' /\ UnderWay(f)' =>
          digest'[e].claims \cap digest'[f].claims \subseteq repeated'
    BY <2>1, <2>2
  <2>6. \A e \in Senders : UnderWay(e)' => \A c \in digest'[e].claims : claim'[c] = "stored"
    BY <2>1, <2>2
  <2> QED BY <2>1, <2>3, <2>4, <2>5, <2>6
<1>4. ASSUME NEW d \in Senders, DigestIsMarked(d)
      PROVE  MailInv'
  BY <1>4 DEF DigestIsMarked
<1>5. ASSUME NEW c \in Claims, ReceiveClaim(c)
      PROVE  MailInv'
  BY <1>5 DEF ReceiveClaim
<1>6. ASSUME NEW c \in Claims, StoreClaim(c)
      PROVE  MailInv'
  BY <1>6 DEF StoreClaim
<1>7. CASE ServerStops
  BY <1>7 DEF ServerStops, Idle
<1>8. CASE UNCHANGED digestVars
  BY <1>8 DEF digestVars, newsVars
<1> QED BY <1>1, <1>2, <1>3, <1>4, <1>5, <1>6, <1>7, <1>8, DigestSteps

LEMMA HeldCorrect == Spec => []HeldInv
<1>1. Init => HeldInv
  BY DEF Init, HeldInv, Senders
<1> QED BY <1>1, HeldStep, WorkTypeCorrect, PTL DEF Spec

\* NewsIsMailed: a claim that did not arrive beside a digest, and was not too old
\* for one before the first mark, leaves the window of the next one only in a mail
\* (victim_digest_context, mark_victim_digest_sent).
THEOREM NewsCorrect == Spec => []NewsIsMailed
<1>1. Init => NewsInv
  BY DEF Init, NewsInv, UnderWay, Idle
<1>2. NewsInv => NewsIsMailed
  BY DEF NewsInv, NewsIsMailed
<1> QED BY <1>1, <1>2, NewsStep, HeldCorrect, WorkTypeCorrect, PTL DEF Spec

\* MailedTwiceOnlyBeside: a claim is mailed twice only by digests that overlap, or
\* when a stop or a failure comes between a mail and its mark.
THEOREM MailsCorrect == Spec => []MailedTwiceOnlyBeside
<1>1. Init => MailInv
  BY DEF Init, MailInv, UnderWay, Idle
<1>2. MailInv => MailedTwiceOnlyBeside
  BY DEF MailInv, MailedTwiceOnlyBeside
<1> QED BY <1>1, <1>2, MailStep, HeldCorrect, WorkTypeCorrect, PTL DEF Spec
=============================================================================
