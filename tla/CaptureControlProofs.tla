------------------------ MODULE CaptureControlProofs ------------------------
(***************************************************************************)
(* What holds of the capture pipeline for every number of targets, jobs,   *)
(* handlers and faults.                                                    *)
(***************************************************************************)
EXTENDS CaptureControl, TLAPS

USE DEF Jobs, Runs, Slots, NoJob, NoRun, NoSlot

-----------------------------------------------------------------------------
(* Types. *)

\* The values the worker gets from Parked and Raised are workers.
LEMMA ParkedType ==
  ASSUME NEW pc \in {"stopped", "down", "recover", "poll", "reserved"}
  PROVE  Parked(pc) \in WorkerRecord
BY DEF Parked, WorkerRecord

LEMMA RaisedType ==
  ASSUME worker \in WorkerRecord, NEW valid \in BOOLEAN
  PROVE  Raised(valid) \in WorkerRecord
BY DEF Raised, Parked, WorkerRecord

LEMMA FreeCallType == FreeCall \in CallRecord
BY DEF FreeCall, CallRecord, Readiness

\* A handler's end leaves calls a table of calls.
LEMMA AnswerType ==
  ASSUME calls \in [Slots -> CallRecord], NEW s \in Slots, NEW c \in CallRecord,
         Answer(s, c)
  PROVE  calls' \in [Slots -> CallRecord]
BY FreeCallType DEF Answer

LEMMA TypeInit == Init => TypeOK
<1> SUFFICES ASSUME Init PROVE TypeOK
  OBVIOUS
<1>1. worker \in WorkerRecord
  BY ParkedType DEF Init
<1>2. calls \in [Slots -> CallRecord]
  BY FreeCallType DEF Init
<1>3. requester \in [Requesters -> RequesterRecord]
  BY DEF Init, IdleRequester, RequesterRecord
<1>4. faults \in 0 .. MaxFaults
  BY BoundsAssumption DEF Init
<1> QED
  BY <1>1, <1>2, <1>3, <1>4
  DEF Init, TypeOK, Status, Outcome, Readiness, Artifacts

\* The variables an action of the operators or of a requester leaves alone.
LEMMA OperatorsType == TypeOK /\ Operators => TypeOK'
<1> SUFFICES ASSUME TypeOK, Operators PROVE TypeOK'
  OBVIOUS
<1> USE DEF TypeOK, targetVars, jobVars, fileVars
<1>1. ASSUME NEW m \in {"active", "passive"}, SetMode(m) PROVE TypeOK'
  BY <1>1 DEF SetMode
<1>2. ASSUME NEW S \in SUBSET Targets, NEW b \in BOOLEAN, SetAllowed(S, b)
      PROVE  TypeOK'
  BY <1>2 DEF SetAllowed
<1>3. ASSUME NEW listed \in Listings, NEW b \in BOOLEAN, SyncCatalog(listed, b)
      PROVE  TypeOK'
  <2>1. PICK S \in SUBSET Targets : listed \in [S -> {"up", "down", "retired"}]
    BY DEF Listings
  <2> QED BY <1>3, <2>1 DEF SyncCatalog
<1>4. ASSUME NEW S \in SUBSET {"queued", "failed"}, ClearJobs(S) PROVE TypeOK'
  BY <1>4 DEF ClearJobs, Status
<1>5. ASSUME NEW q \in Requesters, NEW t \in Targets, RequestCapture(q, t)
      PROVE  TypeOK'
  BY <1>5 DEF RequestCapture, RequesterRecord
<1>6. ASSUME NEW q \in Requesters, ScheduleSelect(q) PROVE TypeOK'
  BY <1>6 DEF ScheduleSelect, RequesterRecord
<1> QED BY <1>1, <1>2, <1>3, <1>4, <1>5, <1>6 DEF Operators

LEMMA QueueingType ==
  ASSUME TypeOK, NEW q \in Requesters, Queueing(q)
  PROVE  TypeOK'
<1> USE DEF TypeOK, targetVars, jobVars, fileVars
<1>i. IdleRequester \in RequesterRecord
  BY DEF IdleRequester, RequesterRecord
<1>1. ASSUME NEW t \in Targets, QueueTarget(q, t) PROVE TypeOK'
  <2>1. [requester[q] EXCEPT !.pc = "mode", !.target = t] \in RequesterRecord
    BY DEF RequesterRecord
  <2> QED BY <1>1, <1>i, <2>1 DEF QueueTarget
<1>2. CASE QueueMode(q)
  <2>1. [requester[q] EXCEPT !.pc = "insert"] \in RequesterRecord
    BY DEF RequesterRecord
  <2> QED BY <1>2, <1>i, <2>1 DEF QueueMode
<1>3. CASE QueueInsert(q)
  <2> DEFINE rest == requester[q].batch \ {requester[q].target}
  <2>1. [pc |-> "target", batch |-> rest, target |-> NoTarget] \in RequesterRecord
    BY DEF RequesterRecord
  <2>2. requester' \in [Requesters -> RequesterRecord]
    BY <1>3, <1>i, <2>1 DEF QueueInsert
  <2>3. requester[q].target \in Targets \cup {NoTarget}
    BY DEF RequesterRecord
  <2>4. status' \in [Jobs -> Status] /\ jobTarget' \in [Jobs -> Targets \cup {NoTarget}]
    BY <1>3, <2>3 DEF QueueInsert, Status
  <2> QED BY <1>3, <2>2, <2>4 DEF QueueInsert
<1> QED BY <1>1, <1>2, <1>3 DEF Queueing

\* Changing a call's state, its job or its verdict leaves it a call.
LEMMA CallUpdateType ==
  ASSUME NEW c \in CallRecord
  PROVE  /\ \A pc \in {"checked", "selected", "committed", "ok", "refused"} :
              [c EXCEPT !.pc = pc] \in CallRecord
         /\ \A j \in Jobs \cup {NoJob} :
              /\ [c EXCEPT !.pc = "selected", !.job = j] \in CallRecord
              /\ [c EXCEPT !.pc = "ok", !.job = j] \in CallRecord
         /\ \A r \in Runs : [c EXCEPT !.pc = "ok", !.run = r] \in CallRecord
         /\ \A v \in Readiness :
              [c EXCEPT !.pc = "assessing", !.verdict = v] \in CallRecord
BY DEF CallRecord

LEMMA HandlerType ==
  ASSUME TypeOK, NEW s \in Slots, Handler(s)
  PROVE  TypeOK'
<1> USE DEF TypeOK, targetVars, jobVars, fileVars
<1>c. calls[s] \in CallRecord
  OBVIOUS
<1>u. \A c \in CallRecord : Answer(s, c) => calls' \in [Slots -> CallRecord]
  BY AnswerType
<1>1. CASE ServeRequeue(s)
  BY <1>1, <1>c, <1>u, CallUpdateType DEF ServeRequeue, Status
<1>2. CASE ClaimSelect(s)
  <2>1. ASSUME NEW j \in Jobs,
               calls' = [calls EXCEPT ![s] = [@ EXCEPT !.pc = "selected", !.job = j]]
        PROVE  calls' \in [Slots -> CallRecord]
    <3>1. [calls[s] EXCEPT !.pc = "selected", !.job = j] \in CallRecord
      BY <1>c, CallUpdateType
    <3> QED BY <2>1, <3>1
  <2>2. ASSUME Answer(s, [calls[s] EXCEPT !.pc = "ok"])
        PROVE  calls' \in [Slots -> CallRecord]
    BY <2>2, <1>c, <1>u, CallUpdateType
  <2>3. calls' \in [Slots -> CallRecord]
    BY <1>2, <2>1, <2>2 DEF ClaimSelect, Claimable
  <2> QED BY <1>2, <2>3 DEF ClaimSelect
<1>3. CASE ClaimUpdate(s)
  <2>1. calls' \in [Slots -> CallRecord]
    BY <1>3, <1>c, <1>u, CallUpdateType DEF ClaimUpdate, FreeRuns
  <2>2. calls[s].job \in Jobs \cup {NoJob}
    BY <1>c DEF CallRecord
  <2>3. /\ status' \in [Jobs -> Status]
        /\ files' \in [Runs -> SUBSET Artifacts]
        /\ owner' \in [Runs -> Jobs \cup {NoJob}]
    <3>1. CASE status[calls[s].job] # "queued"
      BY <1>3, <3>1 DEF ClaimUpdate
    <3>2. CASE status[calls[s].job] = "queued"
      <4>1. PICK r \in Runs :
              /\ status' = [status EXCEPT ![calls[s].job] = "running"]
              /\ files' = [files EXCEPT ![r] = {}]
              /\ owner' = [owner EXCEPT ![r] = calls[s].job]
        BY <1>3, <3>2 DEF ClaimUpdate, FreeRuns
      <4> QED BY <4>1, <2>2 DEF Status
    <3> QED BY <3>1, <3>2
  <2> QED BY <1>3, <2>1, <2>3 DEF ClaimUpdate
<1>4. CASE ServeContext(s)
  BY <1>4, <1>c, <1>u, CallUpdateType DEF ServeContext
<1>5. CASE CompleteCheckFiles(s)
  BY <1>5, <1>c, <1>u, CallUpdateType DEF CompleteCheckFiles
<1>6. CASE CompleteSelect(s)
  BY <1>6, <1>c, <1>u, CallUpdateType DEF CompleteSelect
<1>7. CASE CompleteUpdate(s)
  <2>1. calls' \in [Slots -> CallRecord]
    BY <1>7, <1>c, <1>u, CallUpdateType DEF CompleteUpdate
  <2>2. calls[s].run \in Runs \cup {NoRun}
    BY <1>c DEF CallRecord
  <2> QED BY <1>7, <2>1, <2>2 DEF CompleteUpdate, Status, Outcome
<1>8. CASE AssessRead(s)
  <2>1. ASSUME NEW v \in Readiness,
               calls' = [calls EXCEPT ![s] = [@ EXCEPT !.pc = "assessing", !.verdict = v]]
        PROVE  calls' \in [Slots -> CallRecord]
    <3>1. [calls[s] EXCEPT !.pc = "assessing", !.verdict = v] \in CallRecord
      BY <1>c, CallUpdateType
    <3> QED BY <2>1, <3>1
  <2>2. ASSUME Answer(s, RowAnswer(s))
        PROVE  calls' \in [Slots -> CallRecord]
    BY <2>2, <1>c, <1>u, CallUpdateType DEF RowAnswer
  <2>3. calls' \in [Slots -> CallRecord]
    BY <1>8, <2>1, <2>2 DEF AssessRead, Readiness
  <2> QED BY <1>8, <2>3 DEF AssessRead
<1>9. CASE AssessWrite(s)
  <2>1. calls' \in [Slots -> CallRecord]
    BY <1>9, <1>c, <1>u, CallUpdateType DEF AssessWrite, RowAnswer
  <2>2. calls[s].verdict \in Readiness
    BY <1>c DEF CallRecord
  <2> QED BY <1>9, <2>1, <2>2 DEF AssessWrite
<1>10. CASE FailSelect(s)
  BY <1>10, <1>c, <1>u, CallUpdateType DEF FailSelect
<1>11. CASE FailUpdate(s)
  <2>1. calls' \in [Slots -> CallRecord]
    BY <1>11, <1>c, <1>u, CallUpdateType DEF FailUpdate
  <2> QED BY <1>11, <2>1 DEF FailUpdate, Status, Outcome, Readiness
<1> QED
  BY <1>1, <1>2, <1>3, <1>4, <1>5, <1>6, <1>7, <1>8, <1>9, <1>10, <1>11 DEF Handler

LEMMA OverviewType ==
  ASSUME TypeOK, NEW j \in Jobs, Overview(j)
  PROVE  TypeOK'
<1>1. [FreeCall EXCEPT !.op = "overview", !.pc = "committed", !.job = j] \in CallRecord
  BY DEF FreeCall, CallRecord, Readiness
<1> QED BY <1>1 DEF TypeOK, targetVars, jobVars, fileVars, Overview

LEMMA SendType ==
  ASSUME NEW op \in {"requeue", "claim", "context", "complete", "fail"},
         NEW pc \in {"requeue", "claim", "context", "complete", "fail"},
         TypeOK, Send(op, pc)
  PROVE  calls' \in [Slots -> CallRecord] /\ worker' \in WorkerRecord
<1>1. worker \in WorkerRecord
  BY DEF TypeOK
<1>2. [FreeCall EXCEPT !.op = op, !.pc = "received", !.job = worker.job,
         !.run = worker.run, !.valid = worker.valid] \in CallRecord
  BY <1>1 DEF FreeCall, CallRecord, WorkerRecord, Readiness
<1>3. \A s \in Slots : [worker EXCEPT !.pc = pc, !.call = s] \in WorkerRecord
  BY <1>1 DEF WorkerRecord
<1>4. PICK s \in Slots :
        /\ calls' = [calls EXCEPT ![s] =
                       [FreeCall EXCEPT !.op = op, !.pc = "received",
                          !.job = worker.job, !.run = worker.run,
                          !.valid = worker.valid]]
        /\ worker' = [worker EXCEPT !.pc = pc, !.call = s]
  BY DEF Send
<1>5. calls \in [Slots -> CallRecord]
  BY DEF TypeOK
<1> QED BY <1>2, <1>3, <1>4, <1>5

LEMMA WorkerStepType == TypeOK /\ WorkerStep => TypeOK'
<1> SUFFICES ASSUME TypeOK, WorkerStep PROVE TypeOK'
  OBVIOUS
<1>w. worker \in WorkerRecord
  BY DEF TypeOK
<1>1. CASE WorkerSend
  <2>1. calls' \in [Slots -> CallRecord] /\ worker' \in WorkerRecord
    BY <1>1, SendType DEF WorkerSend
  <2> QED BY <1>1, <2>1 DEF TypeOK, targetVars, jobVars, fileVars, WorkerSend
<1>2. CASE WorkerReceive
  <2>1. worker.call \in Slots
    BY <1>2, <1>w DEF WorkerReceive, WorkerRecord
  <2>2. calls[worker.call] \in CallRecord
    BY <2>1 DEF TypeOK
  <2>3. calls' \in [Slots -> CallRecord]
    BY <1>2, <2>1, FreeCallType DEF TypeOK, WorkerReceive
  <2>4. [worker EXCEPT !.pc = "capture", !.call = NoSlot] \in WorkerRecord
    BY <1>w DEF WorkerRecord
  <2>5. \A j \in Jobs \cup {NoJob}, r \in Runs \cup {NoRun} :
          [Parked("reserved") EXCEPT !.job = j, !.run = r] \in WorkerRecord
    BY DEF Parked, WorkerRecord
  <2>6. calls[worker.call].job \in Jobs \cup {NoJob}
          /\ calls[worker.call].run \in Runs \cup {NoRun}
    BY <2>2 DEF CallRecord
  <2>7. worker' \in WorkerRecord
    BY <1>2, <1>w, <2>4, <2>5, <2>6, ParkedType, RaisedType DEF WorkerReceive
  <2> QED BY <1>2, <2>3, <2>7 DEF TypeOK, targetVars, jobVars, fileVars, WorkerReceive
<1>3. CASE WritePages
  BY <1>3 DEF TypeOK, targetVars, jobVars, fileVars, WritePages, Artifacts
<1>4. CASE PagesReturned
  <2>1. [worker EXCEPT !.pc = "captured", !.known = TRUE] \in WorkerRecord
    BY <1>w DEF WorkerRecord
  <2> QED BY <1>4, <2>1 DEF TypeOK, targetVars, jobVars, fileVars, PagesReturned
<1>5. CASE WriteText
  <2>1. [worker EXCEPT !.pc = "written"] \in WorkerRecord
    BY <1>w DEF WorkerRecord
  <2> QED BY <1>5, <2>1 DEF TypeOK, targetVars, jobVars, fileVars, WriteText, Artifacts
<1>6. CASE CaptureRaises
  <2>1. \A v \in BOOLEAN : [worker EXCEPT !.pc = "cleanup", !.valid = v] \in WorkerRecord
    BY <1>w DEF WorkerRecord
  <2> QED BY <1>6, <2>1 DEF TypeOK, targetVars, jobVars, fileVars, CaptureRaises
<1>7. CASE CleanUp
  <2>1. [worker EXCEPT !.pc = "report"] \in WorkerRecord
    BY <1>w DEF WorkerRecord
  <2> QED BY <1>7, <2>1 DEF TypeOK, targetVars, jobVars, fileVars, CleanUp, Artifacts
<1> QED BY <1>1, <1>2, <1>3, <1>4, <1>5, <1>6, <1>7 DEF WorkerStep

LEMMA FaultsType == TypeOK /\ Faults => TypeOK'
<1> SUFFICES ASSUME TypeOK, Faults PROVE TypeOK'
  OBVIOUS
<1>w. worker \in WorkerRecord
  BY DEF TypeOK
<1>f. Fault => faults' \in 0 .. MaxFaults
  BY BoundsAssumption DEF TypeOK, Fault
<1>g. GiveUp => calls' \in [Slots -> CallRecord]
  BY FreeCallType DEF TypeOK, GiveUp
<1>1. CASE Timeout
  BY <1>1, <1>w, <1>f, <1>g, RaisedType
  DEF TypeOK, targetVars, jobVars, fileVars, Timeout
<1>2. CASE Interrupt
  <2>1. [worker EXCEPT !.pc = "cleanup", !.stopping = TRUE, !.valid = TRUE,
           !.call = NoSlot] \in WorkerRecord
    BY <1>w DEF WorkerRecord
  <2>2. worker' \in WorkerRecord
    BY <1>2, <2>1, ParkedType DEF Interrupt
  <2> QED BY <1>2, <1>f, <1>g, <2>2 DEF TypeOK, targetVars, jobVars, fileVars, Interrupt
<1>3. CASE Kill
  BY <1>3, <1>f, <1>g, ParkedType DEF TypeOK, targetVars, jobVars, fileVars, Kill
<1>5. CASE CancelAgain
  BY <1>5, <1>g, ParkedType DEF TypeOK, targetVars, jobVars, fileVars, CancelAgain
<1>4. CASE ServerCrash
  <2>1. calls' \in [Slots -> CallRecord]
    BY <1>4, FreeCallType DEF ServerCrash
  <2>2. requester' \in [Requesters -> RequesterRecord]
    BY <1>4 DEF ServerCrash, IdleRequester, RequesterRecord
  <2>3. worker' \in WorkerRecord
    BY <1>4, <1>w, RaisedType DEF ServerCrash
  <2> QED BY <1>4, <1>f, <2>1, <2>2, <2>3
          DEF TypeOK, targetVars, jobVars, fileVars, ServerCrash
<1> QED BY <1>1, <1>2, <1>3, <1>4, <1>5 DEF Faults

LEMMA TypeStep == TypeOK /\ [Next]_vars => TypeOK'
<1> SUFFICES ASSUME TypeOK, [Next]_vars PROVE TypeOK'
  OBVIOUS
<1>1. ASSUME NEW pc \in {"down", "stopped"}, WorkerStart(pc) PROVE TypeOK'
  BY <1>1, ParkedType DEF TypeOK, targetVars, jobVars, fileVars, WorkerStart
<1>2. CASE UNCHANGED vars
  BY <1>2 DEF TypeOK, vars
<1> QED
  BY <1>1, <1>2, OperatorsType, QueueingType, HandlerType, OverviewType,
     WorkerStepType, FaultsType DEF Next

\* Every variable keeps its type, for any number of jobs, runs, handlers,
\* targets and faults.
THEOREM TypeCorrect == Spec => []TypeOK
BY TypeInit, TypeStep, PTL DEF Spec

-----------------------------------------------------------------------------
(* Calls and the worker, field by field.                                    *)

\* The call of slot s goes on, or ends with an answer nobody may wait for.
Becomes(s, pc, job, run) ==
  /\ calls'[s].op = calls[s].op
  /\ calls'[s].pc = pc
  /\ calls'[s].job = job
  /\ calls'[s].run = run

Ends(s, pc, job, run) ==
  IF worker.call = s THEN Becomes(s, pc, job, run) ELSE calls'[s] = FreeCall

\* The answers of the handlers.
LEMMA EndsWith ==
  ASSUME NEW s \in Slots, calls \in [Slots -> CallRecord]
  PROVE  /\ \A pc : Answer(s, [calls[s] EXCEPT !.pc = pc]) =>
                      Ends(s, pc, calls[s].job, calls[s].run)
         /\ \A pc, j : Answer(s, [calls[s] EXCEPT !.pc = pc, !.job = j]) =>
                         Ends(s, pc, j, calls[s].run)
         /\ \A pc, r : Answer(s, [calls[s] EXCEPT !.pc = pc, !.run = r]) =>
                         Ends(s, pc, calls[s].job, r)
<1>1. calls[s] \in CallRecord
  OBVIOUS
<1>2. ASSUME NEW pc, Answer(s, [calls[s] EXCEPT !.pc = pc])
      PROVE  Ends(s, pc, calls[s].job, calls[s].run)
  <2>1. calls'[s] = IF worker.call = s THEN [calls[s] EXCEPT !.pc = pc] ELSE FreeCall
    BY <1>2 DEF Answer
  <2> QED BY <1>1, <2>1 DEF Ends, Becomes, CallRecord
<1>3. ASSUME NEW pc, NEW j, Answer(s, [calls[s] EXCEPT !.pc = pc, !.job = j])
      PROVE  Ends(s, pc, j, calls[s].run)
  <2>1. calls'[s] = IF worker.call = s THEN [calls[s] EXCEPT !.pc = pc, !.job = j]
                                       ELSE FreeCall
    BY <1>3 DEF Answer
  <2> QED BY <1>1, <2>1 DEF Ends, Becomes, CallRecord
<1>4. ASSUME NEW pc, NEW r, Answer(s, [calls[s] EXCEPT !.pc = pc, !.run = r])
      PROVE  Ends(s, pc, calls[s].job, r)
  <2>1. calls'[s] = IF worker.call = s THEN [calls[s] EXCEPT !.pc = pc, !.run = r]
                                       ELSE FreeCall
    BY <1>4 DEF Answer
  <2> QED BY <1>1, <2>1 DEF Ends, Becomes, CallRecord
<1> QED BY <1>2, <1>3, <1>4


\* What each handler makes of its call; the calls of other slots, the worker
\* and the requesters are not its business.
HandlerEffect(s) ==
  \/ At(s, "requeue", "received")
       /\ status' = [j \in Jobs |-> IF status[j] = "running" THEN "queued" ELSE status[j]]
       /\ Ends(s, "ok", calls[s].job, calls[s].run)
  \/ At(s, "claim", "received") /\ UNCHANGED status
       /\ \/ Ends(s, "ok", calls[s].job, calls[s].run)
          \/ \E j \in Jobs : Becomes(s, "selected", j, calls[s].run)
  \/ /\ At(s, "claim", "selected")
     /\ \/ /\ status[calls[s].job] = "queued"
           /\ status' = [status EXCEPT ![calls[s].job] = "running"]
           /\ \E r \in Runs : Ends(s, "ok", calls[s].job, r)
        \/ /\ UNCHANGED status
           /\ Ends(s, "ok", NoJob, calls[s].run)
  \/ At(s, "context", "received") /\ UNCHANGED status
       /\ IF status[calls[s].job] = "running"
            THEN Ends(s, "ok", calls[s].job, calls[s].run)
            ELSE Ends(s, "refused", calls[s].job, calls[s].run)
  \/ At(s, "complete", "received") /\ UNCHANGED status
       /\ \/ Becomes(s, "checked", calls[s].job, calls[s].run)
          \/ Ends(s, "refused", calls[s].job, calls[s].run)
  \/ /\ At(s, "complete", "checked") \/ At(s, "fail", "received")
     /\ UNCHANGED status
     /\ \/ /\ status[calls[s].job] = "running"
           /\ Becomes(s, "selected", calls[s].job, calls[s].run)
        \/ Ends(s, "refused", calls[s].job, calls[s].run)
  \/ /\ At(s, "complete", "selected")
     /\ \/ /\ status' = [status EXCEPT ![calls[s].job] = "completed"]
           /\ Becomes(s, "committed", calls[s].job, calls[s].run)
        \/ /\ status[calls[s].job] = "cleared"
           /\ UNCHANGED status
           /\ Ends(s, "refused", calls[s].job, calls[s].run)
  \/ /\ At(s, "fail", "selected")
     /\ \/ /\ status' = [status EXCEPT ![calls[s].job] = "failed"]
           /\ \/ Ends(s, "ok", calls[s].job, calls[s].run)
              \/ Ends(s, "refused", calls[s].job, calls[s].run)
        \/ /\ status[calls[s].job] = "cleared"
           /\ UNCHANGED status
           /\ Ends(s, "refused", calls[s].job, calls[s].run)
  \/ /\ calls[s].pc \in {"committed", "assessing"}
     /\ UNCHANGED status
     /\ \/ Becomes(s, "assessing", calls[s].job, calls[s].run)
        \/ Ends(s, "ok", calls[s].job, calls[s].run)
        \/ Ends(s, "refused", calls[s].job, calls[s].run)

LEMMA HandlerCalls ==
  ASSUME NEW s \in Slots, calls \in [Slots -> CallRecord], Handler(s)
  PROVE  /\ UNCHANGED <<worker, requester>>
         /\ \A k \in Slots \ {s} : calls'[k] = calls[k]
         /\ HandlerEffect(s)
<1>0. UNCHANGED <<worker, requester>>
  BY DEF Handler, ServeRequeue, ClaimSelect, ClaimUpdate, ServeContext,
         CompleteCheckFiles, CompleteSelect, CompleteUpdate, AssessRead,
         AssessWrite, FailSelect, FailUpdate
<1>1. \A k \in Slots \ {s} : calls'[k] = calls[k]
  BY DEF Handler, Answer, ServeRequeue, ClaimSelect, ClaimUpdate, ServeContext,
         CompleteCheckFiles, CompleteSelect, CompleteUpdate, AssessRead,
         AssessWrite, FailSelect, FailUpdate
<1>c. calls[s] \in CallRecord
  OBVIOUS
<1>b. \A pc : calls' = [calls EXCEPT ![s].pc = pc] =>
                Becomes(s, pc, calls[s].job, calls[s].run)
  BY <1>c DEF Becomes, CallRecord
<1> SUFFICES HandlerEffect(s)
  BY <1>0, <1>1
<1> DEFINE j == calls[s].job
           r == calls[s].run
<1>2. CASE ServeRequeue(s)
  <2>1. Ends(s, "ok", j, r)
    BY <1>2, EndsWith DEF ServeRequeue
  <2>2. /\ At(s, "requeue", "received")
        /\ status' = [i \in Jobs |-> IF status[i] = "running" THEN "queued" ELSE status[i]]
    BY <1>2 DEF ServeRequeue
  <2> QED BY <2>1, <2>2 DEF HandlerEffect
<1>3. CASE ClaimSelect(s)
  <2>1. ASSUME NEW i \in Jobs,
               calls' = [calls EXCEPT ![s] = [@ EXCEPT !.pc = "selected", !.job = i]]
        PROVE  Becomes(s, "selected", i, r)
    BY <1>c, <2>1 DEF Becomes, CallRecord
  <2>2. Ends(s, "ok", j, r) \/ \E i \in Jobs : Becomes(s, "selected", i, r)
    BY <1>3, <2>1, EndsWith DEF ClaimSelect, Claimable
  <2>3. At(s, "claim", "received") /\ UNCHANGED status
    BY <1>3 DEF ClaimSelect, jobVars
  <2> QED BY <2>2, <2>3 DEF HandlerEffect
<1>4. CASE ClaimUpdate(s)
  <2>1. At(s, "claim", "selected")
    BY <1>4 DEF ClaimUpdate
  <2>2. CASE status[j] = "queued"
    <3>1. PICK n \in Runs : /\ status' = [status EXCEPT ![j] = "running"]
                            /\ Answer(s, [calls[s] EXCEPT !.pc = "ok", !.run = n])
      BY <1>4, <2>2 DEF ClaimUpdate, FreeRuns
    <3>2. Ends(s, "ok", j, n)
      BY <3>1, EndsWith
    <3> QED BY <2>1, <2>2, <3>1, <3>2 DEF HandlerEffect
  <2>3. CASE status[j] # "queued"
    <3>1. UNCHANGED status /\ Answer(s, [calls[s] EXCEPT !.pc = "ok", !.job = NoJob])
      BY <1>4, <2>3 DEF ClaimUpdate
    <3>2. Ends(s, "ok", NoJob, r)
      BY <3>1, EndsWith
    <3> QED BY <2>1, <3>1, <3>2 DEF HandlerEffect
  <2> QED BY <2>2, <2>3
<1>5. CASE ServeContext(s)
  <2>1. CASE status[j] = "running"
    <3>1. Ends(s, "ok", j, r)
      BY <1>5, <2>1, EndsWith DEF ServeContext
    <3> QED BY <1>5, <2>1, <3>1 DEF ServeContext, HandlerEffect, jobVars
  <2>2. CASE status[j] # "running"
    <3>1. Ends(s, "refused", j, r)
      BY <1>5, <2>2, EndsWith DEF ServeContext
    <3> QED BY <1>5, <2>2, <3>1 DEF ServeContext, HandlerEffect, jobVars
  <2> QED BY <2>1, <2>2
<1>6. CASE CompleteCheckFiles(s)
  <2>1. Becomes(s, "checked", j, r) \/ Ends(s, "refused", j, r)
    BY <1>6, <1>b, EndsWith DEF CompleteCheckFiles
  <2> QED BY <1>6, <2>1 DEF CompleteCheckFiles, HandlerEffect, jobVars
<1>7. CASE CompleteSelect(s)
  <2>1. \/ status[j] = "running" /\ Becomes(s, "selected", j, r)
        \/ Ends(s, "refused", j, r)
    BY <1>7, <1>b, EndsWith DEF CompleteSelect
  <2> QED BY <1>7, <2>1 DEF CompleteSelect, HandlerEffect, jobVars
<1>8. CASE CompleteUpdate(s)
  <2>1. \/ status' = [status EXCEPT ![j] = "completed"] /\ Becomes(s, "committed", j, r)
        \/ status[j] = "cleared" /\ UNCHANGED status /\ Ends(s, "refused", j, r)
    BY <1>8, <1>b, EndsWith DEF CompleteUpdate
  <2> QED BY <1>8, <2>1 DEF CompleteUpdate, HandlerEffect
<1>9. CASE AssessRead(s)
  <2>1. ASSUME NEW v,
               calls' = [calls EXCEPT ![s] = [@ EXCEPT !.pc = "assessing", !.verdict = v]]
        PROVE  Becomes(s, "assessing", j, r)
    BY <1>c, <2>1 DEF Becomes, CallRecord
  <2>2. Answer(s, RowAnswer(s)) => Ends(s, "ok", j, r) \/ Ends(s, "refused", j, r)
    BY EndsWith DEF RowAnswer
  <2>3. \/ Becomes(s, "assessing", j, r)
        \/ Ends(s, "ok", j, r) \/ Ends(s, "refused", j, r)
    BY <1>9, <2>1, <2>2 DEF AssessRead
  <2> QED BY <1>9, <2>3 DEF AssessRead, HandlerEffect, jobVars
<1>10. CASE AssessWrite(s)
  <2>1. Ends(s, "ok", j, r) \/ Ends(s, "refused", j, r)
    BY <1>10, EndsWith DEF AssessWrite, RowAnswer
  <2> QED BY <1>10, <2>1 DEF AssessWrite, HandlerEffect
<1>11. CASE FailSelect(s)
  <2>1. \/ status[j] = "running" /\ Becomes(s, "selected", j, r)
        \/ Ends(s, "refused", j, r)
    BY <1>11, <1>b, EndsWith DEF FailSelect
  <2> QED BY <1>11, <2>1 DEF FailSelect, HandlerEffect, jobVars
<1>12. CASE FailUpdate(s)
  <2>1. \/ /\ status' = [status EXCEPT ![j] = "failed"]
           /\ (Ends(s, "ok", j, r) \/ Ends(s, "refused", j, r))
        \/ status[j] = "cleared" /\ UNCHANGED status /\ Ends(s, "refused", j, r)
    BY <1>12, EndsWith DEF FailUpdate
  <2> QED BY <1>12, <2>1 DEF FailUpdate, HandlerEffect
<1> QED BY <1>2, <1>3, <1>4, <1>5, <1>6, <1>7, <1>8, <1>9, <1>10, <1>11,
           <1>12 DEF Handler

\* A free slot.
LEMMA FreeFields ==
  FreeCall.op = "none" /\ FreeCall.pc = "free" /\ FreeCall.job = NoJob /\ FreeCall.run = NoRun
BY DEF FreeCall

\* A call the worker sends takes a free slot.
LEMMA SendEffect ==
  ASSUME worker \in WorkerRecord, calls \in [Slots -> CallRecord], NEW op, NEW pc,
         Send(op, pc)
  PROVE  \E s \in Slots :
           /\ calls[s].pc = "free"
           /\ \A k \in Slots \ {s} : calls'[k] = calls[k]
           /\ calls'[s].op = op /\ calls'[s].pc = "received"
           /\ calls'[s].job = worker.job /\ calls'[s].run = worker.run
           /\ worker'.pc = pc /\ worker'.call = s
           /\ worker'.job = worker.job /\ worker'.run = worker.run
<1>1. PICK s \in Slots :
        /\ FreeSlot(s)
        /\ calls' = [calls EXCEPT ![s] =
                       [FreeCall EXCEPT !.op = op, !.pc = "received",
                          !.job = worker.job, !.run = worker.run,
                          !.valid = worker.valid]]
        /\ worker' = [worker EXCEPT !.pc = pc, !.call = s]
  BY DEF Send
<1>2. /\ calls'[s].op = op /\ calls'[s].pc = "received"
      /\ calls'[s].job = worker.job /\ calls'[s].run = worker.run
  BY <1>1 DEF FreeCall
<1>3. /\ worker'.pc = pc /\ worker'.call = s
      /\ worker'.job = worker.job /\ worker'.run = worker.run
  BY <1>1 DEF WorkerRecord
<1>4. calls[s].pc = "free" /\ \A k \in Slots \ {s} : calls'[k] = calls[k]
  BY <1>1 DEF FreeSlot
<1> QED BY <1>2, <1>3, <1>4

\* The parked worker holds nothing.
LEMMA ParkedFields ==
  ASSUME NEW pc
  PROVE  Parked(pc).pc = pc /\ Parked(pc).job = NoJob /\ Parked(pc).call = NoSlot
BY DEF Parked

\* A worker whose call raised waits for nothing.
LEMMA RaisedFields ==
  ASSUME worker \in WorkerRecord, NEW valid
  PROVE  LET w == Raised(valid)
         IN /\ w.call = NoSlot
            /\ IF worker.pc = "complete"
                 THEN w.pc = "cleanup" /\ w.job = worker.job /\ w.run = worker.run
                 ELSE w.pc \in {"stopped", "recover"} /\ w.job = NoJob
BY DEF Raised, Parked, WorkerRecord

\* Where an answer takes the worker.
LEMMA ReceiveEffect ==
  ASSUME worker \in WorkerRecord, WorkerReceive
  PROVE  LET c == calls[worker.call]
         IN \/ /\ c.pc = "ok"
               /\ \/ worker.pc \in {"requeue", "complete", "fail"}
                  \/ worker.pc = "claim" /\ c.job = NoJob
               /\ worker'.pc \in {"poll", "stopped"}
               /\ worker'.pc = "stopped" => worker.pc = "fail"
               /\ worker'.job = NoJob /\ worker'.call = NoSlot
            \/ /\ c.pc = "ok" /\ worker.pc = "claim" /\ c.job # NoJob
               /\ worker'.pc = "reserved" /\ worker'.call = NoSlot
               /\ worker'.job = c.job /\ worker'.run = c.run
            \/ /\ c.pc = "ok" /\ worker.pc = "context"
               /\ worker'.pc = "capture" /\ worker'.call = NoSlot
               /\ worker'.job = worker.job /\ worker'.run = worker.run
            \/ /\ c.pc = "refused"
               /\ worker' = Raised(TRUE)
<1>1. CASE calls[worker.call].pc = "ok" /\ worker.pc = "claim"
             /\ calls[worker.call].job # NoJob
  <2>1. worker' = [Parked("reserved") EXCEPT !.job = calls[worker.call].job,
                                              !.run = calls[worker.call].run]
    BY <1>1 DEF WorkerReceive
  <2>2. /\ worker'.pc = "reserved" /\ worker'.call = NoSlot
        /\ worker'.job = calls[worker.call].job
        /\ worker'.run = calls[worker.call].run
    BY <2>1 DEF Parked
  <2> QED BY <1>1, <2>2
<1>2. CASE calls[worker.call].pc = "ok" /\ worker.pc = "context"
  <2>1. worker' = [worker EXCEPT !.pc = "capture", !.call = NoSlot]
    BY <1>2 DEF WorkerReceive
  <2>2. /\ worker'.pc = "capture" /\ worker'.call = NoSlot
        /\ worker'.job = worker.job /\ worker'.run = worker.run
    BY <2>1 DEF WorkerRecord
  <2> QED BY <1>2, <2>2
<1>3. CASE calls[worker.call].pc = "ok"
             /\ \/ worker.pc \in {"requeue", "complete", "fail"}
                \/ worker.pc = "claim" /\ calls[worker.call].job = NoJob
  <2>1. /\ worker'.pc \in {"poll", "stopped"} /\ worker'.job = NoJob
        /\ worker'.call = NoSlot
        /\ worker'.pc = "stopped" => worker.pc = "fail"
    BY <1>3 DEF WorkerReceive, Parked
  <2> QED BY <1>3, <2>1
<1>4. CASE calls[worker.call].pc = "refused"
  <2>1. worker' = Raised(TRUE)
    BY <1>4 DEF WorkerReceive
  <2> QED BY <1>4, <2>1
<1>5. \/ /\ calls[worker.call].pc = "ok"
         /\ worker.pc \in {"requeue", "complete", "fail", "claim", "context"}
      \/ calls[worker.call].pc = "refused"
  BY DEF WorkerReceive
<1> QED BY <1>1, <1>2, <1>3, <1>4, <1>5

\* The worker's steps on its own: it keeps its job.
LEMMA CaptureEffect ==
  ASSUME worker \in WorkerRecord, PagesReturned \/ WriteText \/ CaptureRaises \/ CleanUp
  PROVE  /\ worker.pc \in {"capture", "captured", "written", "cleanup"}
         /\ worker'.pc \in {"captured", "written", "cleanup", "report"}
         /\ worker.pc = "cleanup" => worker'.pc = "report"
         /\ worker'.job = worker.job /\ worker'.run = worker.run
         /\ worker'.call = worker.call
         /\ UNCHANGED <<calls, status, requester>>
BY DEF PagesReturned, WriteText, CaptureRaises, CleanUp, WorkerRecord, jobVars

\* A fault frees answered calls only, or all of them.
LEMMA GiveUpEffect ==
  ASSUME ~LateCalls, GiveUp, calls \in [Slots -> CallRecord]
  PROVE  \A s \in Slots :
           /\ calls'[s] = calls[s] \/ calls'[s] = FreeCall
           /\ s = worker.call => calls'[s].pc \in {"committed", "assessing", "free"}
BY FreeFields DEF GiveUp, MayGiveUp

\* An interrupted worker ends, or cleans up what it captured.
LEMMA InterruptEffect ==
  ASSUME worker \in WorkerRecord, Interrupt
  PROVE  /\ worker'.call = NoSlot
         /\ \/ worker'.pc = "stopped" /\ worker'.job = NoJob
            \/ worker'.pc = "cleanup" /\ worker'.job = worker.job /\ worker'.run = worker.run
                 /\ worker.pc \in {"capture", "captured", "written", "complete"}
<1>1. CASE worker.pc \in {"capture", "captured", "written", "complete"}
  <2>1. worker' = [worker EXCEPT !.pc = "cleanup", !.stopping = TRUE,
                         !.valid = TRUE, !.call = NoSlot]
    BY <1>1 DEF Interrupt
  <2>2. worker'.pc = "cleanup" /\ worker'.job = worker.job /\ worker'.run = worker.run
          /\ worker'.call = NoSlot
    BY <2>1 DEF WorkerRecord
  <2> QED BY <1>1, <2>2
<1>2. CASE worker.pc \notin {"capture", "captured", "written", "complete"}
  BY <1>2, ParkedFields DEF Interrupt
<1> QED BY <1>1, <1>2

-----------------------------------------------------------------------------
(* Workers, calls and requesters that need a row name one that exists.      *)

NamesRows ==
  /\ worker.pc \notin {"down", "stopped", "recover", "requeue", "poll", "claim"} =>
       worker.job \in Jobs
  /\ \A s \in Slots :
       calls[s].op \in {"context", "complete", "fail"}
         \/ calls[s].pc \in {"selected", "committed", "assessing"} => calls[s].job \in Jobs
  /\ \A q \in Requesters :
       requester[q].pc \in {"mode", "insert"} => requester[q].target \in Targets

LEMMA NamesInit == Init => NamesRows
BY ParkedFields, FreeFields DEF Init, NamesRows, IdleRequester

LEMMA NamesHandler ==
  ASSUME TypeOK, NamesRows, NEW s \in Slots, Handler(s)
  PROVE  NamesRows'
<1>1. calls \in [Slots -> CallRecord]
  BY DEF TypeOK
<1>2. /\ UNCHANGED <<worker, requester>>
      /\ \A k \in Slots \ {s} : calls'[k] = calls[k]
      /\ HandlerEffect(s)
  BY <1>1, HandlerCalls
<1>3. calls'[s].op \in {"context", "complete", "fail"}
        \/ calls'[s].pc \in {"selected", "committed", "assessing"}
        => calls'[s].job \in Jobs
  BY <1>2, FreeFields DEF NamesRows, HandlerEffect, Becomes, Ends, At
<1> QED BY <1>2, <1>3 DEF NamesRows

LEMMA NamesWorker == TypeOK /\ NamesRows /\ WorkerStep => NamesRows'
<1> SUFFICES ASSUME TypeOK, NamesRows, WorkerStep PROVE NamesRows'
  OBVIOUS
<1>t. worker \in WorkerRecord /\ calls \in [Slots -> CallRecord]
  BY DEF TypeOK
<1>r. UNCHANGED requester
  BY DEF WorkerStep, WorkerSend, WorkerReceive, WritePages, PagesReturned,
         WriteText, CaptureRaises, CleanUp
<1>1. CASE WorkerSend
  <2>1. PICK op \in {"requeue", "claim", "context", "complete", "fail"} :
          /\ Send(op, op)
          /\ op \notin {"requeue", "claim"} => worker.pc \in {"reserved", "written", "report"}
    BY <1>1 DEF WorkerSend
  <2>2. PICK s \in Slots :
          /\ \A k \in Slots \ {s} : calls'[k] = calls[k]
          /\ calls'[s].op = op /\ calls'[s].pc = "received"
          /\ calls'[s].job = worker.job
          /\ worker'.pc = op /\ worker'.job = worker.job
    BY <1>t, <2>1, SendEffect
  <2> QED BY <1>r, <2>1, <2>2 DEF NamesRows
<1>2. CASE WorkerReceive
  <2>1. worker.call \in Slots /\ calls[worker.call] \in CallRecord
    BY <1>t, <1>2 DEF WorkerReceive, WorkerRecord
  <2>2. \A s \in Slots : calls'[s] = calls[s] \/ calls'[s] = FreeCall
    BY <1>t, <1>2, <2>1 DEF WorkerReceive
  <2>3. calls[worker.call].job \in Jobs \cup {NoJob}
    BY <2>1 DEF CallRecord
  <2>4. worker'.pc \notin {"down", "stopped", "recover", "requeue", "poll", "claim"} =>
          worker'.job \in Jobs
    BY <1>t, <1>2, <2>3, ReceiveEffect, RaisedFields DEF NamesRows
  <2> QED BY <1>r, <2>2, <2>4, FreeFields DEF NamesRows
<1>3. CASE WritePages
  BY <1>r, <1>3 DEF WritePages, NamesRows
<1>4. CASE PagesReturned \/ WriteText \/ CaptureRaises \/ CleanUp
  <2>1. /\ worker.pc \in {"capture", "captured", "written", "cleanup"}
        /\ worker'.job = worker.job
        /\ UNCHANGED calls
    BY <1>t, <1>4, CaptureEffect
  <2> QED BY <1>r, <2>1 DEF NamesRows
<1> QED BY <1>1, <1>2, <1>3, <1>4 DEF WorkerStep

LEMMA NamesFaults == TypeOK /\ NamesRows /\ Faults => NamesRows'
<1> SUFFICES ASSUME TypeOK, NamesRows, Faults PROVE NamesRows'
  OBVIOUS
<1>t. worker \in WorkerRecord /\ calls \in [Slots -> CallRecord]
  BY DEF TypeOK
<1>1. worker'.pc \notin {"down", "stopped", "recover", "requeue", "poll", "claim"} =>
        worker'.job \in Jobs
  <2>1. CASE Timeout \/ ServerCrash
    BY <1>t, <2>1, RaisedFields DEF Timeout, ServerCrash, NamesRows
  <2>2. CASE Interrupt
    BY <1>t, <2>2, InterruptEffect DEF NamesRows
  <2>3. CASE Kill \/ CancelAgain
    BY <2>3, ParkedFields DEF Kill, CancelAgain
  <2> QED BY <2>1, <2>2, <2>3 DEF Faults
<1>2. \A s \in Slots : calls'[s] = calls[s] \/ calls'[s] = FreeCall
  BY <1>t DEF Faults, Timeout, Interrupt, CancelAgain, Kill, ServerCrash, GiveUp
<1>3. UNCHANGED requester \/ \A q \in Requesters : requester'[q] = IdleRequester
  BY DEF Faults, Timeout, Interrupt, CancelAgain, Kill, ServerCrash
<1> QED BY <1>1, <1>2, <1>3, FreeFields DEF NamesRows, IdleRequester

LEMMA NamesStep == TypeOK /\ NamesRows /\ [Next]_vars => NamesRows'
<1> SUFFICES ASSUME TypeOK, NamesRows, [Next]_vars PROVE NamesRows'
  OBVIOUS
<1>t. calls \in [Slots -> CallRecord] /\ requester \in [Requesters -> RequesterRecord]
  BY DEF TypeOK
<1>1. CASE Operators
  <2>1. UNCHANGED <<calls, worker>>
    BY <1>1 DEF Operators, SetMode, SetAllowed, SyncCatalog, ClearJobs,
                RequestCapture, ScheduleSelect
  <2>2. \A q \in Requesters : requester'[q] = requester[q] \/ requester'[q].pc = "target"
    BY <1>1, <1>t DEF Operators, SetMode, SetAllowed, SyncCatalog, ClearJobs,
                      RequestCapture, ScheduleSelect
  <2> QED BY <2>1, <2>2 DEF NamesRows
<1>2. ASSUME NEW q \in Requesters, Queueing(q) PROVE NamesRows'
  <2>1. UNCHANGED <<calls, worker>>
    BY <1>2 DEF Queueing, QueueTarget, QueueMode, QueueInsert
  <2>2. \A p \in Requesters \ {q} : requester'[p] = requester[p]
    BY <1>2, <1>t DEF Queueing, QueueTarget, QueueMode, QueueInsert
  <2>3. requester'[q].pc \in {"mode", "insert"} => requester'[q].target \in Targets
    <3>1. ASSUME NEW t \in Targets, QueueTarget(q, t) PROVE requester'[q].target = t
                                                            \/ requester'[q].pc = "idle"
      BY <1>t, <3>1 DEF QueueTarget, IdleRequester, RequesterRecord
    <3>2. CASE QueueMode(q)
      BY <1>t, <3>2 DEF QueueMode, IdleRequester, RequesterRecord, NamesRows
    <3>3. ASSUME QueueInsert(q) PROVE requester'[q].pc \in {"idle", "target"}
      BY <1>t, <3>3 DEF QueueInsert, IdleRequester
    <3> QED BY <1>2, <3>1, <3>2, <3>3 DEF Queueing
  <2> QED BY <2>1, <2>2, <2>3 DEF NamesRows
<1>3. ASSUME NEW j \in Jobs, Overview(j) PROVE NamesRows'
  BY <1>3, <1>t DEF Overview, NamesRows, FreeCall
<1>4. ASSUME NEW pc \in {"down", "stopped"}, WorkerStart(pc) PROVE NamesRows'
  BY <1>4, ParkedFields DEF WorkerStart, NamesRows
<1>5. CASE UNCHANGED vars
  BY <1>5 DEF vars, NamesRows
<1> QED BY <1>1, <1>2, <1>3, <1>4, <1>5, NamesHandler, NamesWorker, NamesFaults DEF Next

LEMMA NamesCorrect == Spec => []NamesRows
BY NamesInit, NamesStep, TypeCorrect, PTL DEF Spec
=============================================================================
