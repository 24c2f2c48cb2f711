------------------------- MODULE CaptureQueueProofs -------------------------
(***************************************************************************)
(* What the capture pipeline promises about jobs and evidence: with late   *)
(* requests or without, what can happen to a row; without them, that the   *)
(* queue loses no reservation and implements CaptureLifecycle.             *)
(***************************************************************************)
EXTENDS CaptureControlProofs

USE DEF Jobs, Runs, Slots, NoJob, NoRun, NoSlot

-----------------------------------------------------------------------------
(* What a step can do to the rows, with late requests or without.  The rest *)
(* of this section is about RowStep only.                                   *)

InsertRow(j, t) ==
  /\ status[j] = "unused"
  /\ status' = [status EXCEPT ![j] = "queued"]
  /\ jobTarget' = [jobTarget EXCEPT ![j] = t]
  /\ UNCHANGED <<readiness, last>>

ReserveRow(j) ==
  /\ status[j] = "queued"
  /\ status' = [status EXCEPT ![j] = "running"]
  /\ UNCHANGED <<jobTarget, readiness, last>>

RequeueRows ==
  /\ status' = [j \in Jobs |-> IF status[j] = "running" THEN "queued" ELSE status[j]]
  /\ UNCHANGED <<jobTarget, readiness, last>>

ClearRows(S) ==
  /\ status' = [j \in Jobs |-> IF status[j] \in S THEN "cleared" ELSE status[j]]
  /\ UNCHANGED <<jobTarget, readiness, last>>

CompleteRow(j) ==
  /\ status' = [status EXCEPT ![j] = "completed"]
  /\ last' = [last EXCEPT ![jobTarget[j]] = "completed"]
  /\ UNCHANGED <<jobTarget, readiness>>

FailRow(j) ==
  /\ status' = [status EXCEPT ![j] = "failed"]
  /\ readiness' = [readiness EXCEPT ![j] = "not_ready"]
  /\ last' = [last EXCEPT ![jobTarget[j]] = "failed"]
  /\ UNCHANGED jobTarget

AssessRow(j, v) ==
  /\ status[j] = "completed"
  /\ readiness' = [readiness EXCEPT ![j] = v]
  /\ UNCHANGED <<status, jobTarget, last>>

RowStep ==
  \/ UNCHANGED <<status, jobTarget, readiness, last>>
  \/ \E j \in Jobs, t \in Targets : InsertRow(j, t)
  \/ \E j \in Jobs : ReserveRow(j) \/ CompleteRow(j) \/ FailRow(j)
  \/ \E j \in Jobs, v \in Readiness : AssessRow(j, v)
  \/ RequeueRows
  \/ \E S \in SUBSET {"queued", "failed"} : ClearRows(S)

LEMMA HandlerRowStep ==
  ASSUME TypeOK, NamesRows, NEW s \in Slots, Handler(s)
  PROVE  RowStep
<1> USE DEF targetVars, jobVars, fileVars
<1>c. /\ At(s, "complete", "selected") \/ At(s, "fail", "selected")
           \/ At(s, "claim", "selected") \/ calls[s].pc = "assessing" => calls[s].job \in Jobs
      /\ calls[s].verdict \in Readiness
  BY DEF TypeOK, CallRecord, NamesRows, At
<1>1. CASE ServeRequeue(s)
  BY <1>1 DEF ServeRequeue, RowStep, RequeueRows
<1>2. CASE ClaimSelect(s) \/ ServeContext(s) \/ CompleteCheckFiles(s)
             \/ CompleteSelect(s) \/ AssessRead(s) \/ FailSelect(s)
  BY <1>2 DEF ClaimSelect, ServeContext, CompleteCheckFiles, CompleteSelect,
              AssessRead, FailSelect, RowStep
<1>3. CASE ClaimUpdate(s)
  <2>1. CASE status[calls[s].job] = "queued"
    BY <1>3, <1>c, <2>1 DEF ClaimUpdate, RowStep, ReserveRow
  <2>2. CASE status[calls[s].job] # "queued"
    BY <1>3, <2>2 DEF ClaimUpdate, RowStep
  <2> QED BY <2>1, <2>2
<1>4. CASE CompleteUpdate(s)
  BY <1>4, <1>c DEF CompleteUpdate, RowStep, CompleteRow
<1>5. CASE AssessWrite(s)
  <2>1. CASE status[calls[s].job] = "completed"
    BY <1>5, <1>c, <2>1 DEF AssessWrite, RowStep, AssessRow
  <2>2. CASE status[calls[s].job] # "completed"
    <3>1. readiness' = readiness
      BY <1>5, <2>2 DEF AssessWrite, TypeOK
    <3> QED BY <1>5, <3>1 DEF AssessWrite, RowStep
  <2> QED BY <2>1, <2>2
<1>6. CASE FailUpdate(s)
  BY <1>6, <1>c DEF FailUpdate, RowStep, FailRow
<1> QED BY <1>1, <1>2, <1>3, <1>4, <1>5, <1>6 DEF Handler

LEMMA EveryRowStep == TypeOK /\ NamesRows /\ [Next]_vars => RowStep
<1> SUFFICES ASSUME TypeOK, NamesRows, [Next]_vars PROVE RowStep
  OBVIOUS
<1> USE DEF targetVars, jobVars, fileVars
<1>1. CASE Operators
  <2>1. ASSUME NEW S \in SUBSET {"queued", "failed"}, ClearJobs(S) PROVE RowStep
    BY <2>1 DEF ClearJobs, RowStep, ClearRows
  <2> QED BY <1>1, <2>1 DEF Operators, SetMode, SetAllowed, SyncCatalog,
                           RequestCapture, ScheduleSelect, RowStep
<1>2. ASSUME NEW q \in Requesters, Queueing(q) PROVE RowStep
  <2>2. CASE QueueInsert(q)
    BY <2>2 DEF NamesRows, QueueInsert, RowStep, InsertRow
  <2> QED BY <1>2, <2>2 DEF Queueing, QueueTarget, QueueMode, RowStep
<1>3. ASSUME NEW s \in Slots, Handler(s) PROVE RowStep
  BY <1>3, HandlerRowStep
<1>4. CASE \/ \E j \in Jobs : Overview(j)
           \/ \E pc \in {"down", "stopped"} : WorkerStart(pc)
  BY <1>4 DEF Overview, WorkerStart, RowStep
<1>5. CASE WorkerStep
  BY <1>5 DEF WorkerStep, WorkerSend, WorkerReceive, WritePages, PagesReturned,
              WriteText, CaptureRaises, CleanUp, RowStep
<1>6. CASE Faults
  BY <1>6 DEF Faults, Timeout, Interrupt, CancelAgain, Kill, ServerCrash, RowStep
<1>7. CASE UNCHANGED vars
  BY <1>7 DEF vars, RowStep
<1> QED BY <1>1, <1>2, <1>3, <1>4, <1>5, <1>6, <1>7 DEF Next

\* A completed row is never captured again and never deleted, however late the
\* requests of dead or impatient workers are executed.
THEOREM CompletedKept == Spec => CompletedIsNeverRecaptured
<1>1. TypeOK /\ NamesRows /\ [Next]_vars =>
        [\A j \in Jobs : status[j] = "completed" =>
                           status'[j] \in {"completed", "failed"}]_vars
  <2> SUFFICES ASSUME TypeOK, NamesRows, [Next]_vars, NEW j \in Jobs, status[j] = "completed"
               PROVE  status'[j] \in {"completed", "failed"}
    OBVIOUS
  <2>1. RowStep
    BY EveryRowStep
  <2> QED BY <2>1 DEF RowStep, InsertRow, ReserveRow, RequeueRows, ClearRows,
                     CompleteRow, FailRow, AssessRow, TypeOK
<1> QED BY <1>1, TypeCorrect, NamesCorrect, PTL DEF Spec, CompletedIsNeverRecaptured

\* An assessment calls no row usable that is not completed.
THEOREM ReadyCorrect == Spec => []ReadyOnlyIfCompleted
<1>1. Init => ReadyOnlyIfCompleted
  BY DEF Init, ReadyOnlyIfCompleted
<1>2. TypeOK /\ NamesRows /\ ReadyOnlyIfCompleted /\ [Next]_vars => ReadyOnlyIfCompleted'
  <2> SUFFICES ASSUME TypeOK, NamesRows, ReadyOnlyIfCompleted, [Next]_vars, NEW j \in Jobs,
                      readiness'[j] = "ready"
               PROVE  status'[j] = "completed"
    BY DEF ReadyOnlyIfCompleted
  <2>1. RowStep
    BY EveryRowStep
  <2> QED BY <2>1 DEF RowStep, InsertRow, ReserveRow, RequeueRows, ClearRows,
                     CompleteRow, FailRow, AssessRow, TypeOK, ReadyOnlyIfCompleted
<1> QED BY <1>1, <1>2, TypeCorrect, NamesCorrect, PTL DEF Spec

\* A target's last outcome is "completed" only while it has a completed row.
THEOREM LastOutcomeCorrect == Spec => []LastOutcomeJustified
<1>1. Init => LastOutcomeJustified
  BY DEF Init, LastOutcomeJustified
<1>2. TypeOK /\ NamesRows /\ LastOutcomeJustified /\ [Next]_vars => LastOutcomeJustified'
  <2> SUFFICES ASSUME TypeOK, NamesRows, LastOutcomeJustified, [Next]_vars, NEW t \in Targets,
                      last'[t] = "completed"
               PROVE  \E j \in Jobs : jobTarget'[j] = t /\ status'[j] = "completed"
    BY DEF LastOutcomeJustified
  <2>t. /\ status \in [Jobs -> Status]
        /\ jobTarget \in [Jobs -> Targets \cup {NoTarget}]
        /\ last \in [Targets -> Outcome]
    BY DEF TypeOK
  <2>o. last[t] = "completed" =>
          \E j \in Jobs : jobTarget[j] = t /\ status[j] = "completed"
    BY DEF LastOutcomeJustified
  <2>1. CASE UNCHANGED <<status, jobTarget, readiness, last>>
    BY <2>1, <2>o
  <2>2. CASE \E j \in Jobs, u \in Targets : InsertRow(j, u)
    BY <2>2, <2>o, <2>t DEF InsertRow
  <2>3. ASSUME NEW j \in Jobs, ReserveRow(j)
        PROVE  \E i \in Jobs : jobTarget'[i] = t /\ status'[i] = "completed"
    BY <2>3, <2>o, <2>t DEF ReserveRow
  <2>4. ASSUME NEW j \in Jobs, CompleteRow(j)
        PROVE  \E i \in Jobs : jobTarget'[i] = t /\ status'[i] = "completed"
    <3>1. CASE last[t] = "completed"
      BY <2>4, <2>o, <2>t, <3>1 DEF CompleteRow
    <3>2. CASE last[t] # "completed"
      <4>1. jobTarget[j] = t
        BY <2>4, <2>t, <3>2 DEF CompleteRow
      <4> QED BY <2>4, <2>t, <4>1 DEF CompleteRow
    <3> QED BY <3>1, <3>2
  <2>5. ASSUME NEW j \in Jobs, FailRow(j)
        PROVE  \E i \in Jobs : jobTarget'[i] = t /\ status'[i] = "completed"
    <3>1. last[t] = "completed" /\ jobTarget[j] # t
      BY <2>5, <2>t DEF FailRow
    <3> QED BY <2>5, <2>o, <2>t, <3>1 DEF FailRow
  <2>6. CASE \E j \in Jobs, v \in Readiness : AssessRow(j, v)
    BY <2>6, <2>o DEF AssessRow
  <2>7. CASE RequeueRows
    BY <2>7, <2>o, <2>t DEF RequeueRows
  <2>8. CASE \E S \in SUBSET {"queued", "failed"} : ClearRows(S)
    BY <2>8, <2>o, <2>t DEF ClearRows
  <2> QED BY <2>1, <2>2, <2>3, <2>4, <2>5, <2>6, <2>7, <2>8, EveryRowStep DEF RowStep
<1> QED BY <1>1, <1>2, TypeCorrect, NamesCorrect, PTL DEF Spec

-----------------------------------------------------------------------------
(* The queue without late requests: QueueInv is inductive.                  *)

LEMMA QueueHandler ==
  ASSUME TypeOK, QueueInv, NEW s \in Slots, Handler(s)
  PROVE  QueueInv'
<1>c. calls \in [Slots -> CallRecord] /\ calls[s] \in CallRecord
  BY DEF TypeOK
<1>t. status \in [Jobs -> Status] /\ worker.call \in Slots \cup {NoSlot}
  BY DEF TypeOK, WorkerRecord
<1>h. /\ UNCHANGED worker
      /\ \A k \in Slots \ {s} : calls'[k] = calls[k]
      /\ HandlerEffect(s)
  BY <1>c, HandlerCalls
<1>q. /\ OnlyTheWorkersCallPends /\ CallMatchesWorker /\ WorkerShape /\ AnswerShape
      /\ AdmittedReportIsCurrent /\ CapturesOnlyItsReservation /\ NoReservationIsForgotten
  BY DEF QueueInv
<1>1. CASE worker.call # s
  <2>1. calls[s].pc \notin Pending
    BY <1>1, <1>q DEF OnlyTheWorkersCallPends
  <2>2. /\ UNCHANGED status
        /\ calls'[s].pc \in {"assessing", "free"}
    BY <1>1, <1>h, <2>1, FreeFields DEF HandlerEffect, Becomes, Ends, Pending, At
  <2>3. OnlyTheWorkersCallPends' /\ CallMatchesWorker'
    BY <1>1, <1>t, <1>h, <1>q, <2>2 DEF OnlyTheWorkersCallPends, CallMatchesWorker, Pending
  <2>4. WorkerShape' /\ CapturesOnlyItsReservation'
    BY <1>h, <1>q, <2>2 DEF WorkerShape, CapturesOnlyItsReservation
  <2>5. AnswerShape'
    BY <1>1, <1>h, <1>q, <2>2 DEF AnswerShape, At, Pending
  <2>6. AdmittedReportIsCurrent'
    BY <1>h, <1>q, <2>2 DEF AdmittedReportIsCurrent
  <2>7. NoReservationIsForgotten'
    BY <1>1, <1>h, <1>q, <2>2 DEF NoReservationIsForgotten, At
  <2> QED BY <2>3, <2>4, <2>5, <2>6, <2>7 DEF QueueInv
<1>2. CASE worker.call = s
  <2>1. OnlyTheWorkersCallPends'
    BY <1>2, <1>h, <1>q DEF OnlyTheWorkersCallPends, Pending
  <2>2. /\ calls'[s].op = calls[s].op
        /\ calls'[s].pc # "free"
        /\ worker.pc # "claim" => calls'[s].job = calls[s].job
    BY <1>2, <1>h, <1>q DEF HandlerEffect, Becomes, Ends, At, CallMatchesWorker
  <2>3. CallMatchesWorker'
    BY <1>2, <1>h, <1>q, <2>2 DEF CallMatchesWorker
  <2>4. WorkerShape'
    BY <1>h, <1>q DEF WorkerShape
  <2>o. /\ calls[s].op = worker.pc
        /\ worker.pc # "claim" => calls[s].job = worker.job
    BY <1>2, <1>q DEF CallMatchesWorker
  <2>j. worker.pc # "claim" /\ worker.pc # "requeue" => calls[s].job \in Jobs
    BY <1>2, <1>q, <2>o DEF WorkerShape
  <2>5. AnswerShape'
    <3> USE <1>t, <1>2, <1>h, <2>o, <2>2 DEF HandlerEffect, Becomes, Ends, At
    <3>1. calls'[s].op = "requeue" /\ calls'[s].pc = "ok" => \A j \in Jobs : status'[j] # "running"
      BY <1>q DEF AnswerShape
    <3>0. calls'[s].pc \in {"committed", "assessing"} => calls'[s].op = "complete"
      BY <1>q DEF AnswerShape
    <3>2. calls'[s].op = "claim" /\ calls'[s].pc = "received" => calls'[s].job = NoJob
      BY <1>q DEF AnswerShape
    <3>3. calls'[s].op = "claim" /\ calls'[s].pc = "selected" => calls'[s].job \in Jobs
      BY <1>q DEF AnswerShape
    <3>4. calls'[s].op = "claim" /\ calls'[s].pc = "ok" /\ calls'[s].job # NoJob =>
            status'[calls'[s].job] = "running" /\ calls'[s].run \in Runs
      <4>1. /\ calls[s].pc \in {"committed", "assessing"} => calls[s].op = "complete"
            /\ At(s, "claim", "received") => calls[s].job = NoJob
            /\ At(s, "claim", "selected") => calls[s].job \in Jobs
        BY <1>q DEF AnswerShape
      <4>2. SUFFICES ASSUME calls'[s].op = "claim", calls'[s].pc = "ok",
                            calls'[s].job # NoJob
                     PROVE  status'[calls'[s].job] = "running" /\ calls'[s].run \in Runs
        OBVIOUS
      <4>3. At(s, "claim", "received") \/ At(s, "claim", "selected")
        BY <4>1, <4>2
      <4>4. CASE At(s, "claim", "received")
        BY <4>1, <4>2, <4>4
      <4>5. CASE At(s, "claim", "selected")
        BY <4>1, <4>2, <4>5
      <4> QED BY <4>3, <4>4, <4>5
    <3>5. ASSUME calls'[s].op = "complete"
          PROVE  (calls'[s].pc \in Pending <=> status'[calls'[s].job] = "running")
                   \/ calls'[s].pc = "refused"
      BY <1>q, <2>j, <3>5 DEF AnswerShape, Pending
    <3>6. calls'[s].op = "fail" /\ calls'[s].pc = "ok" => status'[calls'[s].job] # "running"
      BY <1>q, <2>j DEF AnswerShape
    <3> HIDE DEF HandlerEffect, Becomes, Ends
    <3> QED BY <3>0, <3>1, <3>2, <3>3, <3>4, <3>5, <3>6 DEF AnswerShape
  <2>6. AdmittedReportIsCurrent'
    <3>1. \A k \in Slots \ {s} : calls'[k].pc # "selected"
      BY <1>2, <1>h, <1>q DEF OnlyTheWorkersCallPends, Pending
    <3>2. calls'[s].pc = "selected" /\ calls'[s].op \in {"complete", "fail"} =>
            status'[calls'[s].job] = "running"
      BY <1>2, <1>h, <2>o DEF HandlerEffect, Becomes, Ends, At
    <3> QED BY <3>1, <3>2 DEF AdmittedReportIsCurrent
  <2>7. CapturesOnlyItsReservation'
    BY <1>2, <1>h, <1>q, <1>t, <2>o
    DEF CapturesOnlyItsReservation, HandlerEffect, Becomes, Ends, At, WorkerShape
  <2>8. NoReservationIsForgotten'
    BY <1>2, <1>h, <1>q, <1>t, <2>o
    DEF NoReservationIsForgotten, HandlerEffect, Becomes, Ends, At, WorkerShape
  <2> QED BY <2>1, <2>3, <2>4, <2>5, <2>6, <2>7, <2>8 DEF QueueInv
<1> QED BY <1>1, <1>2

LEMMA QueueWorker ==
  ASSUME TypeOK, NamesRows, QueueInv, WorkerStep
  PROVE  QueueInv'
<1>c. worker \in WorkerRecord /\ calls \in [Slots -> CallRecord]
  BY DEF TypeOK
<1>w. worker.call \in Slots \cup {NoSlot}
  BY <1>c DEF WorkerRecord
<1>s. UNCHANGED status
  BY DEF WorkerStep, WorkerSend, WorkerReceive, WritePages, PagesReturned,
         WriteText, CaptureRaises, CleanUp, jobVars
<1>q. /\ OnlyTheWorkersCallPends /\ CallMatchesWorker /\ WorkerShape /\ AnswerShape
      /\ AdmittedReportIsCurrent /\ CapturesOnlyItsReservation /\ NoReservationIsForgotten
  BY DEF QueueInv
<1>1. CASE WorkerSend
  <2>1. PICK op \in {"requeue", "claim", "context", "complete", "fail"} :
          /\ Send(op, op)
          /\ op = "requeue" => worker.pc = "recover"
          /\ op = "claim" => worker.pc = "poll"
          /\ op = "context" => worker.pc = "reserved"
          /\ op = "complete" => worker.pc = "written"
          /\ op = "fail" => worker.pc = "report"
    BY <1>1 DEF WorkerSend
  <2>2. PICK s \in Slots :
          /\ calls[s].pc = "free"
          /\ \A k \in Slots \ {s} : calls'[k] = calls[k]
          /\ calls'[s].op = op /\ calls'[s].pc = "received"
          /\ calls'[s].job = worker.job /\ calls'[s].run = worker.run
          /\ worker'.pc = op /\ worker'.call = s
          /\ worker'.job = worker.job /\ worker'.run = worker.run
    BY <1>c, <2>1, SendEffect
  <2>3. worker.call = NoSlot
    BY <1>q, <2>1 DEF WorkerShape
  <2>4. OnlyTheWorkersCallPends' /\ CallMatchesWorker'
    BY <1>q, <2>1, <2>2, <2>3 DEF OnlyTheWorkersCallPends, CallMatchesWorker, Pending
  <2>5. WorkerShape'
    BY <1>q, <2>1, <2>2, <2>3 DEF WorkerShape
  <2>6. op = "complete" => status[worker.job] = "running"
    BY <1>q, <2>1 DEF CapturesOnlyItsReservation
  <2>7. AnswerShape'
    BY <1>q, <1>s, <2>1, <2>2, <2>5, <2>6 DEF AnswerShape, At, Pending, WorkerShape
  <2>8. AdmittedReportIsCurrent'
    BY <1>q, <1>s, <2>2 DEF AdmittedReportIsCurrent
  <2>9. CapturesOnlyItsReservation' /\ NoReservationIsForgotten'
    BY <1>q, <1>s, <2>1, <2>2, <2>3
    DEF CapturesOnlyItsReservation, NoReservationIsForgotten, WorkerShape, At
  <2> QED BY <2>4, <2>5, <2>7, <2>8, <2>9 DEF QueueInv
<1>2. CASE WorkerReceive
  <2> DEFINE c == calls[worker.call]
  <2>0. /\ worker.call \in Slots
        /\ calls'[worker.call] = FreeCall
        /\ \A k \in Slots \ {worker.call} : calls'[k] = calls[k]
    BY <1>c, <1>w, <1>2 DEF WorkerReceive
  <2>1. c.op = worker.pc /\ (worker.pc # "claim" => c.job = worker.job)
    BY <1>q, <2>0 DEF CallMatchesWorker
  <2>2. \A k \in Slots : calls'[k].pc \notin Pending
    BY <1>q, <2>0, FreeFields DEF OnlyTheWorkersCallPends, Pending
  <2>3. worker'.call = NoSlot
    BY <1>c, <1>2, ReceiveEffect, RaisedFields
  <2>4. WorkerShape' /\ CapturesOnlyItsReservation' /\ NoReservationIsForgotten'
    <3>1. CASE c.pc = "refused" /\ worker' = Raised(TRUE)
      BY <1>c, <1>q, <1>s, <2>1, <2>3, <3>1, RaisedFields
      DEF WorkerShape, CapturesOnlyItsReservation, NoReservationIsForgotten
    <3>2. CASE /\ c.pc = "ok"
               /\ \/ worker.pc \in {"requeue", "complete", "fail"}
                  \/ worker.pc = "claim" /\ c.job = NoJob
               /\ worker'.pc \in {"poll", "stopped"}
               /\ worker'.job = NoJob
      <4>1. \A j \in Jobs : status[j] # "running"
        BY <1>q, <2>0, <2>1, <3>2
        DEF WorkerShape, AnswerShape, NoReservationIsForgotten, At, Pending
      <4> QED BY <1>s, <2>3, <3>2, <4>1
              DEF WorkerShape, CapturesOnlyItsReservation, NoReservationIsForgotten
    <3>3. CASE /\ c.pc = "ok" /\ worker.pc = "claim" /\ c.job # NoJob
               /\ worker'.pc = "reserved"
               /\ worker'.job = c.job /\ worker'.run = c.run
      <4>1. c.job \in Jobs
        BY <1>c, <2>0, <3>3 DEF CallRecord
      <4> QED BY <1>q, <1>s, <2>0, <2>1, <2>3, <3>3, <4>1
              DEF WorkerShape, AnswerShape, CapturesOnlyItsReservation,
                  NoReservationIsForgotten, At
    <3>4. CASE /\ c.pc = "ok" /\ worker.pc = "context"
               /\ worker'.pc = "capture"
               /\ worker'.job = worker.job /\ worker'.run = worker.run
      BY <1>q, <1>s, <2>3, <3>4
      DEF WorkerShape, CapturesOnlyItsReservation, NoReservationIsForgotten
    <3> QED BY <1>c, <1>2, <3>1, <3>2, <3>3, <3>4, ReceiveEffect
  <2>5. OnlyTheWorkersCallPends' /\ CallMatchesWorker' /\ AnswerShape'
          /\ AdmittedReportIsCurrent'
    BY <2>2, <2>3 DEF OnlyTheWorkersCallPends, CallMatchesWorker, AnswerShape,
                      AdmittedReportIsCurrent, Pending
  <2> QED BY <2>4, <2>5 DEF QueueInv
<1>3. CASE WritePages
  <2>1. UNCHANGED <<calls, worker>>
    BY <1>3 DEF WritePages
  <2> QED BY <1>q, <1>s, <2>1
          DEF QueueInv, OnlyTheWorkersCallPends, CallMatchesWorker, WorkerShape,
              AnswerShape, AdmittedReportIsCurrent, CapturesOnlyItsReservation,
              NoReservationIsForgotten, At
<1>4. CASE PagesReturned \/ WriteText \/ CaptureRaises \/ CleanUp
  <2>1. /\ worker.pc \in {"capture", "captured", "written", "cleanup"}
        /\ worker'.pc \in {"captured", "written", "cleanup", "report"}
        /\ worker.pc = "cleanup" => worker'.pc = "report"
        /\ worker'.job = worker.job /\ worker'.run = worker.run
        /\ worker'.call = worker.call
        /\ UNCHANGED <<calls, status, requester>>
    BY <1>c, <1>4, CaptureEffect
  <2>2. worker.call = NoSlot
    BY <1>q, <2>1 DEF WorkerShape
  <2> QED BY <1>q, <2>1, <2>2
          DEF QueueInv, OnlyTheWorkersCallPends, CallMatchesWorker, WorkerShape,
              AnswerShape, AdmittedReportIsCurrent, CapturesOnlyItsReservation,
              NoReservationIsForgotten, At
<1> QED BY <1>1, <1>2, <1>3, <1>4 DEF WorkerStep

LEMMA QueueFaults ==
  ASSUME TypeOK, ~LateCalls, QueueInv, Faults
  PROVE  QueueInv'
<1>c. worker \in WorkerRecord /\ calls \in [Slots -> CallRecord]
  BY DEF TypeOK
<1>s. UNCHANGED status
  BY DEF Faults, Timeout, Interrupt, CancelAgain, Kill, ServerCrash, jobVars
<1>q. /\ OnlyTheWorkersCallPends /\ CallMatchesWorker /\ WorkerShape /\ AnswerShape
      /\ AdmittedReportIsCurrent /\ CapturesOnlyItsReservation /\ NoReservationIsForgotten
  BY DEF QueueInv
<1>1. \/ UNCHANGED worker /\ worker.call = NoSlot
      \/ /\ worker'.call = NoSlot
         /\ \/ worker'.pc \in {"stopped", "recover", "down"} /\ worker'.job = NoJob
            \/ worker'.pc = "cleanup" /\ worker'.job = worker.job /\ worker'.run = worker.run
                 /\ worker.pc \in {"capture", "captured", "written", "complete"}
  <2>1. CASE Timeout
    BY <1>c, <2>1, RaisedFields DEF Timeout
  <2>2. CASE Interrupt
    BY <1>c, <2>2, InterruptEffect
  <2>3. CASE Kill \/ CancelAgain
    BY <2>3, ParkedFields DEF Kill, CancelAgain
  <2>4. CASE ServerCrash
    BY <1>c, <2>4, RaisedFields DEF ServerCrash
  <2> QED BY <2>1, <2>2, <2>3, <2>4 DEF Faults
<1>2. \A s \in Slots : calls'[s].pc \notin Pending
  <2>1. CASE ServerCrash
    BY <2>1, FreeFields DEF ServerCrash, Pending
  <2>2. CASE Timeout \/ Interrupt \/ CancelAgain \/ Kill
    <3>1. GiveUp
      BY <2>2 DEF Timeout, Interrupt, CancelAgain, Kill
    <3> QED BY <1>c, <1>q, <3>1, GiveUpEffect, FreeFields
            DEF OnlyTheWorkersCallPends, Pending
  <2> QED BY <2>1, <2>2 DEF Faults
<1>3. OnlyTheWorkersCallPends' /\ CallMatchesWorker' /\ AnswerShape' /\ AdmittedReportIsCurrent'
  BY <1>1, <1>2 DEF OnlyTheWorkersCallPends, CallMatchesWorker, AnswerShape,
                    AdmittedReportIsCurrent, Pending
<1>4. WorkerShape' /\ CapturesOnlyItsReservation' /\ NoReservationIsForgotten'
  BY <1>1, <1>q, <1>s DEF WorkerShape, CapturesOnlyItsReservation,
                          NoReservationIsForgotten
<1> QED BY <1>3, <1>4 DEF QueueInv

\* Rows that are inserted or cleared, and everything that is not about the
\* queue, the calls or the worker.
LEMMA QueueQuiet ==
  ASSUME TypeOK, NamesRows, QueueInv, UNCHANGED <<calls, worker>>,
         \A j \in Jobs : status'[j] = "running" <=> status[j] = "running"
  PROVE  QueueInv'
<1>q. /\ OnlyTheWorkersCallPends /\ CallMatchesWorker /\ WorkerShape /\ AnswerShape
      /\ AdmittedReportIsCurrent /\ CapturesOnlyItsReservation /\ NoReservationIsForgotten
  BY DEF QueueInv
<1>1. \A s \in Slots :
        calls[s].op \in {"complete", "fail"} \/ calls[s].job # NoJob => calls[s].job \in Jobs
  BY DEF TypeOK, CallRecord, NamesRows
<1>2. OnlyTheWorkersCallPends' /\ CallMatchesWorker' /\ WorkerShape'
  BY <1>q DEF OnlyTheWorkersCallPends, CallMatchesWorker, WorkerShape
<1>3. AnswerShape'
  BY <1>q, <1>1 DEF AnswerShape, At
<1>4. AdmittedReportIsCurrent' /\ CapturesOnlyItsReservation' /\ NoReservationIsForgotten'
  BY <1>q, <1>1 DEF AdmittedReportIsCurrent, CapturesOnlyItsReservation,
                    NoReservationIsForgotten, At
<1> QED BY <1>2, <1>3, <1>4 DEF QueueInv

LEMMA QueueInit == Init => QueueInv
BY FreeFields, ParkedFields
DEF Init, QueueInv, OnlyTheWorkersCallPends, CallMatchesWorker, WorkerShape, AnswerShape,
    AdmittedReportIsCurrent, CapturesOnlyItsReservation, NoReservationIsForgotten,
    At, Pending

\* Late requests come of faults only.
LEMMA QueueStep ==
  (LateCalls => ~Faults) /\ TypeOK /\ NamesRows /\ QueueInv /\ [Next]_vars => QueueInv'
<1> SUFFICES ASSUME LateCalls => ~Faults, TypeOK, NamesRows, QueueInv, [Next]_vars
             PROVE  QueueInv'
  OBVIOUS
<1>1. CASE Operators \/ (\E q \in Requesters : Queueing(q)) \/ UNCHANGED vars
  <2>1. UNCHANGED <<calls, worker>>
    BY <1>1 DEF Operators, SetMode, SetAllowed, SyncCatalog, ClearJobs, RequestCapture,
                ScheduleSelect, Queueing, QueueTarget, QueueMode, QueueInsert, vars
  <2>2. \A j \in Jobs : status'[j] = "running" <=> status[j] = "running"
    BY <1>1 DEF TypeOK, Operators, SetMode, SetAllowed, SyncCatalog, ClearJobs,
                RequestCapture, ScheduleSelect, Queueing, QueueTarget, QueueMode,
                QueueInsert, vars, jobVars
  <2> QED BY <2>1, <2>2, QueueQuiet
<1>2. ASSUME NEW s \in Slots, Handler(s) PROVE QueueInv'
  BY <1>2, QueueHandler
<1>3. ASSUME NEW j \in Jobs, Overview(j) PROVE QueueInv'
  <2>1. PICK s \in Slots :
          /\ calls[s].pc = "free"
          /\ calls' = [calls EXCEPT ![s] = [FreeCall EXCEPT !.op = "overview",
                                              !.pc = "committed", !.job = j]]
    BY <1>3 DEF Overview, FreeSlot
  <2>2. /\ calls'[s].pc = "committed" /\ calls'[s].op = "overview"
        /\ \A k \in Slots \ {s} : calls'[k] = calls[k]
    BY <2>1 DEF TypeOK, FreeCall
  <2>3. worker.call # s
    BY <2>1 DEF QueueInv, CallMatchesWorker
  <2>4. UNCHANGED <<worker, status>>
    BY <1>3 DEF Overview, jobVars
  <2>w. worker.call \in Slots \cup {NoSlot}
    BY DEF TypeOK, WorkerRecord
  <2> QED BY <2>2, <2>3, <2>4, <2>w
          DEF QueueInv, OnlyTheWorkersCallPends, CallMatchesWorker, WorkerShape,
              AnswerShape, AdmittedReportIsCurrent, CapturesOnlyItsReservation,
              NoReservationIsForgotten, At, Pending
<1>4. ASSUME NEW pc \in {"down", "stopped"}, WorkerStart(pc) PROVE QueueInv'
  <2>1. /\ worker.pc \in {"down", "stopped"}
        /\ worker'.pc = "recover" /\ worker'.job = NoJob /\ worker'.call = NoSlot
        /\ UNCHANGED <<calls, status>>
    BY <1>4, ParkedFields DEF WorkerStart, jobVars
  <2>2. worker.call = NoSlot
    BY <2>1 DEF QueueInv, WorkerShape
  <2> QED BY <2>1, <2>2
          DEF QueueInv, OnlyTheWorkersCallPends, CallMatchesWorker, WorkerShape,
              AnswerShape, AdmittedReportIsCurrent, CapturesOnlyItsReservation,
              NoReservationIsForgotten, At, Pending
<1>5. CASE WorkerStep
  BY <1>5, QueueWorker
<1>6. CASE Faults
  BY <1>6, QueueFaults
<1> QED BY <1>1, <1>2, <1>3, <1>4, <1>5, <1>6 DEF Next

\* Without late requests the queue keeps its invariant, however the worker, the
\* server and the operators interleave and fail.
THEOREM QueueCorrect == ASSUME ~LateCalls PROVE Spec => []QueueInv
<1>1. Init => QueueInv
  BY QueueInit
<1>2. TypeOK /\ NamesRows /\ QueueInv /\ [Next]_vars => QueueInv'
  BY QueueStep
<1> QED BY <1>1, <1>2, TypeCorrect, NamesCorrect, PTL DEF Spec

\* No reservation is forgotten.
THEOREM NothingForgotten == ASSUME ~LateCalls PROVE Spec => []NoReservationIsForgotten
<1>1. QueueInv => NoReservationIsForgotten
  BY DEF QueueInv
<1> QED BY <1>1, QueueCorrect, PTL

\* The worker captures only for a job that is reserved.
THEOREM CapturesReserved == ASSUME ~LateCalls PROVE Spec => []CapturesOnlyItsReservation
<1>1. QueueInv => CapturesOnlyItsReservation
  BY DEF QueueInv
<1> QED BY <1>1, QueueCorrect, PTL

\* An admitted report finds its row reserved.
THEOREM ReportsCurrent == ASSUME ~LateCalls PROVE Spec => []AdmittedReportIsCurrent
<1>1. QueueInv => AdmittedReportIsCurrent
  BY DEF QueueInv
<1> QED BY <1>1, QueueCorrect, PTL

-----------------------------------------------------------------------------
(* The queue implements CaptureLifecycle.                                   *)

LEMMA LifecycleInit == Init => Lifecycle!Init
BY DEF Init, Lifecycle!Init

LEMMA LifecycleStep ==
  TypeOK /\ NamesRows /\ QueueInv /\ [Next]_vars => [Lifecycle!Next]_(Lifecycle!vars)
<1> SUFFICES ASSUME TypeOK, NamesRows, QueueInv, [Next]_vars
             PROVE  Lifecycle!Next \/ UNCHANGED <<status, jobTarget, last>>
  BY DEF Lifecycle!vars
<1> USE DEF targetVars, jobVars, fileVars
<1>1. CASE Operators
  <2>1. ASSUME NEW S \in SUBSET {"queued", "failed"}, ClearJobs(S)
        PROVE  Lifecycle!Clear(S)
    BY <2>1 DEF ClearJobs, Lifecycle!Clear
  <2> QED BY <1>1, <2>1 DEF Operators, SetMode, SetAllowed, SyncCatalog,
                           RequestCapture, ScheduleSelect, Lifecycle!Next
<1>2. ASSUME NEW q \in Requesters, Queueing(q)
      PROVE  Lifecycle!Next \/ UNCHANGED <<status, jobTarget, last>>
  <2>1. CASE QueueInsert(q)
    <3>1. requester[q].target \in Targets
      BY <2>1 DEF QueueInsert, NamesRows
    <3>2. \E j \in Jobs : Lifecycle!Enqueue(j, requester[q].target)
      BY <2>1 DEF QueueInsert, Lifecycle!Enqueue
    <3> QED BY <3>1, <3>2 DEF Lifecycle!Next
  <2> QED BY <1>2, <2>1 DEF Queueing, QueueTarget, QueueMode
<1>3. ASSUME NEW s \in Slots, Handler(s)
      PROVE  Lifecycle!Next \/ UNCHANGED <<status, jobTarget, last>>
  <2> DEFINE j == calls[s].job
  <2>j. calls[s].pc = "selected" => j \in Jobs
    BY DEF NamesRows
  <2>1. CASE ServeRequeue(s)
    BY <2>1 DEF ServeRequeue, Lifecycle!Next, Lifecycle!Requeue
  <2>2. CASE ClaimUpdate(s)
    <3>1. CASE status[j] = "queued"
      <4>1. Lifecycle!Reserve(j) /\ j \in Jobs
        BY <2>2, <2>j, <3>1 DEF ClaimUpdate, At, Lifecycle!Reserve
      <4> QED BY <4>1 DEF Lifecycle!Next
    <3>2. CASE status[j] # "queued"
      BY <2>2, <3>2 DEF ClaimUpdate
    <3> QED BY <3>1, <3>2
  <2>3. CASE CompleteUpdate(s)
    <3>1. status[j] = "running" /\ j \in Jobs
      BY <2>3, <2>j DEF CompleteUpdate, At, QueueInv, AdmittedReportIsCurrent
    <3>2. Lifecycle!Report(j, "completed")
      BY <2>3, <3>1 DEF CompleteUpdate, Lifecycle!Report
    <3> QED BY <3>1, <3>2 DEF Lifecycle!Next
  <2>4. CASE FailUpdate(s)
    <3>1. status[j] = "running" /\ j \in Jobs
      BY <2>4, <2>j DEF FailUpdate, At, QueueInv, AdmittedReportIsCurrent
    <3>2. Lifecycle!Report(j, "failed")
      BY <2>4, <3>1 DEF FailUpdate, Lifecycle!Report
    <3> QED BY <3>1, <3>2 DEF Lifecycle!Next
  <2>5. CASE AssessWrite(s)
    BY <2>5 DEF AssessWrite
  <2>6. CASE ClaimSelect(s) \/ ServeContext(s) \/ CompleteCheckFiles(s)
               \/ CompleteSelect(s) \/ AssessRead(s) \/ FailSelect(s)
    BY <2>6 DEF ClaimSelect, ServeContext, CompleteCheckFiles, CompleteSelect,
                AssessRead, FailSelect
  <2> QED BY <1>3, <2>1, <2>2, <2>3, <2>4, <2>5, <2>6 DEF Handler
<1>4. CASE \/ \E j \in Jobs : Overview(j)
           \/ \E pc \in {"down", "stopped"} : WorkerStart(pc)
  BY <1>4 DEF Overview, WorkerStart
<1>5. CASE WorkerStep
  BY <1>5 DEF WorkerStep, WorkerSend, WorkerReceive, WritePages, PagesReturned,
              WriteText, CaptureRaises, CleanUp
<1>6. CASE Faults
  BY <1>6 DEF Faults, Timeout, Interrupt, CancelAgain, Kill, ServerCrash
<1>7. CASE UNCHANGED vars
  BY <1>7 DEF vars
<1> QED BY <1>1, <1>2, <1>3, <1>4, <1>5, <1>6, <1>7 DEF Next

\* Seen through its rows and its targets' outcomes, the pipeline is the life of
\* jobs that CaptureLifecycle describes.
THEOREM Implements == ASSUME ~LateCalls PROVE Spec => LifecycleSpec
<1>1. Init => Lifecycle!Init
  BY LifecycleInit
<1>2. TypeOK /\ NamesRows /\ QueueInv /\ [Next]_vars => [Lifecycle!Next]_(Lifecycle!vars)
  BY LifecycleStep
<1> QED BY <1>1, <1>2, TypeCorrect, NamesCorrect, QueueCorrect, PTL
        DEF Spec, LifecycleSpec, Lifecycle!Spec

-----------------------------------------------------------------------------
(* Evidence before the first fault.                                         *)

\* No row names the files of the worker's run until its report is recorded.
RunUnnamed ==
  worker.run \in Runs /\ (\E j \in Jobs : evidence[j] = worker.run) =>
    /\ worker.pc = "complete"
    /\ \A s \in Slots : s = worker.call =>
         calls[s].pc \in {"committed", "assessing", "ok"}

\* What the call under way implies about the run it names.
CallHasEvidence ==
  \A s \in Slots : s = worker.call =>
    /\ calls[s].op = "complete" => calls[s].run = worker.run
    /\ At(s, "claim", "ok") /\ calls[s].job # NoJob =>
         \A j \in Jobs : evidence[j] # calls[s].run
    /\ calls[s].op = "complete" /\ calls[s].pc \in {"checked", "selected"} =>
         calls[s].run \in Runs /\ Artifacts \subseteq files[calls[s].run]
    /\ calls[s].op = "complete" /\ calls[s].pc \in {"committed", "assessing"} =>
         status[calls[s].job] = "completed"

EvidenceInv ==
  /\ QueueInv
  /\ ~worker.stopping
  /\ CompletedHasEvidence
  /\ RunUnnamed
  /\ CallHasEvidence

LEMMA EvidenceInit == Init => EvidenceInv
<1> SUFFICES ASSUME Init PROVE EvidenceInv
  OBVIOUS
<1>1. QueueInv
  BY QueueInit
<1>2. ~worker.stopping /\ worker.run = NoRun /\ worker.call = NoSlot
  BY DEF Init, Parked
<1>3. CompletedHasEvidence
  BY DEF Init, CompletedHasEvidence
<1> QED BY <1>1, <1>2, <1>3 DEF EvidenceInv, RunUnnamed, CallHasEvidence

\* Handlers but for those of a reservation and of a completion leave runs, files and
\* completed rows alone.
LEMMA OtherHandlers ==
  ASSUME TypeOK, EvidenceInv, NEW s \in Slots, Handler(s),
         ~ClaimUpdate(s), ~CompleteUpdate(s)
  PROVE  /\ UNCHANGED <<evidence, files>>
         /\ \A j \in Jobs : status'[j] = "completed" => status[j] = "completed"
         /\ \A j \in Jobs : status[j] = "completed" =>
              status'[j] = "completed" \/ At(s, "fail", "selected")
<1> USE DEF jobVars, fileVars, targetVars
<1>t. status \in [Jobs -> Status]
  BY DEF TypeOK
<1>1. CASE ServeRequeue(s)
  BY <1>1, <1>t DEF ServeRequeue
<1>2. CASE ClaimSelect(s) \/ ServeContext(s) \/ CompleteCheckFiles(s) \/ CompleteSelect(s)
             \/ AssessRead(s) \/ FailSelect(s)
  BY <1>2 DEF ClaimSelect, ServeContext, CompleteCheckFiles, CompleteSelect, AssessRead,
              FailSelect
<1>3. CASE AssessWrite(s)
  BY <1>3 DEF AssessWrite
<1>4. CASE FailUpdate(s)
  <2>1. UNCHANGED <<evidence, files>> /\ At(s, "fail", "selected")
    BY <1>4 DEF FailUpdate
  <2>2. status' = status \/ status' = [status EXCEPT ![calls[s].job] = "failed"]
    BY <1>4 DEF FailUpdate
  <2> QED BY <1>t, <2>1, <2>2
<1> QED BY <1>1, <1>2, <1>3, <1>4 DEF Handler

\* The assessment of a completed row is answered.
LEMMA AssessmentIsAnswered ==
  ASSUME TypeOK, NEW s \in Slots, worker.call = s, Handler(s),
         calls[s].pc \in {"committed", "assessing"}, status[calls[s].job] = "completed"
  PROVE  calls'[s].pc \in {"assessing", "ok"}
<1>c. calls \in [Slots -> CallRecord] /\ calls[s] \in CallRecord
  BY DEF TypeOK
<1>1. AssessRead(s) \/ AssessWrite(s)
  BY DEF Handler, At, ServeRequeue, ClaimSelect, ClaimUpdate, ServeContext,
         CompleteCheckFiles, CompleteSelect, CompleteUpdate, FailSelect, FailUpdate
<1>2. RowAnswer(s).pc = "ok"
  BY <1>c DEF RowAnswer, CallRecord
<1>3. CASE AssessRead(s)
  <2>1. PICK v \in {"not_ready", "ready"} :
          calls' = [calls EXCEPT ![s] = [@ EXCEPT !.pc = "assessing", !.verdict = v]]
    BY <1>3 DEF AssessRead
  <2> QED BY <1>c, <2>1 DEF CallRecord
<1>4. CASE AssessWrite(s)
  <2>1. calls'[s] = RowAnswer(s)
    BY <1>4, <1>c DEF AssessWrite, Answer
  <2> QED BY <1>2, <2>1
<1> QED BY <1>1, <1>3, <1>4

LEMMA EvidenceHandler ==
  ASSUME TypeOK, EvidenceInv, NEW s \in Slots, Handler(s)
  PROVE  CompletedHasEvidence' /\ RunUnnamed' /\ CallHasEvidence'
<1>c. calls \in [Slots -> CallRecord] /\ calls[s] \in CallRecord
  BY DEF TypeOK
<1>t. /\ status \in [Jobs -> Status] /\ evidence \in [Jobs -> Runs \cup {NoRun}]
      /\ files \in [Runs -> SUBSET Artifacts] /\ worker \in WorkerRecord
  BY DEF TypeOK
<1>h. /\ UNCHANGED worker
      /\ \A k \in Slots \ {s} : calls'[k] = calls[k]
      /\ HandlerEffect(s)
  BY <1>c, HandlerCalls
<1>i. QueueInv /\ CompletedHasEvidence /\ RunUnnamed /\ CallHasEvidence
  BY DEF EvidenceInv
<1>q. OnlyTheWorkersCallPends /\ CallMatchesWorker /\ WorkerShape /\ AnswerShape
        /\ AdmittedReportIsCurrent
  BY <1>i DEF QueueInv
<1>1. CASE ClaimUpdate(s)
  <2>0. calls[s].op = "claim" /\ calls[s].pc = "selected"
    BY <1>1 DEF ClaimUpdate, At
  <2>1. worker.call = s /\ worker.pc = "claim" /\ calls[s].job \in Jobs
    BY <1>q, <2>0 DEF At, OnlyTheWorkersCallPends, Pending, CallMatchesWorker, AnswerShape
  <2>2. UNCHANGED evidence
    BY <1>1 DEF ClaimUpdate
  <2>3. RunUnnamed'
    BY <1>h, <1>i, <2>1, <2>2 DEF RunUnnamed
  <2>4. CASE status[calls[s].job] = "queued"
    <3>1. PICK r \in FreeRuns :
            /\ status' = [status EXCEPT ![calls[s].job] = "running"]
            /\ files' = [files EXCEPT ![r] = {}]
            /\ Answer(s, [calls[s] EXCEPT !.pc = "ok", !.run = r])
      BY <1>1, <2>4 DEF ClaimUpdate
    <3>2. r \in Runs /\ \A j \in Jobs : evidence[j] # r
      BY <3>1 DEF FreeRuns
    <3>3. CompletedHasEvidence'
      BY <1>i, <1>t, <2>2, <3>1, <3>2 DEF CompletedHasEvidence
    <3>4. calls'[s].op = "claim" /\ calls'[s].run = r
      BY <1>c, <2>0, <2>1, <3>1 DEF Answer, CallRecord
    <3>5. CallHasEvidence'
      BY <1>h, <2>1, <2>2, <3>2, <3>4 DEF CallHasEvidence, At
    <3> QED BY <2>3, <3>3, <3>5
  <2>5. CASE status[calls[s].job] # "queued"
    <3>1. UNCHANGED <<status, files>>
            /\ Answer(s, [calls[s] EXCEPT !.pc = "ok", !.job = NoJob])
      BY <1>1, <2>5 DEF ClaimUpdate, fileVars
    <3>2. calls'[s].op = "claim" /\ calls'[s].job = NoJob
      BY <1>c, <2>0, <2>1, <3>1 DEF Answer, CallRecord
    <3>3. CompletedHasEvidence'
      BY <1>i, <2>2, <3>1 DEF CompletedHasEvidence
    <3>4. CallHasEvidence'
      BY <1>h, <2>1, <3>2 DEF CallHasEvidence, At
    <3> QED BY <2>3, <3>3, <3>4
  <2> QED BY <2>4, <2>5
<1>2. CASE CompleteUpdate(s)
  <2> DEFINE j == calls[s].job
             r == calls[s].run
  <2>1. worker.call = s /\ worker.pc = "complete" /\ calls[s].op = "complete"
          /\ calls[s].pc = "selected" /\ j \in Jobs /\ j = worker.job
    BY <1>2, <1>q DEF CompleteUpdate, At, OnlyTheWorkersCallPends, Pending,
                      CallMatchesWorker, WorkerShape
  <2>2. status[j] = "running"
    BY <1>2, <2>1, <1>q DEF CompleteUpdate, At, AdmittedReportIsCurrent
  <2>3. /\ status' = [status EXCEPT ![j] = "completed"]
        /\ evidence' = [evidence EXCEPT ![j] = r]
        /\ calls' = [calls EXCEPT ![s].pc = "committed"]
        /\ UNCHANGED files
    BY <1>2, <2>2 DEF CompleteUpdate, fileVars
  <2>4. calls'[s].op = "complete" /\ calls'[s].pc = "committed" /\ calls'[s].job = j
          /\ calls'[s].run = r
    BY <1>c, <2>1, <2>3 DEF CallRecord
  <2>5. r = worker.run /\ r \in Runs /\ Artifacts \subseteq files[r]
    BY <1>i, <2>1 DEF CallHasEvidence
  <2>6. CompletedHasEvidence'
    BY <1>i, <1>t, <2>1, <2>3, <2>5 DEF CompletedHasEvidence
  <2>7. RunUnnamed'
    BY <1>h, <2>1, <2>4 DEF RunUnnamed
  <2>8. CallHasEvidence'
    BY <1>h, <1>t, <2>1, <2>3, <2>4, <2>5 DEF CallHasEvidence, At
  <2> QED BY <2>6, <2>7, <2>8
<1>3. CASE ~ClaimUpdate(s) /\ ~CompleteUpdate(s)
  <2>1. /\ UNCHANGED <<evidence, files>>
        /\ \A j \in Jobs : status'[j] = "completed" => status[j] = "completed"
        /\ \A j \in Jobs : status[j] = "completed" =>
             status'[j] = "completed" \/ At(s, "fail", "selected")
    BY <1>3, OtherHandlers
  <2>2. CompletedHasEvidence'
    BY <1>i, <2>1 DEF CompletedHasEvidence
  <2>f. At(s, "fail", "selected") => worker.call = s /\ calls[s].op = "fail"
    BY <1>q DEF At, OnlyTheWorkersCallPends, Pending
  <2>3. CASE worker.call # s
    <3>1. RunUnnamed'
      BY <1>h, <1>i, <2>1, <2>3 DEF RunUnnamed
    <3>2. ASSUME NEW k \in Slots, k = worker.call, calls[k].op = "complete"
          PROVE  calls[k].job \in Jobs
      BY <1>q, <3>2 DEF CallMatchesWorker, WorkerShape
    <3>3. CallHasEvidence'
      BY <1>h, <1>i, <2>1, <2>3, <2>f, <3>2 DEF CallHasEvidence, At
    <3> QED BY <2>2, <3>1, <3>3
  <2>4. CASE worker.call = s
    <3>1. /\ calls[s].op = worker.pc
          /\ worker.pc # "claim" => calls[s].job = worker.job
      BY <1>q, <2>4 DEF CallMatchesWorker
    <3>2. calls[s].op = "complete" => calls[s].job \in Jobs
      BY <1>q, <3>1 DEF WorkerShape
    <3>3. CASE calls[s].op = "complete"
      <4>0. calls'[s].op = "complete" /\ calls'[s].job = calls[s].job
              /\ calls'[s].run = calls[s].run
        BY <1>h, <2>4, <3>3 DEF HandlerEffect, Becomes, Ends, At
      <4>1. CASE calls[s].pc \in {"committed", "assessing"}
        <5>1. status[calls[s].job] = "completed"
          BY <1>i, <2>4, <3>3, <4>1 DEF CallHasEvidence
        <5>2. calls'[s].pc \in {"assessing", "ok"}
          BY <2>4, <4>1, <5>1, AssessmentIsAnswered
        <5>3. status'[calls[s].job] = "completed"
          BY <2>1, <3>2, <3>3, <4>1, <5>1 DEF At
        <5> QED BY <1>h, <1>i, <2>1, <2>2, <2>4, <3>1, <3>3, <4>0, <5>2, <5>3
                DEF RunUnnamed, CallHasEvidence, At
      <4>2. CASE calls[s].pc \notin {"committed", "assessing"}
        <5>1. calls[s].pc \in {"received", "checked"}
                /\ calls'[s].pc \in {"checked", "selected", "refused"}
          <6>1. calls[s].pc # "selected"
            BY <1>3, <3>3 DEF Handler, At, ServeRequeue, ClaimSelect, ServeContext,
                 CompleteCheckFiles, CompleteSelect, AssessRead, AssessWrite, FailSelect,
                 FailUpdate
          <6> QED BY <1>h, <2>4, <3>3, <4>2, <6>1 DEF HandlerEffect, Becomes, Ends, At
        <5>2. RunUnnamed'
          BY <1>h, <1>i, <2>1, <2>4, <5>1 DEF RunUnnamed
        <5>3. calls[s].run = worker.run /\ worker.run \in Runs
          BY <1>i, <1>q, <2>4, <3>1, <3>3 DEF CallHasEvidence, WorkerShape
        <5>4. calls'[s].pc \in {"checked", "selected"} => Artifacts \subseteq files[calls[s].run]
          <6>1. CASE calls[s].pc = "checked"
            BY <1>i, <2>4, <3>3, <6>1 DEF CallHasEvidence
          <6>2. CASE calls[s].pc = "received"
            <7>1. CompleteCheckFiles(s)
              BY <1>3, <3>3, <6>2 DEF Handler, At, ServeRequeue, ClaimSelect, ServeContext,
                 CompleteSelect, AssessRead, AssessWrite, FailSelect, FailUpdate
            <7>2. CASE ~(Artifacts \subseteq files[calls[s].run])
              <8>1. calls'[s] = [calls[s] EXCEPT !.pc = "refused"]
                BY <1>c, <2>4, <7>1, <7>2 DEF CompleteCheckFiles, Answer
              <8> QED BY <1>c, <8>1 DEF CallRecord
            <7> QED BY <7>2
          <6> QED BY <5>1, <6>1, <6>2
        <5>5. CallHasEvidence'
          BY <1>h, <2>1, <2>4, <3>3, <4>0, <5>1, <5>3, <5>4 DEF CallHasEvidence, At
        <5> QED BY <2>2, <5>2, <5>5
      <4> QED BY <4>1, <4>2
    <3>4. CASE calls[s].op # "complete"
      <4>1. RunUnnamed'
        BY <1>h, <1>i, <2>1, <2>4, <3>1, <3>4 DEF RunUnnamed
      <4>2. calls'[s].op # "complete" /\ calls'[s].op = calls[s].op
        BY <1>h, <2>4, <3>4 DEF HandlerEffect, Becomes, Ends
      <4>3. At(s, "claim", "received") => calls[s].job = NoJob
        BY <1>q, <2>4 DEF AnswerShape
      <4>4. calls'[s].op = "claim" /\ calls'[s].pc = "ok" => calls'[s].job = NoJob
        <5>1. SUFFICES ASSUME calls'[s].op = "claim", calls'[s].pc = "ok"
                       PROVE  calls'[s].job = NoJob
          OBVIOUS
        <5>2. calls[s].pc \notin {"committed", "assessing"}
          BY <1>q, <2>4, <4>2, <5>1 DEF AnswerShape
        <5>3. ClaimSelect(s)
          BY <1>3, <4>2, <5>1, <5>2 DEF Handler, At, ServeRequeue, ServeContext,
             CompleteCheckFiles, CompleteSelect, AssessRead, AssessWrite, FailSelect,
             FailUpdate
        <5>4. At(s, "claim", "received")
          BY <5>3 DEF ClaimSelect
        <5> QED BY <1>h, <2>4, <4>3, <5>1, <5>4 DEF HandlerEffect, Becomes, Ends, At
      <4>5. CallHasEvidence'
        BY <1>h, <2>4, <4>2, <4>4 DEF CallHasEvidence, At
      <4> QED BY <2>2, <4>1, <4>5
    <3> QED BY <3>3, <3>4
  <2> QED BY <2>3, <2>4
<1> QED BY <1>1, <1>2, <1>3

LEMMA EvidenceWorker ==
  ASSUME TypeOK, NamesRows, EvidenceInv, WorkerStep
  PROVE  ~worker'.stopping /\ CompletedHasEvidence' /\ RunUnnamed' /\ CallHasEvidence'
<1>c. calls \in [Slots -> CallRecord] /\ worker \in WorkerRecord
  BY DEF TypeOK
<1>t. /\ files \in [Runs -> SUBSET Artifacts] /\ evidence \in [Jobs -> Runs \cup {NoRun}]
      /\ worker.call \in Slots \cup {NoSlot}
  BY DEF TypeOK, WorkerRecord
<1>s. UNCHANGED <<status, evidence>>
  BY DEF WorkerStep, WorkerSend, WorkerReceive, WritePages, PagesReturned,
         WriteText, CaptureRaises, CleanUp, jobVars
<1>i. QueueInv /\ ~worker.stopping /\ CompletedHasEvidence /\ RunUnnamed /\ CallHasEvidence
  BY DEF EvidenceInv
<1>q. OnlyTheWorkersCallPends /\ CallMatchesWorker /\ WorkerShape /\ AnswerShape
  BY <1>i DEF QueueInv
<1>p. \A pc : ~Parked(pc).stopping /\ Parked(pc).run = NoRun /\ Parked(pc).call = NoSlot
  BY DEF Parked
<1>1. CASE WorkerSend
  <2>1. PICK op \in {"requeue", "claim", "context", "complete", "fail"} :
          /\ Send(op, op)
          /\ op = "complete" => worker.pc = "written"
    BY <1>1 DEF WorkerSend
  <2>2. PICK s \in Slots :
          /\ calls'[s].op = op /\ calls'[s].pc = "received"
          /\ calls'[s].run = worker.run
          /\ worker'.call = s /\ worker'.run = worker.run
    BY <1>c, <2>1, SendEffect
  <2>3. UNCHANGED files /\ worker.pc # "complete"
    BY <1>1 DEF WorkerSend, fileVars
  <2>4. ~worker'.stopping
    BY <1>c, <1>i, <2>1 DEF Send, WorkerRecord
  <2>5. RunUnnamed' /\ CallHasEvidence'
    BY <1>i, <1>s, <2>2, <2>3 DEF RunUnnamed, CallHasEvidence, At
  <2>6. CompletedHasEvidence'
    BY <1>i, <1>s, <2>3 DEF CompletedHasEvidence
  <2> QED BY <2>4, <2>5, <2>6
<1>2. CASE WorkerReceive
  <2> DEFINE c == calls[worker.call]
  <2>1. UNCHANGED files /\ worker.call \in Slots /\ c \in CallRecord
    BY <1>2, <1>c, <1>t DEF WorkerReceive, fileVars
  <2>2. worker'.call = NoSlot
    BY <1>2, <1>c, ReceiveEffect, RaisedFields
  <2>3. CompletedHasEvidence' /\ CallHasEvidence'
    BY <1>i, <1>s, <2>1, <2>2 DEF CompletedHasEvidence, CallHasEvidence
  <2>4. CASE c.pc = "ok" /\ worker.pc = "claim" /\ c.job # NoJob
    <3>1. worker' = [Parked("reserved") EXCEPT !.job = c.job, !.run = c.run]
      BY <1>2, <2>4 DEF WorkerReceive
    <3>2. ~worker'.stopping /\ worker'.run = c.run
      BY <3>1 DEF Parked
    <3>3. \A j \in Jobs : evidence[j] # c.run
      BY <1>i, <1>q, <2>1, <2>4 DEF CallHasEvidence, At, CallMatchesWorker
    <3> QED BY <1>s, <2>3, <3>2, <3>3 DEF RunUnnamed
  <2>5. CASE c.pc = "ok" /\ worker.pc = "context"
    <3>1. worker' = [worker EXCEPT !.pc = "capture", !.call = NoSlot]
      BY <1>2, <2>5 DEF WorkerReceive
    <3>2. ~worker'.stopping /\ worker'.run = worker.run
      BY <1>c, <1>i, <3>1 DEF WorkerRecord
    <3> QED BY <1>i, <1>s, <2>3, <2>5, <3>2 DEF RunUnnamed
  <2>6. CASE \E pc : worker' = Parked(pc)
    <3>1. ~worker'.stopping /\ worker'.run = NoRun
      BY <1>p, <2>6
    <3> QED BY <2>3, <3>1 DEF RunUnnamed
  <2>7. CASE c.pc = "refused" /\ worker' = Raised(TRUE) /\ worker.pc = "complete"
    <3>1. worker' = [worker EXCEPT !.pc = "cleanup", !.valid = TRUE, !.call = NoSlot]
      BY <2>7 DEF Raised
    <3>2. ~worker'.stopping /\ worker'.run = worker.run
      BY <1>c, <1>i, <3>1 DEF WorkerRecord
    <3>3. worker.run \notin Runs \/ \A j \in Jobs : evidence[j] # worker.run
      BY <1>i, <2>1, <2>7 DEF RunUnnamed
    <3> QED BY <1>s, <2>3, <3>2, <3>3 DEF RunUnnamed
  <2>8. c.pc = "refused" => worker' = Raised(TRUE)
    BY <1>2 DEF WorkerReceive
  <2>9. worker' = Raised(TRUE) /\ worker.pc # "complete" => \E pc : worker' = Parked(pc)
    BY DEF Raised
  <2>10. \/ c.pc = "refused"
         \/ c.pc = "ok" /\ worker.pc = "claim" /\ c.job # NoJob
         \/ c.pc = "ok" /\ worker.pc = "context"
         \/ \E pc : worker' = Parked(pc)
    <3>1. c.pc = "ok" => \/ worker.pc = "claim" /\ c.job # NoJob
                         \/ worker.pc = "context"
                         \/ worker' = Parked("poll")
                         \/ worker' = Parked(IF worker.stopping THEN "stopped" ELSE "poll")
      BY <1>2 DEF WorkerReceive
    <3>2. c.pc \in {"ok", "refused"}
      BY <1>2 DEF WorkerReceive
    <3> QED BY <3>1, <3>2
  <2> QED BY <2>4, <2>5, <2>6, <2>7, <2>8, <2>9, <2>10
<1>3. CASE WritePages
  <2>1. /\ files' = [files EXCEPT ![worker.run] = @ \cup {"pages"}]
        /\ UNCHANGED <<worker, calls>> /\ worker.pc = "capture"
    BY <1>3 DEF WritePages
  <2>2. worker.call = NoSlot
    BY <1>q, <2>1 DEF WorkerShape
  <2>3. \A r \in Runs : files[r] \subseteq files'[r]
    BY <1>t, <2>1
  <2>4. CompletedHasEvidence'
    BY <1>i, <1>s, <2>3 DEF CompletedHasEvidence
  <2> QED BY <1>i, <1>s, <2>1, <2>2, <2>4 DEF RunUnnamed, CallHasEvidence
<1>4. CASE PagesReturned \/ WriteText \/ CaptureRaises \/ CleanUp
  <2>1. /\ worker.pc \in {"capture", "captured", "written", "cleanup"}
        /\ worker'.run = worker.run /\ worker'.call = worker.call
        /\ UNCHANGED calls
    BY <1>c, <1>4, CaptureEffect
  <2>2. worker.call = NoSlot /\ worker.run \in Runs
    BY <1>q, <2>1 DEF WorkerShape
  <2>3. \A j \in Jobs : evidence[j] # worker.run
    BY <1>i, <2>1, <2>2 DEF RunUnnamed
  <2>4. ~worker'.stopping
    BY <1>c, <1>i, <1>4 DEF PagesReturned, WriteText, CaptureRaises, CleanUp, WorkerRecord
  <2>5. \A r \in Runs \ {worker.run} : files'[r] = files[r]
    BY <1>t, <1>4 DEF PagesReturned, WriteText, CaptureRaises, CleanUp, fileVars
  <2>6. CompletedHasEvidence'
    BY <1>i, <1>s, <2>3, <2>5 DEF CompletedHasEvidence
  <2> QED BY <1>s, <2>1, <2>2, <2>3, <2>4, <2>6 DEF RunUnnamed, CallHasEvidence
<1> QED BY <1>1, <1>2, <1>3, <1>4 DEF WorkerStep

\* Rows that are queued or cleared, overviews, a worker that starts.
LEMMA EvidenceRest ==
  ASSUME TypeOK, NamesRows, EvidenceInv,
         \/ Operators
         \/ \E q \in Requesters : Queueing(q)
         \/ \E j \in Jobs : Overview(j)
         \/ \E pc \in {"down", "stopped"} : WorkerStart(pc)
         \/ UNCHANGED vars
  PROVE  ~worker'.stopping /\ CompletedHasEvidence' /\ RunUnnamed' /\ CallHasEvidence'
<1>c. calls \in [Slots -> CallRecord] /\ worker \in WorkerRecord
        /\ status \in [Jobs -> Status] /\ evidence \in [Jobs -> Runs \cup {NoRun}]
  BY DEF TypeOK
<1>i. QueueInv /\ ~worker.stopping /\ CompletedHasEvidence /\ RunUnnamed /\ CallHasEvidence
  BY DEF EvidenceInv
<1>q. CallMatchesWorker /\ WorkerShape
  BY <1>i DEF QueueInv
<1>f. UNCHANGED files
  BY DEF Operators, SetMode, SetAllowed, SyncCatalog, ClearJobs, RequestCapture,
         ScheduleSelect, Queueing, QueueTarget, QueueMode, QueueInsert, Overview,
         WorkerStart, vars, fileVars
<1>1. CASE Operators \/ (\E q \in Requesters : Queueing(q)) \/ UNCHANGED vars
  <2>1. UNCHANGED <<calls, worker>>
    BY <1>1 DEF Operators, SetMode, SetAllowed, SyncCatalog, ClearJobs, RequestCapture,
                ScheduleSelect, Queueing, QueueTarget, QueueMode, QueueInsert, vars
  <2>2. \A j \in Jobs : evidence'[j] = evidence[j] \/ evidence'[j] = NoRun
    BY <1>1, <1>c DEF Operators, SetMode, SetAllowed, SyncCatalog, ClearJobs, RequestCapture,
                ScheduleSelect, Queueing, QueueTarget, QueueMode, QueueInsert, vars, jobVars
  <2>3. \A j \in Jobs : (status'[j] = "completed" <=> status[j] = "completed")
                       /\ (status[j] = "completed" => evidence'[j] = evidence[j])
    BY <1>1, <1>c DEF Operators, SetMode, SetAllowed, SyncCatalog, ClearJobs, RequestCapture,
                ScheduleSelect, Queueing, QueueTarget, QueueMode, QueueInsert, vars, jobVars
  <2>4. CompletedHasEvidence'
    BY <1>i, <1>f, <2>3 DEF CompletedHasEvidence
  <2>5. RunUnnamed'
    BY <1>i, <2>1, <2>2 DEF RunUnnamed
  <2>6. CallHasEvidence'
    <3>1. SUFFICES ASSUME NEW s \in Slots, s = worker.call
                   PROVE  /\ At(s, "claim", "ok") /\ calls[s].job # NoJob =>
                               \A j \in Jobs : evidence'[j] # calls[s].run
                          /\ calls[s].op = "complete" /\ calls[s].pc \in {"committed", "assessing"} =>
                               status'[calls[s].job] = "completed"
      BY <1>i, <1>f, <2>1 DEF CallHasEvidence, At
    <3>2. At(s, "claim", "ok") /\ calls[s].job # NoJob => calls[s].run \in Runs
      BY <1>i, <3>1 DEF QueueInv, AnswerShape
    <3>3. calls[s].op = "complete" => calls[s].job \in Jobs
      BY DEF NamesRows
    <3> QED BY <1>i, <2>2, <2>3, <3>1, <3>2, <3>3 DEF CallHasEvidence
  <2> QED BY <1>i, <2>1, <2>4, <2>5, <2>6
<1>2. ASSUME NEW j \in Jobs, Overview(j)
      PROVE  ~worker'.stopping /\ CompletedHasEvidence' /\ RunUnnamed' /\ CallHasEvidence'
  <2>1. PICK s \in Slots :
          /\ calls[s].pc = "free"
          /\ calls' = [calls EXCEPT ![s] = [FreeCall EXCEPT !.op = "overview",
                                              !.pc = "committed", !.job = j]]
    BY <1>2 DEF Overview, FreeSlot
  <2>2. worker.call # s /\ \A k \in Slots \ {s} : calls'[k] = calls[k]
    BY <1>q, <2>1 DEF CallMatchesWorker
  <2>3. UNCHANGED <<worker, status, evidence>>
    BY <1>2 DEF Overview, jobVars
  <2> QED BY <1>i, <1>f, <2>2, <2>3
          DEF RunUnnamed, CallHasEvidence, CompletedHasEvidence, At
<1>3. ASSUME NEW pc, WorkerStart(pc)
      PROVE  ~worker'.stopping /\ CompletedHasEvidence' /\ RunUnnamed' /\ CallHasEvidence'
  <2>1. ~worker'.stopping /\ worker'.run = NoRun /\ worker'.call = NoSlot
    BY <1>3 DEF WorkerStart, Parked
  <2>2. UNCHANGED <<status, evidence>>
    BY <1>3 DEF WorkerStart, jobVars
  <2> QED BY <1>i, <1>f, <2>1, <2>2 DEF RunUnnamed, CallHasEvidence, CompletedHasEvidence
<1> QED BY <1>1, <1>2, <1>3

\* Until the first fault the invariant is kept; a fault ends what it says.
LEMMA EvidenceStep ==
  /\ TypeOK /\ NamesRows /\ (faults = 0 => EvidenceInv)
  /\ [Next]_vars
  => (faults = 0 => EvidenceInv)'
<1> SUFFICES ASSUME TypeOK, NamesRows, faults = 0 => EvidenceInv, [Next]_vars, faults' = 0
             PROVE  EvidenceInv'
  OBVIOUS
<1>n. faults \in Nat
  BY BoundsAssumption DEF TypeOK
<1>1. faults = 0 /\ ~Fault
  <2>1. CASE Fault
    BY <1>n, <2>1 DEF Fault
  <2>2. CASE ~Fault
    <3>1. CASE Faults
      BY <2>2, <3>1 DEF Faults, Timeout, Interrupt, CancelAgain, Kill, ServerCrash
    <3>2. ASSUME Operators \/ (\E q \in Requesters : Queueing(q)) \/ UNCHANGED vars
          PROVE  UNCHANGED faults
      BY <3>2 DEF Operators, SetMode, SetAllowed, SyncCatalog, ClearJobs, RequestCapture,
         ScheduleSelect, Queueing, QueueTarget, QueueMode, QueueInsert, vars
    <3>3. ASSUME NEW s \in Slots, Handler(s) PROVE UNCHANGED faults
      BY <3>3 DEF Handler, ServeRequeue, ClaimSelect, ClaimUpdate, ServeContext,
         CompleteCheckFiles, CompleteSelect, CompleteUpdate, AssessRead, AssessWrite,
         FailSelect, FailUpdate
    <3>4. ASSUME \/ WorkerStep
                 \/ \E j \in Jobs : Overview(j)
                 \/ \E pc \in {"down", "stopped"} : WorkerStart(pc)
          PROVE  UNCHANGED faults
      BY <3>4 DEF Overview, WorkerStart, WorkerStep, WorkerSend, WorkerReceive, WritePages,
         PagesReturned, WriteText, CaptureRaises, CleanUp
    <3> QED BY <2>2, <3>1, <3>2, <3>3, <3>4 DEF Next
  <2> QED BY <2>1, <2>2
<1>2. EvidenceInv
  BY <1>1
<1>3. ~Faults
  BY <1>1, <1>2 DEF Faults, Timeout, Interrupt, CancelAgain, Kill, ServerCrash, EvidenceInv
<1>4. QueueInv'
  BY <1>2, <1>3, QueueStep DEF EvidenceInv
<1>5. ASSUME NEW s \in Slots, Handler(s) PROVE EvidenceInv'
  <2>1. UNCHANGED worker
    BY <1>5, HandlerCalls DEF TypeOK
  <2> QED BY <1>2, <1>4, <1>5, <2>1, EvidenceHandler DEF EvidenceInv
<1>6. CASE WorkerStep
  BY <1>2, <1>4, <1>6, EvidenceWorker DEF EvidenceInv
<1>7. CASE \/ Operators
           \/ \E q \in Requesters : Queueing(q)
           \/ \E j \in Jobs : Overview(j)
           \/ \E pc \in {"down", "stopped"} : WorkerStart(pc)
           \/ UNCHANGED vars
  BY <1>2, <1>4, <1>7, EvidenceRest DEF EvidenceInv
<1> QED BY <1>3, <1>5, <1>6, <1>7 DEF Next

\* Before the first fault every completed job has its pages and its text on disk,
\* late requests allowed: the path names of a reservation are taken by no other row,
\* and a failed capture removes only files that no completed row names.
\* (evidence_path and the except branches of run_capture_job)
THEOREM FaultlessCorrect == Spec => []FaultlessEvidenceIsKept
<1>1. Init => (faults = 0 => EvidenceInv)
  BY EvidenceInit
<1>2. /\ TypeOK /\ NamesRows /\ (faults = 0 => EvidenceInv)
      /\ [Next]_vars
      => (faults = 0 => EvidenceInv)'
  BY EvidenceStep
<1>3. (faults = 0 => EvidenceInv) => FaultlessEvidenceIsKept
  BY DEF EvidenceInv, FaultlessEvidenceIsKept
<1> QED BY <1>1, <1>2, <1>3, TypeCorrect, NamesCorrect, PTL DEF Spec
=============================================================================
