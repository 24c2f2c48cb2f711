--------------------------- MODULE WebTriageProofs ---------------------------
(***************************************************************************)
(* Proofs about WebTriage, for any numbers of alerts, drafts, clients,     *)
(* words, jobs and calls.                                                  *)
(*                                                                         *)
(* The parts of the console share no variable, so that a step of one is a  *)
(* stutter of the others (PartsStep): each part has an invariant of its    *)
(* own, proved from its own next-state relation.                           *)
(***************************************************************************)
EXTENDS WebTriage, WebLemmas

-----------------------------------------------------------------------------
(* The drawer. *)

\* What is under way concerns an alert of the list.  While a call that the
\* drawer follows is under way its buttons are disabled, so that there is at
\* most one of them.
DrawerCalls ==
  /\ \A s \in Slots : Out(s) => updates[s].alert \in OpenAlerts
  /\ \A s \in Slots : Out(s) /\ updates[s].mine => Open
  /\ \A s \in Slots : Out(s) /\ updates[s].mine /\ updates[s].kind # "mark" => working
  /\ \A s, t \in Slots : s # t /\ Out(s) /\ updates[s].mine /\ updates[s].kind # "mark" =>
       ~(Out(t) /\ updates[t].mine /\ updates[t].kind # "mark")

\* The note of the form, and of every call, is about the alert it goes to.
NotesInv ==
  ~history.swapped =>
    /\ \A a \in OpenAlerts : record[a].note \in {a, NoAlert}
    /\ \A a \in OpenAlerts : \A v \in versions[a] : v.note \in {a, NoAlert}
    /\ \A s \in Slots : Out(s) => updates[s].note \in {updates[s].alert, NoAlert}
    /\ Open => form.note \in {selected.alert, NoAlert}

\* At most one call is under way, and it carries what was asked for last.  Once
\* somebody else has written an alert nothing is known of it until the next act.
LastActInv ==
  ~history.raced =>
    /\ \A s, t \in Slots : s # t /\ Out(s) => ~Out(t)
    /\ history.failures = 0 =>
         /\ \A s \in Slots : updates[s].step # "failed"
         /\ \A s \in Slots : updates[s].step = "sent" =>
              updates[s].status = acts.last[updates[s].alert]
         /\ \A a \in OpenAlerts \ others.after :
              (\A s \in Slots : updates[s].step = "sent" => updates[s].alert # a) =>
                record[a].status = acts.last[a]

-----------------------------------------------------------------------------
(* The drafts. *)

\* Every text under way is that of the draft it belongs to.
DraftsInv ==
  ~crossed =>
    /\ \A d \in Drafts : /\ drafts[d] \in {d, NoDraft}
                         /\ listed[d] \in {d, NoDraft}
                         /\ fetch.seen[d] \in {d, NoDraft}
    /\ editor.draft # NoDraft => editor.text = editor.draft
    /\ saving.step # "none" => saving.text = saving.draft

-----------------------------------------------------------------------------
(* The clients. *)

\* The answer to a form's call finds that form open, and a call that was left
\* behind finds no form but one that was opened meanwhile.
UnsavedInv ==
  /\ saves["own"].step # "none" => FormOpen /\ editing.saving
  /\ saves["left"].step # "none" => ~FormOpen \/ work.overtaken
  /\ ~FormOpen => ~editing.dirty
  /\ editing.saving /\ editing.dirty => work.late
  /\ UnsavedWorkIsKept

-----------------------------------------------------------------------------
(* The lists of a form. *)

\* The editors of the typed lists cut them at the limit of the schema.
ListsInv ==
  /\ related \in Seq(Entities)
  /\ menu = NoMenu \/ menu.of \in ChosenLists
  /\ \A l \in TypedLists : Cardinality(lists[l]) <= MaxTyped
  /\ OnlyUncheckedInputIsRefused

-----------------------------------------------------------------------------
(* The corner of the AI tasks. *)

\* A later snapshot of the queue: what has ended stays as it is.
After(s, t) ==
  \A j \in CenterJobs :
    /\ s[j] \in HasEnded => t[j] = s[j]
    /\ s[j] # "unused" => t[j] # "unused"

Poll == [answer : Answers, late : BOOLEAN]
PollStatus(i) == polls[i].answer.status

\* The polls are snapshots in their order, and what was answered last precedes
\* those that are not late.
PollsInv ==
  /\ polls \in Seq(Poll)
  /\ \A i \in DOMAIN polls : After(PollStatus(i), queue)
  /\ \A i, k \in DOMAIN polls : i < k => After(PollStatus(i), PollStatus(k))
  /\ ~overtaken => \A i \in DOMAIN polls : ~polls[i].late => After(watched, PollStatus(i))
  /\ After(watched, queue)

RefreshInv ==
  /\ \A j \in CenterJobs : watched[j] \in Pending => j \in noticed
  /\ ~overtaken => \A j \in noticed : watched[j] # "unused"
  /\ RefreshedOncePerJob

-----------------------------------------------------------------------------
(* The alert list. *)

BulkType == [step : {"idle", "call", "answer", "refresh"}, op : {"status", "assess", "false"},
             ids : Seq(Alerts), status : AlertStatuses, queued : Nat, failures : SUBSET Alerts,
             outcome : {"none", "ok", "refused", "lost"}, touched : BOOLEAN,
             stored : SUBSET Alerts]

FirstIds(n) == {bulk.ids[k] : k \in 1 .. n}

\* The ids of a bulk operation, and how far it has come with them.
BulkInv ==
  /\ bulk \in BulkType
  /\ IsInjective(bulk.ids)
  /\ bulk.queued <= Len(bulk.ids)
  /\ bulk.failures \subseteq ToSet(bulk.ids) /\ bulk.stored \subseteq ToSet(bulk.ids)
  /\ bulk.step = "call" => bulk.outcome \in {"none", "ok"}
  /\ bulk.outcome = "refused" => bulk.op = "assess"
  /\ bulk.op = "assess" /\ bulk.outcome # "lost" =>
       bulk.stored = FirstIds(IF bulk.step = "answer" /\ bulk.outcome = "ok"
                                THEN ChunkEnd ELSE bulk.queued)

\* While nobody changes the selection it is what the operation works on.
SelectionInv ==
  /\ selectedIds \in Seq(Alerts) /\ IsInjective(selectedIds)
  /\ bulk.step \in {"call", "answer"} /\ ~bulk.touched => selectedIds = bulk.ids
  /\ FailedRunKeepsTheRest

-----------------------------------------------------------------------------
(* A step of one part. *)

\* Each step of the console is one of the part in use, and a stutter of the
\* others.
LEMMA PartsStep ==
  ASSUME [TriageNext]_triageVars
  PROVE  /\ [ListNext]_listVars /\ [DrawerNext]_drawerVars /\ [DraftNext]_draftVars
         /\ [ClientsNext]_clientVars /\ [EditorsNext]_editorVars /\ [CenterNext]_centerVars
<1>1. CASE UseList
  BY <1>1 DEF UseList
<1>2. CASE UseDrawer
  BY <1>2 DEF UseDrawer
<1>3. CASE UseDrafts
  BY <1>3 DEF UseDrafts
<1>4. CASE UseClients
  BY <1>4 DEF UseClients
<1>5. CASE UseEditors
  BY <1>5 DEF UseEditors
<1>6. CASE UseCenter
  BY <1>6 DEF UseCenter
<1>7. CASE UNCHANGED triageVars
  BY <1>7 DEF triageVars
<1> QED BY <1>1, <1>2, <1>3, <1>4, <1>5, <1>6, <1>7 DEF TriageNext

-----------------------------------------------------------------------------
(* Proofs about the drawer. *)

CallType == [step : {"none", "sent", "served", "failed", "refresh"},
             kind : {"act", "false", "mark"}, alert : Notes,
             status : DrawerStatuses, note : Notes, mine : BOOLEAN]
HistoryType == [swapped : BOOLEAN, raced : BOOLEAN, failures : 0 .. MaxFailures]

\* Changing one field of a call or of the history keeps its type.
LEMMA CallFacts ==
  /\ NoUpdate \in CallType
  /\ \A u \in CallType : [u EXCEPT !.mine = FALSE] \in CallType
  /\ \A u \in CallType, step \in {"none", "sent", "served", "failed", "refresh"} :
       [u EXCEPT !.step = step] \in CallType
  /\ \A h \in HistoryType, b \in BOOLEAN :
       [h EXCEPT !.swapped = b] \in HistoryType /\ [h EXCEPT !.raced = b] \in HistoryType
BY DEF CallType, HistoryType, NoUpdate, Notes, DrawerStatuses

LEMMA DrawerInitially == DrawerInit => DrawerTypeOK /\ DrawerCalls /\ NotesInv /\ LastActInv
<1> SUFFICES ASSUME DrawerInit PROVE DrawerTypeOK /\ DrawerCalls /\ NotesInv /\ LastActInv
  OBVIOUS
<1> USE DrawerAssumption DEF DrawerInit
<1>1. DrawerTypeOK
  <2>1. "new" \in DrawerStatuses /\ NoAlert \in Notes
    BY DEF DrawerStatuses, Notes
  <2>2. updates \in [Slots -> CallType]
    BY CallFacts
  <2>3. selected \in [alert : Notes, status : DrawerStatuses] /\ form \in Answered
    BY <2>1 DEF Nothing, NoForm, Answered
  <2>4. record \in [OpenAlerts -> Answered]
    BY <2>1 DEF Answered
  <2>5. acts \in [count : 0 .. MaxActs, last : [OpenAlerts -> DrawerStatuses]]
    BY <2>1
  <2>6. history \in HistoryType
    BY DEF HistoryType
  <2>7. versions \in [OpenAlerts -> SUBSET Answered]
    <3>1. \A a \in OpenAlerts : record[a] \in Answered
      BY <2>4
    <3> QED BY <3>1
  <2>8. others \in [count : 0 .. MaxWrites, after : SUBSET OpenAlerts]
    OBVIOUS
  <2> QED BY <2>2, <2>3, <2>4, <2>5, <2>6, <2>7, <2>8 DEF DrawerTypeOK, CallType, HistoryType
<1>2. \A s \in Slots : updates[s].step = "none"
  BY DEF NoUpdate
<1>3. DrawerCalls
  BY <1>2 DEF DrawerCalls, Out
<1>4. NotesInv
  BY <1>2 DEF NotesInv, Out, Open, Nothing
<1>5. LastActInv
  BY <1>2 DEF LastActInv, Out
<1> QED BY <1>1, <1>3, <1>4, <1>5

\* What the buttons that send a call have in common.
Sending(s, kind, status, note) ==
  /\ ~Out(s)
  /\ updates' = [updates EXCEPT ![s] =
       [step |-> "sent", kind |-> kind, alert |-> selected.alert,
        status |-> status, note |-> note, mine |-> TRUE]]
  /\ updates' \in [Slots -> CallType]
  /\ acts' \in [count : 0 .. MaxActs, last : [OpenAlerts -> DrawerStatuses]]
  /\ acts'.last = [acts.last EXCEPT ![selected.alert] = status]
  /\ history' \in HistoryType
  /\ history'.swapped = history.swapped /\ history'.failures = history.failures
  /\ ~history'.raced => /\ ~history.raced
                        /\ \A t \in Slots : Out(t) =>
                             updates[t].mine /\ updates[t].kind # "mark" /\ kind # "mark"
  /\ others' \in [count : 0 .. MaxWrites, after : SUBSET OpenAlerts]
  /\ others'.after = others.after \ {selected.alert}
  /\ UNCHANGED <<record, versions, selected, form>>

\* A call that is sent takes a free place and leaves the other one alone.
LEMMA SendFacts ==
  ASSUME DrawerTypeOK, NEW kind \in {"act", "false", "mark"}, NEW status \in DrawerStatuses,
         NEW note \in Notes, Send(kind, status, note)
  PROVE  \E s \in Slots :
    /\ Sending(s, kind, status, note)
    /\ updates'[s] = [step |-> "sent", kind |-> kind, alert |-> selected.alert,
                      status |-> status, note |-> note, mine |-> TRUE]
    /\ \A t \in Slots : t # s => updates'[t] = updates[t]
<1>1. PICK s \in Slots :
        /\ ~Out(s)
        /\ acts.count < MaxActs
        /\ updates' = [updates EXCEPT ![s] =
             [step |-> "sent", kind |-> kind, alert |-> selected.alert,
              status |-> status, note |-> note, mine |-> TRUE]]
        /\ acts' = [count |-> acts.count + 1,
                    last |-> [acts.last EXCEPT ![selected.alert] = status]]
        /\ history' = [history EXCEPT !.raced = @ \/
             \E t \in Slots : Out(t) /\ (~updates[t].mine \/ updates[t].kind = "mark" \/ kind = "mark")]
        /\ others' = [others EXCEPT !.after = @ \ {selected.alert}]
        /\ UNCHANGED <<record, versions, selected, form>>
  BY DEF Send
<1>2. /\ updates \in [Slots -> CallType] /\ history \in HistoryType
      /\ acts \in [count : 0 .. MaxActs, last : [OpenAlerts -> DrawerStatuses]]
      /\ selected \in [alert : Notes, status : DrawerStatuses]
      /\ others \in [count : 0 .. MaxWrites, after : SUBSET OpenAlerts]
  BY DEF DrawerTypeOK, CallType, HistoryType
<1>3. updates' \in [Slots -> CallType]
  <2>1. [step |-> "sent", kind |-> kind, alert |-> selected.alert,
         status |-> status, note |-> note, mine |-> TRUE] \in CallType
    BY <1>2 DEF CallType
  <2> QED BY <1>1, <1>2, <2>1
<1>4. acts' \in [count : 0 .. MaxActs, last : [OpenAlerts -> DrawerStatuses]]
  <2>1. acts.count + 1 \in 0 .. MaxActs
    BY <1>1, <1>2, DrawerAssumption
  <2>2. [acts.last EXCEPT ![selected.alert] = status] \in [OpenAlerts -> DrawerStatuses]
    BY <1>2
  <2> QED BY <1>1, <2>1, <2>2
<1> DEFINE crossing == \E t \in Slots :
             Out(t) /\ (~updates[t].mine \/ updates[t].kind = "mark" \/ kind = "mark")
<1>5. (history.raced \/ crossing) \in BOOLEAN
  OBVIOUS
<1>6. /\ history'.raced = (history.raced \/ crossing)
      /\ history'.swapped = history.swapped /\ history'.failures = history.failures
      /\ history' \in HistoryType
  <2> HIDE DEF crossing
  <2>1. history' = [history EXCEPT !.raced = history.raced \/ crossing]
    BY <1>1 DEF crossing
  <2> QED BY <1>2, <1>5, <2>1 DEF HistoryType
<1>7. ~history'.raced => /\ ~history.raced
                         /\ \A t \in Slots : Out(t) =>
                              updates[t].mine /\ updates[t].kind # "mark" /\ kind # "mark"
  BY <1>6
<1>8. /\ updates'[s] = [step |-> "sent", kind |-> kind, alert |-> selected.alert,
                        status |-> status, note |-> note, mine |-> TRUE]
      /\ \A t \in Slots : t # s => updates'[t] = updates[t]
  <2>1. \A v : /\ [updates EXCEPT ![s] = v][s] = v
               /\ \A t \in Slots : t # s => [updates EXCEPT ![s] = v][t] = updates[t]
    BY <1>2
  <2> QED BY <1>1, <2>1
<1>9. /\ others' \in [count : 0 .. MaxWrites, after : SUBSET OpenAlerts]
      /\ others'.after = others.after \ {selected.alert}
  BY <1>1, <1>2
<1>10. Sending(s, kind, status, note)
  BY <1>1, <1>3, <1>4, <1>6, <1>7, <1>9 DEF Sending
<1> QED BY <1>8, <1>10

\* The four buttons that send a call.
LEMMA ActFacts ==
  ASSUME DrawerTypeOK,
         SaveStatus \/ StartInvestigation \/ MarkFalsePositive \/ MarkNotified
  PROVE  \E kind \in {"act", "false", "mark"}, status \in DrawerStatuses, note \in Notes :
    /\ Open /\ Send(kind, status, note)
    /\ note \in {form.note, selected.alert}
    /\ kind # "mark" => ~working /\ working' = TRUE /\ UNCHANGED dialog
    /\ kind = "mark" => dialog' = "marking" /\ UNCHANGED working
<1>1. /\ {"investigating", "dismissed", "client_notified", form.status} \subseteq DrawerStatuses
      /\ {form.note, NoteOr(selected.alert)} \subseteq Notes
      /\ NoteOr(selected.alert) \in {form.note, selected.alert}
  BY DEF DrawerTypeOK, Answered, DrawerStatuses, NoteOr
<1>2. CASE SaveStatus
  BY <1>1, <1>2 DEF SaveStatus, CanAct
<1>3. CASE StartInvestigation
  BY <1>1, <1>3 DEF StartInvestigation, CanAct
<1>4. CASE MarkFalsePositive
  BY <1>1, <1>4 DEF MarkFalsePositive, CanAct
<1>5. CASE MarkNotified
  BY <1>1, <1>5 DEF MarkNotified
<1> QED BY <1>2, <1>3, <1>4, <1>5

LEMMA DrawerTypeStep ==
  ASSUME DrawerTypeOK, [DrawerNext]_drawerVars PROVE DrawerTypeOK'
<1> DEFINE ActsType == [count : 0 .. MaxActs, last : [OpenAlerts -> DrawerStatuses]]
           SelectedType == [alert : Notes, status : DrawerStatuses]
           OthersType == [count : 0 .. MaxWrites, after : SUBSET OpenAlerts]
<1>0. /\ record \in [OpenAlerts -> Answered] /\ selected \in SelectedType /\ form \in Answered
      /\ working \in BOOLEAN /\ dialog \in {"closed", "open", "marking"}
      /\ updates \in [Slots -> CallType] /\ acts \in ActsType /\ history \in HistoryType
      /\ versions \in [OpenAlerts -> SUBSET Answered] /\ others \in OthersType
  BY DEF DrawerTypeOK, CallType, HistoryType
<1> SUFFICES
      /\ record' \in [OpenAlerts -> Answered] /\ selected' \in SelectedType /\ form' \in Answered
      /\ working' \in BOOLEAN /\ dialog' \in {"closed", "open", "marking"}
      /\ updates' \in [Slots -> CallType] /\ acts' \in ActsType /\ history' \in HistoryType
      /\ versions' \in [OpenAlerts -> SUBSET Answered] /\ others' \in OthersType
  BY DEF DrawerTypeOK, CallType, HistoryType
<1> DEFINE Goal ==
      /\ record' \in [OpenAlerts -> Answered] /\ selected' \in SelectedType /\ form' \in Answered
      /\ working' \in BOOLEAN /\ dialog' \in {"closed", "open", "marking"}
      /\ updates' \in [Slots -> CallType] /\ acts' \in ActsType /\ history' \in HistoryType
      /\ versions' \in [OpenAlerts -> SUBSET Answered] /\ others' \in OthersType
<1> HIDE DEF ActsType, OthersType
<1> USE DEF serverRecords
<1>1. ASSUME NEW a \in OpenAlerts, OpenAlert(a) PROVE Goal
  <2>1. PICK seen \in versions[a] : Mounted(a, seen.status, seen.note)
    BY <1>1 DEF OpenAlert
  <2>2. seen \in Answered
    BY <1>0
  <2>3. selected' \in SelectedType /\ form' \in Answered /\ working' \in BOOLEAN
    BY <2>1, <2>2 DEF Mounted, Answered, Notes
  <2>4. dialog' = "closed" /\ UNCHANGED <<serverRecords, updates, acts, history>>
    BY <1>1, <2>1 DEF OpenAlert, Mounted
  <2> QED BY <1>0, <2>3, <2>4
<1>2. CASE CloseDrawer
  BY <1>0, <1>2, CallFacts DEF CloseDrawer, Nothing, Notes, DrawerStatuses
<1>3. CASE EditForm
  BY <1>0, <1>3 DEF EditForm, DrawerStatuses, Answered
<1>4. CASE OpenDraft \/ CloseDraft
  BY <1>0, <1>4 DEF OpenDraft, CloseDraft
<1>5. CASE SaveStatus \/ StartInvestigation \/ MarkFalsePositive \/ MarkNotified
  <2>1. PICK kind \in {"act", "false", "mark"}, status \in DrawerStatuses, note \in Notes :
          /\ Send(kind, status, note)
          /\ kind # "mark" => working' = TRUE /\ UNCHANGED dialog
          /\ kind = "mark" => dialog' = "marking" /\ UNCHANGED working
    BY <1>5, ActFacts
  <2>2. PICK s \in Slots : Sending(s, kind, status, note)
    BY <2>1, SendFacts
  <2>3. /\ updates' \in [Slots -> CallType] /\ acts' \in ActsType /\ history' \in HistoryType
        /\ others' \in OthersType
        /\ UNCHANGED <<record, versions, selected, form>>
    BY <2>2 DEF Sending, ActsType, OthersType
  <2> QED BY <1>0, <2>1, <2>3
<1>a. ASSUME NEW a, NEW status \in DrawerStatuses, NEW note \in Notes, Store(a, status, note)
      PROVE  record' \in [OpenAlerts -> Answered] /\ versions' \in [OpenAlerts -> SUBSET Answered]
  <2>1. [status |-> status, note |-> note] \in Answered
    BY DEF Answered
  <2> QED BY <1>0, <1>a, <2>1 DEF Store
<1>6. ASSUME NEW s \in Slots, ServeUpdate(s) PROVE Goal
  <2>1. updates[s].status \in DrawerStatuses /\ updates[s].note \in Notes
    BY <1>0 DEF CallType
  <2>2. record' \in [OpenAlerts -> Answered] /\ versions' \in [OpenAlerts -> SUBSET Answered]
    BY <1>6, <1>a, <2>1 DEF ServeUpdate
  <2> QED BY <1>0, <1>6, <2>2, CallFacts DEF ServeUpdate
<1>11. ASSUME NEW a \in OpenAlerts, OthersWrite(a) PROVE Goal
  <2>1. OtherStatus \subseteq DrawerStatuses /\ {a, NoAlert, record[a].note} \subseteq Notes
    BY <1>0 DEF DrawerStatuses, Notes, Answered
  <2>2. record' \in [OpenAlerts -> Answered] /\ versions' \in [OpenAlerts -> SUBSET Answered]
    BY <1>11, <1>a, <2>1 DEF OthersWrite
  <2>3. others' \in OthersType
    BY <1>0, <1>11, DrawerAssumption DEF OthersWrite, OthersType
  <2> QED BY <1>0, <1>11, <2>2, <2>3 DEF OthersWrite
<1>7. ASSUME NEW s \in Slots, LoseUpdate(s) PROVE Goal
  <2>1. history' \in HistoryType
    BY <1>0, <1>7, DrawerAssumption DEF LoseUpdate, HistoryType
  <2> QED BY <1>0, <1>7, <2>1, CallFacts DEF LoseUpdate
<1>8. ASSUME NEW s \in Slots, ReceiveUpdate(s) PROVE Goal
  <2>1. /\ updates[s].alert \in Notes /\ updates[s].status \in DrawerStatuses
        /\ updates[s].note \in Notes
    BY <1>0 DEF CallType
  <2>2. updates' \in [Slots -> CallType] /\ UNCHANGED <<serverRecords, acts>>
    BY <1>0, <1>8, CallFacts DEF ReceiveUpdate
  <2>3. CASE Open /\ UNCHANGED working /\ Given(updates[s].alert, updates[s].status)
             /\ (AnswerDrawer(updates[s]) \/ UNCHANGED <<form, dialog>>)
    <3>1. selected' \in SelectedType
      BY <2>1, <2>3 DEF Given
    <3>2. form' \in Answered /\ dialog' \in {"closed", "open", "marking"}
      BY <1>0, <2>1, <2>3 DEF AnswerDrawer, Answered
    <3>3. history' \in HistoryType
      <4>1. (history.swapped \/ updates[s].alert # selected.alert) \in BOOLEAN
        OBVIOUS
      <4>2. history' = [history EXCEPT !.swapped = history.swapped \/ updates[s].alert # selected.alert]
        BY <2>3 DEF Given
      <4> QED BY <1>0, <4>1, <4>2, CallFacts
    <3> QED BY <1>0, <2>2, <2>3, <3>1, <3>2, <3>3
  <2>4. CASE Mounted(updates[s].alert, updates[s].status, updates[s].note) /\ UNCHANGED history
    BY <1>0, <2>1, <2>2, <2>4 DEF Mounted, Answered
  <2> QED BY <1>8, <2>3, <2>4 DEF ReceiveUpdate
<1>9. ASSUME NEW s \in Slots, EndUpdate(s) PROVE Goal
  BY <1>0, <1>9, CallFacts DEF EndUpdate, Free
<1>10. CASE UNCHANGED drawerVars
  BY <1>0, <1>10 DEF drawerVars
<1> QED BY <1>1, <1>2, <1>3, <1>4, <1>5, <1>6, <1>7, <1>8, <1>9, <1>10, <1>11 DEF DrawerNext

LEMMA DrawerCallsStep ==
  ASSUME DrawerTypeOK, DrawerCalls, [DrawerNext]_drawerVars PROVE DrawerCalls'
<1> DEFINE Followed(s) == Out(s) /\ updates[s].mine /\ updates[s].kind # "mark"
<1>0. updates \in [Slots -> CallType] /\ selected.alert \in Notes
  BY DEF DrawerTypeOK, CallType
<1>1. /\ \A s \in Slots : Out(s) => updates[s].alert \in OpenAlerts
      /\ \A s \in Slots : Out(s) /\ updates[s].mine => Open
      /\ \A s \in Slots : Followed(s) => working
      /\ \A s, t \in Slots : s # t /\ Followed(s) => ~Followed(t)
  BY DEF DrawerCalls
\* The calls go on, or end, as they are.
<1>2. ASSUME \A s \in Slots : \/ updates'[s].step = "none"
                              \/ /\ Out(s) /\ updates'[s].alert = updates[s].alert
                                 /\ updates'[s].kind = updates[s].kind
                                 /\ updates'[s].mine => updates[s].mine,
             \A s \in Slots : Out(s)' /\ updates'[s].mine => Open',
             \A s \in Slots : Followed(s)' => working'
      PROVE  DrawerCalls'
  BY <1>1, <1>2 DEF DrawerCalls, Out
<1>3. ASSUME NEW a \in OpenAlerts, OpenAlert(a) PROVE DrawerCalls'
  <2>1. ~Open /\ updates' = updates
    BY <1>3 DEF OpenAlert
  <2>2. \A s \in Slots : ~(Out(s)' /\ updates'[s].mine)
    BY <1>1, <2>1 DEF Out
  <2> QED BY <1>2, <2>1, <2>2 DEF Out
<1>4. CASE CloseDrawer
  <2>1. \A s \in Slots : /\ ~updates'[s].mine
                         /\ updates'[s].step = updates[s].step
                         /\ updates'[s].alert = updates[s].alert
                         /\ updates'[s].kind = updates[s].kind
    BY <1>0, <1>4 DEF CloseDrawer, CallType
  <2> QED BY <1>2, <2>1 DEF Out
<1>5. CASE EditForm \/ OpenDraft \/ CloseDraft \/ UNCHANGED drawerVars
  <2>1. UNCHANGED <<updates, selected, working>>
    BY <1>5 DEF EditForm, OpenDraft, CloseDraft, drawerVars
  <2> QED BY <1>1, <2>1 DEF DrawerCalls, Out, Open
<1>6. CASE SaveStatus \/ StartInvestigation \/ MarkFalsePositive \/ MarkNotified
  <2>1. PICK kind \in {"act", "false", "mark"}, status \in DrawerStatuses, note \in Notes :
          /\ Open /\ Send(kind, status, note)
          /\ kind # "mark" => ~working /\ working' = TRUE
          /\ kind = "mark" => UNCHANGED working
    BY <1>6, ActFacts
  <2>2. PICK s \in Slots :
          /\ Sending(s, kind, status, note)
          /\ updates'[s] = [step |-> "sent", kind |-> kind, alert |-> selected.alert,
                            status |-> status, note |-> note, mine |-> TRUE]
          /\ \A t \in Slots : t # s => updates'[t] = updates[t]
    BY <2>1, SendFacts
  <2>3. /\ updates'[s].step = "sent" /\ updates'[s].alert = selected.alert
        /\ updates'[s].kind = kind /\ UNCHANGED selected
        /\ \A t \in Slots : t # s => updates'[t] = updates[t]
    BY <2>2 DEF Sending
  <2>4. selected.alert \in OpenAlerts /\ Open'
    BY <1>0, <2>1, <2>3 DEF Open, Notes
  <2>5. CASE kind = "mark"
    BY <1>1, <2>1, <2>3, <2>4, <2>5 DEF DrawerCalls, Out
  <2>6. CASE kind # "mark"
    <3>1. \A t \in Slots : ~Followed(t)
      BY <1>1, <2>1, <2>6
    <3>2. \A t \in Slots : t # s => ~Followed(t)'
      BY <2>3, <3>1 DEF Out
    <3> QED BY <1>1, <2>1, <2>3, <2>4, <2>6, <3>2 DEF DrawerCalls, Out
  <2> QED BY <2>5, <2>6
<1>7. ASSUME NEW s \in Slots, ServeUpdate(s) \/ LoseUpdate(s) PROVE DrawerCalls'
  <2>1. /\ Out(s) /\ UNCHANGED <<selected, working>>
        /\ \A t \in Slots : /\ updates'[t].alert = updates[t].alert
                            /\ updates'[t].kind = updates[t].kind
                            /\ updates'[t].mine = updates[t].mine
                            /\ t # s => updates'[t].step = updates[t].step
    BY <1>0, <1>7 DEF ServeUpdate, LoseUpdate, CallType, Out
  <2>2. \A t \in Slots : Out(t)' => Out(t)
    BY <2>1 DEF Out
  <2> QED BY <1>1, <1>2, <2>1, <2>2 DEF Out, Open
<1>8. ASSUME NEW s \in Slots, ReceiveUpdate(s) PROVE DrawerCalls'
  <2>1. /\ Out(s)
        /\ \A t \in Slots : /\ updates'[t].alert = updates[t].alert
                            /\ updates'[t].kind = updates[t].kind
                            /\ updates'[t].mine = updates[t].mine
                            /\ t # s => updates'[t].step = updates[t].step
    BY <1>0, <1>8 DEF ReceiveUpdate, CallType, Out
  <2>2. \A t \in Slots : Out(t)' => Out(t)
    BY <2>1 DEF Out
  <2>3. selected'.alert \in OpenAlerts /\ (working' = working \/ ~Open)
    BY <1>1, <1>8, <2>1 DEF ReceiveUpdate, Given, Mounted
  <2>4. Open' /\ \A t \in Slots : Followed(t)' => working'
    BY <1>1, <2>1, <2>2, <2>3, DrawerAssumption DEF Open
  <2> QED BY <1>2, <2>1, <2>2, <2>4 DEF Out
<1>9. ASSUME NEW s \in Slots, EndUpdate(s) PROVE DrawerCalls'
  <2>1. /\ Out(s) /\ UNCHANGED selected
        /\ updates'[s].step = "none"
        /\ \A t \in Slots : t # s => updates'[t] = updates[t]
        /\ working' = IF Followed(s) THEN FALSE ELSE working
    BY <1>0, <1>9 DEF EndUpdate, Free, NoUpdate, Out
  <2>2. \A t \in Slots : Followed(t)' => working'
    BY <1>1, <2>1 DEF Out
  <2> QED BY <1>1, <1>2, <2>1, <2>2 DEF Out, Open
<1>10. ASSUME NEW a \in OpenAlerts, OthersWrite(a) PROVE DrawerCalls'
  <2>1. UNCHANGED <<updates, selected, working>>
    BY <1>10 DEF OthersWrite
  <2> QED BY <1>1, <2>1 DEF DrawerCalls, Out, Open
<1> QED BY <1>3, <1>4, <1>5, <1>6, <1>7, <1>8, <1>9, <1>10 DEF DrawerNext

LEMMA NotesStep ==
  ASSUME DrawerTypeOK, DrawerCalls, NotesInv, [DrawerNext]_drawerVars PROVE NotesInv'
<1> SUFFICES ASSUME ~history'.swapped PROVE NotesInv'
  BY DEF NotesInv
<1>0. /\ updates \in [Slots -> CallType] /\ record \in [OpenAlerts -> Answered]
      /\ form \in Answered /\ history \in HistoryType
      /\ versions \in [OpenAlerts -> SUBSET Answered]
      /\ \A s \in Slots : Out(s) => updates[s].alert \in OpenAlerts
  BY DEF DrawerTypeOK, DrawerCalls, CallType, HistoryType
<1> DEFINE CallsOK == \A s \in Slots : Out(s) => updates[s].note \in {updates[s].alert, NoAlert}
           RecordsOK == /\ \A a \in OpenAlerts : record[a].note \in {a, NoAlert}
                        /\ \A a \in OpenAlerts : \A v \in versions[a] : v.note \in {a, NoAlert}
           FormOK == Open => form.note \in {selected.alert, NoAlert}
<1> SUFFICES ASSUME CallsOK, RecordsOK, FormOK, ~history.swapped PROVE CallsOK' /\ RecordsOK' /\ FormOK'
  <2>1. ~history.swapped
    <3>1. \A kind, status, note : Send(kind, status, note) => history'.swapped = history.swapped
      BY <1>0 DEF Send, HistoryType
    <3>2. CASE SaveStatus \/ StartInvestigation \/ MarkFalsePositive \/ MarkNotified
      BY <3>1, <3>2 DEF SaveStatus, StartInvestigation, MarkFalsePositive, MarkNotified
    <3>3. ASSUME NEW s \in Slots, ReceiveUpdate(s) PROVE ~history.swapped
      BY <1>0, <3>3 DEF ReceiveUpdate, Given, HistoryType
    <3>4. ASSUME NEW s \in Slots, LoseUpdate(s) PROVE ~history.swapped
      BY <1>0, <3>4 DEF LoseUpdate, HistoryType
    <3>5. UNCHANGED history => ~history.swapped
      OBVIOUS
    <3> QED BY <3>2, <3>3, <3>4, <3>5
          DEF DrawerNext, OpenAlert, CloseDrawer, EditForm, OpenDraft, CloseDraft, ServeUpdate,
              OthersWrite, EndUpdate, drawerVars
  <2> QED BY <2>1 DEF NotesInv
<1> USE DEF serverRecords
<1>s. ASSUME NEW b \in OpenAlerts, NEW status, NEW note \in {b, NoAlert}, Store(b, status, note)
      PROVE  RecordsOK'
  <2> DEFINE now == [status |-> status, note |-> note]
  <2>1. /\ record' = [record EXCEPT ![b] = now]
        /\ versions' = [versions EXCEPT ![b] = versions[b] \cup {now}]
    BY <1>s DEF Store
  <2>2. now.note = note
    OBVIOUS
  <2> HIDE DEF now
  <2>3. \A a \in OpenAlerts : record'[a].note \in {a, NoAlert}
    BY <1>0, <2>1, <2>2
  <2>4. \A a \in OpenAlerts : \A v \in versions'[a] : v.note \in {a, NoAlert}
    BY <1>0, <2>1, <2>2
  <2> QED BY <2>3, <2>4
<1>1. ASSUME NEW a \in OpenAlerts, OpenAlert(a) PROVE CallsOK' /\ RecordsOK' /\ FormOK'
  <2>1. PICK seen \in versions[a] : Mounted(a, seen.status, seen.note)
    BY <1>1 DEF OpenAlert
  <2>2. form'.note = seen.note /\ selected'.alert = a
    BY <2>1 DEF Mounted
  <2>3. UNCHANGED <<record, versions, updates>>
    BY <1>1 DEF OpenAlert, serverRecords
  <2> QED BY <2>2, <2>3 DEF Out
<1>2. CASE CloseDrawer
  <2>1. /\ ~Open' /\ UNCHANGED <<record, versions>>
        /\ \A s \in Slots : /\ updates'[s].note = updates[s].note
                            /\ updates'[s].step = updates[s].step
                            /\ updates'[s].alert = updates[s].alert
    BY <1>0, <1>2 DEF CloseDrawer, Nothing, Open, CallType
  <2> QED BY <2>1 DEF Out
<1>3. CASE EditForm
  <2>1. UNCHANGED <<record, versions, selected, updates>> /\ form'.note \in {form.note, selected.alert}
    BY <1>0, <1>3 DEF EditForm, Answered
  <2> QED BY <2>1 DEF Out, Open
<1>4. CASE OpenDraft \/ CloseDraft \/ UNCHANGED drawerVars
  <2>1. UNCHANGED <<record, versions, selected, updates, form>>
    BY <1>4 DEF OpenDraft, CloseDraft, drawerVars
  <2> QED BY <2>1 DEF Out, Open
<1>5. CASE SaveStatus \/ StartInvestigation \/ MarkFalsePositive \/ MarkNotified
  <2>1. PICK kind \in {"act", "false", "mark"}, status \in DrawerStatuses, note \in Notes :
          Open /\ Send(kind, status, note) /\ note \in {form.note, selected.alert}
    BY <1>5, ActFacts
  <2>2. PICK s \in Slots :
          /\ Sending(s, kind, status, note)
          /\ updates'[s] = [step |-> "sent", kind |-> kind, alert |-> selected.alert,
                            status |-> status, note |-> note, mine |-> TRUE]
          /\ \A t \in Slots : t # s => updates'[t] = updates[t]
    BY <2>1, SendFacts
  <2>3. /\ updates'[s].alert = selected.alert /\ updates'[s].note = note
        /\ UNCHANGED <<record, versions, selected, form>>
        /\ \A t \in Slots : t # s => updates'[t] = updates[t]
    BY <2>2 DEF Sending
  <2>4. note \in {selected.alert, NoAlert}
    BY <2>1
  <2> QED BY <2>3, <2>4 DEF Out, Open
<1>6. ASSUME NEW s \in Slots, ServeUpdate(s) PROVE CallsOK' /\ RecordsOK' /\ FormOK'
  <2>1. /\ UNCHANGED <<selected, form>> /\ Out(s)
        /\ \A t \in Slots : /\ updates'[t].note = updates[t].note
                            /\ updates'[t].alert = updates[t].alert
                            /\ Out(t)' => Out(t)
    BY <1>0, <1>6 DEF ServeUpdate, CallType, Out
  <2>2. RecordsOK'
    <3>1. updates[s].alert \in OpenAlerts /\ updates[s].note \in {updates[s].alert, NoAlert}
      BY <1>0, <2>1
    <3> QED BY <1>6, <1>s, <3>1 DEF ServeUpdate
  <2> QED BY <2>1, <2>2 DEF Open
<1>9. ASSUME NEW a \in OpenAlerts, OthersWrite(a) PROVE CallsOK' /\ RecordsOK' /\ FormOK'
  <2>1. UNCHANGED <<selected, form, updates>>
    BY <1>9 DEF OthersWrite
  <2>2. RecordsOK'
    <3>1. PICK status \in OtherStatus, note \in {a, NoAlert, record[a].note} : Store(a, status, note)
      BY <1>9 DEF OthersWrite
    <3>2. note \in {a, NoAlert}
      OBVIOUS
    <3> QED BY <1>s, <3>1, <3>2
  <2> QED BY <2>1, <2>2 DEF Open, Out
<1>7. ASSUME NEW s \in Slots, LoseUpdate(s) \/ EndUpdate(s) PROVE CallsOK' /\ RecordsOK' /\ FormOK'
  <2>1. /\ UNCHANGED <<selected, form, record, versions>>
        /\ \A t \in Slots : Out(t)' => /\ updates'[t].note = updates[t].note
                                       /\ updates'[t].alert = updates[t].alert
                                       /\ Out(t)
    <3>1. CASE LoseUpdate(s)
      BY <1>0, <3>1 DEF LoseUpdate, CallType, Out
    <3>2. CASE EndUpdate(s)
      <4>1. /\ updates'[s].step = "none" /\ UNCHANGED <<selected, form, record, versions>>
            /\ \A t \in Slots : t # s => updates'[t] = updates[t]
        BY <1>0, <3>2 DEF EndUpdate, Free, NoUpdate
      <4> QED BY <4>1 DEF Out
    <3> QED BY <1>7, <3>1, <3>2
  <2> QED BY <2>1 DEF Open
<1>8. ASSUME NEW s \in Slots, ReceiveUpdate(s) PROVE CallsOK' /\ RecordsOK' /\ FormOK'
  <2>1. /\ UNCHANGED <<record, versions>> /\ Out(s)
        /\ \A t \in Slots : /\ updates'[t].note = updates[t].note
                            /\ updates'[t].alert = updates[t].alert
                            /\ Out(t)' => Out(t)
    BY <1>0, <1>8 DEF ReceiveUpdate, CallType, Out
  <2>2. updates[s].note \in {updates[s].alert, NoAlert}
    BY <2>1
  <2>3. CASE Open /\ Given(updates[s].alert, updates[s].status)
             /\ (AnswerDrawer(updates[s]) \/ UNCHANGED <<form, dialog>>)
    <3>1. selected'.alert = selected.alert /\ selected.alert = updates[s].alert
      BY <1>0, <2>3 DEF Given, HistoryType
    <3>2. form'.note \in {form.note, updates[s].note}
      BY <2>3 DEF AnswerDrawer
    <3> QED BY <2>1, <2>2, <2>3, <3>1, <3>2
  <2>4. CASE Mounted(updates[s].alert, updates[s].status, updates[s].note)
    BY <2>1, <2>2, <2>4 DEF Mounted
  <2> QED BY <1>8, <2>3, <2>4 DEF ReceiveUpdate
<1> QED BY <1>1, <1>2, <1>3, <1>4, <1>5, <1>6, <1>7, <1>8, <1>9 DEF DrawerNext

LEMMA LastActStep ==
  ASSUME DrawerTypeOK, DrawerCalls, LastActInv, [DrawerNext]_drawerVars PROVE LastActInv'
<1> SUFFICES ASSUME ~history'.raced PROVE LastActInv'
  BY DEF LastActInv
<1> DEFINE OneOut == \A s, t \in Slots : s # t /\ Out(s) => ~Out(t)
           Faultless == history.failures = 0
           NoneFailed == \A s \in Slots : updates[s].step # "failed"
           CarryLast == \A s \in Slots : updates[s].step = "sent" =>
                          updates[s].status = acts.last[updates[s].alert]
           StoredLast == \A a \in OpenAlerts \ others.after :
                           (\A s \in Slots : updates[s].step = "sent" => updates[s].alert # a) =>
                             record[a].status = acts.last[a]
           Rest == Faultless => NoneFailed /\ CarryLast /\ StoredLast
<1>0. /\ updates \in [Slots -> CallType] /\ record \in [OpenAlerts -> Answered]
      /\ acts.last \in [OpenAlerts -> DrawerStatuses] /\ history \in HistoryType
      /\ history.failures \in Nat /\ others.after \subseteq OpenAlerts
      /\ \A s \in Slots : Out(s) => updates[s].alert \in OpenAlerts
      /\ \A s \in Slots : Out(s) /\ updates[s].mine /\ updates[s].kind # "mark" => working
  BY DrawerAssumption DEF DrawerTypeOK, DrawerCalls, CallType, HistoryType
<1>1. LastActInv = (~history.raced => OneOut /\ Rest)
  BY DEF LastActInv
<1>2. SUFFICES ASSUME ~history.raced => OneOut /\ Rest PROVE OneOut' /\ Rest'
  BY <1>1 DEF LastActInv
<1> USE DEF serverRecords
<1>3. ASSUME UNCHANGED <<updates, record, others, acts, history>> PROVE OneOut' /\ Rest'
  BY <1>2, <1>3 DEF Out
<1>4. CASE \/ \E a \in OpenAlerts : OpenAlert(a)
           \/ EditForm \/ OpenDraft \/ CloseDraft \/ UNCHANGED drawerVars
  BY <1>3, <1>4 DEF OpenAlert, EditForm, OpenDraft, CloseDraft, drawerVars
<1>5. CASE CloseDrawer
  <2>1. /\ UNCHANGED <<record, others, acts, history>>
        /\ \A s \in Slots : /\ updates'[s].step = updates[s].step
                            /\ updates'[s].status = updates[s].status
                            /\ updates'[s].alert = updates[s].alert
    BY <1>0, <1>5 DEF CloseDrawer, CallType
  <2>2. OneOut /\ Rest
    BY <1>2, <2>1
  <2> QED BY <2>1, <2>2 DEF Out
<1>6. CASE SaveStatus \/ StartInvestigation \/ MarkFalsePositive \/ MarkNotified
  <2>1. PICK kind \in {"act", "false", "mark"}, status \in DrawerStatuses, note \in Notes :
          /\ Open /\ Send(kind, status, note)
          /\ kind # "mark" => ~working
    BY <1>6, ActFacts
  <2>2. PICK s \in Slots :
          /\ Sending(s, kind, status, note)
          /\ updates'[s] = [step |-> "sent", kind |-> kind, alert |-> selected.alert,
                            status |-> status, note |-> note, mine |-> TRUE]
          /\ \A t \in Slots : t # s => updates'[t] = updates[t]
    BY <2>1, SendFacts
  <2>3. /\ ~history.raced
        /\ \A t \in Slots : Out(t) => updates[t].mine /\ updates[t].kind # "mark" /\ kind # "mark"
        /\ UNCHANGED record /\ history'.failures = history.failures
        /\ acts'.last = [acts.last EXCEPT ![selected.alert] = status]
        /\ others'.after = others.after \ {selected.alert}
    BY <2>2 DEF Sending
  \* A call beside this one would have kept the buttons disabled.
  <2>4. \A t \in Slots : ~Out(t)
    BY <1>0, <2>1, <2>3
  <2>5. OneOut' /\ \A t \in Slots : t # s => updates'[t].step = "none"
    BY <2>2, <2>4 DEF Out
  <2>6. ASSUME Faultless' PROVE NoneFailed' /\ CarryLast' /\ StoredLast'
    <3>1. /\ updates'[s].step = "sent" /\ updates'[s].alert = selected.alert
          /\ updates'[s].status = status /\ selected.alert \in OpenAlerts
      BY <2>1, <2>2 DEF DrawerTypeOK, Open, Notes
    <3>2. acts'.last[selected.alert] = status
      BY <1>0, <2>3, <3>1
    <3>3. \A a \in OpenAlerts : a # selected.alert => acts'.last[a] = acts.last[a]
      BY <1>0, <2>3
    <3>4. \A a \in OpenAlerts \ others.after : record[a].status = acts.last[a]
      BY <1>2, <2>3, <2>4, <2>6 DEF Out
    <3> QED BY <2>3, <2>5, <3>1, <3>2, <3>3, <3>4
  <2> QED BY <2>5, <2>6
<1>7. ASSUME NEW s \in Slots, ServeUpdate(s) PROVE OneOut' /\ Rest'
  <2>1. /\ UNCHANGED <<others, acts, history>> /\ updates[s].step = "sent"
        /\ updates'[s].step = "served"
        /\ \A t \in Slots : t # s => updates'[t] = updates[t]
    BY <1>0, <1>7 DEF ServeUpdate, CallType
  <2>2. \A a \in OpenAlerts :
          record'[a].status = IF a = updates[s].alert THEN updates[s].status ELSE record[a].status
    BY <1>0, <1>7 DEF ServeUpdate, Store
  <2>3. OneOut /\ Rest
    BY <1>2, <2>1
  <2>4. OneOut'
    BY <2>1, <2>3 DEF Out
  <2>5. ASSUME Faultless' PROVE NoneFailed' /\ CarryLast' /\ StoredLast'
    <3>1. NoneFailed /\ CarryLast /\ StoredLast
      BY <2>1, <2>3, <2>5
    <3>2. StoredLast'
      BY <2>1, <2>2, <3>1
    <3> QED BY <2>1, <3>1, <3>2
  <2> QED BY <2>4, <2>5
<1>8. ASSUME NEW s \in Slots, LoseUpdate(s) PROVE OneOut' /\ Rest'
  <2>1. history'.failures # 0 /\ history'.raced = history.raced
    BY <1>0, <1>8 DEF LoseUpdate, HistoryType
  <2>2. Out(s) /\ \A t \in Slots : t # s => updates'[t] = updates[t]
    BY <1>0, <1>8 DEF LoseUpdate, Out
  <2> QED BY <1>2, <2>1, <2>2 DEF Out
<1>9. ASSUME NEW s \in Slots, ReceiveUpdate(s) \/ EndUpdate(s) PROVE OneOut' /\ Rest'
  <2>1. /\ UNCHANGED <<record, others, acts>> /\ updates[s].step \in {"served", "refresh", "failed"}
        /\ updates'[s].step \in {"refresh", "none"}
        /\ \A t \in Slots : t # s => updates'[t] = updates[t]
    <3>1. CASE ReceiveUpdate(s)
      BY <1>0, <3>1 DEF ReceiveUpdate, CallType
    <3>2. CASE EndUpdate(s)
      BY <1>0, <3>2 DEF EndUpdate, Free, NoUpdate
    <3> QED BY <1>9, <3>1, <3>2
  <2>2. history'.raced = history.raced /\ history'.failures = history.failures
    BY <1>0, <1>9 DEF ReceiveUpdate, EndUpdate, Given, HistoryType
  <2>3. OneOut /\ Rest
    BY <1>2, <2>2
  <2>4. OneOut'
    BY <2>1, <2>3 DEF Out
  <2>5. ASSUME Faultless' PROVE NoneFailed' /\ CarryLast' /\ StoredLast'
    BY <2>1, <2>2, <2>3, <2>5
  <2> QED BY <2>4, <2>5
<1>10. ASSUME NEW b \in OpenAlerts, OthersWrite(b) PROVE OneOut' /\ Rest'
  <2>1. UNCHANGED <<updates, acts, history>>
    BY <1>10 DEF OthersWrite
  <2>2. others'.after = others.after \cup {b}
    BY <1>10 DEF OthersWrite
  <2>3. \A a \in OpenAlerts : a # b => record'[a] = record[a]
    BY <1>0, <1>10 DEF OthersWrite, Store
  <2>4. OneOut /\ Rest
    BY <1>2, <2>1
  <2> QED BY <2>1, <2>2, <2>3, <2>4 DEF Out
<1> QED BY <1>4, <1>5, <1>6, <1>7, <1>8, <1>9, <1>10 DEF DrawerNext


DrawerInv == DrawerTypeOK /\ DrawerCalls /\ NotesInv /\ LastActInv

\* The drawer's invariant is inductive.
LEMMA DrawerStep == DrawerInv /\ [DrawerNext]_drawerVars => DrawerInv'
BY DrawerTypeStep, DrawerCallsStep, NotesStep, LastActStep DEF DrawerInv

-----------------------------------------------------------------------------
(* Proofs about the drafts. *)

LEMMA DraftsInitially == DraftInit => DraftTypeOK /\ DraftsInv
<1> SUFFICES ASSUME DraftInit PROVE DraftTypeOK /\ DraftsInv
  OBVIOUS
<1> USE DraftAssumption DEF DraftInit
<1>1. /\ NoTexts \in Texts
      /\ \A d \in Drafts : NoTexts[d] = NoDraft /\ drafts[d] = IF d = 1 THEN 1 ELSE NoDraft
      /\ drafts \in Texts
  BY DEF NoTexts, Texts, Drafts, NoDraft
<1>2. DraftTypeOK
  <2>1. /\ drafts \in Texts /\ listed \in Texts /\ crossed \in BOOLEAN
        /\ fetch \in [step : {"sent", "seen", "loaded"}, seen : Texts]
    BY <1>1 DEF Unfetched
  <2>2. /\ creating \in [step : {"none", "standard", "ai", "created"},
                         draft : Drafts \cup {NoDraft}, text : {NoDraft}]
        /\ ordered \in 0 .. MaxDrafts
    BY DEF Resting
  <2>3. editor \in [draft : Drafts \cup {NoDraft}, text : Drafts \cup {NoDraft}, working : BOOLEAN]
    BY DEF NoEditor
  <2>4. saving \in [step : {"none", "save", "mark", "saved", "marked"},
                    draft : Drafts \cup {NoDraft}, text : Drafts \cup {NoDraft}]
    BY DEF Resting
  <2> QED BY <2>1, <2>2, <2>3, <2>4 DEF DraftTypeOK
<1>3. DraftsInv
  BY <1>1 DEF DraftsInv, Unfetched, Resting, NoEditor
<1> QED BY <1>2, <1>3

LEMMA DraftTypeStep ==
  ASSUME DraftTypeOK, [DraftNext]_draftVars PROVE DraftTypeOK'
<1> USE DraftAssumption DEF DraftTypeOK, Texts
<1>1. CASE ServeContext
  BY <1>1 DEF ServeContext
<1>2. CASE ReceiveContext
  BY <1>2 DEF ReceiveContext, Unfetched, NoTexts
<1>3. ASSUME NEW mode \in {"standard", "ai"}, CreateDraft(mode) PROVE DraftTypeOK'
  BY <1>3 DEF CreateDraft, Resting
<1>4. CASE ServeCreate
  <2>1. CASE creating.step = "standard"
    <3>1. PICK d \in Drafts : /\ drafts' = [drafts EXCEPT ![d] = d]
                              /\ creating' = [creating EXCEPT !.step = "created", !.draft = d]
                              /\ UNCHANGED ordered
      BY <1>4, <2>1 DEF ServeCreate, Unused
    <3>2. drafts' \in Texts
      BY <3>1
    <3>3. creating' \in [step : {"none", "standard", "ai", "created"},
                         draft : Drafts \cup {NoDraft}, text : {NoDraft}]
      BY <3>1
    <3> QED BY <1>4, <3>1, <3>2, <3>3 DEF ServeCreate
  <2>2. CASE creating.step = "ai"
    BY <1>4, <2>2 DEF ServeCreate
  <2> QED BY <1>4, <2>1, <2>2 DEF ServeCreate
<1>5. CASE WriteAIDraft
  BY <1>5 DEF WriteAIDraft, Unused
<1>6. CASE ReceiveCreate
  <2>1. /\ creating' \in [step : {"none", "standard", "ai", "created"},
                          draft : Drafts \cup {NoDraft}, text : {NoDraft}]
        /\ UNCHANGED <<drafts, fetch, ordered, saving>>
    BY <1>6 DEF ReceiveCreate, Resting
  <2>2. CASE creating.draft = NoDraft
    BY <1>6, <2>1, <2>2 DEF ReceiveCreate
  <2>3. CASE Give(creating.draft, creating.draft) /\ Known(creating.draft, creating.draft)
    <3>1. listed' \in Texts
      BY <2>3 DEF Known
    <3>2. editor' \in [draft : Drafts \cup {NoDraft}, text : Drafts \cup {NoDraft}, working : BOOLEAN]
      BY <2>3 DEF Give
    <3>3. crossed' \in BOOLEAN
      BY <2>3 DEF Give
    <3> QED BY <2>1, <3>1, <3>2, <3>3
  <2> QED BY <1>6, <2>2, <2>3 DEF ReceiveCreate
<1>7. CASE CreateFails
  BY <1>7 DEF CreateFails, Resting
<1>8. ASSUME NEW d \in Drafts, OpenListed(d) PROVE DraftTypeOK'
  BY <1>8 DEF OpenListed, OpenEditor
<1>9. CASE CloseEditor \/ Marked
  <2>1. editor' \in [draft : Drafts \cup {NoDraft}, text : Drafts \cup {NoDraft}, working : BOOLEAN]
    <3>1. editor' = NoEditor
      BY <1>9 DEF CloseEditor, Marked
    <3> QED BY <3>1 DEF NoEditor
  <2>2. saving' \in [step : {"none", "save", "mark", "saved", "marked"},
                     draft : Drafts \cup {NoDraft}, text : Drafts \cup {NoDraft}]
    BY <1>9 DEF CloseEditor, Marked, Resting
  <2> QED BY <1>9, <2>1, <2>2 DEF CloseEditor, Marked
<1>10. ASSUME NEW kind \in {"save", "mark"}, PressEditor(kind) PROVE DraftTypeOK'
  BY <1>10 DEF PressEditor
<1>11. CASE ServeEditor
  BY <1>11 DEF ServeEditor
<1>12. CASE Saved
  BY <1>12 DEF Saved, Resting, OpenEditor
<1>13. CASE EditorFails
  BY <1>13 DEF EditorFails, Resting
<1>14. CASE UNCHANGED draftVars
  BY <1>14 DEF draftVars
<1> QED BY <1>1, <1>2, <1>3, <1>4, <1>5, <1>6, <1>7, <1>8, <1>9, <1>10, <1>11, <1>12, <1>13,
           <1>14 DEF DraftNext

LEMMA DraftsStep ==
  ASSUME DraftTypeOK, DraftsInv, [DraftNext]_draftVars PROVE DraftsInv'
<1> USE DraftAssumption DEF Texts
<1>0. /\ drafts \in Texts /\ listed \in Texts /\ fetch.seen \in Texts
      /\ editor \in [draft : Drafts \cup {NoDraft}, text : Drafts \cup {NoDraft}, working : BOOLEAN]
      /\ saving \in [step : {"none", "save", "mark", "saved", "marked"},
                     draft : Drafts \cup {NoDraft}, text : Drafts \cup {NoDraft}]
  BY DEF DraftTypeOK
<1> DEFINE OfItself(texts) == \A d \in Drafts : texts[d] \in {d, NoDraft}
           EditorOK == editor.draft # NoDraft => editor.text = editor.draft
           SavingOK == saving.step # "none" => saving.text = saving.draft
<1> SUFFICES ASSUME ~crossed'
             PROVE  /\ OfItself(drafts') /\ OfItself(listed') /\ OfItself(fetch'.seen)
                    /\ EditorOK' /\ SavingOK'
  BY DEF DraftsInv
<1>a. ~crossed
  BY DEF DraftNext, ServeContext, ReceiveContext, CreateDraft, ServeCreate, WriteAIDraft,
         ReceiveCreate, Give, CreateFails, OpenListed, CloseEditor, PressEditor, ServeEditor,
         Saved, Marked, EditorFails, draftVars
<1>b. /\ OfItself(drafts) /\ OfItself(listed) /\ OfItself(fetch.seen) /\ EditorOK /\ SavingOK
  BY <1>a DEF DraftsInv
<1> DEFINE Goal == /\ OfItself(drafts') /\ OfItself(listed') /\ OfItself(fetch'.seen)
                   /\ EditorOK' /\ SavingOK'
\* One text more, of its own draft.
<1>c. \A texts \in Texts : \A d \in Drafts \cup {NoDraft} :
        OfItself(texts) => OfItself([texts EXCEPT ![d] = d])
  OBVIOUS
<1>1. CASE ServeContext
  BY <1>b, <1>1 DEF ServeContext
<1>2. CASE ReceiveContext
  BY <1>b, <1>2 DEF ReceiveContext, Unfetched, NoTexts
<1>3. ASSUME NEW mode \in {"standard", "ai"}, CreateDraft(mode) PROVE Goal
  BY <1>b, <1>3 DEF CreateDraft
<1>4. CASE ServeCreate
  BY <1>0, <1>b, <1>c, <1>4 DEF ServeCreate, Unused
<1>5. CASE WriteAIDraft
  BY <1>0, <1>b, <1>c, <1>5 DEF WriteAIDraft, Unused
<1>6. CASE ReceiveCreate
  <2>1. creating.draft \in Drafts \cup {NoDraft} /\ UNCHANGED <<drafts, fetch, saving>>
    BY <1>6 DEF DraftTypeOK, ReceiveCreate
  <2>2. CASE creating.draft = NoDraft
    BY <1>b, <1>6, <2>1, <2>2 DEF ReceiveCreate
  <2>3. CASE creating.draft # NoDraft
    <3>1. Give(creating.draft, creating.draft) /\ Known(creating.draft, creating.draft)
      BY <1>6, <2>3 DEF ReceiveCreate
    <3>2. OfItself(listed')
      BY <1>0, <1>b, <1>c, <2>1, <3>1 DEF Known
    <3>3. EditorOK'
      BY <1>0, <1>b, <2>3, <3>1 DEF Give
    <3> QED BY <1>b, <2>1, <3>2, <3>3
  <2> QED BY <2>2, <2>3
<1>7. CASE CreateFails
  BY <1>b, <1>7 DEF CreateFails
<1>8. ASSUME NEW d \in Drafts, OpenListed(d) PROVE Goal
  BY <1>b, <1>8 DEF OpenListed, OpenEditor
<1>9. CASE CloseEditor \/ Marked
  BY <1>b, <1>9 DEF CloseEditor, Marked, NoEditor, Resting
<1>10. ASSUME NEW kind \in {"save", "mark"}, PressEditor(kind) PROVE Goal
  BY <1>0, <1>b, <1>10 DEF PressEditor
<1>11. CASE ServeEditor
  <2>1. UNCHANGED <<listed, fetch, editor>> /\ SavingOK' /\ saving.text = saving.draft
    BY <1>0, <1>b, <1>11 DEF ServeEditor
  <2>2. OfItself(drafts')
    BY <1>0, <1>b, <1>c, <1>11, <2>1 DEF ServeEditor
  <2> QED BY <1>b, <2>1, <2>2
<1>12. CASE Saved
  <2>1. /\ UNCHANGED <<drafts, fetch>> /\ SavingOK' /\ saving.text = saving.draft
        /\ editor.draft \in {NoDraft, saving.draft}
    BY <1>b, <1>12 DEF Saved, Resting
  <2>2. OfItself(listed')
    BY <1>0, <1>b, <1>c, <1>12, <2>1 DEF Saved
  <2>3. EditorOK'
    BY <1>0, <1>b, <1>12, <2>1 DEF Saved, OpenEditor
  <2> QED BY <1>b, <2>1, <2>2, <2>3
<1>13. CASE EditorFails
  BY <1>0, <1>b, <1>13 DEF EditorFails, Resting
<1>14. CASE UNCHANGED draftVars
  BY <1>b, <1>14 DEF draftVars
<1> QED BY <1>1, <1>2, <1>3, <1>4, <1>5, <1>6, <1>7, <1>8, <1>9, <1>10, <1>11, <1>12, <1>13,
           <1>14 DEF DraftNext

-----------------------------------------------------------------------------
(* Proofs about the clients. *)

SaveType == [step : {"none", "sent", "stored", "refused"}, of : Forms, edit : Nat]
RemovalType == [step : {"none", "sent", "done", "refused"}, of : Customers \cup {NoClient}]

\* Calls as they are when an answer or a closing has moved them.
LEMMA WhoseFacts ==
  ASSUME NEW S, NEW x \in S, NEW y \in S
  PROVE  /\ [own |-> x, left |-> y] \in [Whose -> S]
         /\ [own |-> x, left |-> y]["own"] = x /\ [own |-> x, left |-> y]["left"] = y
<1>1. [own |-> x, left |-> y] = [w \in Whose |-> IF w = "own" THEN x ELSE y]
  BY DEF Whose
<1> QED BY <1>1 DEF Whose

LEMMA ClientsInitially == ClientsInit => ClientsTypeOK /\ UnsavedInv
<1> SUFFICES ASSUME ClientsInit PROVE ClientsTypeOK /\ UnsavedInv
  OBVIOUS
<1> USE ClientsAssumption DEF ClientsInit, NoEditing, NoSave, NoRemoval, Forms
<1>1. ClientsTypeOK
  BY DEF ClientsTypeOK
<1>2. UnsavedInv
  BY DEF UnsavedInv, FormOpen, UnsavedWorkIsKept, Whose
<1> QED BY <1>1, <1>2


\* The answers to the form's calls, and those to the question's.
LEMMA ClientsTypeStep ==
  ASSUME ClientsTypeOK, [ClientsNext]_clientVars PROVE ClientsTypeOK'
<1> DEFINE EditingType == [of : Forms, base : Nat, dirty : BOOLEAN, saving : BOOLEAN]
           DeletingType == [of : Customers \cup {NoClient}, working : BOOLEAN]
           WorkType == [lost : BOOLEAN, overtaken : BOOLEAN, late : BOOLEAN]
<1> DEFINE Typed ==
      /\ profiles \in [Customers -> Nat] /\ clients \in [Customers -> Nat]
      /\ editing \in EditingType /\ saves \in [Whose -> SaveType]
      /\ deleting \in DeletingType /\ removals \in [Whose -> RemovalType]
      /\ edits \in 0 .. MaxEdits + 1 /\ work \in WorkType
<1>0. Typed
  BY DEF ClientsTypeOK, SaveType, RemovalType
<1> SUFFICES Typed'
  BY DEF ClientsTypeOK, SaveType, RemovalType
<1>a. /\ NoEditing \in EditingType /\ NoSave \in SaveType /\ NoRemoval \in RemovalType
      /\ [of |-> NoClient, working |-> FALSE] \in DeletingType
  BY DEF NoEditing, NoSave, NoRemoval, SaveType, RemovalType, Forms
<1>b. edits \in Nat /\ (edits <= MaxEdits => edits + 1 \in 0 .. MaxEdits + 1)
  BY <1>0, ClientsAssumption
<1>c. \A v \in WorkType, b \in BOOLEAN :
        /\ [v EXCEPT !.lost = b] \in WorkType
        /\ [v EXCEPT !.overtaken = b] \in WorkType
        /\ [v EXCEPT !.late = b] \in WorkType
  OBVIOUS
<1>1. ASSUME NEW c \in Customers \cup {NewClient}, OpenForm(c) PROVE Typed'
  <2>1. editing' \in EditingType
    <3>1. (IF c = NewClient THEN 0 ELSE clients[c]) \in Nat /\ c \in Forms
      BY <1>0 DEF Forms
    <3>2. editing' = [NoEditing EXCEPT !.of = c, !.base = IF c = NewClient THEN 0 ELSE clients[c]]
      BY <1>1 DEF OpenForm
    <3> QED BY <1>a, <3>1, <3>2
  <2>2. work' \in WorkType
    <3>1. (work.overtaken \/ saves["left"].step # "none") \in BOOLEAN
      OBVIOUS
    <3> QED BY <1>0, <1>1, <1>c, <3>1 DEF OpenForm
  <2> QED BY <1>0, <1>1, <2>1, <2>2 DEF OpenForm
<1>2. CASE EditClient
  <2>1. work' \in WorkType
    <3>1. (work.late \/ editing.saving) \in BOOLEAN
      OBVIOUS
    <3> QED BY <1>0, <1>2, <1>c, <3>1 DEF EditClient
  <2>2. editing' \in EditingType
    BY <1>0, <1>2 DEF EditClient
  <2> QED BY <1>0, <1>2, <2>1, <2>2 DEF EditClient
<1>3. CASE CloseForm
  <2>1. saves' \in [Whose -> SaveType]
    <3>1. [own |-> NoSave, left |-> saves["own"]] \in [Whose -> SaveType]
      BY <1>0, <1>a, WhoseFacts DEF Whose
    <3> QED BY <1>0, <1>3, <3>1 DEF CloseForm
  <2> QED BY <1>0, <1>a, <1>3, <2>1 DEF CloseForm
<1>4. CASE SubmitForm
  <2>1. [step |-> "sent", of |-> editing.of, edit |-> edits] \in SaveType
    BY <1>0, <1>b DEF SaveType
  <2>2. saves' \in [Whose -> SaveType] /\ editing' \in EditingType
    BY <1>0, <1>4, <2>1 DEF SubmitForm
  <2> QED BY <1>0, <1>b, <1>4, <2>2 DEF SubmitForm
<1>5. CASE CloseQuestion
  <2>1. removals' \in [Whose -> RemovalType]
    <3>1. [own |-> NoRemoval, left |-> removals["own"]] \in [Whose -> RemovalType]
      BY <1>0, <1>a, WhoseFacts DEF Whose
    <3> QED BY <1>0, <1>5, <3>1 DEF CloseQuestion
  <2> QED BY <1>0, <1>a, <1>5, <2>1 DEF CloseQuestion
<1>6. CASE RemoveClient
  <2>1. [step |-> "sent", of |-> deleting.of] \in RemovalType
    BY <1>0 DEF RemovalType
  <2>2. removals' \in [Whose -> RemovalType] /\ deleting' \in DeletingType
    BY <1>0, <1>6, <2>1 DEF RemoveClient
  <2> QED BY <1>0, <1>6, <2>2 DEF RemoveClient
<1>7. CASE RefreshClients \/ UNCHANGED clientVars
  BY <1>0, <1>7 DEF RefreshClients, clientVars
<1>8. ASSUME NEW c \in Customers, OpenQuestion(c) PROVE Typed'
  BY <1>0, <1>8 DEF OpenQuestion
<1>9. ASSUME NEW c \in Customers, OtherEdit(c) PROVE Typed'
  BY <1>0, <1>b, <1>9 DEF OtherEdit
<1>10. ASSUME NEW w \in Whose, ServeSave(w) PROVE Typed'
  <2>1. saves[w].edit \in Nat
    BY <1>0 DEF SaveType
  <2>2. profiles' \in [Customers -> Nat]
    BY <1>0, <1>10, <2>1 DEF ServeSave
  <2>3. saves' \in [Whose -> SaveType]
    BY <1>0, <1>10 DEF ServeSave, SaveType
  <2> QED BY <1>0, <1>10, <2>2, <2>3 DEF ServeSave
<1>11. ASSUME NEW w \in Whose, SaveAnswered(w) PROVE Typed'
  <2>1. saves' \in [Whose -> SaveType]
    <3>1. (IF w = "left" THEN saves["own"] ELSE saves["left"]) \in SaveType
      BY <1>0 DEF Whose
    <3> QED BY <1>a, <1>11, <3>1, WhoseFacts DEF SaveAnswered
  <2>2. work' \in WorkType
    <3>1. (work.lost \/ editing.dirty) \in BOOLEAN
      OBVIOUS
    <3> QED BY <1>0, <1>11, <1>c, <3>1 DEF SaveAnswered
  <2> QED BY <1>0, <1>a, <1>11, <2>1, <2>2 DEF SaveAnswered
<1>12. ASSUME NEW w \in Whose, SaveRefused(w) PROVE Typed'
  <2>1. editing' \in EditingType /\ saves' \in [Whose -> SaveType]
    BY <1>0, <1>a, <1>12 DEF SaveRefused
  <2> QED BY <1>0, <1>12, <2>1 DEF SaveRefused
<1>13. ASSUME NEW w \in Whose, ServeRemoval(w) PROVE Typed'
  <2>1. removals' \in [Whose -> RemovalType] /\ profiles' \in [Customers -> Nat]
    BY <1>0, <1>13 DEF ServeRemoval, RemovalType
  <2> QED BY <1>0, <1>13, <2>1 DEF ServeRemoval
<1>14. ASSUME NEW w \in Whose, RemovalAnswered(w) PROVE Typed'
  <2>1. removals' \in [Whose -> RemovalType]
    <3>1. (IF w = "left" THEN removals["own"] ELSE removals["left"]) \in RemovalType
      BY <1>0 DEF Whose
    <3> QED BY <1>a, <1>14, <3>1, WhoseFacts DEF RemovalAnswered
  <2> QED BY <1>0, <1>a, <1>14, <2>1 DEF RemovalAnswered
<1>15. ASSUME NEW w \in Whose, RemovalRefused(w) PROVE Typed'
  <2>1. deleting' \in DeletingType /\ removals' \in [Whose -> RemovalType]
    BY <1>0, <1>a, <1>15 DEF RemovalRefused
  <2> QED BY <1>0, <1>15, <2>1 DEF RemovalRefused
<1> QED BY <1>1, <1>2, <1>3, <1>4, <1>5, <1>6, <1>7, <1>8, <1>9, <1>10, <1>11, <1>12, <1>13,
           <1>14, <1>15 DEF ClientsNext

LEMMA UnsavedStep ==
  ASSUME ClientsTypeOK, UnsavedInv, [ClientsNext]_clientVars PROVE UnsavedInv'
<1> DEFINE OwnForm == saves["own"].step # "none" => FormOpen /\ editing.saving
           LeftForm == saves["left"].step # "none" => ~FormOpen \/ work.overtaken
           Clean == ~FormOpen => ~editing.dirty
           Late == editing.saving /\ editing.dirty => work.late
           Kept == work.lost => work.overtaken \/ work.late
<1>0. /\ saves \in [Whose -> SaveType]
      /\ editing \in [of : Forms, base : Nat, dirty : BOOLEAN, saving : BOOLEAN]
      /\ work \in [lost : BOOLEAN, overtaken : BOOLEAN, late : BOOLEAN]
      /\ NoSave.step = "none" /\ NoSave \in SaveType /\ "own" \in Whose /\ "left" \in Whose
  BY DEF ClientsTypeOK, SaveType, NoSave, Whose, Forms
<1>a. OwnForm /\ LeftForm /\ Clean /\ Late /\ Kept
  BY DEF UnsavedInv, UnsavedWorkIsKept
<1> SUFFICES OwnForm' /\ LeftForm' /\ Clean' /\ Late' /\ Kept'
  BY DEF UnsavedInv, UnsavedWorkIsKept
<1> DEFINE Goal == OwnForm' /\ LeftForm' /\ Clean' /\ Late' /\ Kept'
<1>1. ASSUME NEW c \in Customers \cup {NewClient}, OpenForm(c) PROVE Goal
  <2>1. /\ ~FormOpen /\ UNCHANGED saves /\ ~editing'.dirty
        /\ work'.late = work.late /\ work'.lost = work.lost
        /\ work'.overtaken = (work.overtaken \/ saves["left"].step # "none")
    BY <1>0, <1>1 DEF OpenForm, NoEditing
  <2> QED BY <1>a, <2>1
<1>2. CASE EditClient
  <2>1. /\ FormOpen /\ UNCHANGED saves /\ editing'.of = editing.of
        /\ editing'.saving = editing.saving
        /\ work'.overtaken = work.overtaken /\ work'.lost = work.lost
        /\ work'.late = (work.late \/ editing.saving)
    BY <1>0, <1>2 DEF EditClient
  <2> QED BY <1>a, <2>1 DEF FormOpen
<1>3. CASE CloseForm
  <2>1. /\ ~FormOpen' /\ ~editing'.dirty /\ UNCHANGED work
    BY <1>3 DEF CloseForm, NoEditing, FormOpen
  <2>2. saves'["own"].step = "none"
    <3>1. CASE saves["own"].step = "none"
      BY <1>3, <3>1 DEF CloseForm
    <3>2. CASE saves' = [own |-> NoSave, left |-> saves["own"]]
      BY <1>0, <3>2
    <3> QED BY <1>3, <3>1, <3>2 DEF CloseForm
  <2> QED BY <1>a, <2>1, <2>2
<1>4. CASE SubmitForm
  <2>1. /\ FormOpen /\ UNCHANGED work /\ editing'.of = editing.of
        /\ editing'.saving /\ ~editing'.dirty
        /\ saves'["left"] = saves["left"]
    BY <1>0, <1>4 DEF SubmitForm
  <2> QED BY <1>a, <2>1 DEF FormOpen
<1>5. CASE \/ CloseQuestion \/ RemoveClient \/ RefreshClients \/ UNCHANGED clientVars
           \/ \E c \in Customers : OpenQuestion(c) \/ OtherEdit(c)
           \/ \E w \in Whose : ServeRemoval(w) \/ RemovalAnswered(w) \/ RemovalRefused(w)
  <2>1. UNCHANGED <<saves, editing, work>>
    BY <1>5 DEF CloseQuestion, RemoveClient, RefreshClients, OpenQuestion, OtherEdit,
                ServeRemoval, RemovalAnswered, RemovalRefused, clientVars
  <2> QED BY <1>a, <2>1 DEF FormOpen
<1>6. ASSUME NEW w \in Whose, ServeSave(w) PROVE Goal
  <2>1. /\ UNCHANGED <<editing, work>> /\ saves[w].step = "sent"
        /\ \E step \in {"stored", "refused"} : saves' = [saves EXCEPT ![w].step = step]
    BY <1>6 DEF ServeSave
  <2>2. \A v \in Whose : saves'[v].step # "none" => saves[v].step # "none"
    BY <1>0, <2>1 DEF SaveType
  <2> QED BY <1>0, <1>a, <2>1, <2>2 DEF FormOpen
<1>7. ASSUME NEW w \in Whose, SaveAnswered(w) PROVE Goal
  <2>1. /\ ~FormOpen' /\ ~editing'.dirty /\ saves[w].step = "stored"
    BY <1>7 DEF SaveAnswered, NoEditing, FormOpen
  <2>2. saves'["own"].step = "none"
    BY <1>0, <1>7 DEF SaveAnswered
  <2>3. /\ work'.overtaken = work.overtaken /\ work'.late = work.late
        /\ work'.lost = (work.lost \/ editing.dirty)
    BY <1>0, <1>7 DEF SaveAnswered
  <2>4. editing.dirty => work.overtaken \/ work.late
    <3>1. CASE w = "own"
      BY <1>a, <2>1, <3>1
    <3>2. CASE w = "left"
      BY <1>a, <2>1, <3>2
    <3> QED BY <3>1, <3>2 DEF Whose
  <2> QED BY <1>a, <2>1, <2>2, <2>3, <2>4
<1>8. ASSUME NEW w \in Whose, SaveRefused(w) PROVE Goal
  <2>1. /\ UNCHANGED work /\ saves[w].step = "refused" /\ saves'[w].step = "none"
        /\ \A v \in Whose : v # w => saves'[v] = saves[v]
    BY <1>0, <1>8 DEF SaveRefused
  <2>2. CASE w = "own"
    <3>1. editing'.of = editing.of /\ ~editing'.saving
      BY <1>0, <1>8, <2>2 DEF SaveRefused
    <3>2. FormOpen /\ saves'["left"] = saves["left"]
      BY <1>0, <1>a, <2>1, <2>2
    <3> QED BY <1>0, <1>a, <2>1, <2>2, <3>1, <3>2 DEF FormOpen
  <2>3. CASE w = "left"
    <3>1. UNCHANGED editing /\ saves'["own"] = saves["own"]
      BY <1>0, <1>8, <2>1, <2>3 DEF SaveRefused
    <3> QED BY <1>0, <1>a, <2>1, <2>3, <3>1 DEF FormOpen
  <2> QED BY <2>2, <2>3 DEF Whose
<1> QED BY <1>1, <1>2, <1>3, <1>4, <1>5, <1>6, <1>7, <1>8 DEF ClientsNext

-----------------------------------------------------------------------------
(* Proofs about the lists of a form. *)

LEMMA EditorsInitially == EditorsInit => EditorsTypeOK /\ ListsInv
<1> SUFFICES ASSUME EditorsInit PROVE EditorsTypeOK /\ ListsInv
  OBVIOUS
<1> USE DEF EditorsInit
<1>1. EditorsTypeOK
  BY DEF EditorsTypeOK, NoMenu, Written
<1>2. \A l \in TypedLists : Cardinality(lists[l]) <= MaxTyped
  BY FS_EmptySet, EditorsAssumption
<1>3. ListsInv
  BY <1>2 DEF ListsInv, NoMenu, OnlyUncheckedInputIsRefused
<1> QED BY <1>1, <1>3

\* The form, and what the server said to it, under every operation.
LEMMA EditorsStep ==
  ASSUME EditorsTypeOK, ListsInv, [EditorsNext]_editorVars PROVE (EditorsTypeOK /\ ListsInv)'
<1> DEFINE Short == \A l \in TypedLists : Cardinality(lists[l]) <= MaxTyped
           MenuOK == /\ menu.of \in ChosenLists \cup {"none"} /\ menu.options \subseteq Words
                     /\ menu = NoMenu \/ menu.of \in ChosenLists
           TypedOK == typed \in [TypedLists \cup {"related"} -> SUBSET Words]
           ListsOK == lists \in [TypedLists \cup ChosenLists -> SUBSET Words]
           VerdictOK == verdict \in {"none", "accepted", "refused"} /\ OnlyUncheckedInputIsRefused
           FieldsOK == fields \in [name : Written, domain : Written]
           All == FieldsOK /\ ListsOK /\ related \in Seq(Entities) /\ TypedOK /\ MenuOK /\ VerdictOK /\ Short
<1>0. All
  BY DEF EditorsTypeOK, ListsInv
<1> SUFFICES All'
  <2>1. \A s \in Seq(Entities) : \A i \in DOMAIN s : s[i] \in Entities
    OBVIOUS
  <2> QED BY <2>1 DEF EditorsTypeOK, ListsInv
<1>a. NoMenu.of = "none" /\ NoMenu.options = {}
  BY DEF NoMenu
<1>b. ASSUME verdict' = "none" PROVE VerdictOK'
  BY <1>b DEF OnlyUncheckedInputIsRefused
<1>c. ASSUME UNCHANGED <<lists, fields, related, verdict>> PROVE VerdictOK' /\ Short'
  BY <1>0, <1>c DEF OnlyUncheckedInputIsRefused
\* Smaller lists stay short.
<1>d. ASSUME NEW big \in SUBSET Words, NEW small \in SUBSET big, Cardinality(big) <= MaxTyped
      PROVE  Cardinality(small) <= MaxTyped
  <2>1. IsFiniteSet(big) /\ IsFiniteSet(small)
    BY FS_Subset, EditorsAssumption
  <2>2. Cardinality(small) <= Cardinality(big)
    BY <2>1, FS_Subset
  <2> QED BY <1>d, <2>1, <2>2, FS_CardinalityType, EditorsAssumption
<1>1. ASSUME NEW l \in TypedLists \cup {"related"}, Type(l) PROVE All'
  BY <1>0, <1>c, <1>1 DEF Type
<1>2. ASSUME NEW l \in TypedLists, Add(l) PROVE All'
  <2>1. PICK kept \in SUBSET (lists[l] \cup LongEnough(typed[l])) :
          Cardinality(kept) <= MaxTyped /\ lists' = [lists EXCEPT ![l] = kept]
    BY <1>2 DEF Add
  <2>2. kept \subseteq Words
    BY <1>0, <2>1 DEF LongEnough
  <2>3. ListsOK' /\ Short'
    BY <1>0, <2>1, <2>2
  <2>4. TypedOK' /\ verdict' = "none" /\ UNCHANGED <<fields, related, menu>>
    BY <1>0, <1>2 DEF Add
  <2> QED BY <1>0, <1>b, <2>3, <2>4
<1>3. CASE AddRelated
  <2>1. PICK w \in typed["related"], domain \in {"right", "wrong"} :
          related' = Append(related, [name |-> w, domain |-> domain])
    BY <1>3 DEF AddRelated
  <2>4. [name |-> w, domain |-> domain] \in Entities
    BY <1>0 DEF Entities
  <2>2. related' \in Seq(Entities)
    BY <1>0, <2>1, <2>4
  <2>3. TypedOK' /\ verdict' = "none" /\ UNCHANGED <<lists, fields, menu>>
    BY <1>0, <1>3 DEF AddRelated
  <2> QED BY <1>0, <1>b, <2>2, <2>3
<1>4. ASSUME NEW l \in ChosenLists, OpenMenu(l) PROVE All'
  <2>1. menu' = [of |-> l, options |-> Words \ (lists[l] \cup {Letter})]
    BY <1>4 DEF OpenMenu
  <2> QED BY <1>0, <1>c, <1>4, <2>1 DEF OpenMenu
<1>5. CASE Query
  <2>1. PICK w \in menu.options : menu' = [menu EXCEPT !.options = @ \ {w}]
    BY <1>5 DEF Query
  <2> QED BY <1>0, <1>c, <1>5, <2>1 DEF Query
<1>6. CASE Choose
  <2>1. PICK w \in menu.options : lists' = [lists EXCEPT ![menu.of] = @ \cup {w}]
    BY <1>6 DEF Choose
  <2>2. menu.of \in ChosenLists /\ w \in Words
    BY <1>0, <1>6, <2>1 DEF Choose
  <2>3. ListsOK'
    BY <1>0, <2>1, <2>2
  <2>4. \A l \in TypedLists : lists'[l] = lists[l]
    BY <1>0, <2>1, <2>2, EditorsAssumption
  <2>5. menu' = NoMenu /\ verdict' = "none" /\ UNCHANGED <<fields, related, typed>>
    BY <1>6 DEF Choose
  <2> QED BY <1>0, <1>a, <1>b, <2>3, <2>4, <2>5
<1>7. CASE CloseMenu
  BY <1>0, <1>a, <1>c, <1>7 DEF CloseMenu
<1>8. CASE Drop
  <2>1. verdict' = "none" /\ UNCHANGED <<fields, typed, menu>>
    BY <1>8 DEF Drop
  <2>2. CASE /\ \E l \in DOMAIN lists : \E w \in lists[l] : lists' = [lists EXCEPT ![l] = @ \ {w}]
             /\ UNCHANGED related
    <3>1. PICK l \in TypedLists \cup ChosenLists :
            \E w \in lists[l] : lists' = [lists EXCEPT ![l] = @ \ {w}]
      BY <1>0, <2>2
    <3>2. PICK w \in lists[l] : lists' = [lists EXCEPT ![l] = @ \ {w}]
      BY <3>1
    <3>3. \A m \in TypedLists \cup ChosenLists : lists'[m] \subseteq lists[m]
      BY <1>0, <3>2
    <3>4. ListsOK'
      BY <1>0, <3>2
    <3>5. Short'
      BY <1>0, <1>d, <3>3
    <3> QED BY <1>0, <1>b, <2>1, <2>2, <3>4, <3>5
  <2>3. CASE /\ \E i \in DOMAIN related :
                  related' = SubSeq(related, 1, i - 1) \o SubSeq(related, i + 1, Len(related))
             /\ UNCHANGED lists
    <3>1. PICK i \in DOMAIN related :
            related' = SubSeq(related, 1, i - 1) \o SubSeq(related, i + 1, Len(related))
      BY <2>3
    <3>2. related' \in Seq(Entities)
      <4>1. i \in 1 .. Len(related) /\ Len(related) \in Nat
        BY <1>0, <3>1
      <4>2. /\ SubSeq(related, 1, i - 1) \in Seq(Entities)
            /\ SubSeq(related, i + 1, Len(related)) \in Seq(Entities)
        BY <1>0, <4>1, SubSeqProperties
      <4> QED BY <3>1, <4>2
    <3> QED BY <1>0, <1>b, <2>1, <2>3, <3>2
  <2> QED BY <1>8, <2>2, <2>3 DEF Drop
<1>9. CASE Submit
  <2>1. UNCHANGED <<lists, fields, related, typed, menu>> /\ verdict' \in {"accepted", "refused"}
    BY <1>9 DEF Submit
  <2>2. ASSUME verdict' = "refused"
        PROVE  \/ fields.name = "wrong" \/ fields.domain = "wrong"
               \/ \E i \in DOMAIN related : ~ValidEntity(related[i])
               \/ \E l \in ChosenLists : Cardinality(lists[l]) > MaxChosen
               \/ Len(related) > MaxRelated
    <3>1. ~Valid /\ fields.name \in {"right", "wrong"} /\ fields.domain \in {"right", "wrong"}
      BY <1>0, <1>9, <2>2 DEF Submit, Written
    <3>2. \A l \in ChosenLists : Cardinality(lists[l]) \in Nat
      <4> SUFFICES ASSUME NEW l \in ChosenLists PROVE Cardinality(lists[l]) \in Nat
        OBVIOUS
      <4>1. lists[l] \subseteq Words
        BY <1>0
      <4> QED BY <4>1, FS_Subset, FS_CardinalityType, EditorsAssumption
    <3>3. Len(related) \in Nat
      BY <1>0
    <3> QED BY <1>0, <3>1, <3>2, <3>3, EditorsAssumption DEF Valid
  <2>3. VerdictOK'
    BY <2>1, <2>2 DEF OnlyUncheckedInputIsRefused
  <2> QED BY <1>0, <2>1, <2>3
<1>10. CASE Fill
  <2>1. /\ verdict' = "none" /\ UNCHANGED <<lists, related, typed, menu>>
        /\ fields' \in [name : Written, domain : Written]
    BY <1>10 DEF Fill, Written
  <2> QED BY <1>0, <1>b, <2>1
<1>11. CASE UNCHANGED editorVars
  BY <1>0, <1>c, <1>11 DEF editorVars
<1> QED BY <1>1, <1>2, <1>3, <1>4, <1>5, <1>6, <1>7, <1>8, <1>9, <1>10, <1>11 DEF EditorsNext


EditorsInv == EditorsTypeOK /\ ListsInv
ClientsInv == ClientsTypeOK /\ UnsavedInv
DraftInv == DraftTypeOK /\ DraftsInv

-----------------------------------------------------------------------------
(* Proofs about the corner of the AI tasks. *)

\* The queue moves on, and what has ended stays as it is.
LEMMA QueueFacts ==
  ASSUME queue \in Statuses, [Server!Next]_queue
  PROVE  queue' \in Statuses /\ After(queue, queue')
<1> USE CenterAssumption DEF Statuses, CenterJobs, Pending, HasEnded, Server!Jobs, Server!Ended
<1>1. ASSUME NEW j \in CenterJobs, Server!Submit(j)
      PROVE  queue' \in Statuses /\ After(queue, queue')
  BY <1>1 DEF Server!Submit, After
<1>2. ASSUME NEW j \in CenterJobs, Server!Take(j)
      PROVE  queue' \in Statuses /\ After(queue, queue')
  BY <1>2 DEF Server!Take, Server!Oldest, After
<1>3. ASSUME NEW j \in CenterJobs, NEW outcome \in HasEnded, Server!End(j, outcome)
      PROVE  queue' \in Statuses /\ After(queue, queue')
  BY <1>3 DEF Server!End, After
<1>4. CASE Server!Interrupt
  BY <1>4 DEF Server!Interrupt, After
<1>5. CASE UNCHANGED queue
  BY <1>5 DEF After
<1> QED BY <1>1, <1>2, <1>3, <1>4, <1>5 DEF Server!Next

LEMMA AfterFacts ==
  /\ \A s : After(s, s)
  /\ \A s, t, u : After(s, t) /\ After(t, u) => After(s, u)
BY DEF After, HasEnded

LEMMA CenterInitially == CenterInit => CenterTypeOK /\ PollsInv /\ RefreshInv
<1> SUFFICES ASSUME CenterInit PROVE CenterTypeOK /\ PollsInv /\ RefreshInv
  OBVIOUS
<1> USE CenterAssumption DEF CenterInit
<1>0. queue = [j \in CenterJobs |-> "unused"] /\ watched = queue /\ polls = <<>>
  BY DEF Server!Init, CenterJobs, Server!Jobs
<1>1. CenterTypeOK
  <2>1. queue \in Statuses
    BY <1>0 DEF Statuses
  <2>2. aiJobs \in Answers
    BY <2>1 DEF Answers
  <2>3. Len(polls) <= MaxPolls /\ DOMAIN polls = {}
    BY <1>0
  <2>4. marks \in [CenterJobs -> {"none", "sent", "served"}] /\ refreshed \in [CenterJobs -> 0 .. 2]
    OBVIOUS
  <2>5. seenAt \subseteq CenterJobs /\ noticed \subseteq CenterJobs
    OBVIOUS
  <2>6. watched \in Statuses /\ overtaken \in BOOLEAN
    BY <1>0, <2>1
  <2> QED BY <2>1, <2>2, <2>3, <2>4, <2>5, <2>6 DEF CenterTypeOK
<1>2. PollsInv
  BY <1>0, AfterFacts DEF PollsInv
<1>3. RefreshInv
  BY <1>0 DEF RefreshInv, RefreshedOncePerJob, Pending, HasEnded
<1> QED BY <1>1, <1>2, <1>3

\* What a poll that is answered finds, and leaves.
LEMMA ReceivePollFacts ==
  ASSUME PollsInv, NEW i \in 1 .. MaxPolls, ReceivePoll(i)
  PROVE  /\ i \in DOMAIN polls /\ polls[i] \in Poll
         /\ polls' \in Seq(Poll) /\ Len(polls') = Len(polls) - 1
         /\ \A k \in 1 .. Len(polls') : k < i => polls'[k] = [polls[k] EXCEPT !.late = TRUE]
         /\ \A k \in 1 .. Len(polls') : k >= i => polls'[k] = polls[k + 1]
<1>1. polls \in Seq(Poll) /\ i \in DOMAIN polls
  BY DEF PollsInv, ReceivePoll
<1>2. TellLate(Poll)
  BY DEF TellLate, Poll
<1>3. polls' = Settled(polls, i)
  BY DEF ReceivePoll, Settled
<1>4. /\ polls' \in Seq(Poll) /\ Len(polls') = Len(polls) - 1
      /\ \A k \in 1 .. Len(polls) - 1 : k < i => polls'[k] = [polls[k] EXCEPT !.late = TRUE]
      /\ \A k \in 1 .. Len(polls) - 1 : k >= i => polls'[k] = polls[k + 1]
  BY <1>1, <1>2, <1>3, SettleFacts
<1> QED BY <1>1, <1>4

LEMMA CenterTypeStep ==
  ASSUME CenterTypeOK, PollsInv, [CenterNext]_centerVars PROVE CenterTypeOK'
<1> USE CenterAssumption
<1> DEFINE PollsOK == /\ Len(polls) <= MaxPolls
                      /\ \A i \in DOMAIN polls : polls[i].answer \in Answers /\ polls[i].late \in BOOLEAN
<1>0. /\ queue \in Statuses /\ seenAt \subseteq CenterJobs /\ PollsOK /\ aiJobs \in Answers
      /\ watched \in Statuses /\ marks \in [CenterJobs -> {"none", "sent", "served"}]
      /\ refreshed \in [CenterJobs -> 0 .. 2] /\ noticed \subseteq CenterJobs
      /\ overtaken \in BOOLEAN /\ polls \in Seq(Poll)
  BY DEF CenterTypeOK, PollsInv
<1> SUFFICES
      /\ queue' \in Statuses /\ seenAt' \subseteq CenterJobs /\ PollsOK' /\ aiJobs' \in Answers
      /\ watched' \in Statuses /\ marks' \in [CenterJobs -> {"none", "sent", "served"}]
      /\ refreshed' \in [CenterJobs -> 0 .. 2] /\ noticed' \subseteq CenterJobs
      /\ overtaken' \in BOOLEAN
  BY DEF CenterTypeOK
<1> DEFINE Goal ==
      /\ queue' \in Statuses /\ seenAt' \subseteq CenterJobs /\ PollsOK' /\ aiJobs' \in Answers
      /\ watched' \in Statuses /\ marks' \in [CenterJobs -> {"none", "sent", "served"}]
      /\ refreshed' \in [CenterJobs -> 0 .. 2] /\ noticed' \subseteq CenterJobs
      /\ overtaken' \in BOOLEAN
<1>a. ASSUME NEW s \in Seq(Poll), NEW i \in DOMAIN s
      PROVE  s[i].answer \in Answers /\ s[i].late \in BOOLEAN
  <2>1. s[i] \in Poll
    OBVIOUS
  <2> QED BY <2>1 DEF Poll
<1>1. CASE QueueMoves
  BY <1>0, <1>1, QueueFacts DEF QueueMoves, shownVars
<1>2. CASE ServePoll
  <2>1. [answer |-> [status |-> queue, seen |-> seenAt], late |-> FALSE] \in Poll
    BY <1>0 DEF Poll, Answers
  <2>2. polls' \in Seq(Poll) /\ Len(polls') <= MaxPolls
    BY <1>0, <1>2, <2>1 DEF ServePoll
  <2>3. PollsOK'
    BY <1>a, <2>2
  <2> QED BY <1>0, <1>2, <2>3 DEF ServePoll, shownVars
<1>3. ASSUME NEW i \in 1 .. MaxPolls, ReceivePoll(i) PROVE Goal
  <2>1. /\ i \in DOMAIN polls /\ polls[i] \in Poll
        /\ polls' \in Seq(Poll) /\ Len(polls') = Len(polls) - 1
    BY <1>3, ReceivePollFacts
  <2>2. PollsOK'
    <3>1. Len(polls') <= MaxPolls
      BY <1>0, <2>1
    <3> QED BY <1>a, <2>1, <3>1
  <2>3. polls[i].answer \in Answers /\ polls[i].answer.status \in Statuses /\ polls[i].late \in BOOLEAN
    BY <2>1 DEF Poll, Answers
  <2>4. aiJobs' \in Answers /\ watched' \in Statuses /\ UNCHANGED <<queue, seenAt, marks>>
    BY <1>3, <2>3 DEF ReceivePoll
  <2>5. noticed' \subseteq CenterJobs
    BY <1>0, <1>3 DEF ReceivePoll
  <2>6. overtaken' \in BOOLEAN
    BY <1>3 DEF ReceivePoll
  <2>7. refreshed' \in [CenterJobs -> 0 .. 2]
    <3>1. \A j \in CenterJobs : refreshed[j] \in 0 .. 2 /\ (refreshed[j] < 2 => refreshed[j] + 1 \in 0 .. 2)
      BY <1>0
    <3>2. refreshed' = [j \in CenterJobs |->
             IF FinishedNow(watched, polls[i].answer.status, j) /\ refreshed[j] < 2
               THEN refreshed[j] + 1 ELSE refreshed[j]]
      BY <1>3 DEF ReceivePoll
    <3> QED BY <3>1, <3>2
  <2> QED BY <1>0, <2>2, <2>4, <2>5, <2>6, <2>7
<1>4. ASSUME NEW j \in CenterJobs, MarkSeen(j) PROVE Goal
  BY <1>0, <1>4 DEF MarkSeen, shownVars
<1>5. ASSUME NEW j \in CenterJobs, ServeMark(j) PROVE Goal
  BY <1>0, <1>5 DEF ServeMark, shownVars
<1>6. ASSUME NEW j \in CenterJobs, ReceiveMark(j) PROVE Goal
  <2>1. [status |-> [aiJobs.status EXCEPT ![j] = queue[j]], seen |-> aiJobs.seen \cup {j}] \in Answers
    BY <1>0 DEF Answers, Statuses
  <2>2. aiJobs' \in Answers
    BY <1>0, <1>6, <2>1 DEF ReceiveMark
  <2> QED BY <1>0, <1>6, <2>2 DEF ReceiveMark
<1>7. CASE UNCHANGED centerVars
  BY <1>0, <1>7 DEF centerVars
<1> QED BY <1>1, <1>2, <1>3, <1>4, <1>5, <1>6, <1>7 DEF CenterNext

LEMMA PollsStep ==
  ASSUME CenterTypeOK, PollsInv, [CenterNext]_centerVars PROVE PollsInv'
<1> DEFINE Status(i) == polls[i].answer.status
           BeforeQueue == \A i \in DOMAIN polls : After(Status(i), queue)
           InOrder == \A i, k \in DOMAIN polls : i < k => After(Status(i), Status(k))
           AfterWatched == ~overtaken =>
             \A i \in DOMAIN polls : ~polls[i].late => After(watched, Status(i))
           WatchedBefore == After(watched, queue)
<1>0. /\ polls \in Seq(Poll) /\ BeforeQueue /\ InOrder /\ AfterWatched /\ WatchedBefore
      /\ queue \in Statuses /\ DOMAIN polls = 1 .. Len(polls) /\ Len(polls) \in Nat
  BY DEF PollsInv, PollStatus, CenterTypeOK
<1> SUFFICES polls' \in Seq(Poll) /\ BeforeQueue' /\ InOrder' /\ AfterWatched' /\ WatchedBefore'
  BY DEF PollsInv, PollStatus
<1> DEFINE Goal == polls' \in Seq(Poll) /\ BeforeQueue' /\ InOrder' /\ AfterWatched' /\ WatchedBefore'
<1>1. CASE QueueMoves
  <2>1. UNCHANGED <<polls, watched, overtaken>> /\ After(queue, queue')
    BY <1>0, <1>1, QueueFacts DEF QueueMoves, shownVars
  <2>2. BeforeQueue' /\ WatchedBefore'
    BY <1>0, <2>1, AfterFacts
  <2> QED BY <1>0, <2>1, <2>2
<1>2. CASE ServePoll
  <2> DEFINE new == [answer |-> [status |-> queue, seen |-> seenAt], late |-> FALSE]
  <2>1. new \in Poll /\ new.answer.status = queue
    BY DEF Poll, Answers, CenterTypeOK
  <2>2. polls' = Append(polls, new) /\ UNCHANGED <<queue, watched, overtaken>>
    BY <1>2 DEF ServePoll, shownVars
  <2> HIDE DEF new
  <2>3. /\ polls' \in Seq(Poll) /\ DOMAIN polls' = 1 .. Len(polls) + 1
        /\ polls'[Len(polls) + 1] = new
        /\ \A k \in 1 .. Len(polls) : polls'[k] = polls[k]
    BY <1>0, <2>1, <2>2
  <2>4. \A k \in DOMAIN polls' : Status(k)' = IF k \in DOMAIN polls THEN Status(k) ELSE queue
    BY <1>0, <2>1, <2>3
  <2>5. BeforeQueue'
    BY <1>0, <2>2, <2>4, AfterFacts
  <2>6. InOrder'
    <3> SUFFICES ASSUME NEW i \in DOMAIN polls', NEW k \in DOMAIN polls', i < k
                 PROVE  After(Status(i)', Status(k)')
      OBVIOUS
    <3>1. i \in DOMAIN polls
      BY <1>0, <2>3
    <3> QED BY <1>0, <2>4, <3>1
  <2>7. AfterWatched'
    <3> SUFFICES ASSUME ~overtaken, NEW i \in DOMAIN polls', ~polls'[i].late
                 PROVE  After(watched, Status(i)')
      BY <2>2
    <3> QED BY <1>0, <2>3, <2>4
  <2> QED BY <1>0, <2>2, <2>3, <2>5, <2>6, <2>7
<1>3. ASSUME NEW i \in 1 .. MaxPolls, ReceivePoll(i) PROVE Goal
  <2>1. /\ i \in DOMAIN polls /\ polls[i] \in Poll
        /\ polls' \in Seq(Poll) /\ Len(polls') = Len(polls) - 1
        /\ \A k \in 1 .. Len(polls') : k < i => polls'[k] = [polls[k] EXCEPT !.late = TRUE]
        /\ \A k \in 1 .. Len(polls') : k >= i => polls'[k] = polls[k + 1]
    BY <1>3, ReceivePollFacts
  <2>2. /\ watched' = Status(i) /\ overtaken' = (overtaken \/ polls[i].late) /\ UNCHANGED queue
    BY <1>3 DEF ReceivePoll
  <2>3. DOMAIN polls' = 1 .. Len(polls')
    BY <2>1
  \* The place each of the others had.
  <2> DEFINE was(k) == IF k < i THEN k ELSE k + 1
  <2>4. ASSUME NEW k \in DOMAIN polls'
        PROVE  /\ was(k) \in DOMAIN polls /\ was(k) # i
               /\ Status(k)' = Status(was(k))
               /\ k < i => polls'[k].late
               /\ k >= i => was(k) > i /\ polls'[k].late = polls[was(k)].late
    <3>0. k \in 1 .. Len(polls') /\ k \in Nat /\ i \in Nat
      BY <2>3
    <3>1. CASE k < i
      <4>1. k \in DOMAIN polls /\ polls[k] \in Poll
        BY <1>0, <2>1, <3>0
      <4>2. polls'[k] = [polls[k] EXCEPT !.late = TRUE]
        BY <2>1, <3>0, <3>1
      <4>3. polls'[k].answer = polls[k].answer /\ polls'[k].late
        BY <4>1, <4>2 DEF Poll
      <4>4. was(k) = k /\ k # i /\ ~(k >= i)
        BY <3>0, <3>1
      <4> QED BY <4>1, <4>3, <4>4
    <3>2. CASE k >= i
      <4>1. k + 1 \in DOMAIN polls /\ ~(k < i) /\ k + 1 > i
        BY <1>0, <2>1, <3>0, <3>2
      <4>2. polls'[k] = polls[k + 1]
        BY <2>1, <3>0, <3>2
      <4> QED BY <3>0, <3>2, <4>1, <4>2
    <3> QED BY <3>0, <3>1, <3>2
  <2>5. \A k, m \in DOMAIN polls' : k < m => was(k) < was(m)
    BY <2>3
  <2> HIDE DEF was
  <2>6. BeforeQueue' /\ WatchedBefore'
    BY <1>0, <2>1, <2>2, <2>4
  <2>7. InOrder'
    BY <1>0, <2>4, <2>5
  <2>8. AfterWatched'
    <3> SUFFICES ASSUME NEW k \in DOMAIN polls', ~polls'[k].late PROVE After(watched', Status(k)')
      OBVIOUS
    <3>1. k >= i /\ was(k) > i
      BY <2>3, <2>4
    <3> QED BY <1>0, <2>1, <2>2, <2>4, <3>1
  <2> QED BY <2>1, <2>6, <2>7, <2>8
<1>4. CASE \/ \E j \in CenterJobs : MarkSeen(j) \/ ServeMark(j) \/ ReceiveMark(j)
           \/ UNCHANGED centerVars
  <2>1. UNCHANGED <<polls, watched, overtaken, queue>>
    BY <1>4 DEF MarkSeen, ServeMark, ReceiveMark, centerVars, shownVars
  <2> QED BY <1>0, <2>1
<1> QED BY <1>1, <1>2, <1>3, <1>4 DEF CenterNext

LEMMA RefreshStep ==
  ASSUME CenterTypeOK, PollsInv, RefreshInv, [CenterNext]_centerVars PROVE RefreshInv'
<1> DEFINE Noticed == \A j \in CenterJobs : watched[j] \in Pending => j \in noticed
           Known_ == ~overtaken => \A j \in noticed : watched[j] # "unused"
<1>0. /\ Noticed /\ Known_ /\ RefreshedOncePerJob
      /\ watched \in Statuses /\ refreshed \in [CenterJobs -> 0 .. 2] /\ noticed \subseteq CenterJobs
  BY DEF RefreshInv, CenterTypeOK
<1>1. CASE \/ QueueMoves \/ ServePoll
           \/ \E j \in CenterJobs : MarkSeen(j) \/ ServeMark(j) \/ ReceiveMark(j)
           \/ UNCHANGED centerVars
  <2>1. UNCHANGED <<watched, refreshed, noticed, overtaken>>
    BY <1>1 DEF QueueMoves, ServePoll, MarkSeen, ServeMark, ReceiveMark, centerVars, shownVars
  <2> QED BY <2>1 DEF RefreshInv, RefreshedOncePerJob
<1>2. ASSUME NEW i \in 1 .. MaxPolls, ReceivePoll(i) PROVE RefreshInv'
  <2> DEFINE new == polls[i].answer.status
  <2>1. /\ i \in DOMAIN polls /\ polls[i] \in Poll
    BY <1>2, ReceivePollFacts
  <2>2. new \in Statuses
    BY <2>1 DEF Poll, Answers
  <2>3. /\ watched' = new /\ overtaken' = (overtaken \/ polls[i].late)
        /\ noticed' = noticed \cup {j \in CenterJobs : new[j] \in Pending}
        /\ refreshed' = [j \in CenterJobs |->
             IF FinishedNow(watched, new, j) /\ refreshed[j] < 2
               THEN refreshed[j] + 1 ELSE refreshed[j]]
    BY <1>2 DEF ReceivePoll
  <2>4. Noticed'
    BY <2>3
  <2>5. ASSUME ~overtaken' PROVE ~overtaken /\ After(watched, new)
    BY <2>1, <2>3, <2>5 DEF PollsInv, PollStatus
  <2> HIDE DEF new
  <2>6. Known_'
    BY <1>0, <2>3, <2>5 DEF After, Pending
  <2>7. ASSUME ~overtaken', NEW j \in CenterJobs
        PROVE  refreshed'[j] = IF j \in noticed' /\ new[j] \in HasEnded THEN 1 ELSE 0
    <3>1. /\ refreshed[j] = IF j \in noticed /\ watched[j] \in HasEnded THEN 1 ELSE 0
          /\ j \in noticed => watched[j] # "unused"
          /\ watched[j] \in Pending => j \in noticed
          /\ watched[j] \in HasEnded => new[j] = watched[j]
          /\ watched[j] # "unused" => new[j] # "unused"
      BY <1>0, <2>5, <2>7 DEF RefreshedOncePerJob, After
    <3>2. /\ watched[j] \in {"unused"} \cup Pending \cup HasEnded
          /\ new[j] \in {"unused"} \cup Pending \cup HasEnded
      BY <1>0, <2>2 DEF Statuses
    <3>3. refreshed'[j] = IF new[j] \in HasEnded /\ watched[j] \in Pending
                            THEN refreshed[j] + 1 ELSE refreshed[j]
      BY <1>0, <2>3, <3>1 DEF FinishedNow
    <3>4. j \in noticed' <=> j \in noticed \/ new[j] \in Pending
      BY <2>3
    <3> QED BY <3>1, <3>2, <3>3, <3>4 DEF Pending, HasEnded
  <2> QED BY <2>3, <2>4, <2>6, <2>7 DEF RefreshInv, RefreshedOncePerJob
<1> QED BY <1>1, <1>2 DEF CenterNext


CenterInv == CenterTypeOK /\ PollsInv /\ RefreshInv

-----------------------------------------------------------------------------
(* Proofs about the alert list. *)

\* KeptPrefixes is the function its recursive definition describes.
LEMMA KeptPrefixesExist ==
  ASSUME NEW ids \in Seq(Alerts), NEW kept
  PROVE  /\ KeptPrefixes(ids, kept)[0] = <<>>
         /\ \A n \in 1 .. Len(ids) :
              KeptPrefixes(ids, kept)[n] =
                IF ids[n] \in kept THEN Append(KeptPrefixes(ids, kept)[n - 1], ids[n])
                ELSE KeptPrefixes(ids, kept)[n - 1]
<1> DEFINE p == KeptPrefixes(ids, kept)
<1> DEFINE Body(f, n) == IF n = 0 THEN <<>>
                         ELSE IF ids[n] \in kept THEN Append(f[n - 1], ids[n]) ELSE f[n - 1]
           G == {n \in Nat : \E f : f = [k \in 0 .. n |-> Body(f, k)]}
<1>0. Len(ids) \in Nat
  OBVIOUS
<1>1. 0 \in G
  <2>1. [k \in 0 .. 0 |-> <<>>] = [k \in 0 .. 0 |-> Body([m \in 0 .. 0 |-> <<>>], k)]
    OBVIOUS
  <2> QED BY <2>1
<1>a. \A f, h : \A k \in Nat : (k # 0 => f[k - 1] = h[k - 1]) => Body(f, k) = Body(h, k)
  OBVIOUS
<1>2. ASSUME NEW n \in Nat, n \in G PROVE n + 1 \in G
  <2>1. PICK f : f = [k \in 0 .. n |-> Body(f, k)]
    BY <1>2
  <2> HIDE DEF Body
  <2>2. \A k \in 0 .. n : f[k] = Body(f, k)
    BY <2>1
  <2> DEFINE g == [k \in 0 .. n + 1 |-> IF k <= n THEN f[k] ELSE Body(f, n + 1)]
  <2>3. g[n + 1] = Body(f, n + 1) /\ \A k \in 0 .. n : g[k] = f[k]
    OBVIOUS
  <2>4. g = [k \in 0 .. n + 1 |-> g[k]]
    OBVIOUS
  <2> HIDE DEF g
  <2>5. ASSUME NEW k \in 0 .. n + 1 PROVE g[k] = Body(g, k)
    <3>1. Body(f, k) = Body(g, k)
      <4>1. k \in Nat /\ (k # 0 => k - 1 \in 0 .. n)
        OBVIOUS
      <4> QED BY <1>a, <2>3, <4>1
    <3>2. k \in 0 .. n \/ k = n + 1
      OBVIOUS
    <3> QED BY <2>2, <2>3, <3>1, <3>2
  <2>6. g = [k \in 0 .. n + 1 |-> Body(g, k)]
    BY <2>4, <2>5
  <2> QED BY <2>6
<1>3. Len(ids) \in G
  <2> HIDE DEF G
  <2> QED BY <1>0, <1>1, <1>2, NatSetInduction
<1>4. \E f : f = [n \in 0 .. Len(ids) |-> Body(f, n)]
  BY <1>3
<1>5. p = [n \in 0 .. Len(ids) |-> Body(p, n)]
  BY <1>4 DEF KeptPrefixes
<1> HIDE DEF p
<1>6. \A n \in 0 .. Len(ids) : p[n] = Body(p, n)
  <2> HIDE DEF Body
  <2> QED BY <1>5
<1>7. p[0] = <<>>
  <2>1. p[0] = Body(p, 0)
    <3> HIDE DEF Body
    <3> QED BY <1>0, <1>6
  <2> QED BY <2>1
<1>8. ASSUME NEW n \in 1 .. Len(ids)
      PROVE  p[n] = IF ids[n] \in kept THEN Append(p[n - 1], ids[n]) ELSE p[n - 1]
  <2>1. p[n] = Body(p, n) /\ n # 0
    <3> HIDE DEF Body
    <3> QED BY <1>0, <1>6
  <2>2. Body(p, n) = IF ids[n] \in kept THEN Append(p[n - 1], ids[n]) ELSE p[n - 1]
    BY <2>1, Zenon
  <2> HIDE DEF Body
  <2> QED BY <2>1, <2>2, Zenon
<1> QED BY <1>7, <1>8, Zenon DEF p

\* What is kept of different ids are some of them, and different.
LEMMA KeepFacts ==
  ASSUME NEW ids \in Seq(Alerts), IsInjective(ids), NEW kept
  PROVE  /\ Keep(ids, kept) \in Seq(Alerts) /\ IsInjective(Keep(ids, kept))
         /\ ToSet(Keep(ids, kept)) \subseteq ToSet(ids)
<1> DEFINE p == KeptPrefixes(ids, kept)
           Good(n) == /\ p[n] \in Seq(Alerts)
                      /\ \A i \in 1 .. Len(p[n]) : \E k \in 1 .. n : p[n][i] = ids[k]
                      /\ \A i, j \in 1 .. Len(p[n]) : p[n][i] = p[n][j] => i = j
           G == {n \in Nat : n <= Len(ids) => Good(n)}
<1>0. Len(ids) \in Nat
  OBVIOUS
<1>a. \A k, m \in 1 .. Len(ids) : ids[k] = ids[m] => k = m
  BY DEF IsInjective
<1> DEFINE Grown(n) == IF ids[n] \in kept THEN Append(p[n - 1], ids[n]) ELSE p[n - 1]
<1>1. p[0] = <<>> /\ \A n \in 1 .. Len(ids) : p[n] = Grown(n)
  <2>1. /\ KeptPrefixes(ids, kept)[0] = <<>>
        /\ \A n \in 1 .. Len(ids) :
             KeptPrefixes(ids, kept)[n] =
               IF ids[n] \in kept THEN Append(KeptPrefixes(ids, kept)[n - 1], ids[n])
               ELSE KeptPrefixes(ids, kept)[n - 1]
    BY KeptPrefixesExist
  <2> QED BY <2>1, Zenon
<1> HIDE DEF p, Grown
<1>2. 0 \in G
  <2>1. p[0] \in Seq(Alerts) /\ 1 .. Len(p[0]) = {}
    BY <1>1
  <2> QED BY <2>1
<1>3. ASSUME NEW n \in Nat, n \in G PROVE n + 1 \in G
  <2> SUFFICES ASSUME n + 1 <= Len(ids) PROVE Good(n + 1)
    OBVIOUS
  <2>1. Good(n) /\ n + 1 \in 1 .. Len(ids) /\ n \in 0 .. Len(ids)
    BY <1>0, <1>3
  <2>a. p[n + 1] = Grown(n + 1) /\ n + 1 - 1 = n
    BY <1>1, <2>1
  <2>2. CASE ids[n + 1] \notin kept
    <3>1. p[n + 1] = p[n]
      BY <2>a, <2>2 DEF Grown
    <3> QED BY <2>1, <3>1
  <2>3. CASE ids[n + 1] \in kept
    <3>1. p[n + 1] = Append(p[n], ids[n + 1])
      BY <2>a, <2>3 DEF Grown
    <3> DEFINE s == p[n]
               x == ids[n + 1]
               t == p[n + 1]
    <3>2. s \in Seq(Alerts) /\ x \in Alerts /\ t = Append(s, x) /\ Len(s) \in Nat
      BY <2>1, <3>1
    <3>3. \A i \in 1 .. Len(s) : s[i] # x /\ \E k \in 1 .. n : s[i] = ids[k]
      BY <1>0, <1>a, <2>1
    <3>4. \A i, j \in 1 .. Len(s) : s[i] = s[j] => i = j
      BY <2>1
    <3> HIDE DEF s, x, t
    <3>5. t \in Seq(Alerts) /\ Len(t) = Len(s) + 1 /\ t[Len(s) + 1] = x
          /\ \A i \in 1 .. Len(s) : t[i] = s[i]
      BY <3>2
    <3>6. \A i, j \in 1 .. Len(t) : t[i] = t[j] => i = j
      BY <3>2, <3>3, <3>4, <3>5
    <3>7. ASSUME NEW i \in 1 .. Len(t) PROVE \E k \in 1 .. n + 1 : t[i] = ids[k]
      <4>1. CASE i = Len(s) + 1
        BY <3>5, <4>1 DEF x
      <4>2. CASE i # Len(s) + 1
        <5>1. i \in 1 .. Len(s)
          BY <3>2, <3>5, <4>2
        <5>2. PICK k \in 1 .. n : s[i] = ids[k]
          BY <3>3, <5>1
        <5> QED BY <3>5, <5>1, <5>2
      <4> QED BY <4>1, <4>2
    <3> QED BY <3>5, <3>6, <3>7 DEF t
  <2> QED BY <2>2, <2>3
<1>4. Len(ids) \in G
  <2> HIDE DEF G
  <2> QED BY <1>0, <1>2, <1>3, NatSetInduction
<1>5. Good(Len(ids))
  BY <1>0, <1>4
<1>6. Keep(ids, kept) = p[Len(ids)]
  BY DEF Keep, p
<1> QED BY <1>5, <1>6 DEF ToSet, IsInjective


RowsInv ==
  /\ desk \in Rows /\ live \in Rows
  /\ filter \in [tab : Tabs, only : {Alerts} \cup Facets]
  /\ refreshes \in [{"timer", "bulk"} -> [seen : BOOLEAN, rows : Rows]]
  /\ losses \in 0 .. MaxLost

ListInv == RowsInv /\ BulkInv /\ SelectionInv

LEMMA ListTypes == ListInv => ListTypeOK
<1> SUFFICES ASSUME ListInv PROVE ListTypeOK
  OBVIOUS
<1>1. ToSet(selectedIds) \subseteq Alerts
  BY DEF ListInv, SelectionInv, ToSet
<1>2. bulk.queued \in 0 .. Len(bulk.ids) /\ ToSet(bulk.ids) \subseteq Alerts
  BY DEF ListInv, BulkInv, BulkType, ToSet
<1> QED BY <1>1, <1>2 DEF ListInv, RowsInv, BulkInv, SelectionInv, BulkType, ListTypeOK

LEMMA ListInitially == ListInit => ListInv
<1> SUFFICES ASSUME ListInit PROVE ListInv
  OBVIOUS
<1> USE ListAssumption DEF ListInit
<1>1. RowsInv
  BY DEF RowsInv, Rows, Unanswered, Gone
<1>2. Quiet \in BulkType
  BY DEF Quiet, BulkType
<1>3. BulkInv
  <2>1. bulk = Quiet /\ bulk.ids = <<>> /\ bulk.op = "status" /\ bulk.queued = 0
        /\ bulk.failures = {} /\ bulk.stored = {} /\ bulk.outcome = "none"
    BY DEF Quiet
  <2>2. IsInjective(bulk.ids)
    BY <2>1 DEF IsInjective
  <2> QED BY <1>2, <2>1, <2>2 DEF BulkInv
<1>4. SelectionInv
  BY DEF SelectionInv, FailedRunKeepsTheRest, Quiet, IsInjective
<1> QED BY <1>1, <1>3, <1>4 DEF ListInv

\* The next chunk of a run follows the ids it has queued.
LEMMA ChunkFacts ==
  ASSUME BulkInv
  PROVE  /\ ChunkEnd \in Nat /\ bulk.queued <= ChunkEnd /\ ChunkEnd <= Len(bulk.ids)
         /\ Chunk \subseteq ToSet(bulk.ids)
         /\ FirstIds(ChunkEnd) = FirstIds(bulk.queued) \cup Chunk
         /\ FirstIds(Len(bulk.ids)) = ToSet(bulk.ids)
<1> DEFINE ids == bulk.ids
           q == bulk.queued
<1>1. ids \in Seq(Alerts) /\ q \in Nat /\ q <= Len(ids) /\ Len(ids) \in Nat
  BY DEF BulkInv, BulkType
<1>2. ChunkEnd \in Nat /\ q <= ChunkEnd /\ ChunkEnd <= Len(ids)
  BY <1>1, ListAssumption DEF ChunkEnd
<1>3. Chunk = {ids[k] : k \in q + 1 .. ChunkEnd}
  <2>1. q + 1 \in 1 .. Len(ids) + 1 /\ ChunkEnd \in 0 .. Len(ids) /\ q + 1 <= ChunkEnd + 1
    BY <1>1, <1>2
  <2> HIDE DEF ids, q
  <2>2. ToSet(SubSeq(ids, q + 1, ChunkEnd)) = {ids[k] : k \in q + 1 .. ChunkEnd}
    BY <1>1, <2>1, SliceFacts
  <2> QED BY <2>2 DEF Chunk, ids, q
<1>4. ToSet(ids) = {ids[k] : k \in 1 .. Len(ids)}
  BY <1>1 DEF ToSet
<1> HIDE DEF ids, q
<1>5. \A n : FirstIds(n) = {ids[k] : k \in 1 .. n}
  BY DEF FirstIds, ids
<1>6. 1 .. ChunkEnd = (1 .. q) \cup (q + 1 .. ChunkEnd) /\ q + 1 .. ChunkEnd \subseteq 1 .. Len(ids)
  BY <1>1, <1>2
<1>7. Chunk \subseteq ToSet(ids)
  BY <1>3, <1>4, <1>6
<1>8. FirstIds(ChunkEnd) = FirstIds(q) \cup Chunk
  <2> DEFINE A == 1 .. q
             B == q + 1 .. ChunkEnd
             C == 1 .. ChunkEnd
  <2>1. C = A \cup B
    BY <1>6
  <2>2. FirstIds(ChunkEnd) = {ids[k] : k \in C} /\ FirstIds(q) = {ids[k] : k \in A}
        /\ Chunk = {ids[k] : k \in B}
    BY <1>3, <1>5
  <2> HIDE DEF A, B, C
  <2> QED BY <2>1, <2>2
<1> QED BY <1>2, <1>4, <1>5, <1>7, <1>8 DEF ids, q

LEMMA RowsStep ==
  ASSUME ListInv, [ListNext]_listVars PROVE RowsInv'
<1> DEFINE RefreshType == [{"timer", "bulk"} -> [seen : BOOLEAN, rows : Rows]]
           Filters == [tab : Tabs, only : {Alerts} \cup Facets]
<1>0. /\ desk \in Rows /\ live \in Rows /\ filter \in Filters
      /\ refreshes \in RefreshType /\ losses \in 0 .. MaxLost
  BY DEF ListInv, RowsInv
<1> SUFFICES /\ desk' \in Rows /\ live' \in Rows /\ filter' \in Filters
             /\ refreshes' \in RefreshType /\ losses' \in 0 .. MaxLost
  BY DEF RowsInv
<1>a. /\ bulk.status \in AlertStatuses /\ "dismissed" \in AlertStatuses
      /\ Unanswered \in [seen : BOOLEAN, rows : Rows]
  BY ListAssumption DEF ListInv, BulkInv, BulkType, Unanswered, Rows
<1>b. losses < MaxLost => losses + 1 \in 0 .. MaxLost
  BY <1>0, ListAssumption
<1> DEFINE Goal == /\ desk' \in Rows /\ live' \in Rows /\ filter' \in Filters
                   /\ refreshes' \in RefreshType /\ losses' \in 0 .. MaxLost
<1> HIDE DEF Filters
<1>1. CASE SetFilter
  BY <1>0, <1>1 DEF SetFilter, Filters
<1>2. ASSUME NEW ids, Select(ids) PROVE Goal
  BY <1>0, <1>2 DEF Select
<1>3. ASSUME NEW a \in Alerts, RemoveAlert(a) PROVE Goal
  BY <1>0, <1>3 DEF RemoveAlert, Rows, Gone
<1>4. ASSUME NEW op, NEW s, StartBulk(op, s) PROVE Goal
  BY <1>0, <1>4 DEF StartBulk
<1>5. CASE ServeBulk
  <2>1. desk' \in Rows
    BY <1>0, <1>5, <1>a DEF ServeBulk, ServeStatus, ServeChunk, ServeFalseMatches, Rows
  <2> QED BY <1>0, <1>5, <2>1 DEF ServeBulk
<1>6. CASE LoseBulk
  BY <1>0, <1>6, <1>b DEF LoseBulk
<1>7. CASE ReceiveBulk
  <2>1. live' \in Rows
    BY <1>0, <1>7, <1>a
       DEF ReceiveBulk, BulkStatusAnswered, ChunkQueued, FalseMatchesRecorded, BulkFailed, Rows
  <2> QED BY <1>0, <1>7, <2>1 DEF ReceiveBulk
<1>8. ASSUME NEW by \in {"timer", "bulk"}, ServeRefresh(by) PROVE Goal
  BY <1>0, <1>8 DEF ServeRefresh
<1>9. ASSUME NEW by \in {"timer", "bulk"}, ReceiveRefresh(by) PROVE Goal
  BY <1>0, <1>9, <1>a DEF ReceiveRefresh, ShowRows
<1>10. CASE LoseRefresh
  BY <1>0, <1>10, <1>a, <1>b DEF LoseRefresh
<1>11. CASE UNCHANGED listVars
  BY <1>0, <1>11 DEF listVars
<1> QED BY <1>1, <1>2, <1>3, <1>4, <1>5, <1>6, <1>7, <1>8, <1>9, <1>10, <1>11
        DEF ListNext, ToggleSelected, ToggleAllFiltered, ClearSelection


\* A step that keeps the ids of the operation and their number keeps the chunk.
LEMMA SameIds ==
  ASSUME bulk'.ids = bulk.ids, bulk'.queued = bulk.queued
  PROVE  ChunkEnd' = ChunkEnd /\ \A n : (FirstIds(n))' = FirstIds(n)
BY DEF ChunkEnd, FirstIds

\* An operation as it starts.
Begun(step, op, ids, status) ==
  [step |-> step, op |-> op, ids |-> ids, status |-> status, queued |-> 0,
   failures |-> {}, outcome |-> "none", touched |-> FALSE, stored |-> {}]

LEMMA BulkStarts ==
  ASSUME NEW ids \in Seq(Alerts), IsInjective(ids), NEW op \in {"status", "assess", "false"},
         NEW status \in AlertStatuses, NEW at \in {"idle", "call"},
         bulk' = Begun(at, op, ids, status)
  PROVE  BulkInv'
<1>1. Len(ids) \in Nat /\ bulk'.ids = ids /\ bulk'.queued = 0 /\ bulk'.step = at
      /\ bulk'.failures = {} /\ bulk'.stored = {} /\ bulk'.outcome = "none"
  BY DEF Begun
<1>2. bulk' \in BulkType
  BY DEF Begun, BulkType
<1>3. (FirstIds(bulk.queued))' = {}
  BY <1>1 DEF FirstIds
<1>4. (bulk.step = "answer" /\ bulk.outcome = "ok")' = FALSE
  BY <1>1
<1>5. (bulk.op = "assess" /\ bulk.outcome # "lost" =>
         bulk.stored = FirstIds(IF bulk.step = "answer" /\ bulk.outcome = "ok"
                                  THEN ChunkEnd ELSE bulk.queued))'
  <2> SUFFICES (bulk.stored = FirstIds(IF bulk.step = "answer" /\ bulk.outcome = "ok"
                                         THEN ChunkEnd ELSE bulk.queued))'
    OBVIOUS
  <2>1. (IF bulk.step = "answer" /\ bulk.outcome = "ok" THEN ChunkEnd ELSE bulk.queued)'
          = bulk'.queued
    BY <1>1
  <2> QED BY <1>1, <1>3, <2>1 DEF FirstIds
<1>6. /\ IsInjective(bulk'.ids) /\ bulk'.queued <= Len(bulk'.ids)
      /\ bulk'.failures \subseteq ToSet(bulk'.ids) /\ bulk'.stored \subseteq ToSet(bulk'.ids)
  BY <1>1
<1> QED BY <1>1, <1>2, <1>5, <1>6 DEF BulkInv

LEMMA QuietFacts ==
  /\ <<>> \in Seq(Alerts) /\ IsInjective(<<>>)
  /\ bulk' = Quiet => BulkInv'
<1>1. Quiet = Begun("idle", "status", <<>>, "new")
  BY DEF Quiet, Begun
<1>2. <<>> \in Seq(Alerts) /\ IsInjective(<<>>) /\ "new" \in AlertStatuses
  BY ListAssumption DEF IsInjective
<1>3. bulk' = Quiet => BulkInv'
  BY <1>1, <1>2, BulkStarts
<1> QED BY <1>2, <1>3

LEMMA TouchedStep ==
  ASSUME BulkInv, bulk' = Touched PROVE BulkInv'
<1>1. CASE bulk.step = "idle"
  BY <1>1, QuietFacts DEF Touched
<1>2. CASE bulk.step # "idle"
  <2>0. bulk \in BulkType
    BY DEF BulkInv
  <2>1. bulk' = [bulk EXCEPT !.touched = TRUE]
    BY <1>2 DEF Touched
  <2>2. bulk' \in BulkType
    BY <2>0, <2>1 DEF BulkType
  <2>3. /\ bulk'.ids = bulk.ids /\ bulk'.queued = bulk.queued /\ bulk'.op = bulk.op
        /\ bulk'.step = bulk.step /\ bulk'.failures = bulk.failures
        /\ bulk'.stored = bulk.stored /\ bulk'.outcome = bulk.outcome
    BY <2>0, <2>1 DEF BulkType
  <2> QED BY <2>2, <2>3, SameIds DEF BulkInv
<1> QED BY <1>1, <1>2

LEMMA BulkStep ==
  ASSUME ListInv, [ListNext]_listVars PROVE BulkInv'
<1>0. BulkInv /\ bulk \in BulkType
  BY DEF ListInv, BulkInv
<1>1. CASE UNCHANGED bulk
  BY <1>0, <1>1 DEF BulkInv, BulkType, ChunkEnd, FirstIds
<1>2. ASSUME NEW ids, Select(ids) PROVE BulkInv'
  BY <1>0, <1>2, TouchedStep DEF Select
<1>3. ASSUME NEW op \in {"status", "assess", "false"}, NEW s \in AlertStatuses, StartBulk(op, s)
      PROVE  BulkInv'
  <2>1. selectedIds \in Seq(Alerts) /\ IsInjective(selectedIds)
    BY DEF ListInv, SelectionInv
  <2>2. bulk' = Begun("call", op, selectedIds, s)
    BY <1>3 DEF StartBulk, Quiet, Begun
  <2> QED BY <2>1, <2>2, BulkStarts
<1>4. CASE ServeBulk
  <2>1. bulk.step = "call"
    BY <1>4 DEF ServeBulk
  <2>2. CASE ServeStatus
    <3>1. bulk' = [bulk EXCEPT !.step = "answer", !.outcome = "ok"] /\ bulk.op = "status"
      BY <2>2 DEF ServeStatus
    <3>2. bulk' \in BulkType
      BY <1>0, <3>1 DEF BulkType
    <3> QED BY <1>0, <3>1, <3>2, SameIds DEF BulkInv, BulkType
  <2>3. CASE ServeChunk /\ Chunk = Existing(Chunk)
    <3>1. bulk' = [bulk EXCEPT !.step = "answer", !.outcome = "ok",
                               !.stored = bulk.stored \cup Chunk] /\ bulk.op = "assess"
      BY <2>3 DEF ServeChunk
    <3>2. ToSet(bulk.ids) \subseteq Alerts
      BY <1>0 DEF BulkType, ToSet
    <3>3. bulk' \in BulkType
      BY <1>0, <3>1, <3>2, ChunkFacts DEF BulkType
    <3>4. bulk.op = "assess" /\ bulk.outcome # "lost" => bulk.stored = FirstIds(bulk.queued)
      BY <1>0, <2>1 DEF BulkInv
    <3>5. bulk.outcome # "lost" => bulk.stored \cup Chunk = FirstIds(ChunkEnd)
      BY <1>0, <3>1, <3>4, ChunkFacts
    <3>6. bulk.outcome # "lost"
      BY <1>0, <2>1 DEF BulkInv
    <3> QED BY <1>0, <3>1, <3>3, <3>5, <3>6, SameIds, ChunkFacts DEF BulkInv, BulkType
  <2>4. CASE ServeChunk /\ Chunk # Existing(Chunk)
    <3>1. bulk' = [bulk EXCEPT !.step = "answer", !.outcome = "refused"] /\ bulk.op = "assess"
      BY <2>4 DEF ServeChunk
    <3>2. bulk' \in BulkType
      BY <1>0, <3>1 DEF BulkType
    <3> QED BY <1>0, <2>1, <3>1, <3>2, SameIds DEF BulkInv, BulkType
  <2>5. CASE ServeFalseMatches
    <3>1. bulk' = [bulk EXCEPT !.step = "answer", !.outcome = "ok",
                     !.failures = ToSet(bulk.ids) \ Existing(ToSet(bulk.ids))]
          /\ bulk.op = "false"
      BY <2>5 DEF ServeFalseMatches
    <3>2. ToSet(bulk.ids) \subseteq Alerts
      BY <1>0 DEF BulkType, ToSet
    <3>3. bulk' \in BulkType
      BY <1>0, <3>1, <3>2 DEF BulkType
    <3> QED BY <1>0, <3>1, <3>3, SameIds DEF BulkInv, BulkType
  <2> QED BY <1>4, <2>2, <2>3, <2>4, <2>5 DEF ServeBulk
<1>5. CASE LoseBulk
  <2>1. bulk' = [bulk EXCEPT !.step = "answer", !.outcome = "lost"]
    BY <1>5 DEF LoseBulk
  <2>2. bulk' \in BulkType
    BY <1>0, <2>1 DEF BulkType
  <2> QED BY <1>0, <2>1, <2>2, SameIds DEF BulkInv, BulkType
<1>6. CASE ReceiveBulk
  <2>1. CASE BulkStatusAnswered \/ FalseMatchesRecorded
    <3>1. bulk' = [bulk EXCEPT !.step = "refresh"] /\ bulk.op # "assess"
      BY <2>1 DEF BulkStatusAnswered, FalseMatchesRecorded
    <3>2. bulk' \in BulkType
      BY <1>0, <3>1 DEF BulkType
    <3> QED BY <1>0, <3>1, <3>2, SameIds DEF BulkInv, BulkType
  <2>2. CASE ChunkQueued /\ ChunkEnd < Len(bulk.ids)
    <3>1. bulk' = [bulk EXCEPT !.step = "call", !.queued = ChunkEnd]
          /\ bulk.op = "assess" /\ bulk.outcome = "ok"
      BY <2>2 DEF ChunkQueued
    <3>2. bulk' \in BulkType
      BY <1>0, <3>1, ChunkFacts DEF BulkType
    <3>3. bulk.stored = FirstIds(ChunkEnd)
      BY <1>0, <1>6, <3>1 DEF BulkInv, ReceiveBulk
    <3>4. \A n : (FirstIds(n))' = FirstIds(n)
      BY <1>0, <3>1 DEF FirstIds, BulkType
    <3>5. /\ bulk'.step = "call" /\ bulk'.ids = bulk.ids /\ bulk'.queued = ChunkEnd
          /\ bulk'.failures = bulk.failures /\ bulk'.stored = bulk.stored
          /\ bulk'.outcome = bulk.outcome
      BY <1>0, <3>1 DEF BulkType
    <3>6. bulk'.stored = (FirstIds(bulk.queued))'
      BY <3>3, <3>5 DEF FirstIds
    <3>7. (IF bulk.step = "answer" /\ bulk.outcome = "ok" THEN ChunkEnd ELSE bulk.queued)'
            = bulk'.queued
      BY <3>5
    <3>8. (bulk.op = "assess" /\ bulk.outcome # "lost" =>
             bulk.stored = FirstIds(IF bulk.step = "answer" /\ bulk.outcome = "ok"
                                      THEN ChunkEnd ELSE bulk.queued))'
      BY <3>6, <3>7 DEF FirstIds
    <3>9. bulk'.op = "assess" /\ bulk'.outcome = "ok"
      BY <1>0, <3>1 DEF BulkType
    <3>10. /\ IsInjective(bulk'.ids) /\ bulk'.queued <= Len(bulk'.ids)
           /\ bulk'.failures \subseteq ToSet(bulk'.ids)
           /\ bulk'.stored \subseteq ToSet(bulk'.ids)
      BY <1>0, <3>5, ChunkFacts DEF BulkInv
    <3> QED BY <3>2, <3>5, <3>8, <3>9, <3>10 DEF BulkInv
  <2>3. CASE ChunkQueued /\ ~(ChunkEnd < Len(bulk.ids))
    BY <2>3, QuietFacts DEF ChunkQueued
  <2>4. CASE BulkFailed
    <3>1. bulk' = [bulk EXCEPT !.step = "idle"] /\ bulk.outcome \in {"refused", "lost"}
      BY <2>4 DEF BulkFailed, Failed
    <3>2. bulk' \in BulkType
      BY <1>0, <3>1 DEF BulkType
    <3> QED BY <1>0, <3>1, <3>2, SameIds DEF BulkInv, BulkType
  <2> QED BY <1>6, <2>1, <2>2, <2>3, <2>4 DEF ReceiveBulk
<1>7. ASSUME NEW by \in {"timer", "bulk"}, ReceiveRefresh(by) PROVE BulkInv'
  BY <1>0, <1>1, <1>7, QuietFacts, TouchedStep DEF ReceiveRefresh
<1>8. CASE LoseRefresh
  BY <1>8, QuietFacts DEF LoseRefresh
<1>9. ASSUME NEW a \in Alerts, RemoveAlert(a) PROVE BulkInv'
  BY <1>1, <1>9 DEF RemoveAlert
<1>10. ASSUME NEW by \in {"timer", "bulk"}, ServeRefresh(by) PROVE BulkInv'
  BY <1>1, <1>10 DEF ServeRefresh
<1>11. CASE SetFilter \/ UNCHANGED listVars
  BY <1>1, <1>11 DEF SetFilter, listVars
<1> QED BY <1>2, <1>3, <1>4, <1>5, <1>6, <1>7, <1>8, <1>9, <1>10, <1>11, ListAssumption
        DEF ListNext, ToggleSelected, ToggleAllFiltered, ClearSelection


\* A set of alerts, as the sequence that the list shows.
LEMMA AsSequence ==
  ASSUME NEW S \in SUBSET Alerts
  PROVE  /\ SetToSeq(S) \in Seq(Alerts) /\ IsInjective(SetToSeq(S))
         /\ ToSet(SetToSeq(S)) \subseteq S
<1>1. IsFiniteSet(S)
  BY ListAssumption, FS_Subset
<1>2. SetToSeq(S) \in [1 .. Cardinality(S) -> S] /\ IsInjective(SetToSeq(S))
      /\ Cardinality(S) \in Nat
  BY <1>1, SetToSeqFacts, FS_CardinalityType
<1> DEFINE s == SetToSeq(S)
           n == Cardinality(S)
<1> HIDE DEF s, n
<1>3. s \in [1 .. n -> S] /\ n \in Nat /\ IsInjective(s)
  BY <1>2 DEF s, n
<1>4. s \in Seq(Alerts) /\ ToSet(s) \subseteq S
  <2>1. s \in Seq(S)
    BY <1>3
  <2> QED BY <1>3, <2>1 DEF ToSet
<1> QED BY <1>3, <1>4 DEF s

\* What the analyst selects.
LEMMA SelectFacts ==
  ASSUME SelectionInv,
         (\E a \in Alerts : ToggleSelected(a)) \/ ToggleAllFiltered \/ ClearSelection
  PROVE  /\ selectedIds' \in Seq(Alerts) /\ IsInjective(selectedIds')
         /\ bulk' = Touched
<1>0. selectedIds \in Seq(Alerts) /\ IsInjective(selectedIds)
  BY DEF SelectionInv
<1>1. ASSUME NEW a \in Alerts, ToggleSelected(a)
      PROVE  /\ selectedIds' \in Seq(Alerts) /\ IsInjective(selectedIds')
             /\ bulk' = Touched
  <2>1. CASE a \in ToSet(selectedIds)
    BY <1>0, <1>1, <2>1, KeepFacts DEF ToggleSelected, Select
  <2>2. CASE a \notin ToSet(selectedIds)
    BY <1>0, <1>1, <2>2, AppendFacts DEF ToggleSelected, Select
  <2> QED BY <2>1, <2>2
<1>2. CASE ToggleAllFiltered
  <2>1. CASE AllFilteredSelected
    BY <1>0, <1>2, <2>1, KeepFacts DEF ToggleAllFiltered, Select
  <2>2. CASE ~AllFilteredSelected
    <3> DEFINE S == Filtered \ ToSet(selectedIds)
               t == SetToSeq(S)
    <3>1. S \in SUBSET Alerts
      BY DEF Filtered, Listed
    <3>2. selectedIds' = selectedIds \o t /\ bulk' = Touched
      BY <1>2, <2>2 DEF ToggleAllFiltered, Select
    <3>3. S \cap ToSet(selectedIds) = {}
      OBVIOUS
    <3> HIDE DEF S
    <3>4. t \in Seq(Alerts) /\ IsInjective(t) /\ ToSet(t) \subseteq S
      BY <3>1, AsSequence
    <3>5. ToSet(selectedIds) \cap ToSet(t) = {}
      BY <3>3, <3>4
    <3> HIDE DEF t
    <3>6. selectedIds \o t \in Seq(Alerts) /\ IsInjective(selectedIds \o t)
      BY <1>0, <3>4, <3>5, JoinFacts
    <3> QED BY <3>2, <3>6
  <2> QED BY <2>1, <2>2
<1>3. CASE ClearSelection
  BY <1>3 DEF ClearSelection, Select, IsInjective
<1> QED BY <1>1, <1>2, <1>3

LEMMA SelectionStep ==
  ASSUME ListInv, [ListNext]_listVars PROVE SelectionInv'
<1>0. /\ selectedIds \in Seq(Alerts) /\ IsInjective(selectedIds)
      /\ bulk \in BulkType /\ BulkInv /\ SelectionInv
  BY DEF ListInv, BulkInv, SelectionInv
<1>a. ASSUME UNCHANGED <<selectedIds, bulk>> PROVE SelectionInv'
  BY <1>0, <1>a DEF SelectionInv, FailedRunKeepsTheRest
<1>b. ASSUME selectedIds' \in Seq(Alerts), IsInjective(selectedIds'),
             bulk' = Quiet \/ bulk' = Touched
      PROVE  SelectionInv'
  <2>1. CASE bulk' = Quiet
    BY <1>b, <2>1 DEF Quiet, SelectionInv, FailedRunKeepsTheRest
  <2>2. CASE bulk' = Touched /\ bulk' # Quiet
    <3>1. bulk'.touched
      BY <1>0, <2>2 DEF Touched, BulkType
    <3> QED BY <1>b, <3>1 DEF SelectionInv, FailedRunKeepsTheRest
  <2> QED BY <1>b, <2>1, <2>2
<1>1. CASE (\E a \in Alerts : ToggleSelected(a)) \/ ToggleAllFiltered \/ ClearSelection
  BY <1>0, <1>1, <1>b, SelectFacts
<1>2. ASSUME NEW op, NEW s, StartBulk(op, s) PROVE SelectionInv'
  <2>1. bulk' = Begun("call", op, selectedIds, s) /\ selectedIds' = selectedIds
    BY <1>2 DEF StartBulk, Quiet, Begun
  <2> QED BY <1>0, <2>1 DEF SelectionInv, FailedRunKeepsTheRest, Begun
<1>3. CASE ServeBulk \/ LoseBulk
  <2>1. selectedIds' = selectedIds /\ bulk.step \in {"call", "answer"}
    BY <1>3 DEF ServeBulk, LoseBulk
  <2>2. /\ bulk'.step = "answer" /\ bulk'.ids = bulk.ids /\ bulk'.touched = bulk.touched
    BY <1>0, <1>3
       DEF ServeBulk, ServeStatus, ServeChunk, ServeFalseMatches, LoseBulk, BulkType
  <2> QED BY <1>0, <2>1, <2>2 DEF SelectionInv, FailedRunKeepsTheRest
<1>4. CASE ReceiveBulk
  <2>1. CASE BulkStatusAnswered
    <3>1. bulk'.step = "refresh" /\ selectedIds' = <<>>
      BY <1>0, <2>1 DEF BulkStatusAnswered, BulkType
    <3> QED BY <3>1 DEF SelectionInv, FailedRunKeepsTheRest, IsInjective
  <2>2. CASE ChunkQueued /\ ChunkEnd < Len(bulk.ids)
    <3>1. bulk' = [bulk EXCEPT !.step = "call", !.queued = ChunkEnd] /\ selectedIds' = selectedIds
      BY <2>2 DEF ChunkQueued
    <3>2. bulk'.step = "call" /\ bulk'.ids = bulk.ids /\ bulk'.touched = bulk.touched
      BY <1>0, <3>1 DEF BulkType
    <3> QED BY <1>0, <1>4, <3>1, <3>2 DEF SelectionInv, FailedRunKeepsTheRest, ReceiveBulk
  <2>3. CASE ChunkQueued /\ ~(ChunkEnd < Len(bulk.ids))
    <3>1. bulk' = Quiet /\ selectedIds' = <<>>
      BY <2>3 DEF ChunkQueued
    <3> QED BY <1>b, <3>1 DEF IsInjective
  <2>4. CASE FalseMatchesRecorded
    <3>1. bulk'.step = "refresh" /\ selectedIds' = Available(SetToSeq(bulk.failures), live)
      BY <1>0, <2>4 DEF FalseMatchesRecorded, BulkType
    <3>2. bulk.failures \in SUBSET Alerts
      BY <1>0 DEF BulkType
    <3>3. SetToSeq(bulk.failures) \in Seq(Alerts) /\ IsInjective(SetToSeq(bulk.failures))
      BY <3>2, AsSequence
    <3>4. selectedIds' \in Seq(Alerts) /\ IsInjective(selectedIds')
      BY <3>1, <3>3, KeepFacts DEF Available
    <3> QED BY <3>1, <3>4 DEF SelectionInv, FailedRunKeepsTheRest
  <2>5. CASE BulkFailed
    <3>1. /\ bulk.outcome \in {"refused", "lost"}
          /\ bulk' = [bulk EXCEPT !.step = "idle"]
          /\ selectedIds' = IF bulk.op = "assess" THEN RestOf(selectedIds) ELSE selectedIds
      BY <2>5 DEF BulkFailed, Failed
    <3>2. /\ bulk'.step = "idle" /\ bulk'.ids = bulk.ids /\ bulk'.stored = bulk.stored
          /\ bulk'.touched = bulk.touched /\ bulk'.outcome = bulk.outcome
      BY <1>0, <3>1 DEF BulkType
    <3>3. bulk.queued \in Nat /\ bulk.queued <= Len(bulk.ids)
      BY <1>0 DEF BulkInv, BulkType
    <3>4. /\ RestOf(selectedIds) \in Seq(Alerts) /\ IsInjective(RestOf(selectedIds))
          /\ bulk.queued <= Len(selectedIds) =>
               ToSet(RestOf(selectedIds)) =
                 ToSet(selectedIds) \ {selectedIds[k] : k \in 1 .. bulk.queued}
      BY <1>0, <3>3, RestFacts DEF RestOf
    <3>5. bulk.outcome = "refused" /\ ~bulk.touched =>
            ToSet(selectedIds') = ToSet(bulk.ids) \ bulk.stored
      <4> SUFFICES ASSUME bulk.outcome = "refused", ~bulk.touched
                   PROVE  ToSet(selectedIds') = ToSet(bulk.ids) \ bulk.stored
        OBVIOUS
      <4>1. bulk.op = "assess" /\ bulk.stored = FirstIds(bulk.queued)
        BY <1>0 DEF BulkInv
      <4>2. selectedIds = bulk.ids
        BY <1>0, <1>4 DEF SelectionInv, ReceiveBulk
      <4> QED BY <3>1, <3>3, <3>4, <4>1, <4>2 DEF FirstIds
    <3>6. selectedIds' \in Seq(Alerts) /\ IsInjective(selectedIds')
      BY <1>0, <3>1, <3>4
    <3> QED BY <3>2, <3>5, <3>6 DEF SelectionInv, FailedRunKeepsTheRest
  <2> QED BY <1>4, <2>1, <2>2, <2>3, <2>4, <2>5 DEF ReceiveBulk
<1>5. ASSUME NEW by \in {"timer", "bulk"}, ReceiveRefresh(by) PROVE SelectionInv'
  <2>1. selectedIds' = Available(selectedIds, refreshes[by].rows)
    BY <1>5 DEF ReceiveRefresh, ShowRows
  <2>2. selectedIds' \in Seq(Alerts) /\ IsInjective(selectedIds')
    BY <1>0, <2>1, KeepFacts DEF Available
  <2>3. bulk' = Quiet \/ bulk' = Touched \/ UNCHANGED <<selectedIds, bulk>>
    BY <1>5 DEF ReceiveRefresh
  <2> QED BY <1>a, <1>b, <2>2, <2>3
<1>6. CASE LoseRefresh
  BY <1>0, <1>6, <1>b DEF LoseRefresh
<1>7. ASSUME NEW a \in Alerts, RemoveAlert(a) PROVE SelectionInv'
  BY <1>7, <1>a DEF RemoveAlert
<1>8. ASSUME NEW by \in {"timer", "bulk"}, ServeRefresh(by) PROVE SelectionInv'
  BY <1>8, <1>a DEF ServeRefresh
<1>9. CASE SetFilter \/ UNCHANGED listVars
  BY <1>9, <1>a DEF SetFilter, listVars
<1> QED BY <1>1, <1>2, <1>3, <1>4, <1>5, <1>6, <1>7, <1>8, <1>9 DEF ListNext

LEMMA ListStep == ListInv /\ [ListNext]_listVars => ListInv'
<1> SUFFICES ASSUME ListInv, [ListNext]_listVars PROVE ListInv'
  OBVIOUS
<1> QED BY RowsStep, BulkStep, SelectionStep DEF ListInv


-----------------------------------------------------------------------------
(* The theorems. *)

TriageInv ==
  /\ visit \in {"list", "drawer", "drafts", "clients", "editors", "center"}
  /\ ListInv /\ DrawerInv /\ DraftInv /\ ClientsInv /\ EditorsInv /\ CenterInv

LEMMA TriageInitially == TriageInit => TriageInv
BY ListInitially, DrawerInitially, DraftsInitially, ClientsInitially, EditorsInitially,
   CenterInitially
   DEF TriageInit, TriageInv, DrawerInv, DraftInv, ClientsInv, EditorsInv, CenterInv

LEMMA TriageStep == TriageInv /\ [TriageNext]_triageVars => TriageInv'
<1> SUFFICES ASSUME TriageInv, [TriageNext]_triageVars PROVE TriageInv'
  OBVIOUS
<1>1. /\ [ListNext]_listVars /\ [DrawerNext]_drawerVars /\ [DraftNext]_draftVars
      /\ [ClientsNext]_clientVars /\ [EditorsNext]_editorVars /\ [CenterNext]_centerVars
  BY PartsStep
<1>2. visit' \in {"list", "drawer", "drafts", "clients", "editors", "center"}
  BY DEF TriageInv, TriageNext, UseList, UseDrawer, UseDrafts, UseClients, UseEditors,
         UseCenter, triageVars
<1>3. ListInv' /\ DrawerInv'
  BY <1>1, ListStep, DrawerStep DEF TriageInv
<1>4. DraftInv'
  BY <1>1, DraftTypeStep, DraftsStep DEF TriageInv, DraftInv
<1>5. ClientsInv'
  BY <1>1, ClientsTypeStep, UnsavedStep DEF TriageInv, ClientsInv
<1>6. EditorsInv'
  BY <1>1, EditorsStep DEF TriageInv, EditorsInv
<1>7. CenterInv'
  BY <1>1, CenterTypeStep, PollsStep, RefreshStep DEF TriageInv, CenterInv
<1> QED BY <1>2, <1>3, <1>4, <1>5, <1>6, <1>7 DEF TriageInv

\* Each part of the console keeps its invariant, whichever of them is visited.
THEOREM TriageInvariant == TriageSpec => []TriageInv
BY TriageInitially, TriageStep, PTL DEF TriageSpec

\* The state of the alert pages and of their part of the server is always of
\* its type (AlertsPage, AlertDrawer, the drafts, the client forms and the
\* corner of the AI tasks).
THEOREM TriageTypeCorrect == TriageSpec => []TriageTypeOK
<1>1. TriageInv => TriageTypeOK
  BY ListTypes DEF TriageInv, TriageTypeOK, DrawerInv, DraftInv, ClientsInv, EditorsInv,
                   CenterInv
<1> QED BY <1>1, TriageInvariant, PTL

\* Whatever the size of a chunk and the number of selected alerts, a run of
\* assessments that the server refuses half-way leaves selected exactly the
\* alerts with no assessment queued, while nobody touched the selection
\* (queueBulkAssessments and the catch of its caller, App.tsx).
THEOREM FailedRunCorrect == TriageSpec => []FailedRunKeepsTheRest
<1>1. TriageInv => FailedRunKeepsTheRest
  BY DEF TriageInv, ListInv, SelectionInv
<1> QED BY <1>1, TriageInvariant, PTL

\* A note is stored with the alert, and a text with the draft, that it was
\* written for, as long as no late answer gave the open drawer or dialog another
\* one, whose form keeps its text (AlertDrawer and the draft dialog, App.tsx).
THEOREM TextCorrect == TriageSpec => []TextStaysWithItsSubject
<1>1. TriageInv => TextStaysWithItsSubject
  BY DEF TriageInv, DrawerInv, DraftInv, NotesInv, DraftsInv, TextStaysWithItsSubject,
         NotesStayWithTheirAlert, DraftsKeepTheirText
<1> QED BY <1>1, TriageInvariant, PTL

\* With no call under way, none failed and none sent beside another, every
\* alert has the status that was asked for last (updateAlert of AlertDrawer).
THEOREM LastActCorrect == TriageSpec => []LastActIsStored
<1>1. ASSUME TriageInv PROVE LastActIsStored
  <2>1. LastActInv
    BY <1>1 DEF TriageInv, DrawerInv
  <2>2. \A s \in Slots : updates[s].step = "sent" => Out(s)
    BY DEF Out
  <2> QED BY <2>1, <2>2 DEF LastActInv, LastActIsStored
<1> QED BY <1>1, TriageInvariant, PTL

\* What is typed in a client's form is lost only if the form was opened while a
\* call left behind by an earlier form was under way, or if it was typed while
\* the form was being saved (ClientsPage, App.tsx).
THEOREM UnsavedWorkCorrect == TriageSpec => []UnsavedWorkIsKept
<1>1. TriageInv => UnsavedWorkIsKept
  BY DEF TriageInv, ClientsInv, UnsavedInv
<1> QED BY <1>1, TriageInvariant, PTL

\* The server refuses a client only for the lists whose length or words no
\* editor of the form bounds (the list editors and the schema of ClientCreate).
THEOREM RefusalsCorrect == TriageSpec => []OnlyUncheckedInputIsRefused
<1>1. TriageInv => OnlyUncheckedInputIsRefused
  BY DEF TriageInv, EditorsInv, ListsInv
<1> QED BY <1>1, TriageInvariant, PTL

\* While the answers of two polls do not overtake each other, each job that the
\* corner saw pending refreshes the page once, when it ends (App's jobs poll).
THEOREM RefreshCorrect == TriageSpec => []RefreshedOncePerJob
<1>1. TriageInv => RefreshedOncePerJob
  BY DEF TriageInv, CenterInv, RefreshInv
<1> QED BY <1>1, TriageInvariant, PTL

=============================================================================
