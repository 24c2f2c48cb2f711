----------------------------- MODULE WebDrawer -----------------------------
(***************************************************************************)
(* One alert opened from the list: AlertDrawer with its workflow form and  *)
(* the "Mark as notified" button of the draft dialog, below AlertsPage,    *)
(* which holds the alert the drawer is given (App.tsx).  WebDrafts has the *)
(* drawer's drafts and the calls that create them.                         *)
(*                                                                         *)
(* The drawer can be closed while a call is unanswered.  The answer then   *)
(* finds no drawer to update, but still puts its alert into the page, which *)
(* may by then show another one.  A note is told apart by the alert it was  *)
(* written about.  Controls below an overlay are not used.  Other analysts, *)
(* and a bulk run of the page that is still under way when a row is opened,  *)
(* write the alert beside the drawer.                                       *)
(***************************************************************************)
EXTENDS Naturals, FiniteSets

CONSTANTS
  OpenAlerts,  \* the alerts of the list
  SavedStatus, \* the statuses chosen in the workflow form
  OtherStatus, \* the statuses others write
  NoAlert,
  MaxActs,     \* bound: buttons pressed that change an alert
  MaxFailures, \* bound: calls that fail
  MaxWrites    \* bound: writes of others

ASSUME DrawerAssumption ==
  NoAlert \notin OpenAlerts /\ MaxActs \in Nat /\ MaxFailures \in Nat /\ MaxWrites \in Nat

VARIABLES
  record,      \* server: status and note of every alert
  versions,    \* history: what the record of every alert has been
  others,      \* writes of others, and the alerts they wrote after the drawer's last act
  selected,    \* AlertsPage's selected: an alert and its status, as last answered
  form,        \* AlertDrawer's status and note
  working,     \* AlertDrawer's working
  dialog,      \* the draft dialog: "closed", "open" or "marking"
  updates,     \* calls that change an alert, until the refresh after them
  acts,        \* buttons pressed, and what the last one asked of each alert
  history      \* how the drawer's calls have crossed

drawerVars ==
  <<record, versions, others, selected, form, working, dialog, updates, acts, history>>

DrawerStatuses == {"new", "investigating", "client_notified", "dismissed"} \cup SavedStatus \cup OtherStatus
Notes == OpenAlerts \cup {NoAlert}
Slots == {1, 2}
Answered == [status : DrawerStatuses, note : Notes]
NoUpdate == [step |-> "none", kind |-> "act", alert |-> NoAlert,
             status |-> "new", note |-> NoAlert, mine |-> FALSE]

DrawerTypeOK ==
  /\ record \in [OpenAlerts -> Answered]
  /\ versions \in [OpenAlerts -> SUBSET Answered]
  /\ others \in [count : 0 .. MaxWrites, after : SUBSET OpenAlerts]
  /\ selected \in [alert : Notes, status : DrawerStatuses]
  /\ form \in Answered
  /\ working \in BOOLEAN
  /\ dialog \in {"closed", "open", "marking"}
  /\ updates \in [Slots -> [step : {"none", "sent", "served", "failed", "refresh"},
                            kind : {"act", "false", "mark"}, alert : Notes,
                            status : DrawerStatuses, note : Notes, mine : BOOLEAN]]
  /\ acts \in [count : 0 .. MaxActs, last : [OpenAlerts -> DrawerStatuses]]
  /\ history \in [swapped : BOOLEAN, raced : BOOLEAN, failures : 0 .. MaxFailures]

Nothing == [alert |-> NoAlert, status |-> "new"]
NoForm == [status |-> "new", note |-> NoAlert]

DrawerInit ==
  /\ record = [a \in OpenAlerts |-> [status |-> "new", note |-> NoAlert]]
  /\ versions = [a \in OpenAlerts |-> {record[a]}]
  /\ others = [count |-> 0, after |-> {}]
  /\ selected = Nothing
  /\ form = NoForm
  /\ working = FALSE
  /\ dialog = "closed"
  /\ updates = [s \in Slots |-> NoUpdate]
  /\ acts = [count |-> 0, last |-> [a \in OpenAlerts |-> "new"]]
  /\ history = [swapped |-> FALSE, raced |-> FALSE, failures |-> 0]

serverRecords == <<record, versions, others>>

Open == selected.alert # NoAlert
Out(s) == updates[s].step # "none"

-----------------------------------------------------------------------------
(* The analyst. *)

\* Mutant: the drawer outlives its closing and keeps its form.
KeptMounted(a, status, note) ==
  /\ selected' = [alert |-> a, status |-> status]
  /\ UNCHANGED form
  /\ working' = FALSE
  /\ dialog' = "closed"

\* The state a newly mounted drawer starts from.
Mounted(a, status, note) ==
  /\ selected' = [alert |-> a, status |-> status]
  /\ form' = [status |-> status, note |-> note]
  /\ working' = FALSE
  /\ dialog' = "closed"

\* From a list that may be older than what others have written since.
OpenAlert(a) ==
  /\ ~Open
  /\ \E seen \in versions[a] : Mounted(a, seen.status, seen.note)
  /\ UNCHANGED <<serverRecords, updates, acts, history>>

CloseDrawer ==
  /\ Open /\ dialog = "closed"
  /\ selected' = Nothing
  /\ working' = FALSE
  /\ updates' = [s \in Slots |-> [updates[s] EXCEPT !.mine = FALSE]]
  /\ UNCHANGED <<serverRecords, form, dialog, acts, history>>

EditForm ==
  /\ Open /\ dialog = "closed"
  /\ \/ \E status \in SavedStatus : form' = [form EXCEPT !.status = status]
     \/ form' = [form EXCEPT !.note = selected.alert]
  /\ UNCHANGED <<serverRecords, selected, working, dialog, updates, acts, history>>

OpenDraft ==
  /\ Open /\ dialog = "closed"
  /\ dialog' = "open"
  /\ UNCHANGED <<serverRecords, selected, form, working, updates, acts, history>>

\* Closing the dialog unmounts it, with its working flag.
CloseDraft ==
  /\ dialog # "closed"
  /\ dialog' = "closed"
  /\ UNCHANGED <<serverRecords, selected, form, working, updates, acts, history>>

\* What a call carries when its button is pressed without a note.
NoteOr(a) == IF form.note = NoAlert THEN a ELSE form.note

\* updateAlert or markFalsePositive, for the alert the drawer is given.
Send(kind, status, note) ==
  \E s \in Slots :
    /\ ~Out(s) /\ \A t \in Slots : ~Out(t) => s <= t
    /\ acts.count < MaxActs
    /\ updates' = [updates EXCEPT ![s] =
         [step |-> "sent", kind |-> kind, alert |-> selected.alert,
          status |-> status, note |-> note, mine |-> TRUE]]
    /\ acts' = [count |-> acts.count + 1,
                last |-> [acts.last EXCEPT ![selected.alert] = status]]
    /\ history' = [history EXCEPT !.raced = @ \/
         \E t \in Slots : Out(t) /\ (~updates[t].mine \/ updates[t].kind = "mark" \/ kind = "mark")]
    /\ others' = [others EXCEPT !.after = @ \ {selected.alert}]
    /\ UNCHANGED <<record, versions, selected, form>>

\* Mutant: the buttons stay enabled during a call.
CanActTwice == Open /\ dialog = "closed"

CanAct == Open /\ dialog = "closed" /\ ~working

SaveStatus ==
  /\ CanAct /\ form.status # selected.status
  /\ Send("act", form.status, form.note)
  /\ working' = TRUE /\ UNCHANGED dialog

StartInvestigation ==
  /\ CanAct
  /\ Send("act", "investigating", NoteOr(selected.alert))
  /\ working' = TRUE /\ UNCHANGED dialog

MarkFalsePositive ==
  /\ CanAct
  /\ Send("false", "dismissed", NoteOr(selected.alert))
  /\ working' = TRUE /\ UNCHANGED dialog

\* The dialog's button knows the dialog's working flag only.
MarkNotified ==
  /\ Open /\ dialog = "open"
  /\ Send("mark", "client_notified", NoteOr(selected.alert))
  /\ dialog' = "marking" /\ UNCHANGED working

-----------------------------------------------------------------------------
(* The server. *)

Store(a, status, note) ==
  LET now == [status |-> status, note |-> note] IN
  /\ record' = [record EXCEPT ![a] = now]
  /\ versions' = [versions EXCEPT ![a] = @ \cup {now}]

ServeUpdate(s) ==
  /\ updates[s].step = "sent"
  /\ Store(updates[s].alert, updates[s].status, updates[s].note)
  /\ updates' = [updates EXCEPT ![s].step = "served"]
  /\ UNCHANGED <<others, selected, form, working, dialog, acts, history>>

\* Another analyst, who writes about this alert, or a bulk run of the page, which
\* keeps the note or replaces it by one about no alert in particular.
OthersWrite(a) ==
  /\ others.count < MaxWrites
  /\ \E status \in OtherStatus, note \in {a, NoAlert, record[a].note} : Store(a, status, note)
  /\ others' = [count |-> others.count + 1, after |-> others.after \cup {a}]
  /\ UNCHANGED <<selected, form, working, dialog, updates, acts, history>>

LoseUpdate(s) ==
  /\ updates[s].step \in {"sent", "served"}
  /\ history.failures < MaxFailures
  /\ history' = [history EXCEPT !.failures = @ + 1]
  /\ updates' = [updates EXCEPT ![s].step = "failed"]
  /\ UNCHANGED <<serverRecords, selected, form, working, dialog, acts>>

-----------------------------------------------------------------------------
(* The answers. *)

\* A drawer that is open is given the answered alert and keeps its own state.
Given(a, status) ==
  /\ selected' = [alert |-> a, status |-> status]
  /\ history' = [history EXCEPT !.swapped = @ \/ a # selected.alert]

\* act sets status and note, markFalsePositive and onMarkNotified the status
\* only; onMarkNotified also closes the draft dialog.
AnswerDrawer(u) ==
  /\ form' = [status |-> u.status, note |-> IF u.kind = "act" THEN u.note ELSE form.note]
  /\ dialog' = IF u.kind = "mark" THEN "closed" ELSE dialog

ReceiveUpdate(s) ==
  LET u == updates[s] IN
  /\ u.step = "served"
  /\ updates' = [updates EXCEPT ![s].step = "refresh"]
  /\ \/ /\ Open
        /\ Given(u.alert, u.status)
        /\ IF u.mine THEN AnswerDrawer(u) ELSE UNCHANGED <<form, dialog>>
        /\ UNCHANGED working
     \/ /\ ~Open
        /\ Mounted(u.alert, u.status, u.note)
        /\ UNCHANGED history
  /\ UNCHANGED <<serverRecords, acts>>

Free(s) == [updates EXCEPT ![s] = NoUpdate]

\* finally, once the refresh after the answer has ended or the call has failed.
\* The dialog leaves its working flag set unless its call failed.
EndUpdate(s) ==
  LET u == updates[s] IN
  /\ u.step \in {"refresh", "failed"}
  /\ updates' = Free(s)
  /\ working' = IF u.mine /\ u.kind # "mark" THEN FALSE ELSE working
  /\ dialog' = IF u.mine /\ u.kind = "mark" /\ u.step = "failed" /\ dialog = "marking"
                 THEN "open" ELSE dialog
  /\ UNCHANGED <<serverRecords, selected, form, acts, history>>

DrawerNext ==
  \/ \E a \in OpenAlerts : OpenAlert(a) \/ OthersWrite(a)
  \/ CloseDrawer \/ EditForm \/ OpenDraft \/ CloseDraft
  \/ SaveStatus \/ StartInvestigation \/ MarkFalsePositive \/ MarkNotified
  \/ \E s \in Slots : ServeUpdate(s) \/ LoseUpdate(s) \/ ReceiveUpdate(s) \/ EndUpdate(s)

-----------------------------------------------------------------------------
(* Properties. *)

\* A note is stored with the alert it was written about.  AlertDrawer keeps its
\* note when AlertsPage gives it another alert, which happens only when the
\* answer of a drawer that was closed too early finds another one open.
NotesStayWithTheirAlert ==
  ~history.swapped => \A a \in OpenAlerts : record[a].note \in {a, NoAlert}

\* The status an analyst asked for last is the one that is stored, unless a
\* call failed, the drawer was left with a call under way, the draft dialog,
\* which ignores the drawer's working flag, sent a call beside the drawer's, or
\* somebody else wrote the alert after it was asked for: no write looks at what
\* another one stored.
LastActIsStored ==
  /\ ~history.raced /\ history.failures = 0
  /\ \A s \in Slots : ~Out(s)
  => \A a \in OpenAlerts \ others.after : record[a].status = acts.last[a]

=============================================================================
