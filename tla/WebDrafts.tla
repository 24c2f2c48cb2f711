----------------------------- MODULE WebDrafts -----------------------------
(***************************************************************************)
(* The notification drafts of one alert: AlertDrawer's context, the calls  *)
(* that create a draft, and NotificationDraftDialog (App.tsx).             *)
(*                                                                         *)
(* The dialog copies subject and body when it is mounted.  The drawer may  *)
(* give it another draft later, which leaves the copied text as it is.  A  *)
(* text is told apart by the draft it was first written for.               *)
(***************************************************************************)
EXTENDS Naturals

CONSTANTS MaxDrafts   \* bound: drafts of the alert

ASSUME DraftAssumption == MaxDrafts \in Nat

VARIABLES
  drafts,      \* server: the text of every draft
  listed,      \* the drafts of the context: their texts as last answered
  fetch,       \* the fetch of the context: its snapshot once the server took it
  creating,    \* AlertDrawer.working, with openDraft's call
  ordered,     \* AI drafts ordered from the background queue, not yet written
  editor,      \* the dialog: the draft it was given and the text it shows
  saving,      \* onSave's and onMarkNotified's calls
  crossed      \* history: an open dialog was given another draft

draftVars == <<drafts, listed, fetch, creating, ordered, editor, saving, crossed>>

Drafts == 1 .. MaxDrafts
NoDraft == 0
Texts == [Drafts -> Drafts \cup {NoDraft}]
NoTexts == [d \in Drafts |-> NoDraft]
Unfetched == [step |-> "sent", seen |-> NoTexts]
Resting == [step |-> "none", draft |-> NoDraft, text |-> NoDraft]
NoEditor == [draft |-> NoDraft, text |-> NoDraft, working |-> FALSE]

DraftTypeOK ==
  /\ drafts \in Texts /\ listed \in Texts
  /\ fetch \in [step : {"sent", "seen", "loaded"}, seen : Texts]
  /\ creating \in [step : {"none", "standard", "ai", "created"},
                   draft : Drafts \cup {NoDraft}, text : {NoDraft}]
  /\ ordered \in 0 .. MaxDrafts
  /\ editor \in [draft : Drafts \cup {NoDraft}, text : Drafts \cup {NoDraft}, working : BOOLEAN]
  /\ saving \in [step : {"none", "save", "mark", "saved", "marked"},
                 draft : Drafts \cup {NoDraft}, text : Drafts \cup {NoDraft}]
  /\ crossed \in BOOLEAN

\* One draft is stored when the drawer opens.
DraftInit ==
  /\ drafts = [NoTexts EXCEPT ![1] = 1]
  /\ listed = NoTexts
  /\ fetch = Unfetched
  /\ creating = Resting
  /\ ordered = 0
  /\ editor = NoEditor
  /\ saving = Resting
  /\ crossed = FALSE

Exists(d) == drafts[d] # NoDraft
Unused == {d \in Drafts : ~Exists(d) /\ \A e \in Drafts : e < d => Exists(e)}

-----------------------------------------------------------------------------
(* The context of the alert. *)

ServeContext ==
  /\ fetch.step = "sent"
  /\ fetch' = [step |-> "seen", seen |-> drafts]
  /\ UNCHANGED <<drafts, listed, creating, ordered, editor, saving, crossed>>

ReceiveContext ==
  /\ fetch.step = "seen"
  /\ listed' = fetch.seen
  /\ fetch' = [Unfetched EXCEPT !.step = "loaded"]
  /\ UNCHANGED <<drafts, creating, ordered, editor, saving, crossed>>

-----------------------------------------------------------------------------
(* Creating a draft. *)

\* The buttons of the drawer, which an open dialog covers.
CanCreate == creating.step = "none" /\ editor.draft = NoDraft

CreateDraft(mode) ==
  /\ CanCreate
  /\ creating' = [Resting EXCEPT !.step = mode]
  /\ UNCHANGED <<drafts, listed, fetch, ordered, editor, saving, crossed>>

\* The server writes a standard draft at once and queues an AI draft.
ServeCreate ==
  /\ \/ /\ creating.step = "standard"
        /\ \E d \in Unused :
             /\ drafts' = [drafts EXCEPT ![d] = d]
             /\ creating' = [creating EXCEPT !.step = "created", !.draft = d]
        /\ UNCHANGED ordered
     \/ /\ creating.step = "ai" /\ ordered < MaxDrafts
        /\ ordered' = ordered + 1
        /\ creating' = [creating EXCEPT !.step = "created"]
        /\ UNCHANGED drafts
  /\ UNCHANGED <<listed, fetch, editor, saving, crossed>>

\* The worker of the AI jobs; no drawer is told.
WriteAIDraft ==
  /\ ordered > 0
  /\ ordered' = ordered - 1
  /\ \E d \in Unused : drafts' = [drafts EXCEPT ![d] = d]
  /\ UNCHANGED <<listed, fetch, creating, editor, saving, crossed>>

\* setDraft: a closed dialog is mounted with the draft's text, an open one
\* keeps the text it shows.
Give(d, text) ==
  /\ editor' = IF editor.draft = NoDraft
                 THEN [draft |-> d, text |-> text, working |-> FALSE]
                 ELSE [editor EXCEPT !.draft = d]
  /\ crossed' = (crossed \/ editor.draft \notin {NoDraft, d})

\* The new draft joins the list of a context that has been loaded.
Known(d, text) ==
  listed' = IF fetch.step = "loaded" THEN [listed EXCEPT ![d] = text] ELSE listed

ReceiveCreate ==
  /\ creating.step = "created"
  /\ creating' = Resting
  /\ IF creating.draft = NoDraft
       THEN UNCHANGED <<listed, editor, crossed>>
       ELSE Give(creating.draft, creating.draft) /\ Known(creating.draft, creating.draft)
  /\ UNCHANGED <<drafts, fetch, ordered, saving>>

CreateFails ==
  /\ creating.step \in {"standard", "ai"}
  /\ creating' = Resting
  /\ UNCHANGED <<drafts, listed, fetch, ordered, editor, saving, crossed>>

-----------------------------------------------------------------------------
(* The dialog. *)

OpenEditor(d, text) == [draft |-> d, text |-> text, working |-> FALSE]

\* A draft of the list, whatever the drawer is doing.
OpenListed(d) ==
  /\ editor.draft = NoDraft /\ listed[d] # NoDraft
  /\ editor' = OpenEditor(d, listed[d])
  /\ UNCHANGED <<drafts, listed, fetch, creating, ordered, saving, crossed>>

CloseEditor ==
  /\ editor.draft # NoDraft
  /\ editor' = NoEditor
  /\ UNCHANGED <<drafts, listed, fetch, creating, ordered, saving, crossed>>

\* Save draft and Mark as notified; one call of the dialog at a time is
\* followed, one that a closed dialog has left behind included.
PressEditor(kind) ==
  /\ editor.draft # NoDraft /\ ~editor.working
  /\ saving.step = "none"
  /\ saving' = [step |-> kind, draft |-> editor.draft, text |-> editor.text]
  /\ editor' = [editor EXCEPT !.working = TRUE]
  /\ UNCHANGED <<drafts, listed, fetch, creating, ordered, crossed>>

ServeEditor ==
  /\ \/ /\ saving.step = "save"
        /\ drafts' = [drafts EXCEPT ![saving.draft] = saving.text]
        /\ saving' = [saving EXCEPT !.step = "saved"]
     \/ /\ saving.step = "mark"
        /\ saving' = [saving EXCEPT !.step = "marked"]
        /\ UNCHANGED drafts
  /\ UNCHANGED <<listed, fetch, creating, ordered, editor, crossed>>

\* The drawer is given the saved draft even if its dialog has been closed, or
\* another one opened, meanwhile.
Saved ==
  /\ saving.step = "saved"
  /\ saving' = Resting
  /\ crossed' = (crossed \/ editor.draft \notin {NoDraft, saving.draft})
  /\ editor' = IF editor.draft = NoDraft THEN OpenEditor(saving.draft, saving.text)
               ELSE [editor EXCEPT !.draft = saving.draft, !.working = FALSE]
  /\ listed' = IF listed[saving.draft] = NoDraft THEN listed
               ELSE [listed EXCEPT ![saving.draft] = saving.text]
  /\ UNCHANGED <<drafts, fetch, creating, ordered>>

\* setDraft(null) closes the dialog, whichever draft it shows by then.
Marked ==
  /\ saving.step = "marked"
  /\ saving' = Resting
  /\ editor' = NoEditor
  /\ UNCHANGED <<drafts, listed, fetch, creating, ordered, crossed>>

EditorFails ==
  /\ saving.step \in {"save", "mark"}
  /\ saving' = Resting
  /\ editor' = [editor EXCEPT !.working = FALSE]
  /\ UNCHANGED <<drafts, listed, fetch, creating, ordered, crossed>>

DraftNext ==
  \/ ServeContext \/ ReceiveContext
  \/ \E mode \in {"standard", "ai"} : CreateDraft(mode)
  \/ ServeCreate \/ WriteAIDraft \/ ReceiveCreate \/ CreateFails
  \/ \E d \in Drafts : OpenListed(d)
  \/ CloseEditor
  \/ \E kind \in {"save", "mark"} : PressEditor(kind)
  \/ ServeEditor \/ Saved \/ Marked \/ EditorFails

-----------------------------------------------------------------------------
(* Properties. *)

\* A draft is saved with the text that was written for it.  The dialog keeps
\* its text when the drawer gives it another draft, which happens only if a
\* draft was being created, or saved, while another one was opened.
DraftsKeepTheirText ==
  ~crossed => \A d \in Drafts : drafts[d] \in {d, NoDraft}

=============================================================================
