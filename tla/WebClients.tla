----------------------------- MODULE WebClients -----------------------------
(***************************************************************************)
(* The watchlist of the web console: ClientsPage, the form of a client and *)
(* the question before a client is deleted (App.tsx).  WebEditors has the  *)
(* contents of the form.                                                   *)
(*                                                                         *)
(* Both dialogs can be closed, and opened for another client, while a call *)
(* of theirs is unanswered.  The answer closes whatever dialog of its kind *)
(* is open, for it sets the state of the page and not of the dialog.  A    *)
(* profile is the number of the edit that wrote it.                        *)
(***************************************************************************)
EXTENDS Naturals

CONSTANTS
  Customers,    \* the clients
  NewClient,    \* the form that adds a client
  NoClient,
  MaxEdits      \* bound: forms submitted, and edits of other analysts

ASSUME ClientsAssumption == MaxEdits \in Nat

VARIABLES
  profiles,     \* server: the edit that wrote a client's profile; 0: deleted
  clients,      \* App's clients, as last refreshed
  editing,      \* ClientsPage's editing, with the form's base and dirty flag
  saves,        \* submit's calls: of the open form, and one it has left behind
  deleting,     \* ClientsPage's deleting
  removals,     \* remove's calls: of the open question, and one left behind
  edits,        \* edits numbered so far
  work          \* history: how unsaved changes were lost

clientVars == <<profiles, clients, editing, saves, deleting, removals, edits, work>>

NoEditing == [of |-> NoClient, base |-> 0, dirty |-> FALSE, saving |-> FALSE]
NoSave == [step |-> "none", of |-> NoClient, edit |-> 0]
NoRemoval == [step |-> "none", of |-> NoClient]
Whose == {"own", "left"}
Registered == {c \in Customers : profiles[c] # 0}
Shown == {c \in Customers : clients[c] # 0}
Forms == Customers \cup {NewClient, NoClient}

ClientsTypeOK ==
  /\ profiles \in [Customers -> Nat] /\ clients \in [Customers -> Nat]
  /\ editing \in [of : Forms, base : Nat, dirty : BOOLEAN, saving : BOOLEAN]
  /\ saves \in [Whose -> [step : {"none", "sent", "stored", "refused"}, of : Forms, edit : Nat]]
  /\ deleting \in [of : Customers \cup {NoClient}, working : BOOLEAN]
  /\ removals \in [Whose -> [step : {"none", "sent", "done", "refused"},
                             of : Customers \cup {NoClient}]]
  /\ edits \in 0 .. MaxEdits + 1
  /\ work \in [lost : BOOLEAN, overtaken : BOOLEAN, late : BOOLEAN]

\* One client is registered, and shown.
ClientsInit ==
  /\ profiles = [c \in Customers |-> IF c = CHOOSE d \in Customers : TRUE THEN 1 ELSE 0]
  /\ clients = profiles
  /\ editing = NoEditing
  /\ saves = [w \in Whose |-> NoSave]
  /\ deleting = [of |-> NoClient, working |-> FALSE]
  /\ removals = [w \in Whose |-> NoRemoval]
  /\ edits = 1
  /\ work = [lost |-> FALSE, overtaken |-> FALSE, late |-> FALSE]

FormOpen == editing.of # NoClient

-----------------------------------------------------------------------------
(* The form. *)

\* ClientModal copies the client of the list.
OpenForm(c) ==
  /\ ~FormOpen /\ deleting.of = NoClient
  /\ c = NewClient \/ c \in Shown
  /\ editing' = [NoEditing EXCEPT !.of = c, !.base = IF c = NewClient THEN 0 ELSE clients[c]]
  /\ work' = [work EXCEPT !.overtaken = @ \/ saves["left"].step # "none"]
  /\ UNCHANGED <<profiles, clients, saves, deleting, removals, edits>>

\* The fields stay enabled while the form is being saved.
EditClient ==
  /\ FormOpen
  /\ editing' = [editing EXCEPT !.dirty = TRUE]
  /\ work' = [work EXCEPT !.late = @ \/ editing.saving]
  /\ UNCHANGED <<profiles, clients, saves, deleting, removals, edits>>

\* A form can be left at any time; bound: one call left behind.
CloseForm ==
  /\ FormOpen
  /\ saves["own"].step = "none" \/ saves["left"].step = "none"
  /\ editing' = NoEditing
  /\ saves' = IF saves["own"].step = "none" THEN saves
              ELSE [own |-> NoSave, left |-> saves["own"]]
  /\ UNCHANGED <<profiles, clients, deleting, removals, edits, work>>

SubmitForm ==
  /\ FormOpen /\ ~editing.saving
  /\ edits <= MaxEdits
  /\ edits' = edits + 1
  /\ editing' = [editing EXCEPT !.saving = TRUE, !.dirty = FALSE]
  /\ saves' = [saves EXCEPT !["own"] = [step |-> "sent", of |-> editing.of, edit |-> edits]]
  /\ UNCHANGED <<profiles, clients, deleting, removals, work>>

\* POST /api/v1/clients adds a client, PUT replaces every field of one.
ServeSave(w) ==
  LET s == saves[w] IN
  /\ s.step = "sent"
  /\ \/ /\ s.of = NewClient
        /\ \E c \in Customers \ Registered :
             /\ profiles' = [profiles EXCEPT ![c] = s.edit]
             /\ saves' = [saves EXCEPT ![w].step = "stored"]
     \/ /\ s.of \in Registered
        /\ profiles' = [profiles EXCEPT ![s.of] = s.edit]
        /\ saves' = [saves EXCEPT ![w].step = "stored"]
     \/ /\ saves' = [saves EXCEPT ![w].step = "refused"]   \* 404, or a form it refuses
        /\ UNCHANGED profiles
  /\ UNCHANGED <<clients, editing, deleting, removals, edits, work>>

\* onCreated closes the form that is open by now.
SaveAnswered(w) ==
  /\ saves[w].step = "stored"
  /\ saves' = [own |-> NoSave,
               left |-> IF w = "left" THEN saves["own"] ELSE saves["left"]]
  /\ editing' = NoEditing
  /\ work' = [work EXCEPT !.lost = @ \/ editing.dirty]
  /\ UNCHANGED <<profiles, clients, deleting, removals, edits>>

\* A form that was left shows no error and resets no flag.
SaveRefused(w) ==
  /\ saves[w].step = "refused"
  /\ saves' = [saves EXCEPT ![w] = NoSave]
  /\ editing' = IF w = "own" THEN [editing EXCEPT !.saving = FALSE, !.dirty = TRUE] ELSE editing
  /\ UNCHANGED <<profiles, clients, deleting, removals, edits, work>>

-----------------------------------------------------------------------------
(* The question before a client is deleted. *)

OpenQuestion(c) ==
  /\ ~FormOpen /\ deleting.of = NoClient
  /\ c \in Shown
  /\ deleting' = [of |-> c, working |-> FALSE]
  /\ UNCHANGED <<profiles, clients, editing, saves, removals, edits, work>>

\* Cancel is disabled during the call, the dialog's cross is not.
CloseQuestion ==
  /\ deleting.of # NoClient
  /\ removals["own"].step = "none" \/ removals["left"].step = "none"
  /\ deleting' = [of |-> NoClient, working |-> FALSE]
  /\ removals' = IF removals["own"].step = "none" THEN removals
                 ELSE [own |-> NoRemoval, left |-> removals["own"]]
  /\ UNCHANGED <<profiles, clients, editing, saves, edits, work>>

RemoveClient ==
  /\ deleting.of # NoClient /\ ~deleting.working
  /\ deleting' = [deleting EXCEPT !.working = TRUE]
  /\ removals' = [removals EXCEPT !["own"] = [step |-> "sent", of |-> deleting.of]]
  /\ UNCHANGED <<profiles, clients, editing, saves, edits, work>>

ServeRemoval(w) ==
  /\ removals[w].step = "sent"
  /\ IF removals[w].of \in Registered
       THEN /\ profiles' = [profiles EXCEPT ![removals[w].of] = 0]
            /\ removals' = [removals EXCEPT ![w].step = "done"]
       ELSE /\ removals' = [removals EXCEPT ![w].step = "refused"]
            /\ UNCHANGED profiles
  /\ UNCHANGED <<clients, editing, saves, deleting, edits, work>>

\* onDeleted closes the question that is open by now; no question is dirty.
RemovalAnswered(w) ==
  /\ removals[w].step = "done"
  /\ removals' = [own |-> NoRemoval,
                  left |-> IF w = "left" THEN removals["own"] ELSE removals["left"]]
  /\ deleting' = [of |-> NoClient, working |-> FALSE]
  /\ UNCHANGED <<profiles, clients, editing, saves, edits, work>>

RemovalRefused(w) ==
  /\ removals[w].step = "refused"
  /\ removals' = [removals EXCEPT ![w] = NoRemoval]
  /\ deleting' = IF w = "own" THEN [deleting EXCEPT !.working = FALSE] ELSE deleting
  /\ UNCHANGED <<profiles, clients, editing, saves, edits, work>>

-----------------------------------------------------------------------------
(* Around the page. *)

\* Mutant: the rows, and the dialogs with them, are mounted anew.
RemountClients ==
  /\ clients' = profiles
  /\ editing' = NoEditing
  /\ work' = [work EXCEPT !.lost = @ \/ editing.dirty]
  /\ UNCHANGED <<profiles, saves, deleting, removals, edits>>

\* App.refresh, by its timer and after each call; an open dialog keeps the
\* client it was opened with.
RefreshClients ==
  /\ clients' = profiles
  /\ UNCHANGED <<profiles, editing, saves, deleting, removals, edits, work>>

\* Another analyst.
OtherEdit(c) ==
  /\ c \in Registered /\ edits <= MaxEdits
  /\ edits' = edits + 1
  /\ \E edit \in {0, edits} : profiles' = [profiles EXCEPT ![c] = edit]
  /\ UNCHANGED <<clients, editing, saves, deleting, removals, work>>

ClientsNext ==
  \/ \E c \in Customers \cup {NewClient} : OpenForm(c)
  \/ EditClient \/ CloseForm \/ SubmitForm \/ CloseQuestion \/ RemoveClient \/ RefreshClients
  \/ \E c \in Customers : OpenQuestion(c) \/ OtherEdit(c)
  \/ \E w \in Whose : ServeSave(w) \/ SaveAnswered(w) \/ SaveRefused(w)
  \/ \E w \in Whose : ServeRemoval(w) \/ RemovalAnswered(w) \/ RemovalRefused(w)

-----------------------------------------------------------------------------
(* Properties. *)

\* Changes that were not submitted go only with their form, and an answer takes
\* a form away only if it is its own, or was left behind by a form closed too
\* early; what is typed while a form is being saved goes with it.
UnsavedWorkIsKept == work.lost => work.overtaken \/ work.late

=============================================================================
