----------------------------- MODULE WebTriage ------------------------------
(***************************************************************************)
(* The alert work in the web console: its pages and dialogs, each with the *)
(* part of the server it talks to.                                         *)
(*                                                                         *)
(* A behaviour is a visit to one of them.  They share no state of the      *)
(* browser: App unmounts a page that is left, and what an answer finds     *)
(* after that is nothing.  Where two of them work on one client or alert   *)
(* the server's part of each module stands for the other.                  *)
(***************************************************************************)
EXTENDS WebAlerts, WebDrawer, WebDrafts, WebClients, WebEditors, WebCenter

VARIABLE visit   \* the part of the console in use

triageVars ==
  <<visit, listVars, drawerVars, draftVars, clientVars, editorVars, centerVars>>

TriageTypeOK ==
  /\ visit \in {"list", "drawer", "drafts", "clients", "editors", "center"}
  /\ ListTypeOK /\ DrawerTypeOK /\ DraftTypeOK
  /\ ClientsTypeOK /\ EditorsTypeOK /\ CenterTypeOK

TriageInit ==
  /\ visit \in {"list", "drawer", "drafts", "clients", "editors", "center"}
  /\ ListInit /\ DrawerInit /\ DraftInit
  /\ ClientsInit /\ EditorsInit /\ CenterInit

UseList ==
  /\ visit = "list" /\ ListNext
  /\ UNCHANGED <<visit, drawerVars, draftVars, clientVars, editorVars, centerVars>>

UseDrawer ==
  /\ visit = "drawer" /\ DrawerNext
  /\ UNCHANGED <<visit, listVars, draftVars, clientVars, editorVars, centerVars>>

UseDrafts ==
  /\ visit = "drafts" /\ DraftNext
  /\ UNCHANGED <<visit, listVars, drawerVars, clientVars, editorVars, centerVars>>

UseClients ==
  /\ visit = "clients" /\ ClientsNext
  /\ UNCHANGED <<visit, listVars, drawerVars, draftVars, editorVars, centerVars>>

UseEditors ==
  /\ visit = "editors" /\ EditorsNext
  /\ UNCHANGED <<visit, listVars, drawerVars, draftVars, clientVars, centerVars>>

UseCenter ==
  /\ visit = "center" /\ CenterNext
  /\ UNCHANGED <<visit, listVars, drawerVars, draftVars, clientVars, editorVars>>

TriageNext == UseList \/ UseDrawer \/ UseDrafts \/ UseClients \/ UseEditors \/ UseCenter

\* The timers of the browser fire and its requests are settled, by an answer or
\* an error.  Nobody has to press anything.
TriageSpec ==
  /\ TriageInit /\ [][TriageNext]_triageVars
  /\ WF_listVars(visit = "list" /\ BulkProgress)
  /\ WF_listVars(visit = "list" /\ TimerProgress)
  /\ WF_centerVars(visit = "center" /\ CenterProgress)

-----------------------------------------------------------------------------
(* Properties. *)

\* What an analyst writes is stored with what it was written about: a note with
\* its alert (NotesStayWithTheirAlert), a text with its draft
\* (DraftsKeepTheirText).
TextStaysWithItsSubject == NotesStayWithTheirAlert /\ DraftsKeepTheirText

\* Each view of the server's data converges to them once they rest: the alert
\* list (ViewConverges) and the corner of the AI tasks (CenterConverges).
ViewsConverge ==
  /\ visit = "list" => ViewConverges
  /\ visit = "center" => CenterConverges

=============================================================================
