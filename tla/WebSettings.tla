---------------------------- MODULE WebSettings ----------------------------
(***************************************************************************)
(* The runtime settings as two pages of the web console edit them: the     *)
(* form of SettingsPage and the capture controls of DirectSitesPage        *)
(* (App.tsx), both above PUT /api/v1/settings/runtime, which replaces      *)
(* all the fields.                                                         *)
(*                                                                         *)
(* Each page keeps a copy of all the fields and sends all of them.  Each   *)
(* of its buttons knows its own flag only, so that two saves of one page   *)
(* can be under way at once; and the loads of the controls overlap.  A     *)
(* value is the number of the edit that chose it.                          *)
(***************************************************************************)
EXTENDS Naturals, FiniteSets

CONSTANTS
  Fields,       \* the settings; among them "schedule", "coverage", and "mode",
                \* the operating mode with the switch of the scheduling
  Buttons,      \* buttons that save: "save", "testAI", "sendDigest" of the
                \* form, "schedule", "coverage" of the controls
  MaxEdits,     \* bound: edits
  MaxSaves,     \* bound: saves under way
  MaxFetches    \* bound: loads of the controls under way

ASSUME SettingsAssumption ==
  /\ {"schedule", "coverage", "mode"} \subseteq Fields
  /\ Buttons \subseteq {"save", "testAI", "sendDigest", "schedule", "coverage"}
  /\ MaxEdits \in Nat /\ MaxFetches \in Nat

VARIABLES
  settings,  \* server: runtime_settings
  copies,    \* SettingsPage.form; DirectSitesPage.runtime
  interval,  \* DirectSitesPage.captureInterval
  fetched,   \* the answers to the GETs of the pages, until they are applied
  saving,    \* the calls of the buttons
  choices,   \* edits so far
  behind,    \* history: a save was stored that the page does not know of
  reverted,  \* history: a save replaced a choice by an earlier one
  tangled    \* history: a save left a page that was behind, or crossed a call

settingVars ==
  <<settings, copies, interval, fetched, saving, choices, behind, reverted, tangled>>

SettingPages == {"settings", "sites"}
PageOf(b) == IF b \in {"schedule", "coverage"} THEN "sites" ELSE "settings"
Other(p) == CHOOSE q \in SettingPages : q # p
Values == [Fields -> 0 .. MaxEdits]
Unsaved == [step |-> "none", sent |-> [f \in Fields |-> 0]]
Unloaded == [seen |-> FALSE, values |-> [f \in Fields |-> 0]]

\* The form loads when it is opened; refresh has as many callers as there are
\* commands and searches, and none waits for another.
Loads == {"settings"} \X {1} \cup {"sites"} \X (1 .. MaxFetches)

\* The fields each page edits in its copy.
Editable(p) == IF p = "sites" THEN Fields \cap {"coverage"} ELSE Fields

SettingsTypeOK ==
  /\ settings \in Values
  /\ copies \in [SettingPages -> Values]
  /\ interval \in 0 .. MaxEdits
  /\ fetched \in [Loads -> [seen : BOOLEAN, values : Values]]
  /\ saving \in [Buttons -> [step : {"none", "sent", "stored"}, sent : Values]]
  /\ choices \in 0 .. MaxEdits
  /\ behind \in [SettingPages -> BOOLEAN]
  /\ reverted \in BOOLEAN /\ tangled \in BOOLEAN

SettingsInit ==
  /\ settings = [f \in Fields |-> 0]
  /\ copies = [p \in SettingPages |-> settings]
  /\ interval = 0
  /\ fetched = [l \in Loads |-> Unloaded]
  /\ saving = [b \in Buttons |-> Unsaved]
  /\ choices = 0
  /\ behind = [p \in SettingPages |-> FALSE]
  /\ reverted = FALSE /\ tangled = FALSE

Busy(b) == saving[b].step # "none"

-----------------------------------------------------------------------------
(* The pages. *)

\* The fields stay enabled during a call.
ChooseSetting(p, f) ==
  /\ f \in Editable(p) /\ choices < MaxEdits
  /\ choices' = choices + 1
  /\ copies' = [copies EXCEPT ![p][f] = choices + 1]
  /\ UNCHANGED <<settings, interval, fetched, saving, behind, reverted, tangled>>

ChooseInterval ==
  /\ choices < MaxEdits
  /\ choices' = choices + 1
  /\ interval' = choices + 1
  /\ UNCHANGED <<settings, copies, fetched, saving, behind, reverted, tangled>>

\* save, testAI and sendDigest, after the credential the last two may store
\* first, and saveCoverageControls send the whole copy of the page, edits made
\* for another button included.  saveCaptureSchedule sends the interval chosen
\* beside it, and the active mode with the scheduling on: a choice of its own.
Sent(b) ==
  LET copy == copies[PageOf(b)] IN
  IF b = "schedule" THEN [copy EXCEPT !.schedule = interval, !.mode = choices + 1] ELSE copy

PressSave(b) ==
  /\ ~Busy(b)
  /\ Cardinality({c \in Buttons : Busy(c)}) < MaxSaves
  /\ IF b = "schedule" THEN choices < MaxEdits /\ choices' = choices + 1
                       ELSE UNCHANGED choices
  /\ saving' = [saving EXCEPT ![b] = [step |-> "sent", sent |-> Sent(b)]]
  /\ tangled' = (tangled \/ behind[PageOf(b)] \/ \E c \in Buttons \ {b} : Busy(c))
  /\ UNCHANGED <<settings, copies, interval, fetched, behind, reverted>>

\* PUT /api/v1/settings/runtime.
ServeSave(b) ==
  /\ saving[b].step = "sent"
  /\ settings' = saving[b].sent
  /\ saving' = [saving EXCEPT ![b].step = "stored"]
  /\ behind' = [behind EXCEPT ![Other(PageOf(b))] = TRUE]
  /\ reverted' = (reverted \/ \E f \in Fields : saving[b].sent[f] < settings[f])
  /\ UNCHANGED <<copies, interval, fetched, choices, tangled>>

\* Mutant: the page returns to the copy it was opened with.
CopyOfMount(b) == [copies EXCEPT ![PageOf(b)] = [f \in Fields |-> 0]]

\* setForm(updated), setRuntime(updated): what was edited during the call goes.
CopyOfSave(b) == [copies EXCEPT ![PageOf(b)] = saving[b].sent]

ReceiveSave(b) ==
  /\ saving[b].step = "stored"
  /\ copies' = CopyOfSave(b)
  /\ saving' = [saving EXCEPT ![b] = Unsaved]
  /\ UNCHANGED <<settings, interval, fetched, choices, behind, reverted, tangled>>

\* A call that is refused, or whose answer is lost, leaves the copy as it is.
FailSave(b) ==
  /\ Busy(b)
  /\ saving' = [saving EXCEPT ![b] = Unsaved]
  /\ behind' = [behind EXCEPT ![PageOf(b)] = @ \/ saving[b].step = "stored"]
  /\ UNCHANGED <<settings, copies, interval, fetched, choices, reverted, tangled>>

\* GET /api/v1/settings/runtime.
ServeSettings(l) ==
  /\ ~fetched[l].seen
  /\ fetched' = [fetched EXCEPT ![l] = [seen |-> TRUE, values |-> settings]]
  /\ UNCHANGED <<settings, copies, interval, saving, choices, behind, reverted, tangled>>

\* Answers are applied in any order, during a save as well.  One that is older
\* than what is stored, or than what the page is storing, leaves the page behind.
ReceiveSettings(l) ==
  LET p == l[1]  values == fetched[l].values IN
  /\ fetched[l].seen
  /\ fetched' = [fetched EXCEPT ![l] = Unloaded]
  /\ copies' = [copies EXCEPT ![p] = values]
  /\ interval' = IF p = "sites" THEN values["schedule"] ELSE interval
  /\ behind' = [behind EXCEPT ![p] =
       values # settings \/ \E b \in Buttons : PageOf(b) = p /\ saving[b].step = "sent"]
  /\ UNCHANGED <<settings, saving, choices, reverted, tangled>>

\* One of the two GETs fails.
MissSettings(l) ==
  /\ fetched[l].seen
  /\ fetched' = [fetched EXCEPT ![l] = Unloaded]
  /\ UNCHANGED <<settings, copies, interval, saving, choices, behind, reverted, tangled>>

SettingsNext ==
  \/ ChooseInterval
  \/ \E l \in Loads : ServeSettings(l) \/ ReceiveSettings(l) \/ MissSettings(l)
  \/ \E p \in SettingPages, f \in Fields : ChooseSetting(p, f)
  \/ \E b \in Buttons : PressSave(b) \/ ServeSave(b) \/ ReceiveSave(b) \/ FailSave(b)

-----------------------------------------------------------------------------
(* Properties. *)

\* A stored choice is replaced by an earlier one only by a save whose page was
\* behind the server, or whose call crossed another one: every button sends all
\* the fields, and the server has no way to tell which were meant.  A page is
\* behind after a save of the other page, after one of its own whose answer was
\* lost, and after an answer that is older than a save.  The schedule button
\* chooses the mode as well: it takes back every other mode, a newer one too.
ChoicesAreNotReverted == reverted => tangled

=============================================================================
