---------------------------- MODULE WebResearch ----------------------------
(***************************************************************************)
(* The claims of the web console: ActivityDetailPage with its filters, its *)
(* pages and the research it queues for the claims selected (App.tsx).     *)
(* IntelligencePage and ActorVictimPivot ask their questions the same way. *)
(*                                                                         *)
(* A question is sent 220 ms after the last change of the filters or of    *)
(* the page, and its answer is applied whenever it comes.  The archive     *)
(* rests while the page is open.                                           *)
(***************************************************************************)
EXTENDS Naturals, Sequences, SequencesExt

CONSTANTS
  Claims,
  Archive,    \* the claims each filter finds, page by page
  BatchSize,  \* claims of one research job (25 in the code)
  MaxTurns,   \* bound: changes of the filters and of the page
  MaxAsks,    \* bound: questions without an answer
  MaxWishes   \* bound: times a claim is chosen by hand

\* A filter that finds nothing still has a page; one of them finds the most.
ASSUME ArchiveAssumption ==
  /\ IsFiniteSet(Claims)
  /\ \A f \in DOMAIN Archive : Archive[f] \in Seq(SUBSET Claims) /\ Archive[f] # <<>>
  /\ \E f \in DOMAIN Archive : \A g \in DOMAIN Archive : Len(Archive[f]) >= Len(Archive[g])
  /\ BatchSize \in Nat \ {0}
  /\ MaxTurns \in Nat /\ MaxAsks \in Nat /\ MaxWishes \in Nat

VARIABLES
  asked,      \* query, the selects and the switches; page; the timer
  loading,
  shown,      \* data: the question that was answered
  questions,  \* questions under way, in the order they were sent in
  chosen,     \* selectedIds
  run,        \* queueBulk; or the job of one claim from its dialog
  researched, \* server: how often a research job was queued for a claim
  wishes,     \* history: how often a claim was chosen by hand
  turns,      \* changes so far
  mishaps     \* history: what a property excepts

researchVars ==
  <<asked, loading, shown, questions, chosen, run, researched, wishes, turns, mishaps>>

ArchiveFilters == DOMAIN Archive
PagesOf(f) == Len(Archive[f])
\* No filter at all.
Everything == CHOOSE f \in ArchiveFilters : \A g \in ArchiveFilters : PagesOf(f) >= PagesOf(g)
Unfiltered == ""
Unasked == [filter |-> Unfiltered, page |-> 0]
Rest == [step |-> "idle", ids |-> <<>>, queued |-> 0, single |-> FALSE]

ResearchTypeOK ==
  /\ asked.filter \in ArchiveFilters /\ asked.page \in Nat \ {0} /\ asked.armed \in BOOLEAN
  /\ loading \in BOOLEAN
  /\ shown = Unasked \/ shown.filter \in ArchiveFilters
  /\ Len(questions) <= MaxAsks
  /\ chosen \subseteq Claims
  /\ run.step \in {"idle", "call", "answer"} /\ ToSet(run.ids) \subseteq Claims
  /\ researched \in [Claims -> 0 .. MaxWishes + 1] /\ wishes \in [Claims -> 0 .. MaxWishes]
  /\ turns \in 0 .. MaxTurns
  /\ mishaps \in [crossed : BOOLEAN, hasty : BOOLEAN, broken : BOOLEAN]

ResearchInit ==
  /\ asked = [filter |-> Everything, page |-> 1, armed |-> TRUE]
  /\ loading = TRUE
  /\ shown = Unasked
  /\ questions = <<>>
  /\ chosen = {}
  /\ run = Rest
  /\ researched = [c \in Claims |-> 0]
  /\ wishes = researched
  /\ turns = 0
  /\ mishaps = [crossed |-> FALSE, hasty |-> FALSE, broken |-> FALSE]

\* The rows of the answer that is shown; a page beyond the last has none.
PageRows == IF shown # Unasked /\ shown.page <= PagesOf(shown.filter)
              THEN Archive[shown.filter][shown.page] ELSE {}

askVars == <<asked, loading, shown, questions, turns>>
runVars == <<chosen, run, researched, wishes>>

-----------------------------------------------------------------------------
(* Questions. *)

Turn(filter, page) ==
  /\ turns < MaxTurns
  /\ turns' = turns + 1
  /\ asked' = [filter |-> filter, page |-> page, armed |-> TRUE]

\* Mutant: the page is kept.
PageKept == asked.page

FirstPage == 1

\* An effect sets the page back, and its render replaces the timer.
ChangeFilter ==
  /\ \E f \in ArchiveFilters \ {asked.filter} : Turn(f, FirstPage)
  /\ UNCHANGED <<loading, shown, questions, mishaps, runVars>>

\* The buttons compare the page asked for with the pages of the answer shown,
\* which is that of another filter until the new one is answered.
TurnPage ==
  /\ ~loading
  /\ \/ asked.page > 1 /\ Turn(asked.filter, asked.page - 1) /\ UNCHANGED mishaps
     \/ /\ asked.page < IF shown = Unasked THEN 1 ELSE PagesOf(shown.filter)
        /\ Turn(asked.filter, asked.page + 1)
        /\ mishaps' = [mishaps EXCEPT !.hasty = @ \/ shown.filter # asked.filter]
  /\ UNCHANGED <<loading, shown, questions, runVars>>

Ask ==
  /\ asked.armed /\ Len(questions) < MaxAsks
  /\ asked' = [asked EXCEPT !.armed = FALSE]
  /\ questions' = Append(questions, [filter |-> asked.filter, page |-> asked.page, late |-> FALSE])
  /\ loading' = TRUE
  /\ UNCHANGED <<shown, turns, mishaps, runVars>>

\* The first answer clears the loading flag, a later question's included.
Answer(i) ==
  /\ i \in DOMAIN questions
  /\ \/ /\ shown' = [filter |-> questions[i].filter, page |-> questions[i].page]
        /\ mishaps' = [mishaps EXCEPT !.crossed = @ \/ questions[i].late]
     \/ /\ mishaps' = [mishaps EXCEPT !.crossed = TRUE]    \* the question failed
        /\ UNCHANGED shown
  /\ questions' = RemoveAt([k \in DOMAIN questions |-> [questions[k] EXCEPT !.late = @ \/ k < i]], i)
  /\ loading' = FALSE
  /\ UNCHANGED <<asked, turns, runVars>>

-----------------------------------------------------------------------------
(* Research. *)

Wished(cs) == wishes' = [c \in Claims |-> wishes[c] + (IF c \in cs THEN 1 ELSE 0)]
CanWish(cs) == \A c \in cs : wishes[c] < MaxWishes

ChooseClaim ==
  /\ \E c \in PageRows :
       IF c \in chosen
         THEN chosen' = chosen \ {c} /\ UNCHANGED wishes
         ELSE CanWish({c}) /\ Wished({c}) /\ chosen' = chosen \cup {c}
  /\ UNCHANGED <<askVars, run, researched, mishaps>>

\* togglePage; the claims of other pages stay selected.
ChoosePage ==
  /\ PageRows # {}
  /\ IF PageRows \subseteq chosen
       THEN chosen' = chosen \ PageRows /\ UNCHANGED wishes
       ELSE /\ CanWish(PageRows \ chosen) /\ Wished(PageRows \ chosen)
            /\ chosen' = chosen \cup PageRows
  /\ UNCHANGED <<askVars, run, researched, mishaps>>

\* queueBulk works on the claims selected when it is pressed.
QueueBulk ==
  /\ run.step = "idle" /\ chosen # {}
  /\ run' = [Rest EXCEPT !.step = "call", !.ids = SetToSeq(chosen)]
  /\ UNCHANGED <<askVars, chosen, researched, wishes, mishaps>>

\* enrich, for the claim of the dialog; bound: one run or enrich at a time.
EnrichClaim ==
  /\ run.step = "idle"
  /\ \E c \in PageRows :
       /\ CanWish({c}) /\ Wished({c})
       /\ run' = [Rest EXCEPT !.step = "call", !.ids = <<c>>, !.single = TRUE]
  /\ UNCHANGED <<askVars, chosen, researched, mishaps>>

BatchEnd == LET end == run.queued + BatchSize
            IN IF end < Len(run.ids) THEN end ELSE Len(run.ids)
Batch == SubSeq(run.ids, run.queued + 1, BatchEnd)

ServeBatch ==
  /\ run.step = "call"
  /\ researched' = [c \in Claims |->
       IF c \in ToSet(Batch) /\ researched[c] <= MaxWishes THEN researched[c] + 1 ELSE researched[c]]
  /\ run' = [run EXCEPT !.step = "answer"]
  /\ UNCHANGED <<askVars, chosen, wishes, mishaps>>

\* Mutant: the selection is kept for another run.
ChosenStill == chosen

\* setSelectedIds(new Set()): also what was selected during the run.
ChosenAfterRun == {}

ReceiveBatch ==
  /\ run.step = "answer"
  /\ IF BatchEnd < Len(run.ids)
       THEN run' = [run EXCEPT !.step = "call", !.queued = BatchEnd] /\ UNCHANGED chosen
       ELSE run' = Rest /\ chosen' = (IF run.single THEN chosen ELSE ChosenAfterRun)
  /\ UNCHANGED <<askVars, researched, wishes, mishaps>>

\* A batch that fails ends the run and leaves the whole selection.
LoseBatch ==
  /\ run.step # "idle"
  /\ run' = Rest
  /\ mishaps' = [mishaps EXCEPT !.broken = TRUE]
  /\ UNCHANGED <<askVars, chosen, researched, wishes>>

ResearchNext ==
  \/ ChangeFilter \/ TurnPage \/ Ask
  \/ \E i \in 1 .. MaxAsks : Answer(i)
  \/ ChooseClaim \/ ChoosePage \/ QueueBulk \/ EnrichClaim
  \/ ServeBatch \/ ReceiveBatch \/ LoseBatch

-----------------------------------------------------------------------------
(* Properties. *)

\* The rows are those of the filters and of the page in the controls once
\* nothing is under way, unless a question failed or was overtaken.
ClaimsAreThoseAskedFor ==
  ~mishaps.crossed /\ ~asked.armed /\ questions = <<>>
    => shown.filter = asked.filter /\ shown.page = asked.page

\* The page asked for exists, unless "Next" was pressed by the pages of the
\* former filter, before the new one was answered.
TurnedPageExists == ~mishaps.hasty => asked.page <= PagesOf(asked.filter)

\* No claim is researched more often than it was chosen by hand, however
\* selection and runs interleave, unless a batch failed: the claims of the
\* batches before it stay selected and are queued again with the rest.
ResearchedAsOftenAsChosen == ~mishaps.broken => \A c \in Claims : researched[c] <= wishes[c]

=============================================================================
