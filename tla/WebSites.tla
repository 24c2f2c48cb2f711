------------------------------ MODULE WebSites ------------------------------
(***************************************************************************)
(* The page of the threat-actor sites: DirectSitesPage with its search,    *)
(* its allowlist and its polling (App.tsx).  WebSettings has its capture   *)
(* controls.                                                               *)
(*                                                                         *)
(* The page asks for its data 200 ms after a change of the search, every   *)
(* 3 seconds while the answer shown holds an unfinished capture, and after *)
(* a command.  Nothing orders the answers.  A question under way is the    *)
(* snapshot the server took for it; questions are kept in the order they   *)
(* were served in.  A search is the set of the sites it matches.           *)
(***************************************************************************)
EXTENDS Naturals, Integers, Sequences, FiniteSets, SequencesExt

CONSTANTS
  Sites,
  Searches,    \* sets of sites: no text matches all of them, some may match none
  MaxCalls,    \* bound: calls without an answer
  MaxPresses   \* bound: presses of a button that changes the allowlist

ASSUME SearchAssumption ==
  /\ IsFiniteSet(Sites)
  /\ Sites \in Searches /\ Searches \subseteq SUBSET Sites
  /\ MaxCalls \in Nat /\ MaxPresses \in Nat

VARIABLES
  allowed,   \* server: the targets with capture_enabled
  capturing, \* server: a capture is queued or running
  search,    \* query, and whether its timer is armed
  data,      \* data: the answer shown, with the changes made to it since
  answers,   \* questions under way
  picked,    \* selectedIds
  toggles,   \* calls of toggle, of which a site may have two
  command,   \* the call of bulkUpdate, or of sync, queue and clearCaptureJobs
  presses,   \* presses so far
  tangle     \* history: how answers have crossed

siteVars ==
  <<allowed, capturing, search, data, answers, picked, toggles, command, presses, tangle>>

Presses == {1, 2}
NoToggle == [step |-> "none", site |-> {}, to |-> FALSE]
NoCommand == [step |-> "none", ids |-> {}, to |-> FALSE, of |-> {}]
NoData == [of |-> {}, on |-> {}, count |-> 0, active |-> FALSE]

SitesTypeOK ==
  /\ allowed \subseteq Sites /\ picked \subseteq Sites
  /\ capturing \in BOOLEAN
  /\ search \in [of : Searches, armed : BOOLEAN]
  /\ data.of \in Searches \cup {{}} /\ data.on \subseteq data.of /\ data.count \in Int
  /\ Len(answers) <= MaxCalls
  /\ \A i \in DOMAIN answers : answers[i].of \in Searches /\ answers[i].late \in BOOLEAN
  /\ toggles \in [Presses -> [step : {"none", "sent", "served"}, site : SUBSET Sites, to : BOOLEAN]]
  /\ command.step \in {"none", "sent", "served"} /\ command.ids \subseteq Sites
  /\ presses \in 0 .. MaxPresses
  /\ tangle \in [searches : BOOLEAN, counts : BOOLEAN]

SitesInit ==
  /\ allowed = {} /\ capturing = FALSE
  /\ search = [of |-> Sites, armed |-> TRUE]
  /\ data = NoData
  /\ answers = <<>>
  /\ picked = {}
  /\ toggles = [p \in Presses |-> NoToggle]
  /\ command = NoCommand
  /\ presses = 0
  /\ tangle = [searches |-> FALSE, counts |-> FALSE]

Toggling == \E p \in Presses : toggles[p].step # "none"

Calls == Len(answers) + Cardinality({p \in Presses : toggles[p].step # "none"})
         + (IF command.step = "none" THEN 0 ELSE 1)

Pressable == presses < MaxPresses /\ Calls < MaxCalls

-----------------------------------------------------------------------------
(* Questions. *)

SearchFor(q) == search' = [of |-> q, armed |-> TRUE]

TypeSearch ==
  /\ \E q \in Searches \ {search.of} : SearchFor(q)
  /\ UNCHANGED <<allowed, capturing, data, answers, picked, toggles, command, presses, tangle>>

\* GET /api/v1/direct-sites, served for a search; it counts the sites allowed
\* among those it lists.
Question(q) ==
  /\ answers' = Append(answers,
       [of |-> q, on |-> allowed \cap q, active |-> capturing, late |-> FALSE])
  /\ tangle' = [searches |-> tangle.searches \/ q # search.of,
                counts |-> tangle.counts \/ Toggling]

SearchTimer ==
  /\ search.armed /\ Calls < MaxCalls
  /\ Question(search.of)
  /\ search' = [search EXCEPT !.armed = FALSE]
  /\ UNCHANGED <<allowed, capturing, data, picked, toggles, command, presses>>

PollTimer ==
  /\ data.active /\ Calls < MaxCalls
  /\ Question(search.of)
  /\ UNCHANGED <<allowed, capturing, search, data, picked, toggles, command, presses>>

ReceiveAnswer(i) ==
  /\ i \in DOMAIN answers
  /\ data' = [of |-> answers[i].of, on |-> answers[i].on,
              count |-> Cardinality(answers[i].on), active |-> answers[i].active]
  /\ answers' = RemoveAt([k \in DOMAIN answers |-> [answers[k] EXCEPT !.late = @ \/ k < i]], i)
  /\ tangle' = [searches |-> tangle.searches \/ answers[i].late,
                counts |-> tangle.counts \/ Toggling]
  /\ UNCHANGED <<allowed, capturing, search, picked, toggles, command, presses>>

\* A question that fails leaves the page as it is.
LoseAnswer(i) ==
  /\ i \in DOMAIN answers
  /\ answers' = RemoveAt(answers, i)
  /\ tangle' = [tangle EXCEPT !.searches = TRUE]
  /\ UNCHANGED <<allowed, capturing, search, data, picked, toggles, command, presses>>

-----------------------------------------------------------------------------
(* The allowlist. *)

\* The check boxes, and the buttons that select what is listed; bound: while a
\* press is left.
Pick ==
  /\ presses < MaxPresses
  /\ \/ \E s \in data.of : picked' = IF s \in picked THEN picked \ {s} ELSE picked \cup {s}
     \/ command.ids = {} /\ picked' \in {{}, data.of, data.on, data.of \ data.on}
  /\ UNCHANGED <<allowed, capturing, search, data, answers, toggles, command, presses, tangle>>

\* toggle asks for the opposite of what is shown; its button stays enabled.
PressToggle(s) ==
  /\ s \in data.of /\ Pressable
  /\ \E p \in Presses :
       /\ toggles[p].step = "none" /\ \A o \in Presses : toggles[o].step = "none" => p <= o
       /\ toggles' = [toggles EXCEPT ![p] = [step |-> "sent", site |-> {s}, to |-> s \notin data.on]]
  /\ presses' = presses + 1
  /\ tangle' = [tangle EXCEPT !.counts = @ \/ answers # <<>> \/ command.ids # {}
                                            \/ \E p \in Presses : toggles[p].site = {s}]
  /\ UNCHANGED <<allowed, capturing, search, data, answers, picked, command>>

Put(ids, to) == IF to THEN allowed \cup ids ELSE allowed \ ids

ServeToggle(p) ==
  /\ toggles[p].step = "sent"
  /\ allowed' = Put(toggles[p].site, toggles[p].to)
  /\ toggles' = [toggles EXCEPT ![p].step = "served"]
  /\ UNCHANGED <<capturing, search, data, answers, picked, command, presses, tangle>>

\* Mutant: allowing and disallowing both count up.
CountAfterAny(to) == data.count + 1

CountAfter(to) == data.count + (IF to THEN 1 ELSE -1)

\* Only a site that is listed by then is shown with its new state.
ReceiveToggle(p) ==
  LET t == toggles[p] IN
  /\ t.step = "served"
  /\ data' = [data EXCEPT !.count = CountAfter(t.to),
                          !.on = IF t.to THEN @ \cup (t.site \cap data.of) ELSE @ \ t.site]
  /\ toggles' = [toggles EXCEPT ![p] = NoToggle]
  /\ UNCHANGED <<allowed, capturing, search, answers, picked, command, presses, tangle>>

\* toggle shows nothing when its call fails.
LoseToggle(p) ==
  /\ toggles[p].step # "none"
  /\ toggles' = [toggles EXCEPT ![p] = NoToggle]
  /\ UNCHANGED <<allowed, capturing, search, data, answers, picked, command, presses, tangle>>

-----------------------------------------------------------------------------
(* Commands. *)

\* bulkUpdate works on the selection, which no search has cut down.
PressBulk(to) ==
  /\ picked # {} /\ command.step = "none" /\ Pressable
  /\ command' = [step |-> "sent", ids |-> picked, to |-> to, of |-> search.of]
  /\ presses' = presses + 1
  /\ tangle' = [tangle EXCEPT !.counts = @ \/ Toggling]
  /\ UNCHANGED <<allowed, capturing, search, data, answers, picked, toggles>>

\* sync, queue and clearCaptureJobs; bound: one command at a time.
PressCommand ==
  /\ command.step = "none" /\ Pressable
  /\ command' = [NoCommand EXCEPT !.step = "sent", !.of = search.of]
  /\ presses' = presses + 1
  /\ UNCHANGED <<allowed, capturing, search, data, answers, picked, toggles, tangle>>

ServeCommand ==
  /\ command.step = "sent"
  /\ allowed' = Put(command.ids, command.to)
  /\ command' = [command EXCEPT !.step = "served"]
  /\ UNCHANGED <<capturing, search, data, answers, picked, toggles, presses, tangle>>

\* The refresh after a command asks for the search of the time it was given.
ReceiveCommand ==
  /\ command.step = "served"
  /\ Question(command.of)
  /\ command' = NoCommand
  /\ IF command.ids = {} THEN UNCHANGED <<data, picked>>
     ELSE LET on == (IF command.to THEN data.on \cup command.ids
                     ELSE data.on \ command.ids) \cap data.of
          IN data' = [data EXCEPT !.on = on, !.count = Cardinality(on)] /\ picked' = {}
  /\ UNCHANGED <<allowed, capturing, search, toggles, presses>>

LoseCommand ==
  /\ command.step # "none"
  /\ command' = NoCommand
  /\ UNCHANGED <<allowed, capturing, search, data, answers, picked, toggles, presses, tangle>>

\* Captures start and end.
CapturesMove ==
  /\ capturing' = ~capturing
  /\ UNCHANGED <<allowed, search, data, answers, picked, toggles, command, presses, tangle>>

SitesNext ==
  \/ TypeSearch \/ SearchTimer \/ PollTimer \/ Pick
  \/ \E i \in 1 .. MaxCalls : ReceiveAnswer(i) \/ LoseAnswer(i)
  \/ \E s \in Sites : PressToggle(s)
  \/ \E p \in Presses : ServeToggle(p) \/ ReceiveToggle(p) \/ LoseToggle(p)
  \/ \E to \in BOOLEAN : PressBulk(to)
  \/ PressCommand \/ ServeCommand \/ ReceiveCommand \/ LoseCommand
  \/ CapturesMove

-----------------------------------------------------------------------------
(* Properties. *)

\* The sites listed are those of the search in the box once its question has
\* been answered, unless an answer was lost or came after a later one, or a
\* command refreshed an earlier search.
SearchIsAnswered ==
  ~tangle.searches /\ ~search.armed /\ answers = <<>> => data.of = search.of

\* "Capture allowlist" counts the allowed sites of the list.  toggle adds its
\* one to whatever count is shown by then, which miscounts only if another
\* press on the site, a command or an answer crosses its call.
CountIsRight == ~tangle.counts => data.count = Cardinality(data.on)

=============================================================================
