-------------------------- MODULE WebConsoleProofs --------------------------
(***************************************************************************)
(* Proofs about WebConsole, for any numbers of pages, sites, jobs, claims, *)
(* settings, actors and calls.                                             *)
(*                                                                         *)
(* As in WebTriageProofs, the parts share no variable: a step of one is a  *)
(* stutter of the others (PartsStep), and each part has an invariant of    *)
(* its own.                                                                *)
(***************************************************************************)
EXTENDS WebConsole, WebLemmas

\* Each step of the console is one of the part in use, and a stutter of the
\* others.
LEMMA PartsStep ==
  ASSUME [ConsoleNext]_consoleVars
  PROVE  /\ [FrameNext]_frameVars /\ [TasksNext]_taskVars /\ [SitesNext]_siteVars
         /\ [JobsNext]_jobVars /\ [SettingsNext]_settingVars
         /\ [ResearchNext]_researchVars /\ [ProfilesNext]_profileVars
<1>1. CASE UseFrame
  BY <1>1 DEF UseFrame
<1>2. CASE UseTasks
  BY <1>2 DEF UseTasks
<1>3. CASE UseSites
  BY <1>3 DEF UseSites
<1>4. CASE UseJobs
  BY <1>4 DEF UseJobs
<1>5. CASE UseSettings
  BY <1>5 DEF UseSettings
<1>6. CASE UseResearch
  BY <1>6 DEF UseResearch
<1>7. CASE UseProfiles
  BY <1>7 DEF UseProfiles
<1>8. CASE UNCHANGED consoleVars
  BY <1>8 DEF consoleVars
<1> QED BY <1>1, <1>2, <1>3, <1>4, <1>5, <1>6, <1>7, <1>8 DEF ConsoleNext

-----------------------------------------------------------------------------
(* The frame. *)

LEMMA FrameInitially == FrameInit => FrameTypeOK
BY FrameAssumption DEF FrameInit, FrameTypeOK

LEMMA FrameStep ==
  ASSUME FrameTypeOK, [FrameNext]_frameVars PROVE FrameTypeOK'
<1> DEFINE ScreenType == [loader : BOOLEAN, elapsed : BOOLEAN, loading : BOOLEAN,
                          error : BOOLEAN, summary : BOOLEAN]
           TourType == [shown : BOOLEAN, step : 1 .. 3, completed : BOOLEAN]
           RouteType == [page : Pages, loading : BOOLEAN]
           ChromeType == [collapsed : BOOLEAN, refreshing : BOOLEAN, expanded : BOOLEAN]
           AskedType == [others : 0 .. MaxAsked, button : 0 .. 1]
<1>0. /\ screen \in ScreenType /\ tour \in TourType /\ route \in RouteType
      /\ chrome \in ChromeType /\ result \in Pages \cup {"none"} /\ unanswered \in AskedType
  BY DEF FrameTypeOK
<1>a. "home" \in Pages /\ MaxAsked \in Nat
  BY FrameAssumption
<1> DEFINE Goal == /\ screen' \in ScreenType /\ tour' \in TourType /\ route' \in RouteType
                   /\ chrome' \in ChromeType /\ result' \in Pages \cup {"none"}
                   /\ unanswered' \in AskedType
<1> SUFFICES Goal
  BY DEF FrameTypeOK
<1>b. ASSUME NEW p \in Pages, GoTo(p) PROVE route' \in RouteType
  BY <1>0, <1>b DEF GoTo
<1>c. \A c \in ChromeType, b \in BOOLEAN :
        /\ [c EXCEPT !.refreshing = b] \in ChromeType /\ [c EXCEPT !.expanded = b] \in ChromeType
        /\ [c EXCEPT !.collapsed = b] \in ChromeType
        /\ [c EXCEPT !.refreshing = b, !.expanded = b] \in ChromeType
  OBVIOUS
<1>d. \A s \in ScreenType, b, e, l \in BOOLEAN :
        /\ [s EXCEPT !.elapsed = b] \in ScreenType /\ [s EXCEPT !.loader = b] \in ScreenType
        /\ [s EXCEPT !.summary = b, !.error = e, !.loading = l] \in ScreenType
        /\ [s EXCEPT !.error = b, !.loading = l] \in ScreenType
  OBVIOUS
<1>e. ASSUME NEW f \in {"others", "button"}, NEW n,
             n \in IF f = "others" THEN 0 .. MaxAsked ELSE 0 .. 1
      PROVE  [unanswered EXCEPT ![f] = n] \in AskedType
  BY <1>0, <1>e
<1> HIDE DEF ScreenType, ChromeType
<1>1. CASE AskRefresh
  <2>1. unanswered.others + 1 \in 0 .. MaxAsked
    BY <1>0, <1>1, <1>a DEF AskRefresh
  <2>2. unanswered' \in AskedType
    BY <1>0, <1>1, <2>1 DEF AskRefresh
  <2> QED BY <1>0, <1>1, <2>2 DEF AskRefresh
<1>2. CASE PressRefresh
  <2>1. unanswered' \in AskedType
    BY <1>0, <1>2 DEF PressRefresh
  <2> QED BY <1>0, <1>2, <1>c, <2>1 DEF PressRefresh
<1>3. ASSUME NEW by \in {"others", "button"}, AnswerRefresh(by) PROVE Goal
  <2>1. unanswered' \in AskedType
    <3>1. unanswered[by] \in Nat /\ unanswered[by] > 0
          /\ unanswered[by] - 1 \in IF by = "others" THEN 0 .. MaxAsked ELSE 0 .. 1
      BY <1>0, <1>3, <1>a DEF AnswerRefresh
    <3>2. unanswered' = [unanswered EXCEPT ![by] = unanswered[by] - 1]
      BY <1>3 DEF AnswerRefresh
    <3> QED BY <1>e, <3>1, <3>2
  <2>2. screen' \in ScreenType
    BY <1>0, <1>3, <1>d DEF AnswerRefresh, ScreenAfter
  <2>3. chrome' \in ChromeType
    BY <1>0, <1>3, <1>c DEF AnswerRefresh
  <2> QED BY <1>0, <1>3, <2>1, <2>2, <2>3 DEF AnswerRefresh
<1>4. CASE MinimumElapsed \/ LoaderFaded
  BY <1>0, <1>4, <1>d DEF MinimumElapsed, LoaderFaded
<1>5. CASE RouteLoaded
  BY <1>0, <1>5 DEF RouteLoaded
<1>6. CASE TurnTour
  BY <1>0, <1>6 DEF TurnTour
<1>7. CASE OpenGuide
  BY <1>0, <1>7, <1>c DEF OpenGuide
<1>8. CASE ToggleChrome
  <2>1. chrome' \in ChromeType
    BY <1>0, <1>8 DEF ToggleChrome, ChromeType
  <2> QED BY <1>0, <1>8, <2>1 DEF ToggleChrome
<1>9. CASE LeaveResult
  <2>1. result \in Pages /\ (GoTo(result) \/ UNCHANGED route)
    BY <1>0, <1>9 DEF LeaveResult
  <2> QED BY <1>0, <1>9, <1>b, <2>1 DEF LeaveResult
<1>10. ASSUME NEW p \in Pages, CompleteTour(p) PROVE Goal
  BY <1>0, <1>10 DEF CompleteTour
<1>11. ASSUME NEW p \in Pages, Navigate(p) PROVE Goal
  BY <1>0, <1>11, <1>b, <1>c DEF Navigate
<1>12. ASSUME NEW p \in Pages, ViewResult(p) PROVE Goal
  BY <1>0, <1>12, <1>b DEF ViewResult
<1>13. CASE UNCHANGED frameVars
  BY <1>0, <1>13 DEF frameVars
<1> QED BY <1>1, <1>2, <1>3, <1>4, <1>5, <1>6, <1>7, <1>8, <1>9, <1>10, <1>11, <1>12, <1>13
        DEF FrameNext

-----------------------------------------------------------------------------
(* The history of the AI tasks. *)

\* The load of the current effect asks for what is wanted, which no number of
\* clicks takes beyond the bound.
TasksInv ==
  /\ TasksTypeOK
  /\ wanted.page <= MaxPages + spent.clicks
  /\ \A e \in {"current", "former"} : loads[e] = NoAnswer \/ loads[e].pages > 0
  /\ loads["current"] # NoAnswer =>
       loads["current"].filter = wanted.filter /\ loads["current"].page = wanted.page

LEMMA TasksInitially == TasksInit => TasksInv
<1> SUFFICES ASSUME TasksInit PROVE TasksInv
  OBVIOUS
<1>1. MaxPages \in Nat /\ 1 <= MaxPages /\ MaxClicks \in Nat /\ MaxGrowth \in Nat /\ AllTasks \in Filters
  BY TasksAssumption
<1>2. TasksTypeOK
  BY <1>1 DEF TasksInit, TasksTypeOK, Sizes, Dependencies, NoAnswer
<1> QED BY <1>1, <1>2 DEF TasksInit, TasksInv

TaskAnswers == [filter : Filters, page : 1 .. MaxPages + MaxClicks, pages : 0 .. MaxPages]
TaskWants == [filter : Filters, page : 1 .. MaxPages + MaxClicks]

\* A click on a page within the bound.
LEMMA ClickStep ==
  ASSUME TasksInv, NEW f \in Filters, NEW p \in 1 .. MaxPages + MaxClicks,
         p <= MaxPages + spent.clicks + 1, Click([filter |-> f, page |-> p])
  PROVE  TasksInv'
<1>0. /\ MaxPages \in Nat /\ MaxClicks \in Nat /\ MaxGrowth \in Nat
      /\ spent \in [clicks : 0 .. MaxClicks, growth : 0 .. MaxGrowth]
      /\ loads \in [{"current", "former"} -> TaskAnswers]
  BY TasksAssumption DEF TasksInv, TasksTypeOK, TaskAnswers
<1>1. /\ spent.clicks < MaxClicks /\ spent' = [spent EXCEPT !.clicks = spent.clicks + 1]
      /\ wanted' = [filter |-> f, page |-> p] /\ UNCHANGED <<stock, tasks>> /\ loads' = LeaveLoad
  BY DEF Click
<1>2. spent.clicks + 1 \in 0 .. MaxClicks
  BY <1>0, <1>1
<1>3. spent' \in [clicks : 0 .. MaxClicks, growth : 0 .. MaxGrowth]
      /\ spent'.clicks = spent.clicks + 1
  BY <1>0, <1>1, <1>2
<1>4. NoAnswer \in TaskAnswers
  BY TasksAssumption DEF NoAnswer, TaskAnswers
<1>5. /\ loads' \in [{"current", "former"} -> TaskAnswers] /\ loads'["current"] = NoAnswer
      /\ loads'["former"] \in {loads["former"], loads["current"]}
  BY <1>0, <1>1, <1>4 DEF LeaveLoad
<1>6. \A e \in {"current", "former"} : loads'[e] = NoAnswer \/ loads'[e].pages > 0
  BY <1>5 DEF TasksInv
<1>7. wanted' \in Dependencies /\ wanted'.page <= MaxPages + spent'.clicks
  BY <1>0, <1>1, <1>3 DEF Dependencies
<1> QED BY <1>1, <1>3, <1>5, <1>6, <1>7 DEF TasksInv, TasksTypeOK, TaskAnswers

LEMMA TasksStep ==
  ASSUME TasksInv, [TasksNext]_taskVars PROVE TasksInv'
<1>a. MaxPages \in Nat /\ 1 <= MaxPages /\ MaxClicks \in Nat /\ MaxGrowth \in Nat
  BY TasksAssumption
<1>0. /\ stock \in [Filters -> Sizes] /\ wanted \in TaskWants
      /\ tasks \in TaskAnswers /\ loads \in [{"current", "former"} -> TaskAnswers]
      /\ spent \in [clicks : 0 .. MaxClicks, growth : 0 .. MaxGrowth]
  BY DEF TasksInv, TasksTypeOK, Dependencies, TaskAnswers, TaskWants
<1>b. NoAnswer \in TaskAnswers
  BY TasksAssumption DEF NoAnswer, TaskAnswers
<1>c. /\ wanted.filter \in Filters /\ wanted.page \in 1 .. MaxPages + MaxClicks
      /\ wanted.page <= MaxPages + spent.clicks
      /\ wanted = [filter |-> wanted.filter, page |-> wanted.page]
      /\ spent.clicks \in 0 .. MaxClicks /\ spent.growth \in 0 .. MaxGrowth
  BY <1>0 DEF TasksInv, TaskWants
<1>1. CASE SetFilters
  BY <1>1, <1>a, <1>c, ClickStep DEF SetFilters
<1>2. CASE Previous
  <2> DEFINE p == IF wanted.page > 1 THEN wanted.page - 1 ELSE 1
  <2>1. p \in 1 .. MaxPages + MaxClicks /\ p <= MaxPages + spent.clicks + 1
    BY <1>a, <1>c
  <2>2. [wanted EXCEPT !.page = IF @ > 1 THEN @ - 1 ELSE 1] = [filter |-> wanted.filter, page |-> p]
    BY <1>0 DEF TaskWants
  <2>3. Click([filter |-> wanted.filter, page |-> p])
    BY <1>2, <2>2 DEF Previous
  <2> HIDE DEF p
  <2> QED BY <1>c, <2>1, <2>3, ClickStep
<1>3. CASE NextPage
  <2> DEFINE p == wanted.page + 1
  <2>1. [wanted EXCEPT !.page = @ + 1] = [filter |-> wanted.filter, page |-> p]
    BY <1>0 DEF TaskWants
  <2>2. Click([filter |-> wanted.filter, page |-> p])
    BY <1>3, <2>1 DEF NextPage
  <2>3. spent.clicks < MaxClicks
    BY <2>2 DEF Click
  <2>4. p \in 1 .. MaxPages + MaxClicks /\ p <= MaxPages + spent.clicks + 1
    BY <1>a, <1>c, <2>3
  <2> HIDE DEF p
  <2> QED BY <1>c, <2>2, <2>4, ClickStep
<1>4. CASE ServeLoad
  <2> DEFINE r == [filter |-> wanted.filter, page |-> wanted.page, pages |-> stock[wanted.filter]]
  <2>1. r \in TaskAnswers /\ r.pages > 0 /\ r.filter = wanted.filter /\ r.page = wanted.page
    <3>1. stock[wanted.filter] \in 1 .. MaxPages
      BY <1>0, <1>c DEF Sizes
    <3> QED BY <1>a, <1>c, <3>1 DEF TaskAnswers
  <2>2. loads' = [loads EXCEPT !["current"] = r] /\ UNCHANGED <<stock, wanted, tasks, spent>>
    BY <1>4 DEF ServeLoad
  <2> HIDE DEF r
  <2>3. /\ loads' \in [{"current", "former"} -> TaskAnswers]
        /\ loads'["current"] = r /\ loads'["former"] = loads["former"]
    BY <1>0, <2>1, <2>2
  <2> QED BY <1>0, <2>1, <2>2, <2>3 DEF TasksInv, TasksTypeOK, TaskAnswers
<1>5. CASE ReceiveLoad
  <2> DEFINE r == loads["current"]
  <2>1. r \in TaskAnswers /\ r.pages > 0
    BY <1>0, <1>5 DEF ReceiveLoad, TasksInv
  <2>2. /\ tasks' = r /\ wanted' = WantedAfter(r)
        /\ loads' = [loads EXCEPT !["current"] = NoAnswer] /\ UNCHANGED <<stock, spent>>
    BY <1>5 DEF ReceiveLoad
  <2>3. /\ loads' \in [{"current", "former"} -> TaskAnswers]
        /\ loads'["current"] = NoAnswer /\ loads'["former"] = loads["former"]
    BY <1>0, <1>b, <2>2
  <2> HIDE DEF r
  <2>4. wanted' \in TaskWants /\ wanted'.page <= MaxPages + spent.clicks
    <3>1. CASE wanted.page > r.pages
      <4>1. wanted' = [wanted EXCEPT !.page = r.pages]
        BY <2>2, <3>1 DEF WantedAfter
      <4>2. r.pages \in 1 .. MaxPages
        BY <1>a, <2>1 DEF TaskAnswers
      <4>3. wanted' = [filter |-> wanted.filter, page |-> r.pages]
        BY <1>0, <4>1 DEF TaskWants
      <4> QED BY <1>a, <1>c, <4>2, <4>3 DEF TaskWants
    <3>2. CASE ~(wanted.page > r.pages)
      BY <1>0, <1>c, <2>2, <3>2 DEF WantedAfter
    <3> QED BY <3>1, <3>2
  <2>5. \A e \in {"current", "former"} : loads'[e] = NoAnswer \/ loads'[e].pages > 0
    BY <2>3 DEF TasksInv
  <2> QED BY <1>0, <2>1, <2>2, <2>3, <2>4, <2>5
          DEF TasksInv, TasksTypeOK, TaskAnswers, TaskWants, Dependencies
<1>6. CASE DropFormer
  <2>1. loads' = [loads EXCEPT !["former"] = NoAnswer] /\ UNCHANGED <<stock, wanted, tasks, spent>>
    BY <1>6 DEF DropFormer
  <2>2. /\ loads' \in [{"current", "former"} -> TaskAnswers]
        /\ loads'["former"] = NoAnswer /\ loads'["current"] = loads["current"]
    BY <1>0, <1>b, <2>1
  <2> QED BY <1>0, <2>1, <2>2 DEF TasksInv, TasksTypeOK, TaskAnswers
<1>7. CASE StockChanges
  <2>1. /\ spent' = [spent EXCEPT !.growth = spent.growth + 1] /\ spent.growth < MaxGrowth
        /\ stock' \in [Filters -> Sizes] /\ UNCHANGED <<wanted, tasks, loads>>
    BY <1>0, <1>7 DEF StockChanges
  <2>2. spent.growth + 1 \in 0 .. MaxGrowth
    BY <1>a, <1>c, <2>1
  <2>3. spent' \in [clicks : 0 .. MaxClicks, growth : 0 .. MaxGrowth] /\ spent'.clicks = spent.clicks
    BY <1>0, <2>1, <2>2
  <2> QED BY <1>0, <2>1, <2>3 DEF TasksInv, TasksTypeOK, TaskAnswers
<1>8. CASE UNCHANGED taskVars
  BY <1>8 DEF taskVars, TasksInv, TasksTypeOK, NoAnswer
<1> QED BY <1>1, <1>2, <1>3, <1>4, <1>5, <1>6, <1>7, <1>8 DEF TasksNext

\* An answer is shown by the step that receives it.
LEMMA TasksShown ==
  ASSUME TasksInv, [TasksNext]_taskVars, tasks' # tasks
  PROVE  tasks'.filter = wanted.filter /\ tasks'.page = wanted.page
<1>1. tasks' = loads["current"] /\ loads["current"] # NoAnswer
  BY DEF TasksNext, SetFilters, Previous, NextPage, Click, ServeLoad, ReceiveLoad, DropFormer,
         StockChanges, taskVars
<1> QED BY <1>1 DEF TasksInv


-----------------------------------------------------------------------------
(* The sites. *)

SiteAnswer == [of : Searches, on : SUBSET Sites, active : BOOLEAN, late : BOOLEAN]
SiteAnswers == {r \in SiteAnswer : r.on \subseteq r.of}
Shown == [of : Searches \cup {{}}, on : SUBSET Sites, count : Int, active : BOOLEAN]
Toggles == [step : {"none", "sent", "served"}, site : SUBSET Sites, to : BOOLEAN]
Commands == [step : {"none", "sent", "served"}, ids : SUBSET Sites, to : BOOLEAN,
             of : Searches \cup {{}}]
Pressed == {p \in Presses : toggles[p].step # "none"}

SitesTyped ==
  /\ allowed \in SUBSET Sites /\ picked \in SUBSET Sites /\ capturing \in BOOLEAN
  /\ search \in [of : Searches, armed : BOOLEAN]
  /\ data \in Shown /\ data.on \subseteq data.of
  /\ answers \in Seq(SiteAnswers)
  /\ toggles \in [Presses -> Toggles]
  /\ command \in Commands
  /\ command.step # "none" => command.of \in Searches
  /\ presses \in 0 .. MaxPresses
  /\ tangle \in [searches : BOOLEAN, counts : BOOLEAN]

CallsInv ==
  Len(answers) + Cardinality(Pressed) + (IF command.step = "none" THEN 0 ELSE 1) <= MaxCalls

\* Of the questions that were not overtaken the last one asks for the search in
\* the box, unless its timer is armed; with none of them under way its answer is
\* shown.
SearchInv ==
  ~tangle.searches =>
    /\ Overtaken(answers)
    /\ ~search.armed => IF Awaited(answers) THEN answers[Len(answers)].of = search.of
                        ELSE data.of = search.of

\* A press under way is for a listed site that still has the state it was
\* pressed in, and no other press is for that site.
CountInv ==
  ~tangle.counts =>
    /\ \A p \in Presses : toggles[p].step # "none" =>
         \E s \in data.of : toggles[p].site = {s} /\ (toggles[p].to <=> s \notin data.on)
    /\ \A p, q \in Presses : p # q /\ toggles[p].step # "none" =>
         toggles[q].site # toggles[p].site
    /\ data.count = Cardinality(data.on)

SitesInv == SitesTyped /\ CallsInv /\ SearchInv /\ CountInv

\* The presses under way, counted.
LEMMA PressedFacts ==
  /\ Cardinality(Pressed) \in Nat /\ Cardinality(Pressed') \in Nat
  /\ Pressed' \subseteq Pressed => Cardinality(Pressed') <= Cardinality(Pressed)
  /\ \A p : Pressed' \subseteq Pressed \cup {p} => Cardinality(Pressed') <= Cardinality(Pressed) + 1
<1>1. IsFiniteSet(Presses)
  <2>1. Presses = ({} \cup {1}) \cup {2}
    BY DEF Presses
  <2> QED BY <2>1, FS_EmptySet, FS_AddElement
<1>2. Pressed \subseteq Presses /\ Pressed' \subseteq Presses
  BY DEF Pressed
<1>3. IsFiniteSet(Pressed) /\ IsFiniteSet(Pressed')
  BY <1>1, <1>2, FS_Subset
<1>4. Cardinality(Pressed) \in Nat /\ Cardinality(Pressed') \in Nat
  BY <1>3, FS_CardinalityType
<1>5. Pressed' \subseteq Pressed => Cardinality(Pressed') <= Cardinality(Pressed)
  BY <1>3, FS_Subset
<1>6. ASSUME NEW p, Pressed' \subseteq Pressed \cup {p}
      PROVE  Cardinality(Pressed') <= Cardinality(Pressed) + 1
  <2>1. /\ IsFiniteSet(Pressed \cup {p})
        /\ Cardinality(Pressed \cup {p}) =
             IF p \in Pressed THEN Cardinality(Pressed) ELSE Cardinality(Pressed) + 1
    BY <1>3, FS_AddElement
  <2>2. Cardinality(Pressed') <= Cardinality(Pressed \cup {p})
    BY <1>6, <2>1, FS_Subset
  <2> QED BY <1>4, <2>1, <2>2
<1> QED BY <1>4, <1>5, <1>6

LEMMA SitesTypes == SitesInv => SitesTypeOK
<1> SUFFICES ASSUME SitesInv PROVE SitesTypeOK
  OBVIOUS
<1> USE DEF SitesInv, SitesTyped
<1>1. Len(answers) <= MaxCalls
  <2>1. Cardinality(Pressed) \in Nat /\ Len(answers) \in Nat
    BY PressedFacts
  <2> QED BY <2>1, SearchAssumption DEF CallsInv
<1>2. \A i \in DOMAIN answers : answers[i].of \in Searches /\ answers[i].late \in BOOLEAN
  BY DEF SiteAnswers, SiteAnswer
<1>3. data.of \in Searches \cup {{}} /\ data.on \subseteq data.of /\ data.count \in Int
  BY DEF Shown
<1>4. command.step \in {"none", "sent", "served"} /\ command.ids \subseteq Sites
  BY DEF Commands
<1> QED BY <1>1, <1>2, <1>3, <1>4 DEF SitesTypeOK, Toggles

LEMMA SitesInitially == SitesInit => SitesInv
<1> SUFFICES ASSUME SitesInit PROVE SitesInv
  OBVIOUS
<1> USE SearchAssumption DEF SitesInit
<1>1. SitesTyped
  <2>1. toggles \in [Presses -> Toggles]
    BY DEF NoToggle, Toggles
  <2>2. command \in Commands /\ command.step = "none"
    BY DEF NoCommand, Commands
  <2>3. data \in Shown /\ data.on \subseteq data.of
    BY DEF NoData, Shown
  <2>4. search \in [of : Searches, armed : BOOLEAN]
    OBVIOUS
  <2>5. /\ answers \in Seq(SiteAnswers)
        /\ tangle \in [searches : BOOLEAN, counts : BOOLEAN]
    <3>1. answers = <<>> /\ <<>> \in Seq(SiteAnswers)
      OBVIOUS
    <3>2. tangle = [searches |-> FALSE, counts |-> FALSE]
      OBVIOUS
    <3>3. answers \in Seq(SiteAnswers)
      BY <3>1
    <3>4. tangle \in [searches : BOOLEAN, counts : BOOLEAN]
      BY <3>2
    <3> QED BY <3>3, <3>4
  <2>6. /\ presses \in 0 .. MaxPresses /\ allowed \in SUBSET Sites /\ picked \in SUBSET Sites
        /\ capturing \in BOOLEAN
    <3>1. presses = 0 /\ allowed = {} /\ picked = {} /\ capturing = FALSE
      OBVIOUS
    <3>2. MaxPresses \in Nat
      OBVIOUS
    <3>3. presses \in 0 .. MaxPresses
      BY <3>1, <3>2
    <3>4. allowed \in SUBSET Sites /\ picked \in SUBSET Sites
      BY <3>1
    <3> QED BY <3>1, <3>3, <3>4
  <2> QED BY <2>1, <2>2, <2>3, <2>4, <2>5, <2>6 DEF SitesTyped
<1>2. \A p \in Presses : toggles[p].step = "none"
  BY DEF NoToggle
<1>3. CallsInv
  <2>1. Pressed = {}
    BY <1>2 DEF Pressed
  <2>2. Cardinality(Pressed) = 0 /\ Len(answers) = 0 /\ command.step = "none"
    BY <2>1, FS_EmptySet DEF NoCommand
  <2> QED BY <2>2 DEF CallsInv
<1>4. SearchInv
  BY DEF SearchInv, Overtaken
<1>5. CountInv
  BY <1>2, FS_EmptySet DEF CountInv, NoData
<1> QED BY <1>1, <1>3, <1>4, <1>5 DEF SitesInv


LEMMA LateSiteAnswers == TellLate(SiteAnswers)
BY DEF TellLate, SiteAnswers, SiteAnswer

\* A question adds an answer of its type, and what it leaves untangled is asked
\* for the search in the box, with no press under way.
LEMMA SiteQuestionFacts ==
  ASSUME SitesTyped, NEW q \in Searches, Question(q)
  PROVE  /\ answers' \in Seq(SiteAnswers) /\ Len(answers') = Len(answers) + 1
         /\ tangle' \in [searches : BOOLEAN, counts : BOOLEAN]
         /\ Overtaken(answers) => Overtaken(answers')
         /\ Awaited(answers') /\ answers'[Len(answers')].of = q
         /\ ~tangle'.searches => ~tangle.searches /\ q = search.of
         /\ ~tangle'.counts => ~tangle.counts /\ ~Toggling
<1> DEFINE r == [of |-> q, on |-> allowed \cap q, active |-> capturing, late |-> FALSE]
<1>1. answers' = Append(answers, r)
      /\ tangle' = [searches |-> tangle.searches \/ q # search.of,
                    counts |-> tangle.counts \/ Toggling]
  BY DEF Question
<1>2. r \in SiteAnswers /\ ~r.late /\ r.of = q
  BY DEF SitesTyped, SiteAnswers, SiteAnswer
<1>3. tangle' \in [searches : BOOLEAN, counts : BOOLEAN]
  <2>1. (tangle.searches \/ q # search.of) \in BOOLEAN /\ (tangle.counts \/ Toggling) \in BOOLEAN
    OBVIOUS
  <2> QED BY <1>1, <2>1
<1>4. answers \in Seq(SiteAnswers)
  BY DEF SitesTyped
<1> HIDE DEF r
<1>5. /\ answers' \in Seq(SiteAnswers)
      /\ Overtaken(answers) => Overtaken(answers')
      /\ Awaited(answers') /\ answers'[Len(answers')] = r
  BY <1>1, <1>2, <1>4, QuestionFacts
<1>6. Len(answers') = Len(answers) + 1
  BY <1>1, <1>2, <1>4
<1>7. tangle'.searches = (tangle.searches \/ q # search.of)
      /\ tangle'.counts = (tangle.counts \/ Toggling)
  BY <1>1
<1>8. ~tangle'.searches => ~tangle.searches /\ q = search.of
  BY <1>7
<1>9. ~tangle'.counts => ~tangle.counts /\ ~Toggling
  BY <1>7
<1>10. answers'[Len(answers')].of = q
  BY <1>2, <1>5
<1> QED BY <1>3, <1>5, <1>6, <1>8, <1>9, <1>10

LEMMA SitesTypedStep ==
  ASSUME SitesTyped, CallsInv, [SitesNext]_siteVars PROVE SitesTyped'
<1> USE DEF SitesTyped
<1>a. \A i \in DOMAIN answers : answers[i] \in SiteAnswers
  OBVIOUS
<1>b. \A t \in [Presses -> Toggles], p \in Presses, r \in Toggles : [t EXCEPT ![p] = r] \in [Presses -> Toggles]
  OBVIOUS
<1>c. NoToggle \in Toggles /\ NoCommand \in Commands /\ NoCommand.step = "none"
  BY DEF NoToggle, Toggles, NoCommand, Commands
<1>d. \A t \in [searches : BOOLEAN, counts : BOOLEAN], b \in BOOLEAN :
        /\ [t EXCEPT !.searches = b] \in [searches : BOOLEAN, counts : BOOLEAN]
        /\ [t EXCEPT !.counts = b] \in [searches : BOOLEAN, counts : BOOLEAN]
  OBVIOUS
<1>e. presses < MaxPresses => presses + 1 \in 0 .. MaxPresses
  BY SearchAssumption
<1>1. CASE TypeSearch
  BY <1>1 DEF TypeSearch, SearchFor
<1>2. CASE SearchTimer
  <2>1. search.of \in Searches /\ Question(search.of)
    BY <1>2 DEF SearchTimer
  <2> QED BY <1>2, <2>1, SiteQuestionFacts DEF SearchTimer
<1>3. CASE PollTimer
  <2>1. search.of \in Searches /\ Question(search.of)
    BY <1>3 DEF PollTimer
  <2> QED BY <1>3, <2>1, SiteQuestionFacts DEF PollTimer
<1>4. ASSUME NEW i \in 1 .. MaxCalls, ReceiveAnswer(i) PROVE SitesTyped'
  <2>1. i \in DOMAIN answers /\ answers' = Settled(answers, i)
    BY <1>4 DEF ReceiveAnswer, Settled
  <2>2. answers' \in Seq(SiteAnswers)
    BY <2>1, LateSiteAnswers, SettleFacts
  <2>3. answers[i].of \in Searches /\ answers[i].on \in SUBSET Sites /\ answers[i].active \in BOOLEAN
        /\ answers[i].on \subseteq answers[i].of
    BY <1>a, <2>1 DEF SiteAnswers, SiteAnswer
  <2>4. Cardinality(answers[i].on) \in Int
    BY <2>3, SearchAssumption, FS_Subset, FS_CardinalityType
  <2>5. data' \in Shown /\ data'.on \subseteq data'.of
    BY <1>4, <2>3, <2>4 DEF ReceiveAnswer, Shown
  <2>6. tangle' \in [searches : BOOLEAN, counts : BOOLEAN]
    <3>1. (tangle.searches \/ answers[i].late) \in BOOLEAN /\ (tangle.counts \/ Toggling) \in BOOLEAN
      OBVIOUS
    <3> QED BY <1>4, <3>1 DEF ReceiveAnswer
  <2> QED BY <1>4, <2>2, <2>5, <2>6 DEF ReceiveAnswer
<1>5. ASSUME NEW i \in 1 .. MaxCalls, LoseAnswer(i) PROVE SitesTyped'
  <2>1. i \in 1 .. Len(answers) /\ answers' = RemoveAt(answers, i)
    BY <1>5 DEF LoseAnswer
  <2>2. answers' \in Seq(SiteAnswers)
    BY <2>1, RemoveAtFacts
  <2>3. tangle' \in [searches : BOOLEAN, counts : BOOLEAN]
    BY <1>5, <1>d DEF LoseAnswer
  <2> QED BY <1>5, <2>2, <2>3 DEF LoseAnswer
<1>6. CASE Pick
  <2>1. picked' \in SUBSET Sites
    BY <1>6, SearchAssumption DEF Pick, Shown
  <2> QED BY <1>6, <2>1 DEF Pick
<1>7. ASSUME NEW s \in Sites, PressToggle(s) PROVE SitesTyped'
  <2>1. PICK p \in Presses : toggles' =
          [toggles EXCEPT ![p] = [step |-> "sent", site |-> {s}, to |-> s \notin data.on]]
    BY <1>7 DEF PressToggle
  <2>2. (s \notin data.on) \in BOOLEAN
    OBVIOUS
  <2>3. [step |-> "sent", site |-> {s}, to |-> s \notin data.on] \in Toggles
    BY <2>2 DEF Toggles
  <2>4. toggles' \in [Presses -> Toggles]
    BY <1>b, <2>1, <2>3
  <2> DEFINE crossing == answers # <<>> \/ command.ids # {} \/ \E o \in Presses : toggles[o].site = {s}
  <2>5. (tangle.counts \/ crossing) \in BOOLEAN /\ tangle' = [tangle EXCEPT !.counts = tangle.counts \/ crossing]
    BY <1>7 DEF PressToggle
  <2> HIDE DEF crossing
  <2>6. tangle' \in [searches : BOOLEAN, counts : BOOLEAN]
    BY <1>d, <2>5
  <2> QED BY <1>7, <1>e, <2>4, <2>6 DEF PressToggle, Pressable
<1>8. ASSUME NEW p \in Presses, ServeToggle(p) PROVE SitesTyped'
  <2>1. toggles' = [toggles EXCEPT ![p] = [toggles[p] EXCEPT !.step = "served"]]
    BY <1>8 DEF ServeToggle
  <2>2. [toggles[p] EXCEPT !.step = "served"] \in Toggles /\ toggles[p].site \in SUBSET Sites
    BY DEF Toggles
  <2>3. toggles' \in [Presses -> Toggles]
    BY <1>b, <2>1, <2>2
  <2>4. allowed' \in SUBSET Sites
    BY <1>8, <2>2 DEF ServeToggle, Put
  <2> QED BY <1>8, <2>3, <2>4 DEF ServeToggle
<1>9. ASSUME NEW p \in Presses, ReceiveToggle(p) PROVE SitesTyped'
  <2>1. toggles[p].site \in SUBSET Sites /\ toggles[p].to \in BOOLEAN
    BY DEF Toggles
  <2> DEFINE t == toggles[p]
             on == IF t.to THEN data.on \cup (t.site \cap data.of) ELSE data.on \ t.site
  <2>2. data' = [data EXCEPT !.count = CountAfter(t.to), !.on = on]
        /\ toggles' = [toggles EXCEPT ![p] = NoToggle]
    BY <1>9 DEF ReceiveToggle
  <2>3. on \in SUBSET Sites /\ on \subseteq data.of /\ CountAfter(t.to) \in Int
    BY <2>1 DEF Shown, CountAfter
  <2> HIDE DEF on
  <2>4. data' \in Shown /\ data'.on \subseteq data'.of
    BY <2>2, <2>3 DEF Shown
  <2>5. toggles' \in [Presses -> Toggles]
    BY <1>b, <1>c, <2>2
  <2> QED BY <1>9, <2>4, <2>5 DEF ReceiveToggle
<1>10. ASSUME NEW p \in Presses, LoseToggle(p) PROVE SitesTyped'
  <2>1. toggles' \in [Presses -> Toggles]
    BY <1>10, <1>b, <1>c DEF LoseToggle
  <2> QED BY <1>10, <2>1 DEF LoseToggle
<1>11. ASSUME NEW to \in BOOLEAN, PressBulk(to) PROVE SitesTyped'
  <2>1. command' \in Commands /\ command'.of \in Searches
    BY <1>11 DEF PressBulk, Commands
  <2>2. (tangle.counts \/ Toggling) \in BOOLEAN
    OBVIOUS
  <2>3. tangle' \in [searches : BOOLEAN, counts : BOOLEAN]
    BY <1>11, <1>d, <2>2 DEF PressBulk
  <2> QED BY <1>11, <1>e, <2>1, <2>3 DEF PressBulk, Pressable
<1>12. CASE PressCommand
  <2>1. command' \in Commands /\ command'.of \in Searches
    BY <1>12 DEF PressCommand, NoCommand, Commands
  <2> QED BY <1>12, <1>e, <2>1 DEF PressCommand, Pressable
<1>13. CASE ServeCommand
  <2>1. command.step # "none" /\ command' = [command EXCEPT !.step = "served"]
    BY <1>13 DEF ServeCommand
  <2>2. command' \in Commands /\ command'.of \in Searches
    BY <2>1 DEF Commands
  <2>3. allowed' \in SUBSET Sites
    BY <1>13 DEF ServeCommand, Put, Commands
  <2> QED BY <1>13, <2>2, <2>3 DEF ServeCommand
<1>14. CASE ReceiveCommand
  <2>1. command.of \in Searches /\ Question(command.of) /\ command' = NoCommand
    BY <1>14 DEF ReceiveCommand
  <2>2. picked' \in SUBSET Sites
    BY <1>14 DEF ReceiveCommand
  <2>3. data' \in Shown /\ data'.on \subseteq data'.of
    <3> DEFINE on == (IF command.to THEN data.on \cup command.ids
                      ELSE data.on \ command.ids) \cap data.of
    <3>1. data' = data \/ data' = [data EXCEPT !.on = on, !.count = Cardinality(on)]
      BY <1>14 DEF ReceiveCommand
    <3>2. on \in SUBSET Sites /\ on \subseteq data.of
      BY SearchAssumption DEF Shown
    <3> HIDE DEF on
    <3>3. Cardinality(on) \in Int
      BY <3>2, SearchAssumption, FS_Subset, FS_CardinalityType
    <3> QED BY <3>1, <3>2, <3>3 DEF Shown
  <2> QED BY <1>14, <1>c, <2>1, <2>2, <2>3, SiteQuestionFacts DEF ReceiveCommand
<1>15. CASE LoseCommand
  BY <1>15, <1>c DEF LoseCommand
<1>16. CASE CapturesMove
  BY <1>16 DEF CapturesMove
<1>17. CASE UNCHANGED siteVars
  BY <1>17 DEF siteVars
<1> QED BY <1>1, <1>2, <1>3, <1>4, <1>5, <1>6, <1>7, <1>8, <1>9, <1>10, <1>11, <1>12, <1>13,
           <1>14, <1>15, <1>16, <1>17 DEF SitesNext


\* Each press is counted once, and one of another command only when it ends.
LEMMA CallsStep ==
  ASSUME SitesTyped, CallsInv, [SitesNext]_siteVars PROVE CallsInv'
<1> USE DEF SitesTyped
<1> DEFINE One == IF command.step = "none" THEN 0 ELSE 1
           N == Cardinality(Pressed)
<1>0. /\ N \in Nat /\ N' \in Nat /\ Len(answers) \in Nat /\ MaxCalls \in Nat
      /\ Len(answers) + N + One <= MaxCalls
      /\ One \in 0 .. 1
      /\ Pressed' \subseteq Pressed => N' <= N
      /\ \A p : Pressed' \subseteq Pressed \cup {p} => N' <= N + 1
  <2>1. N \in Nat /\ N' \in Nat
    BY PressedFacts
  <2>2. /\ Pressed' \subseteq Pressed => N' <= N
        /\ \A p : Pressed' \subseteq Pressed \cup {p} => N' <= N + 1
    BY PressedFacts
  <2>3. Len(answers) \in Nat /\ MaxCalls \in Nat
    BY SearchAssumption
  <2>4. Len(answers) + N + One <= MaxCalls
    BY DEF CallsInv
  <2>5. One \in 0 .. 1
    OBVIOUS
  <2> QED BY <2>1, <2>2, <2>3, <2>4, <2>5
<1>a. Calls = Len(answers) + N + One
  BY DEF Calls, Pressed
<1>b. toggles' = toggles => Pressed' = Pressed
  BY DEF Pressed
<1>c. command' = command => One' = One
  OBVIOUS
<1>d. (command.step = "none" => One = 0) /\ (command'.step = "none" => One' = 0) /\ One' \in 0 .. 1
      /\ (command.step # "none" => One = 1)
  OBVIOUS
<1> SUFFICES Len(answers') + N' + One' <= MaxCalls
  BY DEF CallsInv
<1> HIDE DEF N, One
<1>1. CASE TypeSearch \/ Pick \/ CapturesMove \/ UNCHANGED siteVars
  <2>1. UNCHANGED <<answers, toggles, command>>
    BY <1>1 DEF TypeSearch, Pick, CapturesMove, siteVars
  <2> QED BY <1>0, <1>b, <1>c, <2>1
<1>2. CASE SearchTimer \/ PollTimer
  <2>1. /\ Question(search.of) /\ search.of \in Searches
        /\ Calls < MaxCalls /\ UNCHANGED <<toggles, command>>
    BY <1>2 DEF SearchTimer, PollTimer
  <2>2. Len(answers') = Len(answers) + 1
    BY <2>1, SiteQuestionFacts
  <2> QED BY <1>0, <1>a, <1>b, <1>c, <2>1, <2>2
<1>3. ASSUME NEW i \in 1 .. MaxCalls, ReceiveAnswer(i) \/ LoseAnswer(i)
      PROVE  Len(answers') + N' + One' <= MaxCalls
  <2>1. Len(answers') = Len(answers) - 1
    <3>1. CASE ReceiveAnswer(i)
      BY <3>1, LateSiteAnswers, SettleFacts DEF ReceiveAnswer, Settled
    <3>2. CASE LoseAnswer(i)
      <4>1. i \in 1 .. Len(answers) /\ answers' = RemoveAt(answers, i)
        BY <3>2 DEF LoseAnswer
      <4> QED BY <4>1, RemoveAtFacts
    <3> QED BY <1>3, <3>1, <3>2
  <2>2. UNCHANGED <<toggles, command>>
    BY <1>3 DEF ReceiveAnswer, LoseAnswer
  <2> QED BY <1>0, <1>b, <1>c, <2>1, <2>2
<1>4. ASSUME NEW s \in Sites, PressToggle(s)
      PROVE  Len(answers') + N' + One' <= MaxCalls
  <2>1. Calls < MaxCalls /\ UNCHANGED <<answers, command>>
    BY <1>4 DEF PressToggle, Pressable
  <2>2. PICK p \in Presses : toggles' =
          [toggles EXCEPT ![p] = [step |-> "sent", site |-> {s}, to |-> s \notin data.on]]
    BY <1>4 DEF PressToggle
  <2>3. Pressed' \subseteq Pressed \cup {p}
    BY <2>2 DEF Pressed
  <2>4. N' <= N + 1
    BY <1>0, <2>3
  <2> QED BY <1>0, <1>a, <1>c, <2>1, <2>4
<1>5. ASSUME NEW p \in Presses, ServeToggle(p) \/ ReceiveToggle(p) \/ LoseToggle(p)
      PROVE  Len(answers') + N' + One' <= MaxCalls
  <2>1. UNCHANGED <<answers, command>> /\ toggles[p].step # "none"
    BY <1>5 DEF ServeToggle, ReceiveToggle, LoseToggle
  <2>2. \A q \in Presses : q # p => toggles'[q] = toggles[q]
    BY <1>5 DEF ServeToggle, ReceiveToggle, LoseToggle
  <2>3. Pressed' \subseteq Pressed
    BY <2>1, <2>2 DEF Pressed
  <2> QED BY <1>0, <1>c, <2>1, <2>3
<1>6. ASSUME NEW to \in BOOLEAN, PressBulk(to)
      PROVE  Len(answers') + N' + One' <= MaxCalls
  <2>1. command.step = "none" /\ Calls < MaxCalls /\ UNCHANGED <<answers, toggles>>
    BY <1>6 DEF PressBulk, Pressable
  <2> QED BY <1>0, <1>a, <1>b, <1>d, <2>1
<1>7. CASE PressCommand
  <2>1. command.step = "none" /\ Calls < MaxCalls /\ UNCHANGED <<answers, toggles>>
    BY <1>7 DEF PressCommand, Pressable
  <2> QED BY <1>0, <1>a, <1>b, <1>d, <2>1
<1>8. CASE ServeCommand
  <2>1. command.step # "none" /\ UNCHANGED <<answers, toggles>>
    BY <1>8 DEF ServeCommand
  <2> QED BY <1>0, <1>b, <1>d, <2>1
<1>9. CASE ReceiveCommand
  <2>1. /\ command.step # "none" /\ command'.step = "none" /\ UNCHANGED toggles
        /\ Question(command.of) /\ command.of \in Searches
    BY <1>9 DEF ReceiveCommand, NoCommand
  <2>2. Len(answers') = Len(answers) + 1
    BY <2>1, SiteQuestionFacts
  <2> QED BY <1>0, <1>b, <1>d, <2>1, <2>2
<1>10. CASE LoseCommand
  <2>1. command'.step = "none" /\ UNCHANGED <<answers, toggles>>
    BY <1>10 DEF LoseCommand, NoCommand
  <2> QED BY <1>0, <1>b, <1>d, <2>1
<1> QED BY <1>1, <1>2, <1>3, <1>4, <1>5, <1>6, <1>7, <1>8, <1>9, <1>10 DEF SitesNext

\* A question that leaves the searches untangled asks for the one in the box.
LEMMA SearchStep ==
  ASSUME SitesTyped, SearchInv, [SitesNext]_siteVars PROVE SearchInv'
<1> USE DEF SitesTyped
<1> SUFFICES ASSUME ~tangle'.searches
             PROVE  /\ Overtaken(answers')
                    /\ ~search'.armed =>
                         IF Awaited(answers') THEN answers'[Len(answers')].of = search'.of
                         ELSE data'.of = search'.of
  BY DEF SearchInv, Overtaken, Awaited
<1> DEFINE Goal == /\ Overtaken(answers')
                   /\ ~search'.armed =>
                        IF Awaited(answers') THEN answers'[Len(answers')].of = search'.of
                        ELSE data'.of = search'.of
<1>a. ~tangle.searches =>
        /\ Overtaken(answers)
        /\ ~search.armed => IF Awaited(answers) THEN answers[Len(answers)].of = search.of
                            ELSE data.of = search.of
  BY DEF SearchInv
<1>b. ASSUME UNCHANGED <<answers, search>>, data'.of = data.of, tangle'.searches = tangle.searches
      PROVE  Goal
  BY <1>a, <1>b DEF Overtaken, Awaited
<1>1. CASE TypeSearch
  <2>1. UNCHANGED <<answers, tangle>> /\ search'.armed
    BY <1>1 DEF TypeSearch, SearchFor
  <2> QED BY <1>a, <2>1 DEF Overtaken
<1>2. ASSUME NEW q \in Searches, Question(q), search'.of = search.of
      PROVE  Goal
  <2>1. ~tangle.searches /\ q = search.of /\ (Overtaken(answers) => Overtaken(answers'))
        /\ Awaited(answers') /\ answers'[Len(answers')].of = q
    BY <1>2, SiteQuestionFacts
  <2> QED BY <1>a, <1>2, <2>1
<1>3. CASE SearchTimer \/ PollTimer
  <2>1. Question(search.of) /\ search.of \in Searches /\ search'.of = search.of
    BY <1>3 DEF SearchTimer, PollTimer
  <2> QED BY <1>2, <2>1
<1>4. ASSUME NEW i \in 1 .. MaxCalls, ReceiveAnswer(i) PROVE Goal
  <2>1. /\ i \in DOMAIN answers /\ answers' = Settled(answers, i) /\ UNCHANGED search
        /\ data'.of = answers[i].of
        /\ tangle'.searches = (tangle.searches \/ answers[i].late)
    BY <1>4 DEF ReceiveAnswer, Settled
  <2>2. ~tangle.searches /\ ~answers[i].late
    BY <2>1
  <2>3. /\ Overtaken(answers') /\ Awaited(answers)
        /\ IF i = Len(answers) THEN ~Awaited(answers')
           ELSE Awaited(answers') /\ answers'[Len(answers')] = answers[Len(answers)]
    BY <1>a, <2>1, <2>2, LateSiteAnswers, AnswerFacts
  <2> QED BY <1>a, <2>1, <2>2, <2>3
<1>5. ASSUME NEW i \in 1 .. MaxCalls, LoseAnswer(i) PROVE Goal
  <2>1. tangle'.searches
    BY <1>5 DEF LoseAnswer
  <2> QED BY <2>1
<1>6. CASE Pick \/ ServeCommand \/ LoseCommand \/ CapturesMove \/ PressCommand
  BY <1>6, <1>b DEF Pick, ServeCommand, LoseCommand, CapturesMove, PressCommand
<1>7. ASSUME NEW s \in Sites, PressToggle(s) PROVE Goal
  <2>1. tangle'.searches = tangle.searches
    BY <1>7 DEF PressToggle
  <2> QED BY <1>7, <1>b, <2>1 DEF PressToggle
<1>8. ASSUME NEW p \in Presses, ServeToggle(p) \/ ReceiveToggle(p) \/ LoseToggle(p) PROVE Goal
  <2>1. data'.of = data.of
    BY <1>8 DEF ServeToggle, ReceiveToggle, LoseToggle, Shown
  <2>2. UNCHANGED <<answers, search, tangle>>
    BY <1>8 DEF ServeToggle, ReceiveToggle, LoseToggle
  <2> QED BY <1>b, <2>1, <2>2
<1>9. ASSUME NEW to \in BOOLEAN, PressBulk(to) PROVE Goal
  <2>1. tangle'.searches = tangle.searches
    BY <1>9 DEF PressBulk
  <2> QED BY <1>9, <1>b, <2>1 DEF PressBulk
<1>10. CASE ReceiveCommand
  <2>1. Question(command.of) /\ command.of \in Searches /\ search'.of = search.of
    BY <1>10 DEF ReceiveCommand
  <2> QED BY <1>2, <2>1
<1>11. CASE UNCHANGED siteVars
  BY <1>11, <1>b DEF siteVars
<1> QED BY <1>1, <1>3, <1>4, <1>5, <1>6, <1>7, <1>8, <1>9, <1>10, <1>11 DEF SitesNext


\* The presses under way that CountInv speaks of.
Aimed(p) == \E s \in data.of : toggles[p].site = {s} /\ (toggles[p].to <=> s \notin data.on)
Apart(p, q) == p # q /\ toggles[p].step # "none" => toggles[q].site # toggles[p].site

\* What shows the sites anew counts them, and what changes one of them by a
\* press counts it once.
LEMMA CountStep ==
  ASSUME SitesTyped, CountInv, [SitesNext]_siteVars PROVE CountInv'
<1> USE DEF SitesTyped
<1> DEFINE Goal == /\ \A p \in Presses : toggles'[p].step # "none" => (Aimed(p))'
                   /\ \A p, q \in Presses : (Apart(p, q))'
                   /\ data'.count = Cardinality(data'.on)
<1> SUFFICES ASSUME ~tangle'.counts PROVE Goal
  BY DEF CountInv, Aimed, Apart
<1>a. ~tangle.counts =>
        /\ \A p \in Presses : toggles[p].step # "none" => Aimed(p)
        /\ \A p, q \in Presses : Apart(p, q)
        /\ data.count = Cardinality(data.on)
  BY DEF CountInv, Aimed, Apart
<1>b. ASSUME UNCHANGED <<data, toggles>>, tangle'.counts = tangle.counts
      PROVE  Goal
  BY <1>a, <1>b DEF Aimed, Apart
<1>c. ASSUME ~Toggling, UNCHANGED toggles, data'.count = Cardinality(data'.on)
      PROVE  Goal
  BY <1>c DEF Apart, Toggling
<1>1. CASE TypeSearch \/ Pick \/ CapturesMove \/ PressCommand \/ ServeCommand \/ LoseCommand
  BY <1>1, <1>b DEF TypeSearch, Pick, CapturesMove, PressCommand, ServeCommand, LoseCommand
<1>2. CASE SearchTimer \/ PollTimer
  <2>1. Question(search.of) /\ search.of \in Searches /\ UNCHANGED <<data, toggles>>
    BY <1>2 DEF SearchTimer, PollTimer
  <2>2. ~tangle.counts /\ ~Toggling
    BY <2>1, SiteQuestionFacts
  <2> QED BY <1>a, <1>c, <2>1, <2>2
<1>3. ASSUME NEW i \in 1 .. MaxCalls, ReceiveAnswer(i) PROVE Goal
  <2>1. tangle'.counts = (tangle.counts \/ Toggling) /\ UNCHANGED toggles
        /\ data'.on = answers[i].on /\ data'.count = Cardinality(answers[i].on)
    BY <1>3 DEF ReceiveAnswer
  <2>2. ~Toggling
    BY <2>1
  <2> QED BY <1>c, <2>1, <2>2
<1>4. ASSUME NEW i \in 1 .. MaxCalls, LoseAnswer(i) PROVE Goal
  <2>1. tangle'.counts = tangle.counts
    BY <1>4 DEF LoseAnswer
  <2> QED BY <1>4, <1>b, <2>1 DEF LoseAnswer
<1>5. ASSUME NEW s \in Sites, PressToggle(s) PROVE Goal
  <2>1. PICK p \in Presses : toggles' =
          [toggles EXCEPT ![p] = [step |-> "sent", site |-> {s}, to |-> s \notin data.on]]
    BY <1>5 DEF PressToggle
  <2> DEFINE crossing == answers # <<>> \/ command.ids # {}
             on == \E o \in Presses : toggles[o].site = {s}
  <2>2. tangle'.counts = (tangle.counts \/ crossing \/ on) /\ UNCHANGED data /\ s \in data.of
    BY <1>5 DEF PressToggle
  <2>3. ~tangle.counts /\ ~on
    BY <2>2
  <2>4. \A o \in Presses : toggles[o].site # {s}
    BY <2>3
  <2> HIDE DEF crossing, on
  <2>5. /\ toggles'[p].step = "sent" /\ toggles'[p].site = {s} /\ (toggles'[p].to <=> s \notin data.on)
        /\ \A o \in Presses : o # p => toggles'[o] = toggles[o]
    BY <2>1
  <2>6. ASSUME NEW o \in Presses, toggles'[o].step # "none" PROVE (Aimed(o))'
    <3>1. CASE o = p
      BY <2>2, <2>5, <3>1 DEF Aimed
    <3>2. CASE o # p
      BY <1>a, <2>2, <2>3, <2>5, <2>6, <3>2 DEF Aimed
    <3> QED BY <3>1, <3>2
  <2>7. ASSUME NEW o \in Presses, NEW q \in Presses PROVE (Apart(o, q))'
    BY <1>a, <2>3, <2>4, <2>5 DEF Apart
  <2> QED BY <1>a, <2>2, <2>3, <2>6, <2>7
<1>6. ASSUME NEW p \in Presses, ServeToggle(p) PROVE Goal
  <2>1. /\ toggles[p].step = "sent" /\ UNCHANGED <<data, tangle>>
        /\ toggles'[p].site = toggles[p].site /\ toggles'[p].to = toggles[p].to
        /\ \A o \in Presses : o # p => toggles'[o] = toggles[o]
    BY <1>6 DEF ServeToggle, Toggles
  <2>2. \A o \in Presses : toggles'[o].step # "none" => toggles[o].step # "none"
    BY <2>1
  <2>3. \A o \in Presses : toggles'[o].site = toggles[o].site /\ toggles'[o].to = toggles[o].to
    BY <2>1
  <2> QED BY <1>a, <2>1, <2>2, <2>3 DEF Aimed, Apart
<1>7. ASSUME NEW p \in Presses, LoseToggle(p) \/ ReceiveToggle(p) PROVE Goal
  <2>1. /\ toggles[p].step # "none" /\ UNCHANGED tangle
        /\ toggles'[p] = NoToggle /\ \A o \in Presses : o # p => toggles'[o] = toggles[o]
    BY <1>7 DEF LoseToggle, ReceiveToggle
  <2>2. toggles'[p].step = "none" /\ toggles'[p].site = {}
    BY <2>1 DEF NoToggle
  <2>3. PICK s \in data.of : toggles[p].site = {s} /\ (toggles[p].to <=> s \notin data.on)
    BY <1>a, <2>1 DEF Aimed
  <2>4. \A o \in Presses : o # p => Apart(p, o)
    BY <1>a, <2>1
  <2>5. ASSUME NEW o \in Presses, NEW q \in Presses PROVE (Apart(o, q))'
    <3>1. CASE o = p
      BY <2>2, <3>1 DEF Apart
    <3>2. CASE o # p /\ q # p
      BY <1>a, <2>1, <3>2 DEF Apart
    <3>3. CASE o # p /\ q = p /\ toggles[o].step # "none"
      <4>1. PICK x \in data.of : toggles[o].site = {x}
        BY <1>a, <2>1, <3>3 DEF Aimed
      <4>2. toggles'[q].site = {} /\ toggles'[o].site = {x}
        BY <2>1, <2>2, <3>3, <4>1
      <4> QED BY <4>2 DEF Apart
    <3>4. CASE o # p /\ q = p /\ toggles[o].step = "none"
      BY <2>1, <3>4 DEF Apart
    <3> QED BY <3>1, <3>2, <3>3, <3>4
  <2>6. CASE LoseToggle(p)
    <3>1. UNCHANGED data
      BY <2>6 DEF LoseToggle
    <3>2. ASSUME NEW o \in Presses, toggles'[o].step # "none" PROVE (Aimed(o))'
      BY <1>a, <2>1, <2>2, <3>1, <3>2 DEF Aimed
    <3> QED BY <1>a, <2>1, <2>5, <3>1, <3>2
  <2>7. CASE ReceiveToggle(p)
    <3> DEFINE on == IF toggles[p].to THEN data.on \cup (toggles[p].site \cap data.of)
                     ELSE data.on \ toggles[p].site
    <3>1. data' = [data EXCEPT !.count = CountAfter(toggles[p].to), !.on = on]
      BY <2>7 DEF ReceiveToggle
    <3>2. data'.of = data.of /\ data'.on = on /\ data'.count = CountAfter(toggles[p].to)
      BY <3>1 DEF Shown
    <3>3. on = IF s \in data.on THEN data.on \ {s} ELSE data.on \cup {s}
      BY <2>3
    <3> HIDE DEF on
    <3>4. IsFiniteSet(data.on) /\ Cardinality(data.on) \in Nat
      <4>1. data.on \in SUBSET Sites
        BY DEF Shown
      <4> QED BY <4>1, SearchAssumption, FS_Subset, FS_CardinalityType
    <3>5. Cardinality(on) = IF s \in data.on THEN Cardinality(data.on) - 1 ELSE Cardinality(data.on) + 1
      BY <3>3, <3>4, FS_AddElement, FS_RemoveElement
    <3>6. CountAfter(toggles[p].to) = IF s \in data.on THEN data.count - 1 ELSE data.count + 1
      BY <2>3 DEF CountAfter, Shown
    <3>7. data'.count = Cardinality(data'.on)
      BY <1>a, <2>1, <3>2, <3>5, <3>6
    <3>8. ASSUME NEW o \in Presses, toggles'[o].step # "none" PROVE (Aimed(o))'
      <4>1. o # p /\ toggles'[o] = toggles[o]
        BY <2>1, <2>2, <3>8
      <4>2. PICK x \in data.of : toggles[o].site = {x} /\ (toggles[o].to <=> x \notin data.on)
        BY <1>a, <2>1, <3>8, <4>1 DEF Aimed
      <4>3. x # s
        BY <2>1, <2>3, <2>4, <4>1, <4>2 DEF Apart
      <4>4. x \in on <=> x \in data.on
        BY <3>3, <4>3
      <4> QED BY <3>2, <4>1, <4>2, <4>4 DEF Aimed
    <3> QED BY <2>5, <3>7, <3>8
  <2> QED BY <1>7, <2>6, <2>7
<1>8. ASSUME NEW to \in BOOLEAN, PressBulk(to) PROVE Goal
  <2>1. tangle'.counts = (tangle.counts \/ Toggling) /\ UNCHANGED <<data, toggles>>
    BY <1>8 DEF PressBulk
  <2>2. ~tangle.counts /\ ~Toggling
    BY <2>1
  <2> QED BY <1>a, <1>c, <2>1, <2>2
<1>9. CASE ReceiveCommand
  <2>1. Question(command.of) /\ command.of \in Searches /\ UNCHANGED toggles
    BY <1>9 DEF ReceiveCommand
  <2>2. ~tangle.counts /\ ~Toggling
    BY <2>1, SiteQuestionFacts
  <2>3. data'.count = Cardinality(data'.on)
    <3> DEFINE on == (IF command.to THEN data.on \cup command.ids
                      ELSE data.on \ command.ids) \cap data.of
    <3>1. data' = data \/ data' = [data EXCEPT !.on = on, !.count = Cardinality(on)]
      BY <1>9 DEF ReceiveCommand
    <3> HIDE DEF on
    <3> QED BY <1>a, <2>2, <3>1 DEF Shown
  <2> QED BY <1>c, <2>1, <2>2, <2>3
<1>10. CASE UNCHANGED siteVars
  BY <1>10, <1>b DEF siteVars
<1> QED BY <1>1, <1>2, <1>3, <1>4, <1>5, <1>6, <1>7, <1>8, <1>9, <1>10 DEF SitesNext

LEMMA SitesStep == ASSUME SitesInv, [SitesNext]_siteVars PROVE SitesInv'
BY SitesTypedStep, CallsStep, SearchStep, CountStep DEF SitesInv


-----------------------------------------------------------------------------
(* The runtime settings. *)

\* Every value was chosen, no field of w later than in v.
Chosen(v) == \A f \in Fields : v[f] <= choices
NotOlder(v, w) == \A f \in Fields : w[f] <= v[f]
NoneStored(p) == \A b \in Buttons : PageOf(b) = p => saving[b].step # "stored"

ValuesChosen ==
  /\ Chosen(settings) /\ interval <= choices
  /\ \A p \in SettingPages : Chosen(copies[p])
  /\ \A l \in Loads : Chosen(fetched[l].values)
  /\ \A b \in Buttons : Chosen(saving[b].sent)

\* A call under way sends nothing older than what is stored.
CallIsNewer(b) ==
  /\ saving[b].step = "sent" => NotOlder(saving[b].sent, settings)
  /\ saving[b].step = "stored" => saving[b].sent = settings
  /\ Busy(b) /\ PageOf(b) = "sites" /\ ~behind["sites"] => saving[b].sent["schedule"] <= interval

\* A page that is not behind holds nothing older than what is stored, or is
\* about to be given it.
PageIsNewer(p) ==
  ~behind[p] /\ NoneStored(p) =>
    NotOlder(copies[p], settings) /\ (p = "sites" => settings["schedule"] <= interval)

SavesInOrder ==
  /\ ~reverted
  /\ \A b, c \in Buttons : b # c /\ Busy(b) => ~Busy(c)
  /\ \A b \in Buttons : CallIsNewer(b)
  /\ ~behind["sites"] => copies["sites"]["schedule"] <= interval
  /\ \A p \in SettingPages : PageIsNewer(p)

SettingsInv == SettingsTypeOK /\ ValuesChosen /\ (~tangled => SavesInOrder)

Saves == [step : {"none", "sent", "stored"}, sent : Values]
Fetches == [seen : BOOLEAN, values : Values]

\* What the steps make of the two functions of records.
LEMMA SettingsFacts ==
  ASSUME SettingsTypeOK
  PROVE  /\ \A b \in Buttons : PageOf(b) \in SettingPages /\ saving[b] \in Saves
         /\ \A p \in SettingPages : /\ Other(p) \in SettingPages /\ Other(p) # p
                                    /\ copies[p] \in Values
         /\ \A l \in Loads : l[1] \in SettingPages /\ fetched[l] \in Fetches
         /\ \A b \in Buttons, r \in Saves : [saving EXCEPT ![b] = r] \in [Buttons -> Saves]
         /\ \A p \in SettingPages, v \in Values : [copies EXCEPT ![p] = v] \in [SettingPages -> Values]
         /\ \A l \in Loads, r \in Fetches : [fetched EXCEPT ![l] = r] \in [Loads -> Fetches]
         /\ Unsaved \in Saves /\ Unloaded \in Fetches /\ Chosen(Unsaved.sent) /\ Chosen(Unloaded.values)
         /\ {"schedule", "mode"} \subseteq Fields /\ "sites" \in SettingPages /\ MaxEdits \in Nat
<1> USE DEF SettingsTypeOK, Saves, Fetches
<1>1. {"schedule", "mode"} \subseteq Fields /\ MaxEdits \in Nat
  BY SettingsAssumption
<1>2. [f \in Fields |-> 0] \in Values
  BY <1>1 DEF Values
<1>3. /\ Unsaved \in Saves /\ Unloaded \in Fetches
      /\ Chosen(Unsaved.sent) /\ Chosen(Unloaded.values)
  <2>1. choices \in Nat
    BY <1>1
  <2> QED BY <1>2, <2>1 DEF Unsaved, Unloaded, Chosen
<1>4. \A p \in SettingPages : Other(p) \in SettingPages /\ Other(p) # p
  <2> SUFFICES ASSUME NEW p \in SettingPages PROVE Other(p) \in SettingPages /\ Other(p) # p
    OBVIOUS
  <2>1. \E q \in SettingPages : q # p
    BY DEF SettingPages
  <2> QED BY <2>1 DEF Other
<1>5. \A b \in Buttons : PageOf(b) \in SettingPages /\ saving[b] \in Saves
  BY DEF PageOf, SettingPages
<1>6. "sites" \in SettingPages
  BY DEF SettingPages
<1>7. \A b \in Buttons, r \in Saves : [saving EXCEPT ![b] = r] \in [Buttons -> Saves]
  <2> HIDE DEF Saves
  <2> QED BY DEF Saves
<1>8. \A p \in SettingPages, v \in Values : [copies EXCEPT ![p] = v] \in [SettingPages -> Values]
  OBVIOUS
<1>9. \A l \in Loads, r \in Fetches : [fetched EXCEPT ![l] = r] \in [Loads -> Fetches]
  OBVIOUS
<1>10. \A l \in Loads : l[1] \in SettingPages /\ fetched[l] \in Fetches
  BY DEF Loads, SettingPages
<1> QED BY <1>1, <1>3, <1>4, <1>5, <1>6, <1>7, <1>8, <1>9, <1>10

LEMMA SettingsInitially == SettingsInit => SettingsInv
<1> SUFFICES ASSUME SettingsInit PROVE SettingsInv
  OBVIOUS
<1>0. "schedule" \in Fields /\ MaxEdits \in Nat /\ "sites" \in SettingPages
  BY SettingsAssumption DEF SettingPages
<1> DEFINE Zero == [f \in Fields |-> 0]
<1>1. Zero \in Values /\ \A f \in Fields : Zero[f] = 0
  BY <1>0 DEF Values
<1>2. /\ settings = Zero /\ interval = 0 /\ choices = 0 /\ reverted = FALSE /\ tangled = FALSE
      /\ copies = [p \in SettingPages |-> Zero]
      /\ fetched = [l \in Loads |-> [seen |-> FALSE, values |-> Zero]]
      /\ saving = [b \in Buttons |-> [step |-> "none", sent |-> Zero]]
      /\ behind = [p \in SettingPages |-> FALSE]
  BY DEF SettingsInit, Unsaved, Unloaded
<1> HIDE DEF Zero
<1>3. SettingsTypeOK
  <2>1. settings \in Values /\ interval \in 0 .. MaxEdits /\ choices \in 0 .. MaxEdits
    BY <1>0, <1>1, <1>2
  <2>2. copies \in [SettingPages -> Values]
    BY <1>1, <1>2
  <2>3. fetched \in [Loads -> [seen : BOOLEAN, values : Values]]
    BY <1>1, <1>2
  <2>4. saving \in [Buttons -> [step : {"none", "sent", "stored"}, sent : Values]]
    BY <1>1, <1>2
  <2>5. behind \in [SettingPages -> BOOLEAN]
    BY <1>2
  <2>6. reverted \in BOOLEAN /\ tangled \in BOOLEAN
    BY <1>2
  <2> QED BY <2>1, <2>2, <2>3, <2>4, <2>5, <2>6 DEF SettingsTypeOK
<1>4. ValuesChosen
  BY <1>0, <1>1, <1>2 DEF ValuesChosen, Chosen
<1>5. SavesInOrder
  BY <1>0, <1>1, <1>2 DEF SavesInOrder, CallIsNewer, PageIsNewer, NotOlder, Busy
<1> QED BY <1>3, <1>4, <1>5 DEF SettingsInv

LEMMA SettingsStep ==
  ASSUME SettingsInv, [SettingsNext]_settingVars PROVE SettingsInv'
<1>a. /\ settings \in Values /\ interval \in Nat /\ choices \in 0 .. MaxEdits /\ interval <= MaxEdits
      /\ copies \in [SettingPages -> Values] /\ fetched \in [Loads -> Fetches]
      /\ saving \in [Buttons -> Saves] /\ behind \in [SettingPages -> BOOLEAN]
      /\ reverted \in BOOLEAN /\ tangled \in BOOLEAN
  BY SettingsAssumption DEF SettingsInv, SettingsTypeOK, Saves, Fetches
<1>b. /\ \A b \in Buttons : PageOf(b) \in SettingPages /\ saving[b] \in Saves
      /\ \A p \in SettingPages : /\ Other(p) \in SettingPages /\ Other(p) # p
                                 /\ copies[p] \in Values
      /\ \A l \in Loads : l[1] \in SettingPages /\ fetched[l] \in Fetches
  BY SettingsFacts DEF SettingsInv
<1>b2. /\ \A b \in Buttons, r \in Saves : [saving EXCEPT ![b] = r] \in [Buttons -> Saves]
       /\ \A p \in SettingPages, v \in Values : [copies EXCEPT ![p] = v] \in [SettingPages -> Values]
       /\ \A l \in Loads, r \in Fetches : [fetched EXCEPT ![l] = r] \in [Loads -> Fetches]
       /\ Unsaved \in Saves /\ Unloaded \in Fetches /\ Chosen(Unsaved.sent) /\ Chosen(Unloaded.values)
       /\ {"schedule", "mode"} \subseteq Fields /\ "sites" \in SettingPages /\ MaxEdits \in Nat
  BY SettingsFacts DEF SettingsInv
<1>c. /\ \A r \in Saves : r.step \in {"none", "sent", "stored"} /\ r.sent \in Values
      /\ \A r \in Fetches : r.seen \in BOOLEAN /\ r.values \in Values
      /\ \A v \in Values, f \in Fields : v[f] \in Nat /\ v[f] <= MaxEdits
  BY <1>b2 DEF Saves, Fetches, Values
<1>d. ValuesChosen /\ (~tangled => SavesInOrder)
  BY DEF SettingsInv
<1> DEFINE Goal == SettingsTypeOK' /\ ValuesChosen' /\ (~tangled' => SavesInOrder')
<1> SUFFICES Goal
  BY DEF SettingsInv
<1>e. SettingsTypeOK' <=>
        /\ settings' \in Values /\ copies' \in [SettingPages -> Values]
        /\ interval' \in 0 .. MaxEdits /\ fetched' \in [Loads -> Fetches]
        /\ saving' \in [Buttons -> Saves] /\ choices' \in 0 .. MaxEdits
        /\ behind' \in [SettingPages -> BOOLEAN] /\ reverted' \in BOOLEAN /\ tangled' \in BOOLEAN
  BY DEF SettingsTypeOK, Saves, Fetches
<1>f. Saves = Saves' /\ Fetches = Fetches' /\ Values = Values'
  BY DEF Saves, Fetches, Values
<1>1. ASSUME NEW p \in SettingPages, NEW f \in Fields, ChooseSetting(p, f) PROVE Goal
  <2>0. PICK v : v = [copies[p] EXCEPT ![f] = choices + 1]
    OBVIOUS
  <2>1. /\ f \in Editable(p) /\ choices < MaxEdits /\ choices' = choices + 1
        /\ copies' = [copies EXCEPT ![p] = v]
        /\ UNCHANGED <<settings, interval, fetched, saving, behind, reverted, tangled>>
    BY <1>1, <1>a, <2>0 DEF ChooseSetting
  <2>2. choices + 1 \in 0 .. MaxEdits
    BY <1>a, <1>b2, <2>1
  <2>3. v \in Values /\ v[f] = choices + 1 /\ \A g \in Fields : g # f => v[g] = copies[p][g]
    BY <1>b, <2>0, <2>2 DEF Values
  <2>4. /\ copies' \in [SettingPages -> Values] /\ copies'[p] = v
        /\ \A q \in SettingPages : q # p => copies'[q] = copies[q]
    BY <1>a, <1>b2, <2>1, <2>3
  <2>5. SettingsTypeOK'
    BY <1>a, <1>b2, <1>e, <2>1, <2>2, <2>4
  <2>6. \A w \in Values : Chosen(w) => (Chosen(w))'
    BY <1>a, <1>b2, <1>c, <2>1 DEF Chosen
  <2>7. (Chosen(v))'
    BY <1>a, <1>b, <1>b2, <1>c, <1>d, <2>1, <2>3 DEF Chosen, ValuesChosen
  <2>8. ValuesChosen'
    <3>1. /\ \A q \in SettingPages : (Chosen(copies[q]))'
          /\ \A l \in Loads : (Chosen(fetched[l].values))'
      BY <1>b, <1>c, <1>d, <2>1, <2>4, <2>6, <2>7 DEF ValuesChosen, Chosen
    <3>2. \A b \in Buttons : (Chosen(saving[b].sent))'
      BY <1>b, <1>c, <1>d, <2>1, <2>6 DEF ValuesChosen, Chosen
    <3>3. (Chosen(settings))' /\ interval' <= choices'
      BY <1>a, <1>b2, <1>d, <2>1, <2>6 DEF ValuesChosen, Chosen
    <3> QED BY <3>1, <3>2, <3>3 DEF ValuesChosen
  <2>9. ASSUME ~tangled' PROVE SavesInOrder'
    <3>0. SavesInOrder
      BY <1>d, <2>1, <2>9
    <3>1. ~behind'["sites"] => copies'["sites"]["schedule"] <= interval'
      <4>1. p = "sites" => f # "schedule"
        BY <2>1 DEF Editable
      <4>2. copies'["sites"]["schedule"] = copies["sites"]["schedule"]
        BY <1>b2, <2>3, <2>4, <4>1
      <4> QED BY <2>1, <3>0, <4>2 DEF SavesInOrder
    <3>2. \A w \in Values : NotOlder(copies[p], settings) => NotOlder(v, settings)
      BY <1>a, <1>b, <1>b2, <1>c, <1>d, <2>3 DEF NotOlder, ValuesChosen, Chosen
    <3>3. ASSUME NEW q \in SettingPages PROVE (PageIsNewer(q))'
      <4>1. NotOlder(copies[q], settings) => (NotOlder(copies[q], settings))'
        BY <2>1, <2>4, <3>2 DEF NotOlder
      <4>2. PageIsNewer(q)
        BY <3>0 DEF SavesInOrder
      <4>3. (NoneStored(q))' <=> NoneStored(q)
        BY <2>1 DEF NoneStored
      <4> QED BY <2>1, <4>1, <4>2, <4>3 DEF PageIsNewer
    <3>4. \A b \in Buttons : (CallIsNewer(b))'
      BY <2>1, <3>0 DEF SavesInOrder, CallIsNewer, NotOlder, Busy
    <3>5. ~reverted' /\ \A b, c \in Buttons : b # c /\ (Busy(b))' => ~(Busy(c))'
      BY <2>1, <3>0 DEF SavesInOrder, Busy
    <3> QED BY <3>1, <3>3, <3>4, <3>5 DEF SavesInOrder
  <2> QED BY <2>5, <2>8, <2>9
<1>2. CASE ChooseInterval
  <2>1. /\ choices < MaxEdits /\ choices' = choices + 1 /\ interval' = choices + 1
        /\ UNCHANGED <<settings, copies, fetched, saving, behind, reverted, tangled>>
    BY <1>2 DEF ChooseInterval
  <2>2. choices + 1 \in 0 .. MaxEdits /\ interval <= choices
    BY <1>a, <1>b2, <1>d, <2>1 DEF ValuesChosen
  <2>3. SettingsTypeOK'
    BY <1>a, <1>e, <2>1, <2>2
  <2>4. \A w \in Values : Chosen(w) => (Chosen(w))'
    BY <1>a, <1>b2, <1>c, <2>1 DEF Chosen
  <2>5. ValuesChosen'
    <3>1. /\ \A q \in SettingPages : (Chosen(copies[q]))'
          /\ \A l \in Loads : (Chosen(fetched[l].values))'
      BY <1>b, <1>c, <1>d, <2>1, <2>4 DEF ValuesChosen, Chosen
    <3>2. \A b \in Buttons : (Chosen(saving[b].sent))'
      BY <1>b, <1>c, <1>d, <2>1, <2>4 DEF ValuesChosen, Chosen
    <3>3. (Chosen(settings))' /\ interval' <= choices'
      BY <1>a, <1>b2, <1>d, <2>1, <2>4 DEF ValuesChosen, Chosen
    <3> QED BY <3>1, <3>2, <3>3 DEF ValuesChosen
  <2>6. ASSUME ~tangled' PROVE SavesInOrder'
    <3>0. SavesInOrder /\ interval <= interval' /\ interval' \in Nat
      BY <1>a, <1>d, <2>1, <2>2, <2>6
    <3>1. ~behind'["sites"] => copies'["sites"]["schedule"] <= interval'
      BY <1>a, <1>b, <1>b2, <1>c, <2>1, <3>0 DEF SavesInOrder
    <3>2. ASSUME NEW q \in SettingPages PROVE (PageIsNewer(q))'
      <4>1. PageIsNewer(q)
        BY <3>0 DEF SavesInOrder
      <4>2. (NoneStored(q))' <=> NoneStored(q)
        BY <2>1 DEF NoneStored
      <4>3. settings["schedule"] <= interval => settings'["schedule"] <= interval'
        BY <1>a, <1>b2, <1>c, <2>1, <3>0
      <4> QED BY <2>1, <4>1, <4>2, <4>3 DEF PageIsNewer, NotOlder
    <3>3. ASSUME NEW b \in Buttons PROVE (CallIsNewer(b))'
      <4>1. CallIsNewer(b)
        BY <3>0 DEF SavesInOrder
      <4>2. saving[b].sent["schedule"] <= interval => saving'[b].sent["schedule"] <= interval'
        BY <1>a, <1>b, <1>b2, <1>c, <2>1, <3>0
      <4> QED BY <2>1, <4>1, <4>2 DEF CallIsNewer, NotOlder, Busy
    <3>4. ~reverted' /\ \A b, c \in Buttons : b # c /\ (Busy(b))' => ~(Busy(c))'
      BY <2>1, <3>0 DEF SavesInOrder, Busy
    <3> QED BY <3>1, <3>2, <3>3, <3>4 DEF SavesInOrder
  <2> QED BY <2>3, <2>5, <2>6
<1>3. ASSUME NEW b \in Buttons, PressSave(b) PROVE Goal
  <2> DEFINE p == PageOf(b)
             v == Sent(b)
             r == [step |-> "sent", sent |-> v]
             others == behind[p] \/ \E c \in Buttons \ {b} : Busy(c)
  <2>0. p \in SettingPages
    BY <1>b
  <2>1. /\ ~Busy(b) /\ saving' = [saving EXCEPT ![b] = r] /\ tangled' = (tangled \/ others)
        /\ UNCHANGED <<settings, copies, interval, fetched, behind, reverted>>
    BY <1>3 DEF PressSave
  <2>c. /\ choices' \in 0 .. MaxEdits /\ choices <= choices'
        /\ b = "schedule" => choices + 1 = choices' /\ choices + 1 \in 0 .. MaxEdits
    BY <1>3, <1>a, <1>b2 DEF PressSave
  <2>2. /\ v \in Values
        /\ b = "schedule" => v["schedule"] = interval /\ v["mode"] = choices + 1
        /\ \A f \in Fields : v[f] = copies[p][f] \/ (b = "schedule" /\ f \in {"schedule", "mode"})
    <3> DEFINE w == [[copies[p] EXCEPT !["schedule"] = interval] EXCEPT !["mode"] = choices + 1]
    <3>1. v = IF b = "schedule" THEN w ELSE copies[p]
      BY DEF Sent
    <3>2. copies[p] \in [Fields -> 0 .. MaxEdits] /\ interval \in 0 .. MaxEdits
      BY <1>a, <1>b, <1>b2, <2>0 DEF Values
    <3>3. CASE b # "schedule"
      BY <3>1, <3>2, <3>3 DEF Values
    <3>4. CASE b = "schedule"
      <4>1. /\ w \in [Fields -> 0 .. MaxEdits] /\ w["schedule"] = interval /\ w["mode"] = choices + 1
            /\ \A f \in Fields : f \notin {"schedule", "mode"} => w[f] = copies[p][f]
        BY <1>b2, <2>c, <3>2, <3>4
      <4> QED BY <3>1, <3>4, <4>1 DEF Values
    <3> QED BY <3>3, <3>4
  <2>3. r \in Saves /\ r.step = "sent" /\ r.sent = v
    BY <2>2 DEF Saves
  <2> HIDE DEF v, r
  <2>4. /\ saving' \in [Buttons -> Saves] /\ saving'[b].step = "sent" /\ saving'[b].sent = v
        /\ \A c \in Buttons : c # b => saving'[c] = saving[c]
    <3>1. saving'[b] = r
      BY <1>a, <2>1
    <3> QED BY <1>a, <1>b2, <2>1, <2>3, <3>1
  <2>5. tangled' \in BOOLEAN
    BY <2>1
  <2>6. SettingsTypeOK'
    BY <1>a, <1>b2, <1>d, <1>e, <2>1, <2>4, <2>5, <2>c DEF ValuesChosen
  <2>d. \A w \in Values : Chosen(w) => (Chosen(w))'
    BY <1>a, <1>b2, <1>c, <2>c DEF Chosen
  <2>7. \A f \in Fields : v[f] <= choices'
    <3>1. (Chosen(copies[p]))'
      <4>1. Chosen(copies[p])
        BY <1>d, <2>0 DEF ValuesChosen
      <4> QED BY <1>b, <2>0, <2>1, <2>d, <4>1 DEF Chosen
    <3>2. interval <= choices'
      BY <1>a, <1>b2, <1>d, <2>c DEF ValuesChosen
    <3>3. choices' <= choices'
      BY <1>b2, <2>c
    <3> QED BY <2>1, <2>2, <2>c, <3>1, <3>2, <3>3 DEF Chosen
  <2>8. ValuesChosen'
    <3>1. ASSUME NEW c \in Buttons PROVE (Chosen(saving[c].sent))'
      <4>1. CASE c = b
        BY <2>4, <2>7, <4>1 DEF Chosen
      <4>2. CASE c # b
        <5>1. Chosen(saving[c].sent) /\ saving[c].sent \in Values
          BY <1>b, <1>c, <1>d DEF ValuesChosen
        <5> QED BY <2>4, <2>d, <4>2, <5>1 DEF Chosen
      <4> QED BY <4>1, <4>2
    <3>2. (Chosen(settings))' /\ interval' <= choices'
      <4>1. Chosen(settings) /\ interval <= choices
        BY <1>d DEF ValuesChosen
      <4>2. (Chosen(settings))'
        BY <1>a, <2>1, <2>d, <4>1 DEF Chosen
      <4> QED BY <1>a, <1>b2, <2>1, <2>c, <4>1, <4>2
    <3>3. /\ \A q \in SettingPages : (Chosen(copies[q]))'
          /\ \A l \in Loads : (Chosen(fetched[l].values))'
      BY <1>b, <1>c, <1>d, <2>1, <2>d DEF ValuesChosen, Chosen
    <3> QED BY <3>1, <3>2, <3>3 DEF ValuesChosen
  <2>9. ASSUME ~tangled' PROVE SavesInOrder'
    <3>0. SavesInOrder /\ ~others
      BY <1>d, <2>1, <2>9
    <3>1. \A c \in Buttons : ~Busy(c)
      BY <2>1, <3>0
    <3>2. \A c \in Buttons : (Busy(c))' => c = b
      BY <2>4, <3>1 DEF Busy
    <3>3. NotOlder(copies[p], settings) /\ (p = "sites" => settings["schedule"] <= interval)
      BY <2>0, <3>0, <3>1 DEF SavesInOrder, PageIsNewer, NoneStored, Busy
    <3>4. b = "schedule" => p = "sites"
      BY DEF PageOf
    <3>5. NotOlder(v, settings)
      <4>1. settings["mode"] <= choices + 1
        <5>1. settings["mode"] <= choices
          BY <1>b2, <1>d DEF ValuesChosen, Chosen
        <5> QED BY <1>a, <1>b2, <1>c, <5>1
      <4> QED BY <2>2, <3>3, <3>4, <4>1 DEF NotOlder
    <3>6. p = "sites" => v["schedule"] <= interval
      <4>1. interval <= interval
        BY <1>a
      <4>2. p = "sites" => copies["sites"]["schedule"] <= interval
        BY <3>0 DEF SavesInOrder
      <4> HIDE DEF p
      <4> QED BY <1>b2, <2>2, <4>1, <4>2
    <3>7. ASSUME NEW c \in Buttons PROVE (CallIsNewer(c))'
      <4>1. CASE c = b
        <5>1. saving'[c].step = "sent" /\ saving'[c].sent = v
          BY <2>4, <4>1
        <5> QED BY <2>1, <3>5, <3>6, <4>1, <5>1 DEF CallIsNewer, NotOlder
      <4>2. CASE c # b
        <5>1. saving'[c].step = "none"
          BY <2>4, <3>1, <4>2 DEF Busy
        <5> QED BY <5>1 DEF CallIsNewer, Busy
      <4> QED BY <4>1, <4>2
    <3>8. ASSUME NEW q \in SettingPages PROVE (PageIsNewer(q))'
      <4>1. PageIsNewer(q) /\ NoneStored(q)
        BY <3>0, <3>1 DEF SavesInOrder, NoneStored, Busy
      <4> QED BY <2>1, <4>1 DEF PageIsNewer, NotOlder
    <3>9. \A c, d \in Buttons : c # d /\ (Busy(c))' => ~(Busy(d))'
      BY <3>2
    <3>10. ~reverted' /\ (~behind'["sites"] => copies'["sites"]["schedule"] <= interval')
      BY <2>1, <3>0 DEF SavesInOrder
    <3> QED BY <3>7, <3>8, <3>9, <3>10 DEF SavesInOrder
  <2> QED BY <2>6, <2>8, <2>9
<1>4. ASSUME NEW b \in Buttons, ServeSave(b) PROVE Goal
  <2> DEFINE p == PageOf(b)
             r == [saving[b] EXCEPT !.step = "stored"]
             older == \E f \in Fields : saving[b].sent[f] < settings[f]
  <2>0. p \in SettingPages /\ Other(p) \in SettingPages /\ Other(p) # p /\ saving[b].sent \in Values
    BY <1>b, <1>c
  <2>1. /\ saving[b].step = "sent" /\ settings' = saving[b].sent
        /\ saving' = [saving EXCEPT ![b] = r]
        /\ behind' = [behind EXCEPT ![Other(p)] = TRUE]
        /\ reverted' = (reverted \/ older)
        /\ UNCHANGED <<copies, interval, fetched, choices, tangled>>
    BY <1>4 DEF ServeSave
  <2>2. r \in Saves /\ r.step = "stored" /\ r.sent = saving[b].sent
    BY <1>b DEF Saves
  <2> HIDE DEF r
  <2>3. /\ saving' \in [Buttons -> Saves]
        /\ saving'[b].step = "stored" /\ saving'[b].sent = saving[b].sent
        /\ \A c \in Buttons : c # b => saving'[c] = saving[c]
    <3>1. saving'[b] = r
      BY <1>a, <2>1
    <3> QED BY <1>a, <1>b2, <2>1, <2>2, <3>1
  <2>4. /\ behind' \in [SettingPages -> BOOLEAN] /\ behind'[Other(p)] = TRUE
        /\ \A q \in SettingPages : ~behind'[q] => ~behind[q]
    BY <1>a, <2>0, <2>1
  <2>5. SettingsTypeOK'
    <3>1. reverted' \in BOOLEAN
      BY <2>1
    <3> QED BY <1>a, <1>d, <1>e, <2>0, <2>1, <2>3, <2>4, <3>1 DEF ValuesChosen
  <2>6. ValuesChosen'
    <3>1. \A c \in Buttons : (Chosen(saving[c].sent))'
      BY <1>d, <2>1, <2>3 DEF ValuesChosen, Chosen
    <3>2. /\ (Chosen(settings))' /\ interval' <= choices'
          /\ /\ \A q \in SettingPages : (Chosen(copies[q]))'
          /\ \A l \in Loads : (Chosen(fetched[l].values))'
      BY <1>d, <2>1 DEF ValuesChosen, Chosen
    <3> QED BY <3>1, <3>2 DEF ValuesChosen
  <2>7. ASSUME ~tangled' PROVE SavesInOrder'
    <3>0. SavesInOrder /\ CallIsNewer(b) /\ Busy(b)
      BY <1>d, <2>1, <2>7 DEF SavesInOrder, Busy
    <3>1. \A c \in Buttons : c # b => saving[c].step = "none"
      BY <3>0 DEF SavesInOrder, Busy
    <3>2. ~older
      <4>1. NotOlder(saving[b].sent, settings)
        BY <2>1, <3>0 DEF CallIsNewer
      <4> QED BY <1>a, <1>c, <2>0, <4>1 DEF NotOlder
    <3>3. ~reverted'
      BY <2>1, <3>0, <3>2 DEF SavesInOrder
    <3>4. ASSUME NEW c \in Buttons PROVE (CallIsNewer(c))'
      <4>1. CASE c = b
        <5>1. saving'[c].step = "stored" /\ saving'[c].sent = settings'
              /\ (PageOf(c) = "sites" /\ ~behind'["sites"] => saving'[c].sent["schedule"] <= interval')
          BY <1>b2, <2>1, <2>3, <2>4, <3>0, <4>1 DEF CallIsNewer
        <5> QED BY <5>1 DEF CallIsNewer
      <4>2. CASE c # b
        <5>1. saving'[c].step = "none"
          BY <2>3, <3>1, <4>2
        <5> QED BY <5>1 DEF CallIsNewer, Busy
      <4> QED BY <4>1, <4>2
    <3>5. ASSUME NEW q \in SettingPages PROVE (PageIsNewer(q))'
      <4>1. CASE q = p
        <5>1. ~(NoneStored(q))'
          BY <2>3, <4>1 DEF NoneStored
        <5> QED BY <5>1 DEF PageIsNewer
      <4>2. CASE q # p
        <5>1. q = Other(p)
          BY <2>0, <4>2 DEF SettingPages
        <5> QED BY <2>4, <5>1 DEF PageIsNewer
      <4> QED BY <4>1, <4>2
    <3>6. \A c, d \in Buttons : c # d /\ (Busy(c))' => ~(Busy(d))'
      BY <2>3, <3>1 DEF Busy
    <3>7. ~behind'["sites"] => copies'["sites"]["schedule"] <= interval'
      BY <1>b2, <2>1, <2>4, <3>0 DEF SavesInOrder
    <3> QED BY <3>3, <3>4, <3>5, <3>6, <3>7 DEF SavesInOrder
  <2> QED BY <2>5, <2>6, <2>7
<1>5. ASSUME NEW b \in Buttons, ReceiveSave(b) PROVE Goal
  <2> DEFINE p == PageOf(b)
             v == saving[b].sent
  <2>0. p \in SettingPages /\ v \in Values
    BY <1>b, <1>c
  <2>1. /\ saving[b].step = "stored" /\ copies' = [copies EXCEPT ![p] = v]
        /\ saving' = [saving EXCEPT ![b] = Unsaved]
        /\ UNCHANGED <<settings, interval, fetched, choices, behind, reverted, tangled>>
    BY <1>5 DEF ReceiveSave, CopyOfSave
  <2> HIDE DEF p, v
  <2>2. /\ saving' \in [Buttons -> Saves] /\ saving'[b] = Unsaved
        /\ \A c \in Buttons : c # b => saving'[c] = saving[c]
    BY <1>a, <1>b2, <2>1
  <2>3. /\ copies' \in [SettingPages -> Values] /\ copies'[p] = v
        /\ \A q \in SettingPages : q # p => copies'[q] = copies[q]
    BY <1>a, <1>b2, <2>0, <2>1
  <2>4. SettingsTypeOK'
    BY <1>a, <1>e, <2>1, <2>2, <2>3
  <2>5. ValuesChosen'
    <3>1. \A c \in Buttons : (Chosen(saving[c].sent))'
      BY <1>b2, <1>d, <2>1, <2>2 DEF ValuesChosen, Chosen
    <3>2. /\ \A q \in SettingPages : (Chosen(copies[q]))'
          /\ \A l \in Loads : (Chosen(fetched[l].values))'
      BY <1>d, <2>1, <2>3 DEF ValuesChosen, Chosen, v
    <3>3. (Chosen(settings))' /\ interval' <= choices'
      BY <1>d, <2>1 DEF ValuesChosen, Chosen
    <3> QED BY <3>1, <3>2, <3>3 DEF ValuesChosen
  <2>6. ASSUME ~tangled' PROVE SavesInOrder'
    <3>0. SavesInOrder /\ CallIsNewer(b) /\ Busy(b)
      BY <1>d, <2>1, <2>6 DEF SavesInOrder, Busy
    <3>1. \A c \in Buttons : saving'[c].step = "none"
      BY <2>2, <3>0 DEF SavesInOrder, Busy, Unsaved
    <3>2. v = settings /\ (p = "sites" /\ ~behind["sites"] => v["schedule"] <= interval)
      BY <2>1, <3>0 DEF CallIsNewer, v, p
    <3>3. \A c \in Buttons : (CallIsNewer(c))'
      BY <3>1 DEF CallIsNewer, Busy
    <3>4. NotOlder(v, settings)
      BY <1>a, <1>c, <3>2 DEF NotOlder
    <3>5. ASSUME NEW q \in SettingPages PROVE (PageIsNewer(q))'
      <4>1. PageIsNewer(q)
        BY <3>0 DEF SavesInOrder
      <4>2. CASE q = p
        <5>1. copies'[q] = v
          BY <2>3, <4>2
        <5> QED BY <2>1, <3>2, <3>4, <4>2, <5>1 DEF PageIsNewer, NotOlder
      <4>3. CASE q # p
        <5>1. NoneStored(q)
          BY <3>0, <4>3 DEF NoneStored, SavesInOrder, Busy, p
        <5>2. copies'[q] = copies[q]
          BY <2>3, <4>3
        <5> QED BY <2>1, <4>1, <5>1, <5>2 DEF PageIsNewer, NotOlder
      <4> QED BY <4>2, <4>3
    <3>6. ~behind'["sites"] => copies'["sites"]["schedule"] <= interval'
      <4>1. ~behind["sites"] => copies["sites"]["schedule"] <= interval
        BY <3>0 DEF SavesInOrder
      <4> QED BY <1>b2, <2>1, <2>3, <3>2, <4>1
    <3>7. \A c, d \in Buttons : c # d /\ (Busy(c))' => ~(Busy(d))'
      BY <3>1 DEF Busy
    <3>8. ~reverted'
      BY <2>1, <3>0 DEF SavesInOrder
    <3> QED BY <3>3, <3>5, <3>6, <3>7, <3>8 DEF SavesInOrder
  <2> QED BY <2>4, <2>5, <2>6
<1>6. ASSUME NEW b \in Buttons, FailSave(b) PROVE Goal
  <2> DEFINE p == PageOf(b)
  <2>0. p \in SettingPages
    BY <1>b
  <2>1. /\ Busy(b) /\ saving' = [saving EXCEPT ![b] = Unsaved]
        /\ behind' = [behind EXCEPT ![p] = behind[p] \/ saving[b].step = "stored"]
        /\ UNCHANGED <<settings, copies, interval, fetched, choices, reverted, tangled>>
    BY <1>6 DEF FailSave
  <2> HIDE DEF p
  <2>2. /\ saving' \in [Buttons -> Saves] /\ saving'[b] = Unsaved
        /\ \A c \in Buttons : c # b => saving'[c] = saving[c]
    BY <1>a, <1>b2, <2>1
  <2>3. /\ behind' \in [SettingPages -> BOOLEAN]
        /\ behind'[p] = (behind[p] \/ saving[b].step = "stored")
        /\ \A q \in SettingPages : q # p => behind'[q] = behind[q]
    <3>1. (behind[p] \/ saving[b].step = "stored") \in BOOLEAN
      OBVIOUS
    <3> QED BY <1>a, <2>0, <2>1, <3>1
  <2>4. SettingsTypeOK'
    BY <1>a, <1>d, <1>e, <2>1, <2>2, <2>3 DEF ValuesChosen
  <2>5. ValuesChosen'
    <3>1. \A c \in Buttons : (Chosen(saving[c].sent))'
      BY <1>b2, <1>d, <2>1, <2>2 DEF ValuesChosen, Chosen
    <3>2. /\ (Chosen(settings))' /\ interval' <= choices'
          /\ /\ \A q \in SettingPages : (Chosen(copies[q]))'
          /\ \A l \in Loads : (Chosen(fetched[l].values))'
      BY <1>d, <2>1 DEF ValuesChosen, Chosen
    <3> QED BY <3>1, <3>2 DEF ValuesChosen
  <2>6. ASSUME ~tangled' PROVE SavesInOrder'
    <3>0. SavesInOrder
      BY <1>d, <2>1, <2>6
    <3>1. \A c \in Buttons : saving'[c].step = "none"
      BY <2>1, <2>2, <3>0 DEF SavesInOrder, Busy, Unsaved
    <3>2. \A c \in Buttons : (CallIsNewer(c))'
      BY <3>1 DEF CallIsNewer, Busy
    <3>3. ASSUME NEW q \in SettingPages, ~behind'[q] PROVE (PageIsNewer(q))'
      <4>1. PageIsNewer(q) /\ ~behind[q]
        BY <2>3, <3>0, <3>3 DEF SavesInOrder
      <4>2. NoneStored(q)
        <5>1. q = p => saving[b].step # "stored"
          BY <2>3, <3>3
        <5>2. \A c \in Buttons : c # b => saving[c].step = "none"
          BY <2>1, <3>0 DEF SavesInOrder, Busy
        <5> QED BY <5>1, <5>2 DEF NoneStored, p
      <4> QED BY <2>1, <4>1, <4>2 DEF PageIsNewer, NotOlder
    <3>4. \A q \in SettingPages : (PageIsNewer(q))'
      BY <3>3 DEF PageIsNewer
    <3>5. \A c, d \in Buttons : c # d /\ (Busy(c))' => ~(Busy(d))'
      BY <3>1 DEF Busy
    <3>6. ~reverted' /\ (~behind'["sites"] => copies'["sites"]["schedule"] <= interval')
      <4>1. ~behind'["sites"] => ~behind["sites"]
        BY <1>b2, <2>3
      <4> QED BY <2>1, <3>0, <4>1 DEF SavesInOrder
    <3> QED BY <3>2, <3>4, <3>5, <3>6 DEF SavesInOrder
  <2> QED BY <2>4, <2>5, <2>6
<1>7. ASSUME NEW l \in Loads, ServeSettings(l) \/ MissSettings(l) PROVE Goal
  <2> DEFINE r == IF ServeSettings(l) THEN [seen |-> TRUE, values |-> settings] ELSE Unloaded
  <2>1. /\ fetched' = [fetched EXCEPT ![l] = r]
        /\ UNCHANGED <<settings, copies, interval, saving, choices, behind, reverted, tangled>>
    BY <1>7 DEF ServeSettings, MissSettings
  <2>2. r \in Fetches /\ Chosen(r.values)
    BY <1>a, <1>b2, <1>d DEF Fetches, ValuesChosen
  <2> HIDE DEF r
  <2>3. /\ fetched' \in [Loads -> Fetches] /\ fetched'[l] = r
        /\ \A k \in Loads : k # l => fetched'[k] = fetched[k]
    BY <1>a, <1>b2, <2>1, <2>2
  <2>4. SettingsTypeOK'
    BY <1>a, <1>b2, <1>d, <1>e, <2>1, <2>3 DEF ValuesChosen
  <2>5. ValuesChosen'
    <3>1. \A k \in Loads : (Chosen(fetched[k].values))'
      BY <1>d, <2>1, <2>2, <2>3 DEF ValuesChosen, Chosen
    <3>2. /\ (Chosen(settings))' /\ interval' <= choices'
          /\ \A q \in SettingPages : (Chosen(copies[q]))'
          /\ \A c \in Buttons : (Chosen(saving[c].sent))'
      BY <1>d, <2>1 DEF ValuesChosen, Chosen
    <3> QED BY <3>1, <3>2 DEF ValuesChosen
  <2>6. ASSUME ~tangled' PROVE SavesInOrder'
    BY <1>d, <2>1, <2>6 DEF SavesInOrder, CallIsNewer, PageIsNewer, NotOlder, NoneStored, Busy
  <2> QED BY <2>4, <2>5, <2>6
<1>8. ASSUME NEW l \in Loads, ReceiveSettings(l) PROVE Goal
  <2> DEFINE p == l[1]
             v == fetched[l].values
             early == \E b \in Buttons : PageOf(b) = p /\ saving[b].step = "sent"
  <2>0. v \in Values /\ v["schedule"] \in Nat /\ v["schedule"] <= MaxEdits /\ p \in SettingPages
    BY <1>b, <1>b2, <1>c
  <2>1. /\ fetched' = [fetched EXCEPT ![l] = Unloaded] /\ copies' = [copies EXCEPT ![p] = v]
        /\ interval' = (IF p = "sites" THEN v["schedule"] ELSE interval)
        /\ behind' = [behind EXCEPT ![p] = (v # settings \/ early)]
        /\ UNCHANGED <<settings, saving, choices, reverted, tangled>>
    BY <1>8 DEF ReceiveSettings
  <2>a. Chosen(v)
    BY <1>d DEF ValuesChosen
  <2> HIDE DEF v, p, early
  <2>b. PICK late \in BOOLEAN : late = (v # settings \/ early)
    OBVIOUS
  <2>2. /\ fetched' \in [Loads -> Fetches] /\ fetched'[l] = Unloaded
        /\ copies' \in [SettingPages -> Values] /\ copies'[p] = v
        /\ behind' \in [SettingPages -> BOOLEAN] /\ behind'[p] = late
        /\ \A q \in SettingPages : q # p => copies'[q] = copies[q] /\ behind'[q] = behind[q]
        /\ \A k \in Loads : k # l => fetched'[k] = fetched[k]
    BY <1>a, <1>b2, <2>0, <2>1, <2>b
  <2>3. interval' \in 0 .. MaxEdits /\ interval' <= choices
    BY <1>a, <1>b2, <1>d, <2>0, <2>1, <2>a DEF ValuesChosen, Chosen
  <2>4. SettingsTypeOK'
    BY <1>a, <1>e, <2>1, <2>2, <2>3
  <2>5. ValuesChosen'
    <3>1. \A q \in SettingPages : (Chosen(copies[q]))'
      BY <1>d, <2>1, <2>2, <2>a DEF ValuesChosen, Chosen
    <3>2. \A k \in Loads : (Chosen(fetched[k].values))'
      BY <1>b2, <1>d, <2>1, <2>2 DEF ValuesChosen, Chosen
    <3>3. /\ (Chosen(settings))' /\ interval' <= choices'
          /\ \A c \in Buttons : (Chosen(saving[c].sent))'
      BY <1>d, <2>1, <2>3 DEF ValuesChosen, Chosen
    <3> QED BY <3>1, <3>2, <3>3 DEF ValuesChosen
  <2>6. ASSUME ~tangled' PROVE SavesInOrder'
    <3>0. SavesInOrder
      BY <1>d, <2>1, <2>6
    <3>1. ~behind'[p] => v = settings /\ \A c \in Buttons : PageOf(c) = p => saving[c].step # "sent"
      BY <2>2, <2>b DEF early
    <3>2. \A q \in SettingPages : q # p => (q = "sites" => interval' = interval)
      BY <2>1
    <3>3. ASSUME NEW c \in Buttons PROVE (CallIsNewer(c))'
      <4>1. CallIsNewer(c) /\ (Busy(c))' = Busy(c)
        BY <2>1, <3>0 DEF SavesInOrder, Busy
      <4>2. ASSUME Busy(c), PageOf(c) = "sites", ~behind'["sites"]
            PROVE  saving[c].sent["schedule"] <= interval'
        <5>1. CASE p = "sites"
          <6>1. saving[c].step = "stored" /\ v = settings
            BY <1>b, <1>c, <3>1, <4>2, <5>1 DEF Busy
          <6>2. saving[c].sent = v
            BY <4>1, <6>1 DEF CallIsNewer
          <6>3. interval' = v["schedule"]
            BY <2>1, <5>1
          <6> QED BY <2>0, <6>2, <6>3
        <5>2. CASE p # "sites"
          BY <1>b2, <2>1, <2>2, <4>1, <4>2, <5>2 DEF CallIsNewer
        <5> QED BY <5>1, <5>2
      <4> QED BY <2>1, <4>1, <4>2 DEF CallIsNewer, NotOlder
    <3>4. ASSUME NEW q \in SettingPages PROVE (PageIsNewer(q))'
      <4>1. PageIsNewer(q)
        BY <3>0 DEF SavesInOrder
      <4>2. CASE q = p /\ ~behind'[q]
        <5>1. v = settings
          BY <3>1, <4>2
        <5>2. NotOlder(v, settings) /\ (p = "sites" => settings["schedule"] <= interval')
          BY <1>a, <1>b2, <1>c, <2>0, <2>1, <5>1 DEF NotOlder
        <5> QED BY <2>1, <2>2, <4>2, <5>2 DEF PageIsNewer, NotOlder
      <4>3. CASE q = p /\ behind'[q]
        BY <4>3 DEF PageIsNewer
      <4>4. CASE q # p
        BY <2>1, <2>2, <3>2, <4>1, <4>4 DEF PageIsNewer, NotOlder, NoneStored
      <4> QED BY <4>2, <4>3, <4>4
    <3>5. ~behind'["sites"] => copies'["sites"]["schedule"] <= interval'
      <4>1. CASE p = "sites"
        BY <2>0, <2>1, <2>2, <4>1
      <4>2. CASE p # "sites"
        BY <1>b2, <2>1, <2>2, <3>0, <4>2 DEF SavesInOrder
      <4> QED BY <4>1, <4>2
    <3>6. /\ ~reverted'
          /\ \A c, d \in Buttons : c # d /\ (Busy(c))' => ~(Busy(d))'
      BY <2>1, <3>0 DEF SavesInOrder, Busy
    <3> QED BY <3>3, <3>4, <3>5, <3>6 DEF SavesInOrder
  <2> QED BY <2>4, <2>5, <2>6
<1>9. CASE UNCHANGED settingVars
  <2>1. SettingsTypeOK'
    BY <1>9 DEF settingVars, SettingsInv, SettingsTypeOK
  <2>2. ValuesChosen'
    BY <1>9, <1>d DEF settingVars, ValuesChosen, Chosen
  <2>3. ASSUME ~tangled' PROVE SavesInOrder'
    BY <1>9, <1>d, <2>3 DEF settingVars, SavesInOrder, CallIsNewer, PageIsNewer, NotOlder, NoneStored, Busy
  <2> QED BY <2>1, <2>2, <2>3
<1> QED BY <1>1, <1>2, <1>3, <1>4, <1>5, <1>6, <1>7, <1>8, <1>9 DEF SettingsNext


-----------------------------------------------------------------------------
(* The profiles. *)

ProfileLoads == [of : Actors, late : BOOLEAN]
ProfileIndexes == [step : {"none", "sent", "seen"}, known : SUBSET Actors]
Synchronizations ==
  [step : {"none", "sent", "served"}, actor : Actors \cup {NoActor}, mine : BOOLEAN]
Oddities == [rechosen : BOOLEAN, crossed : BOOLEAN, failed : BOOLEAN]
NothingOdd == ~odd.rechosen /\ ~odd.crossed /\ ~odd.failed

ProfilesTyped ==
  /\ known \in SUBSET Actors /\ index \in SUBSET Actors
  /\ indexLoad \in [IndexLoads -> ProfileIndexes]
  /\ actor \in Actors \cup {NoActor} /\ profile \in Actors \cup {NoActor}
  /\ fetches \in Seq(ProfileLoads)
  /\ syncing \in [Syncs -> Synchronizations]
  /\ moves \in 0 .. MaxChoices
  /\ odd \in Oddities

LoadsBound == Len(fetches) + (IF profile = NoActor THEN 0 ELSE 1) <= MaxLoads + 1

\* Of the loads that were not overtaken the last one is for the choice; with
\* none of them under way its profile is shown.
ChoiceInv ==
  NothingOdd =>
    /\ Overtaken(fetches)
    /\ index # {} => IF Awaited(fetches) THEN fetches[Len(fetches)].of = actor
                     ELSE profile = actor

ProfilesInv == ProfilesTyped /\ LoadsBound /\ ChoiceInv

LEMMA LateProfileLoads == TellLate(ProfileLoads)
BY DEF TellLate, ProfileLoads

LEMMA ProfilesTypes == ProfilesInv => ProfilesTypeOK
<1> SUFFICES ASSUME ProfilesInv PROVE ProfilesTypeOK
  OBVIOUS
<1> USE DEF ProfilesInv, ProfilesTyped
<1>1. Len(fetches) <= MaxLoads + 2
  <2>1. Len(fetches) \in Nat
    OBVIOUS
  <2> QED BY <2>1, ActorsAssumption DEF LoadsBound
<1>2. \A i \in DOMAIN fetches : fetches[i].of \in Actors
  <2>1. \A i \in DOMAIN fetches : fetches[i] \in ProfileLoads
    OBVIOUS
  <2>2. \A r \in ProfileLoads : r.of \in Actors
    BY DEF ProfileLoads
  <2> QED BY <2>1, <2>2
<1> QED BY <1>1, <1>2 DEF ProfilesTypeOK, Oddities, ProfileIndexes, Synchronizations

LEMMA ProfilesInitially == ProfilesInit => ProfilesInv
<1> SUFFICES ASSUME ProfilesInit PROVE ProfilesInv
  OBVIOUS
<1>1. /\ known = {CHOOSE a \in Actors : TRUE} /\ index = {}
      /\ indexLoad = [l \in IndexLoads |-> IF l = 0 THEN [NoIndex EXCEPT !.step = "sent"] ELSE NoIndex]
      /\ actor = NoActor /\ profile = NoActor
      /\ fetches = <<>> /\ syncing = [k \in Syncs |-> Nobody] /\ moves = 0
      /\ odd = [rechosen |-> FALSE, crossed |-> FALSE, failed |-> FALSE]
  BY DEF ProfilesInit
<1>2. ProfilesTyped
  <2>1. known \in SUBSET Actors
    BY <1>1, ActorsAssumption
  <2>2. indexLoad \in [IndexLoads -> ProfileIndexes]
    <3>1. NoIndex \in ProfileIndexes /\ [NoIndex EXCEPT !.step = "sent"] \in ProfileIndexes
      BY DEF NoIndex, ProfileIndexes
    <3> QED BY <1>1, <3>1
  <2>3. syncing \in [Syncs -> Synchronizations]
    <3>1. Nobody \in Synchronizations
      BY DEF Nobody, Synchronizations
    <3> QED BY <1>1, <3>1
  <2>4. odd \in Oddities
    BY <1>1 DEF Oddities
  <2>5. fetches \in Seq(ProfileLoads)
    BY <1>1
  <2>6. moves \in 0 .. MaxChoices
    BY <1>1, ActorsAssumption
  <2>7. index \in SUBSET Actors /\ actor \in Actors \cup {NoActor} /\ profile \in Actors \cup {NoActor}
    BY <1>1
  <2> QED BY <2>1, <2>2, <2>3, <2>4, <2>5, <2>6, <2>7 DEF ProfilesTyped
<1>3. LoadsBound
  <2>1. Len(fetches) = 0 /\ profile = NoActor
    BY <1>1
  <2> QED BY <2>1, ActorsAssumption DEF LoadsBound
<1>4. ChoiceInv
  BY <1>1 DEF ChoiceInv, Overtaken
<1> QED BY <1>2, <1>3, <1>4 DEF ProfilesInv

\* A load added for actor a.
LEMMA LoadFacts ==
  ASSUME NEW s \in Seq(ProfileLoads), NEW a \in Actors
  PROVE  LET t == Append(s, Load(a)) IN
         /\ t \in Seq(ProfileLoads) /\ Len(t) = Len(s) + 1
         /\ Overtaken(s) => Overtaken(t)
         /\ Awaited(t) /\ t[Len(t)].of = a
<1> DEFINE t == Append(s, Load(a))
<1>1. Load(a) \in ProfileLoads /\ ~Load(a).late /\ Load(a).of = a
  BY DEF Load, ProfileLoads
<1>2. Len(t) = Len(s) + 1
  BY <1>1
<1>3. /\ t \in Seq(ProfileLoads)
      /\ Overtaken(s) => Overtaken(t)
      /\ Awaited(t) /\ t[Len(t)] = Load(a)
  BY <1>1, QuestionFacts
<1> HIDE DEF t
<1>4. t[Len(t)].of = a
  BY <1>1, <1>3
<1> QED BY <1>2, <1>3, <1>4 DEF t

LEMMA ProfilesStep ==
  ASSUME ProfilesInv, [ProfilesNext]_profileVars PROVE ProfilesInv'
<1>0. ProfilesTyped /\ LoadsBound /\ ChoiceInv
  BY DEF ProfilesInv
<1> USE DEF ProfilesTyped
<1>a. /\ Len(fetches) \in Nat /\ MaxLoads \in Nat /\ MaxChoices \in Nat
      /\ NoActor \notin Actors /\ Actors # {}
  BY <1>0, ActorsAssumption
<1>b. /\ \A o \in Oddities, b \in BOOLEAN :
           /\ [o EXCEPT !.rechosen = b] \in Oddities /\ [o EXCEPT !.rechosen = b].rechosen = b
           /\ [o EXCEPT !.crossed = b] \in Oddities /\ [o EXCEPT !.crossed = b].crossed = b
           /\ [o EXCEPT !.crossed = b].rechosen = o.rechosen /\ [o EXCEPT !.crossed = b].failed = o.failed
           /\ [o EXCEPT !.failed = b] \in Oddities /\ [o EXCEPT !.failed = b].failed = b
      /\ \A o \in Oddities : o.rechosen \in BOOLEAN /\ o.crossed \in BOOLEAN /\ o.failed \in BOOLEAN
  BY DEF Oddities
<1>c. /\ \A l \in IndexLoads :
           /\ indexLoad[l] \in ProfileIndexes /\ indexLoad[l].known \in SUBSET Actors
           /\ [indexLoad EXCEPT ![l] = NoIndex] \in [IndexLoads -> ProfileIndexes]
           /\ [indexLoad EXCEPT ![l].step = "sent"] \in [IndexLoads -> ProfileIndexes]
      /\ \A k \in Syncs :
           /\ k \in IndexLoads /\ syncing[k].actor \in Actors \cup {NoActor}
           /\ [syncing EXCEPT ![k] = Nobody] \in [Syncs -> Synchronizations]
      /\ 0 \in IndexLoads
  <2>1. NoIndex \in ProfileIndexes /\ Nobody \in Synchronizations
    BY DEF NoIndex, Nobody, ProfileIndexes, Synchronizations
  <2>2. /\ \A r \in ProfileIndexes : r.known \in SUBSET Actors /\ [r EXCEPT !.step = "sent"] \in ProfileIndexes
        /\ \A r \in Synchronizations : r.actor \in Actors \cup {NoActor}
    BY DEF ProfileIndexes, Synchronizations
  <2>3. Syncs \subseteq IndexLoads /\ 0 \in IndexLoads
    BY DEF IndexLoads
  <2> QED BY <1>0, <2>1, <2>2, <2>3
<1>f. Emptied => profile' = NoActor /\ syncing' \in [Syncs -> Synchronizations]
  <2>1. \A r \in Synchronizations : [r EXCEPT !.mine = FALSE] \in Synchronizations
    BY DEF Synchronizations
  <2> QED BY <1>0, <2>1 DEF Emptied
<1>d. NothingOdd => Overtaken(fetches)
  BY <1>0 DEF ChoiceInv
<1>e. NothingOdd /\ index # {} => IF Awaited(fetches) THEN fetches[Len(fetches)].of = actor
                                  ELSE profile = actor
  BY <1>0 DEF ChoiceInv
<1>1. CASE AskIndex
  <2>1. /\ UNCHANGED <<known, index, actor, profile, syncing, moves, odd>> /\ odd.failed
        /\ profile = NoActor /\ Len(fetches) < MaxLoads
        /\ indexLoad' = [indexLoad EXCEPT ![0].step = "sent"]
        /\ fetches' = IF actor = NoActor THEN fetches ELSE Append(fetches, Load(actor))
    BY <1>1 DEF AskIndex
  <2>2. fetches' \in Seq(ProfileLoads) /\ Len(fetches') <= Len(fetches) + 1 /\ Len(fetches') \in Nat
    BY <1>0, <1>a, <2>1, LoadFacts
  <2>3. LoadsBound'
    BY <1>a, <2>1, <2>2 DEF LoadsBound
  <2>4. ChoiceInv'
    BY <2>1 DEF ChoiceInv, NothingOdd
  <2> QED BY <1>0, <1>c, <2>1, <2>2, <2>3, <2>4 DEF ProfilesInv
<1>2. ASSUME NEW l \in IndexLoads, ServeIndex(l) PROVE ProfilesInv'
  <2>1. /\ UNCHANGED <<known, index, actor, profile, fetches, syncing, moves, odd>>
        /\ indexLoad' = [indexLoad EXCEPT ![l] = [step |-> "seen", known |-> known]]
    BY <1>2 DEF ServeIndex
  <2>2. indexLoad' \in [IndexLoads -> ProfileIndexes]
    BY <1>0, <2>1 DEF ProfileIndexes
  <2> QED BY <1>0, <2>1, <2>2 DEF ProfilesInv, LoadsBound, ChoiceInv, NothingOdd, Overtaken, Awaited
<1>3. ASSUME NEW l \in IndexLoads, ReceiveIndex(l) PROVE ProfilesInv'
  <2> DEFINE names == indexLoad[l].known
  <2>1. /\ Len(fetches) < MaxLoads /\ indexLoad' = [indexLoad EXCEPT ![l] = NoIndex] /\ index' = names
        /\ actor' = (IF actor \in names THEN actor
                     ELSE IF names = {} THEN NoActor ELSE CHOOSE a \in names : TRUE)
        /\ UNCHANGED <<known, moves, odd>>
    BY <1>3 DEF ReceiveIndex
  <2>2. names \in SUBSET Actors
    BY <1>c
  <2> HIDE DEF names
  <2>3. CASE names = {}
    <3>1. actor' = NoActor /\ actor' \notin names
      BY <2>1, <2>3
    <3>2. UNCHANGED <<profile, fetches, syncing>>
      BY <1>3, <3>1 DEF ReceiveIndex, ShowProfileOf, names
    <3>3. LoadsBound'
      BY <1>0, <3>2 DEF LoadsBound
    <3>4. ChoiceInv'
      BY <1>d, <2>1, <2>3, <3>2 DEF ChoiceInv, NothingOdd, Overtaken
    <3> QED BY <1>0, <1>c, <2>1, <2>2, <2>3, <3>1, <3>2, <3>3, <3>4 DEF ProfilesInv
  <2>4. CASE names # {}
    <3>1. actor' \in names
      BY <2>1, <2>4
    <3>2. Emptied /\ fetches' = Append(fetches, Load(actor'))
      BY <1>3, <3>1 DEF ReceiveIndex, ShowProfileOf, names
    <3>7. profile' = NoActor /\ syncing' \in [Syncs -> Synchronizations]
      BY <1>f, <3>2
    <3>3. actor' \in Actors
      BY <2>2, <3>1
    <3>4. /\ fetches' \in Seq(ProfileLoads) /\ Len(fetches') = Len(fetches) + 1
          /\ Overtaken(fetches) => Overtaken(fetches')
          /\ Awaited(fetches') /\ fetches'[Len(fetches')].of = actor'
      BY <1>0, <3>2, <3>3, LoadFacts
    <3>5. LoadsBound'
      BY <1>a, <2>1, <3>4, <3>7 DEF LoadsBound
    <3>6. ChoiceInv'
      BY <1>d, <2>1, <3>4 DEF ChoiceInv, NothingOdd
    <3> QED BY <1>0, <1>c, <2>1, <2>2, <3>3, <3>4, <3>5, <3>6, <3>7 DEF ProfilesInv
  <2> QED BY <2>3, <2>4
<1>4. ASSUME NEW l \in IndexLoads, LoseIndex(l) PROVE ProfilesInv'
  <2>1. /\ UNCHANGED <<known, index, actor, profile, fetches, syncing, moves>>
        /\ indexLoad' = [indexLoad EXCEPT ![l] = NoIndex] /\ odd' = [odd EXCEPT !.failed = TRUE]
    BY <1>4 DEF LoseIndex
  <2>2. odd' \in Oddities /\ odd'.failed
    BY <1>0, <1>b, <2>1
  <2> QED BY <1>0, <1>c, <2>1, <2>2 DEF ProfilesInv, LoadsBound, ChoiceInv, NothingOdd
<1>5. ASSUME NEW i \in 1 .. MaxLoads + 2, ReceiveProfile(i) PROVE ProfilesInv'
  <2>1. /\ i \in DOMAIN fetches /\ profile' = fetches[i].of /\ fetches' = Settled(fetches, i)
        /\ odd' = [odd EXCEPT !.crossed = odd.crossed \/ fetches[i].late]
        /\ UNCHANGED <<known, index, indexLoad, actor, syncing, moves>>
    BY <1>5 DEF ReceiveProfile, Remaining, Settled
  <2>2. fetches[i].of \in Actors /\ fetches[i].late \in BOOLEAN
    <3>1. fetches[i] \in ProfileLoads
      BY <1>0, <2>1
    <3> QED BY <3>1 DEF ProfileLoads
  <2>3. fetches' \in Seq(ProfileLoads) /\ Len(fetches') = Len(fetches) - 1
    BY <1>0, <2>1, LateProfileLoads, SettleFacts
  <2>4. /\ odd' \in Oddities /\ odd'.crossed = (odd.crossed \/ fetches[i].late)
        /\ odd'.rechosen = odd.rechosen /\ odd'.failed = odd.failed
    <3>1. PICK c \in BOOLEAN : c = (odd.crossed \/ fetches[i].late)
      OBVIOUS
    <3>2. odd' = [odd EXCEPT !.crossed = c]
      BY <2>1, <3>1
    <3>3. odd' \in Oddities /\ odd'.crossed = c /\ odd'.rechosen = odd.rechosen /\ odd'.failed = odd.failed
      <4>1. odd \in Oddities
        BY <1>0
      <4> QED BY <3>2, <4>1 DEF Oddities
    <3> QED BY <3>1, <3>3
  <2>5. LoadsBound'
    BY <1>0, <1>a, <2>1, <2>2, <2>3 DEF LoadsBound
  <2>6. ChoiceInv'
    <3> SUFFICES ASSUME NothingOdd'
                 PROVE  /\ Overtaken(fetches')
                        /\ index' # {} => IF Awaited(fetches') THEN fetches'[Len(fetches')].of = actor'
                                          ELSE profile' = actor'
      BY DEF ChoiceInv
    <3>1. NothingOdd /\ ~fetches[i].late
      BY <2>4 DEF NothingOdd
    <3>2. /\ Overtaken(fetches') /\ Awaited(fetches)
          /\ IF i = Len(fetches) THEN ~Awaited(fetches')
             ELSE Awaited(fetches') /\ fetches'[Len(fetches')] = fetches[Len(fetches)]
      BY <1>0, <1>d, <2>1, <3>1, LateProfileLoads, AnswerFacts
    <3> QED BY <1>e, <2>1, <3>1, <3>2
  <2> QED BY <1>0, <2>1, <2>2, <2>3, <2>4, <2>5, <2>6 DEF ProfilesInv
<1>6. ASSUME NEW i \in 1 .. MaxLoads + 2, LoseProfile(i) PROVE ProfilesInv'
  <2>1. /\ i \in DOMAIN fetches /\ Emptied /\ fetches' = Settled(fetches, i)
        /\ odd' = [odd EXCEPT !.failed = TRUE]
        /\ UNCHANGED <<known, index, indexLoad, actor, moves>>
    BY <1>6 DEF LoseProfile, Remaining, Settled
  <2>5. profile' = NoActor /\ syncing' \in [Syncs -> Synchronizations]
    BY <1>f, <2>1
  <2>2. fetches' \in Seq(ProfileLoads) /\ Len(fetches') = Len(fetches) - 1
    BY <1>0, <2>1, LateProfileLoads, SettleFacts
  <2>3. odd' \in Oddities /\ odd'.failed
    BY <1>0, <1>b, <2>1
  <2>4. LoadsBound'
    BY <1>0, <1>a, <2>2, <2>5 DEF LoadsBound
  <2> QED BY <1>0, <2>1, <2>2, <2>3, <2>4, <2>5 DEF ProfilesInv, ChoiceInv, NothingOdd
<1>7. ASSUME NEW a \in Actors, SelectActor(a) PROVE ProfilesInv'
  <2>1. /\ profile # NoActor /\ moves < MaxChoices /\ moves' = moves + 1
        /\ profile' = NoActor /\ actor' = a /\ syncing' \in [Syncs -> Synchronizations]
        /\ UNCHANGED <<known, index, indexLoad>>
    BY <1>7, <1>f DEF SelectActor, Move
  <2>2. moves' \in 0 .. MaxChoices
    BY <1>0, <1>a, <2>1
  <2>3. CASE a = actor
    <3>1. odd' = [odd EXCEPT !.rechosen = TRUE] /\ UNCHANGED fetches
      BY <1>7, <2>3 DEF SelectActor
    <3>2. odd' \in Oddities /\ odd'.rechosen
      BY <1>0, <1>b, <3>1
    <3>3. LoadsBound'
      BY <1>0, <1>a, <2>1, <3>1 DEF LoadsBound
    <3> QED BY <1>0, <2>1, <2>2, <3>1, <3>2, <3>3 DEF ProfilesInv, ChoiceInv, NothingOdd
  <2>4. CASE a # actor
    <3>1. fetches' = Append(fetches, Load(a)) /\ UNCHANGED odd
      BY <1>7, <2>4 DEF SelectActor
    <3>2. /\ fetches' \in Seq(ProfileLoads) /\ Len(fetches') = Len(fetches) + 1
          /\ Overtaken(fetches) => Overtaken(fetches')
          /\ Awaited(fetches') /\ fetches'[Len(fetches')].of = a
      BY <1>0, <3>1, LoadFacts
    <3>3. LoadsBound'
      BY <1>0, <1>a, <2>1, <3>2 DEF LoadsBound
    <3>4. ChoiceInv'
      BY <1>d, <2>1, <3>1, <3>2 DEF ChoiceInv, NothingOdd
    <3> QED BY <1>0, <2>1, <2>2, <3>1, <3>2, <3>3, <3>4 DEF ProfilesInv
  <2> QED BY <2>3, <2>4
<1>8. ASSUME NEW k \in Syncs, StartSync(k) PROVE ProfilesInv'
  <2>1. /\ moves < MaxChoices /\ moves' = moves + 1
        /\ syncing' = [syncing EXCEPT ![k] = [step |-> "sent", actor |-> actor, mine |-> TRUE]]
        /\ UNCHANGED <<known, index, indexLoad, actor, profile, fetches, odd>>
    BY <1>8 DEF StartSync, Move
  <2>2. moves' \in 0 .. MaxChoices
    BY <1>0, <1>a, <2>1
  <2>3. syncing' \in [Syncs -> Synchronizations]
    BY <1>0, <2>1 DEF Synchronizations
  <2> QED BY <1>0, <2>1, <2>2, <2>3 DEF ProfilesInv, LoadsBound, ChoiceInv, NothingOdd, Overtaken, Awaited
<1>9. ASSUME NEW k \in Syncs, ServeSync(k) PROVE ProfilesInv'
  <2>1. /\ known' \in SUBSET Actors /\ syncing' = [syncing EXCEPT ![k].step = "served"]
        /\ UNCHANGED <<index, indexLoad, actor, profile, fetches, moves, odd>>
    BY <1>0, <1>9 DEF ServeSync
  <2>2. syncing' \in [Syncs -> Synchronizations]
    BY <1>0, <2>1 DEF Synchronizations
  <2> QED BY <1>0, <2>1, <2>2 DEF ProfilesInv, LoadsBound, ChoiceInv, NothingOdd, Overtaken, Awaited
<1>10. ASSUME NEW k \in Syncs, ReceiveSync(k) PROVE ProfilesInv'
  <2> DEFINE b == syncing[k].actor
             other == b # actor
  <2>1. /\ Len(fetches) < MaxLoads /\ syncing' = [syncing EXCEPT ![k] = Nobody]
        /\ indexLoad' = [indexLoad EXCEPT ![k].step = "sent"]
        /\ fetches' = IF b = NoActor THEN fetches ELSE Append(fetches, Load(b))
        /\ odd' = [odd EXCEPT !.crossed = odd.crossed \/ other]
        /\ UNCHANGED <<known, index, actor, profile, moves>>
    BY <1>10 DEF ReceiveSync
  <2>2. b \in Actors \cup {NoActor}
    BY <1>c
  <2> HIDE DEF b
  <2>3. /\ odd' \in Oddities /\ odd'.crossed = (odd.crossed \/ other)
        /\ odd'.rechosen = odd.rechosen /\ odd'.failed = odd.failed
    <3>1. PICK c \in BOOLEAN : c = (odd.crossed \/ other)
      OBVIOUS
    <3>2. odd' = [odd EXCEPT !.crossed = c]
      BY <2>1, <3>1
    <3>3. odd' \in Oddities /\ odd'.crossed = c /\ odd'.rechosen = odd.rechosen /\ odd'.failed = odd.failed
      <4>1. odd \in Oddities
        BY <1>0
      <4> QED BY <3>2, <4>1 DEF Oddities
    <3> QED BY <3>1, <3>3
  <2>4. NothingOdd' => NothingOdd /\ b = actor
    BY <2>3 DEF NothingOdd
  <2>5. CASE b = NoActor
    <3>1. UNCHANGED fetches
      BY <2>1, <2>5
    <3>2. LoadsBound'
      BY <1>0, <2>1, <3>1 DEF LoadsBound
    <3>3. ChoiceInv'
      BY <1>d, <1>e, <2>1, <2>4, <3>1 DEF ChoiceInv, Overtaken, Awaited
    <3> QED BY <1>0, <1>c, <2>1, <2>3, <3>1, <3>2, <3>3 DEF ProfilesInv
  <2>6. CASE b \in Actors
    <3>1. fetches' = Append(fetches, Load(b))
      BY <1>a, <2>1, <2>6
    <3>2. /\ fetches' \in Seq(ProfileLoads) /\ Len(fetches') = Len(fetches) + 1
          /\ Overtaken(fetches) => Overtaken(fetches')
          /\ Awaited(fetches') /\ fetches'[Len(fetches')].of = b
      BY <1>0, <2>6, <3>1, LoadFacts
    <3>3. LoadsBound'
      <4>1. (IF profile' = NoActor THEN 0 ELSE 1) \in 0 .. 1
        OBVIOUS
      <4>2. Len(fetches') <= MaxLoads /\ Len(fetches') \in Nat
        BY <1>a, <2>1, <3>2
      <4> QED BY <1>a, <4>1, <4>2 DEF LoadsBound
    <3>4. ChoiceInv'
      BY <1>d, <2>1, <2>4, <3>2 DEF ChoiceInv
    <3> QED BY <1>0, <1>c, <2>1, <2>3, <3>2, <3>3, <3>4 DEF ProfilesInv
  <2> QED BY <2>2, <2>5, <2>6
<1>11. ASSUME NEW k \in Syncs, LoseSync(k) PROVE ProfilesInv'
  <2>1. /\ syncing' = [syncing EXCEPT ![k] = Nobody]
        /\ UNCHANGED <<known, index, indexLoad, actor, profile, fetches, moves, odd>>
    BY <1>11 DEF LoseSync
  <2> QED BY <1>0, <1>c, <2>1 DEF ProfilesInv, LoadsBound, ChoiceInv, NothingOdd, Overtaken, Awaited
<1>12. CASE UNCHANGED profileVars
  BY <1>0, <1>12 DEF profileVars, ProfilesInv, LoadsBound, ChoiceInv, NothingOdd, Overtaken, Awaited
<1> QED BY <1>1, <1>2, <1>3, <1>4, <1>5, <1>6, <1>7, <1>8, <1>9, <1>10, <1>11, <1>12
        DEF ProfilesNext


-----------------------------------------------------------------------------
(* The claims: questions. *)

ClaimQuestions == [filter : ArchiveFilters, page : Nat \ {0}, late : BOOLEAN]
AnsweredQuestions == [filter : ArchiveFilters, page : Nat \ {0}]
Mishaps == [crossed : BOOLEAN, hasty : BOOLEAN, broken : BOOLEAN]

AskTyped ==
  /\ asked \in [filter : ArchiveFilters, page : Nat \ {0}, armed : BOOLEAN]
  /\ loading \in BOOLEAN
  /\ shown = Unasked \/ shown \in AnsweredQuestions
  /\ questions \in Seq(ClaimQuestions) /\ Len(questions) <= MaxAsks
  /\ turns \in 0 .. MaxTurns
  /\ mishaps \in Mishaps

\* Of the questions that were not overtaken the last one is what the controls
\* ask for; with none of them under way its answer is shown.
AskedInv ==
  ~mishaps.crossed =>
    /\ Overtaken(questions)
    /\ ~asked.armed =>
         IF Awaited(questions)
           THEN /\ questions[Len(questions)].filter = asked.filter
                /\ questions[Len(questions)].page = asked.page
           ELSE shown.filter = asked.filter /\ shown.page = asked.page

AskInv == AskTyped /\ TurnedPageExists /\ AskedInv

LEMMA LateQuestions == TellLate(ClaimQuestions)
BY DEF TellLate, ClaimQuestions

LEMMA ArchiveFacts ==
  /\ \A f \in ArchiveFilters : PagesOf(f) \in Nat \ {0}
  /\ Everything \in ArchiveFilters
<1>1. ASSUME NEW f \in ArchiveFilters PROVE PagesOf(f) \in Nat \ {0}
  <2>1. Archive[f] \in Seq(SUBSET Claims) /\ Archive[f] # <<>>
    BY ArchiveAssumption DEF ArchiveFilters
  <2>2. Len(Archive[f]) \in Nat /\ Len(Archive[f]) # 0
    BY <2>1
  <2> QED BY <2>2 DEF PagesOf
<1>2. Everything \in ArchiveFilters
  <2>1. \E f \in ArchiveFilters : \A g \in ArchiveFilters : PagesOf(f) >= PagesOf(g)
    BY ArchiveAssumption DEF ArchiveFilters, PagesOf
  <2> QED BY <2>1 DEF Everything
<1> QED BY <1>1, <1>2

LEMMA AskInitially == ResearchInit => AskInv
<1> SUFFICES ASSUME ResearchInit PROVE AskInv
  OBVIOUS
<1>1. /\ asked = [filter |-> Everything, page |-> 1, armed |-> TRUE] /\ loading = TRUE
      /\ shown = Unasked /\ questions = <<>> /\ turns = 0
      /\ mishaps = [crossed |-> FALSE, hasty |-> FALSE, broken |-> FALSE]
  BY DEF ResearchInit
<1>2. AskTyped
  <2>1. asked \in [filter : ArchiveFilters, page : Nat \ {0}, armed : BOOLEAN]
    BY <1>1, ArchiveFacts
  <2>2. questions \in Seq(ClaimQuestions) /\ Len(questions) = 0
    BY <1>1
  <2>3. mishaps \in Mishaps
    BY <1>1 DEF Mishaps
  <2>4. 0 <= MaxAsks /\ turns \in 0 .. MaxTurns
    BY <1>1, ArchiveAssumption
  <2> QED BY <1>1, <2>1, <2>2, <2>3, <2>4 DEF AskTyped
<1>3. TurnedPageExists
  <2>1. PagesOf(Everything) \in Nat \ {0}
    BY ArchiveFacts
  <2>2. asked.page <= PagesOf(asked.filter)
    BY <1>1, <2>1
  <2> QED BY <2>2 DEF TurnedPageExists
<1>4. AskedInv
  BY <1>1 DEF AskedInv, Overtaken
<1> QED BY <1>2, <1>3, <1>4 DEF AskInv

\* A turn to a page leaves the timer armed.
LEMMA TurnFacts ==
  ASSUME AskInv, NEW f \in ArchiveFilters, NEW n \in Nat \ {0}, Turn(f, n),
         UNCHANGED <<loading, shown, questions>>, mishaps' \in Mishaps,
         mishaps'.crossed = mishaps.crossed,
         ~mishaps'.hasty => n <= PagesOf(f)
  PROVE  AskInv'
<1>1. /\ turns < MaxTurns /\ turns' = turns + 1
      /\ asked' = [filter |-> f, page |-> n, armed |-> TRUE]
  BY DEF Turn
<1>2. AskTyped'
  <2>1. turns' \in 0 .. MaxTurns
    BY <1>1, ArchiveAssumption DEF AskInv, AskTyped
  <2>2. asked' \in [filter : ArchiveFilters, page : Nat \ {0}, armed : BOOLEAN]
    BY <1>1
  <2> QED BY <2>1, <2>2 DEF AskInv, AskTyped, ClaimQuestions, AnsweredQuestions, Mishaps, Unasked,
                            ArchiveFilters
<1>3. TurnedPageExists'
  BY <1>1 DEF TurnedPageExists, PagesOf
<1>4. AskedInv'
  BY <1>1 DEF AskInv, AskedInv, Overtaken
<1> QED BY <1>2, <1>3, <1>4 DEF AskInv

LEMMA AskStep ==
  ASSUME AskInv, [ResearchNext]_researchVars PROVE AskInv'
<1>0. AskTyped /\ TurnedPageExists /\ AskedInv
  BY DEF AskInv
<1>a. /\ asked.filter \in ArchiveFilters /\ asked.page \in Nat \ {0} /\ asked.armed \in BOOLEAN
      /\ \A f \in ArchiveFilters : PagesOf(f) \in Nat \ {0}
      /\ mishaps \in Mishaps /\ questions \in Seq(ClaimQuestions) /\ Len(questions) \in Nat
  BY <1>0, ArchiveFacts DEF AskTyped
<1>b. mishaps.crossed \in BOOLEAN /\ mishaps.hasty \in BOOLEAN
  BY <1>a DEF Mishaps
<1>c. ASSUME UNCHANGED askVars, mishaps' \in Mishaps, mishaps'.crossed = mishaps.crossed,
             mishaps'.hasty = mishaps.hasty
      PROVE  AskInv'
  <2>1. UNCHANGED <<asked, loading, shown, questions, turns>>
    BY <1>c DEF askVars
  <2>2. AskTyped'
    BY <1>0, <1>c, <2>1 DEF AskTyped, ClaimQuestions, AnsweredQuestions, Mishaps, Unasked, ArchiveFilters
  <2>3. TurnedPageExists' /\ AskedInv'
    BY <1>0, <1>c, <2>1 DEF TurnedPageExists, AskedInv, Overtaken, Awaited, PagesOf
  <2> QED BY <2>2, <2>3 DEF AskInv
<1>1. CASE ChangeFilter
  <2>1. PICK f \in ArchiveFilters : Turn(f, 1)
    BY <1>1 DEF ChangeFilter, FirstPage
  <2>2. UNCHANGED <<loading, shown, questions, mishaps>> /\ 1 \in Nat \ {0} /\ 1 <= PagesOf(f)
    BY <1>1, <1>a DEF ChangeFilter
  <2> QED BY <1>a, <2>1, <2>2, TurnFacts
<1>2. CASE TurnPage
  <2>1. UNCHANGED <<loading, shown, questions>>
    BY <1>2 DEF TurnPage
  <2>2. CASE asked.page > 1 /\ Turn(asked.filter, asked.page - 1) /\ UNCHANGED mishaps
    <3>1. asked.page - 1 \in Nat \ {0}
      BY <1>a, <2>2
    <3>2. ~mishaps'.hasty => asked.page - 1 <= PagesOf(asked.filter)
      BY <1>0, <1>a, <2>2 DEF TurnedPageExists
    <3> QED BY <1>a, <2>1, <2>2, <3>1, <3>2, TurnFacts
  <2>3. CASE /\ asked.page < IF shown = Unasked THEN 1 ELSE PagesOf(shown.filter)
             /\ Turn(asked.filter, asked.page + 1)
             /\ mishaps' = [mishaps EXCEPT !.hasty = @ \/ shown.filter # asked.filter]
    <3>1. PICK h \in BOOLEAN : h = (mishaps.hasty \/ shown.filter # asked.filter)
      OBVIOUS
    <3>2. mishaps' = [mishaps EXCEPT !.hasty = h]
      BY <2>3, <3>1
    <3>3. mishaps' \in Mishaps /\ mishaps'.hasty = h /\ mishaps'.crossed = mishaps.crossed
      BY <1>a, <3>2 DEF Mishaps
    <3>4. asked.page < PagesOf(shown.filter)
      <4>1. CASE shown = Unasked
        <5>1. asked.page < 1
          BY <2>3, <4>1
        <5> QED BY <1>a, <5>1
      <4>2. CASE shown # Unasked
        BY <2>3, <4>2
      <4> QED BY <4>1, <4>2
    <3>5. ~mishaps'.hasty => asked.page + 1 <= PagesOf(asked.filter)
      <4> SUFFICES ASSUME ~mishaps'.hasty PROVE asked.page + 1 <= PagesOf(asked.filter)
        OBVIOUS
      <4>1. shown.filter = asked.filter
        BY <3>1, <3>3
      <4>2. PagesOf(asked.filter) \in Nat /\ asked.page < PagesOf(asked.filter)
        BY <1>a, <3>4, <4>1
      <4> QED BY <1>a, <4>2
    <3>6. asked.page + 1 \in Nat \ {0}
      BY <1>a
    <3> QED BY <1>a, <2>1, <2>3, <3>3, <3>5, <3>6, TurnFacts
  <2> QED BY <1>2, <2>2, <2>3 DEF TurnPage
<1>3. CASE Ask
  <2>1. PICK q : q = [filter |-> asked.filter, page |-> asked.page, late |-> FALSE]
    OBVIOUS
  <2>2. /\ asked.armed /\ Len(questions) < MaxAsks /\ asked' = [asked EXCEPT !.armed = FALSE]
        /\ questions' = Append(questions, q) /\ loading' = TRUE
        /\ UNCHANGED <<shown, turns, mishaps>>
    BY <1>3, <2>1 DEF Ask
  <2>3. q \in ClaimQuestions /\ ~q.late /\ q.filter = asked.filter /\ q.page = asked.page
    BY <1>a, <2>1 DEF ClaimQuestions
  <2>4. /\ asked' \in [filter : ArchiveFilters, page : Nat \ {0}, armed : BOOLEAN]
        /\ asked'.filter = asked.filter /\ asked'.page = asked.page
    BY <1>0, <2>2 DEF AskTyped
  <2>5. /\ questions' \in Seq(ClaimQuestions)
        /\ Overtaken(questions) => Overtaken(questions')
        /\ Awaited(questions') /\ questions'[Len(questions')] = q
    BY <1>a, <2>2, <2>3, QuestionFacts
  <2>6. Len(questions') <= MaxAsks
    <3>1. Len(questions') = Len(questions) + 1
      BY <1>a, <2>2, <2>3
    <3> QED BY <1>a, <2>2, <3>1, ArchiveAssumption
  <2>7. AskTyped'
    BY <1>0, <2>2, <2>4, <2>5, <2>6
       DEF AskTyped, ClaimQuestions, AnsweredQuestions, Mishaps, Unasked, ArchiveFilters
  <2>8. TurnedPageExists'
    BY <1>0, <2>2, <2>4 DEF TurnedPageExists, PagesOf
  <2>9. AskedInv'
    <3>1. questions'[Len(questions')].filter = asked'.filter
          /\ questions'[Len(questions')].page = asked'.page
      BY <2>3, <2>4, <2>5
    <3> QED BY <1>0, <2>2, <2>5, <3>1 DEF AskedInv
  <2> QED BY <2>7, <2>8, <2>9 DEF AskInv
<1>4. ASSUME NEW i \in 1 .. MaxAsks, Answer(i) PROVE AskInv'
  <2>0. i \in DOMAIN questions /\ questions[i] \in ClaimQuestions
    BY <1>4, <1>a DEF Answer
  <2>1. PICK c \in BOOLEAN :
          /\ mishaps' = [mishaps EXCEPT !.crossed = c]
          /\ ~c => /\ ~mishaps.crossed /\ ~questions[i].late
                   /\ shown' = [filter |-> questions[i].filter, page |-> questions[i].page]
          /\ shown' = shown
             \/ shown' = [filter |-> questions[i].filter, page |-> questions[i].page]
    <3>1. CASE /\ shown' = [filter |-> questions[i].filter, page |-> questions[i].page]
               /\ mishaps' = [mishaps EXCEPT !.crossed = @ \/ questions[i].late]
      <4>1. (mishaps.crossed \/ questions[i].late) \in BOOLEAN
        OBVIOUS
      <4> QED BY <3>1, <4>1
    <3>2. CASE mishaps' = [mishaps EXCEPT !.crossed = TRUE] /\ UNCHANGED shown
      BY <3>2
    <3> QED BY <1>4, <3>1, <3>2 DEF Answer
  <2>2. questions' = Settled(questions, i) /\ loading' = FALSE /\ UNCHANGED <<asked, turns>>
    BY <1>4 DEF Answer, Settled
  <2>3. mishaps' \in Mishaps /\ mishaps'.crossed = c /\ mishaps'.hasty = mishaps.hasty
    BY <1>a, <2>1 DEF Mishaps
  <2>4. /\ questions[i].filter \in ArchiveFilters /\ questions[i].page \in Nat \ {0}
    BY <2>0 DEF ClaimQuestions
  <2>5. shown' = Unasked \/ shown' \in AnsweredQuestions
    BY <1>0, <2>1, <2>4 DEF AskTyped, AnsweredQuestions
  <2>6. questions' \in Seq(ClaimQuestions) /\ Len(questions') <= MaxAsks
    <3>1. questions' \in Seq(ClaimQuestions) /\ Len(questions') = Len(questions) - 1
      BY <1>a, <2>0, <2>2, LateQuestions, SettleFacts
    <3>2. Len(questions) <= MaxAsks
      BY <1>0 DEF AskTyped
    <3> QED BY <1>a, <3>1, <3>2, ArchiveAssumption
  <2>7. AskTyped'
    BY <1>0, <2>2, <2>3, <2>5, <2>6
       DEF AskTyped, ClaimQuestions, AnsweredQuestions, Mishaps, Unasked, ArchiveFilters
  <2>8. TurnedPageExists'
    BY <1>0, <2>2, <2>3 DEF TurnedPageExists, PagesOf
  <2>9. AskedInv'
    <3> SUFFICES ASSUME ~c
                 PROVE  /\ Overtaken(questions')
                        /\ ~asked'.armed =>
                             IF Awaited(questions')
                               THEN /\ questions'[Len(questions')].filter = asked'.filter
                                    /\ questions'[Len(questions')].page = asked'.page
                               ELSE shown'.filter = asked'.filter /\ shown'.page = asked'.page
      BY <2>3 DEF AskedInv
    <3>1. /\ ~questions[i].late /\ shown'.filter = questions[i].filter
          /\ shown'.page = questions[i].page
      BY <2>1
    <3>2. /\ Overtaken(questions)
          /\ ~asked.armed =>
               IF Awaited(questions)
                 THEN /\ questions[Len(questions)].filter = asked.filter
                      /\ questions[Len(questions)].page = asked.page
                 ELSE shown.filter = asked.filter /\ shown.page = asked.page
      BY <1>0, <2>1 DEF AskedInv
    <3>3. /\ Overtaken(questions') /\ Awaited(questions)
          /\ IF i = Len(questions) THEN ~Awaited(questions')
             ELSE Awaited(questions') /\ questions'[Len(questions')] = questions[Len(questions)]
      BY <1>a, <2>0, <2>2, <3>1, <3>2, LateQuestions, AnswerFacts
    <3> QED BY <2>2, <3>1, <3>2, <3>3
  <2> QED BY <2>7, <2>8, <2>9 DEF AskInv
<1>5. CASE ChooseClaim \/ ChoosePage \/ QueueBulk \/ EnrichClaim \/ ServeBatch \/ ReceiveBatch
           \/ UNCHANGED researchVars
  <2>1. UNCHANGED askVars /\ UNCHANGED mishaps
    BY <1>5 DEF ChooseClaim, ChoosePage, QueueBulk, EnrichClaim, ServeBatch, ReceiveBatch,
                researchVars, askVars
  <2> QED BY <1>a, <1>c, <2>1
<1>6. CASE LoseBatch
  <2>1. UNCHANGED askVars /\ mishaps' = [mishaps EXCEPT !.broken = TRUE]
    BY <1>6 DEF LoseBatch
  <2>2. mishaps' \in Mishaps /\ mishaps'.crossed = mishaps.crossed /\ mishaps'.hasty = mishaps.hasty
    BY <1>a, <2>1 DEF Mishaps
  <2> QED BY <1>c, <2>1, <2>2
<1> QED BY <1>1, <1>2, <1>3, <1>4, <1>5, <1>6 DEF ResearchNext


-----------------------------------------------------------------------------
(* The claims: research. *)

Runs == [step : {"idle", "call", "answer"}, ids : Seq(Claims), queued : Nat, single : BOOLEAN]

RunTyped ==
  /\ chosen \in SUBSET Claims
  /\ run \in Runs
  /\ run.step = "idle" => run = Rest
  /\ IsInjective(run.ids) /\ run.queued <= Len(run.ids)
  /\ researched \in [Claims -> 0 .. MaxWishes + 1]
  /\ wishes \in [Claims -> 0 .. MaxWishes]

\* The claims of a run that no batch has been stored for.
Stored == IF run.step = "answer" THEN BatchEnd ELSE run.queued
Outstanding == SliceOf(run.ids, Stored + 1, Len(run.ids))

\* The claims of the selection that no run has taken over.
Selected == IF run.step = "idle" \/ run.single THEN chosen ELSE {}
One(b) == IF b THEN 1 ELSE 0

\* Each wish pays for one research: one that was queued, one that the run will
\* queue, or one that the selection will ask for.
Paid(c) == researched[c] + One(c \in Outstanding) + One(c \in Selected) <= wishes[c]

RunInv == RunTyped /\ (~mishaps.broken => \A c \in Claims : Paid(c))

LEMMA RunInitially == ResearchInit => RunInv
<1> SUFFICES ASSUME ResearchInit PROVE RunInv
  OBVIOUS
<1>1. /\ chosen = {} /\ run = Rest /\ researched = [c \in Claims |-> 0]
      /\ wishes = [c \in Claims |-> 0]
  BY DEF ResearchInit
<1>2. /\ run.step = "idle" /\ run.ids = <<>> /\ run.queued = 0 /\ run.single = FALSE
  BY <1>1 DEF Rest
<1>3. RunTyped
  <2>1. run \in Runs
    BY <1>1 DEF Rest, Runs
  <2>2. IsInjective(run.ids) /\ run.queued <= Len(run.ids)
    BY <1>2 DEF IsInjective
  <2>3. researched \in [Claims -> 0 .. MaxWishes + 1] /\ wishes \in [Claims -> 0 .. MaxWishes]
    BY <1>1, ArchiveAssumption
  <2> QED BY <1>1, <2>1, <2>2, <2>3 DEF RunTyped
<1>4. Outstanding = {} /\ Selected = {}
  BY <1>1, <1>2 DEF Outstanding, SliceOf, Stored, Selected
<1>5. \A c \in Claims : Paid(c)
  BY <1>1, <1>4 DEF Paid, One
<1> QED BY <1>3, <1>5 DEF RunInv

\* The end of a batch.
LEMMA BatchFacts ==
  ASSUME RunTyped
  PROVE  /\ Len(run.ids) \in Nat /\ run.queued \in 0 .. Len(run.ids)
         /\ BatchEnd \in 0 .. Len(run.ids) /\ run.queued <= BatchEnd
         /\ \A i, j \in 1 .. Len(run.ids) : run.ids[i] = run.ids[j] => i = j
<1>1. run.ids \in Seq(Claims) /\ run.queued \in Nat /\ run.queued <= Len(run.ids)
      /\ IsInjective(run.ids)
  BY DEF RunTyped, Runs
<1>2. Len(run.ids) \in Nat /\ DOMAIN run.ids = 1 .. Len(run.ids)
  BY <1>1
<1>3. BatchEnd \in 0 .. Len(run.ids) /\ run.queued <= BatchEnd
  BY <1>1, <1>2, ArchiveAssumption DEF BatchEnd
<1> QED BY <1>1, <1>2, <1>3 DEF IsInjective

LEMMA PageRowsFacts == AskTyped => PageRows \in SUBSET Claims
<1> SUFFICES ASSUME AskTyped, shown # Unasked, shown.page <= PagesOf(shown.filter)
             PROVE  Archive[shown.filter][shown.page] \in SUBSET Claims
  BY DEF PageRows
<1>1. shown.filter \in ArchiveFilters /\ shown.page \in Nat \ {0}
  BY DEF AskTyped, AnsweredQuestions
<1>2. Archive[shown.filter] \in Seq(SUBSET Claims)
  BY <1>1, ArchiveAssumption DEF ArchiveFilters
<1>3. shown.page \in 1 .. Len(Archive[shown.filter])
  BY <1>1, <1>2 DEF PagesOf
<1> QED BY <1>2, <1>3

\* Wishes for the claims of a set, each of which can still be wished for.
LEMMA WishFacts ==
  ASSUME RunTyped, NEW cs \in SUBSET Claims, CanWish(cs), Wished(cs)
  PROVE  /\ wishes' \in [Claims -> 0 .. MaxWishes]
         /\ \A c \in Claims : wishes'[c] = wishes[c] + One(c \in cs)
<1>1. wishes' = [c \in Claims |-> wishes[c] + (IF c \in cs THEN 1 ELSE 0)]
  BY DEF Wished
<1>2. ASSUME NEW c \in Claims PROVE wishes[c] + One(c \in cs) \in 0 .. MaxWishes
  <2>1. wishes[c] \in 0 .. MaxWishes /\ MaxWishes \in Nat
    BY ArchiveAssumption DEF RunTyped
  <2>2. c \in cs => wishes[c] < MaxWishes
    BY DEF CanWish
  <2> QED BY <2>1, <2>2 DEF One
<1>3. \A c \in Claims : wishes'[c] = wishes[c] + One(c \in cs)
  BY <1>1 DEF One
<1> QED BY <1>1, <1>2, <1>3 DEF One

LEMMA RunStep ==
  ASSUME AskTyped, RunInv, [ResearchNext]_researchVars PROVE RunInv'
<1>0. RunTyped /\ (~mishaps.broken => \A c \in Claims : Paid(c))
  BY DEF RunInv
<1>a. /\ chosen \in SUBSET Claims /\ run \in Runs /\ MaxWishes \in Nat
      /\ researched \in [Claims -> 0 .. MaxWishes + 1] /\ wishes \in [Claims -> 0 .. MaxWishes]
      /\ mishaps \in Mishaps /\ PageRows \in SUBSET Claims
  BY <1>0, ArchiveAssumption, PageRowsFacts DEF RunTyped, AskTyped
<1>b. /\ Len(run.ids) \in Nat /\ run.queued \in 0 .. Len(run.ids)
      /\ BatchEnd \in 0 .. Len(run.ids) /\ run.queued <= BatchEnd
      /\ \A i, j \in 1 .. Len(run.ids) : run.ids[i] = run.ids[j] => i = j
  BY <1>0, BatchFacts
<1>c. \A c \in Claims : researched[c] \in Nat /\ wishes[c] \in Nat
  BY <1>a
<1>d. \A b \in BOOLEAN : One(b) \in 0 .. 1
  BY DEF One
<1>1. CASE ChangeFilter \/ TurnPage \/ Ask \/ (\E i \in 1 .. MaxAsks : Answer(i)) \/ UNCHANGED researchVars
  <2>1. UNCHANGED runVars
    BY <1>1 DEF ChangeFilter, TurnPage, Ask, Answer, researchVars, runVars
  <2>2. mishaps'.broken = mishaps.broken
    BY <1>1, <1>a DEF ChangeFilter, TurnPage, Ask, Answer, researchVars, Mishaps
  <2> QED BY <1>0, <2>1, <2>2
          DEF runVars, RunInv, RunTyped, Paid, Outstanding, Stored, Selected, SliceOf, BatchEnd, One,
              Runs, Rest, IsInjective
<1>2. ASSUME NEW add \in SUBSET Claims, NEW chosen2 \in SUBSET Claims,
             CanWish(add), Wished(add), chosen2 \subseteq chosen \cup add, chosen' = chosen2,
             UNCHANGED <<run, researched, mishaps>>
      PROVE  RunInv'
  <2>1. /\ wishes' \in [Claims -> 0 .. MaxWishes]
        /\ \A c \in Claims : wishes'[c] = wishes[c] + One(c \in add)
    BY <1>0, <1>2, WishFacts
  <2>2. RunTyped'
    BY <1>0, <1>2, <2>1 DEF RunTyped, Runs, Rest, IsInjective
  <2>3. Outstanding' = Outstanding
    BY <1>2 DEF Outstanding, SliceOf, Stored, BatchEnd
  <2>4. Selected' \subseteq Selected \cup add
    BY <1>2 DEF Selected
  <2>5. ASSUME NEW c \in Claims, Paid(c) PROVE (Paid(c))'
    <3>1. wishes'[c] = wishes[c] + One(c \in add) /\ UNCHANGED researched
      BY <1>2, <2>1
    <3>2. One(c \in Selected') <= One(c \in Selected) + One(c \in add)
      BY <2>4 DEF One
    <3>3. One(c \in Selected') \in 0 .. 1 /\ One(c \in Selected) \in 0 .. 1 /\ One(c \in add) \in 0 .. 1
          /\ One(c \in Outstanding) \in 0 .. 1
      BY DEF One
    <3>4. researched[c] + One(c \in Outstanding) + One(c \in Selected') <= wishes[c] + One(c \in add)
      BY <1>c, <2>5, <3>2, <3>3 DEF Paid
    <3> QED BY <2>3, <3>1, <3>4 DEF Paid, One
  <2> QED BY <1>0, <1>2, <2>2, <2>5 DEF RunInv
<1>3. CASE ChooseClaim
  <2>1. PICK c \in PageRows :
          IF c \in chosen THEN chosen' = chosen \ {c} /\ UNCHANGED wishes
          ELSE CanWish({c}) /\ Wished({c}) /\ chosen' = chosen \cup {c}
    BY <1>3 DEF ChooseClaim
  <2>2. UNCHANGED <<run, researched, mishaps>>
    BY <1>3 DEF ChooseClaim
  <2>3. CASE c \in chosen
    <3>1. UNCHANGED wishes
      BY <2>1, <2>3
    <3>2. CanWish({}) /\ Wished({})
      <4>1. [x \in Claims |-> wishes[x] + 0] = wishes
        BY <1>a
      <4> QED BY <3>1, <4>1 DEF CanWish, Wished
    <3>3. chosen' = chosen \ {c} /\ chosen \ {c} \subseteq chosen \cup {} /\ chosen \ {c} \in SUBSET Claims
      BY <1>a, <2>1, <2>3
    <3> QED BY <1>2, <2>2, <3>2, <3>3
  <2>4. CASE c \notin chosen
    <3>1. CanWish({c}) /\ Wished({c}) /\ chosen' = chosen \cup {c}
      BY <2>1, <2>4
    <3>2. {c} \in SUBSET Claims /\ chosen \cup {c} \in SUBSET Claims
      BY <1>a
    <3> QED BY <1>2, <2>2, <3>1, <3>2
  <2> QED BY <2>3, <2>4
<1>4. CASE ChoosePage
  <2>1. UNCHANGED <<run, researched, mishaps>>
    BY <1>4 DEF ChoosePage
  <2>2. CASE PageRows \subseteq chosen
    <3>1. chosen' = chosen \ PageRows /\ UNCHANGED wishes
      BY <1>4, <2>2 DEF ChoosePage
    <3>2. CanWish({}) /\ Wished({})
      <4>1. [x \in Claims |-> wishes[x] + 0] = wishes
        BY <1>a
      <4> QED BY <3>1, <4>1 DEF CanWish, Wished
    <3>3. chosen \ PageRows \subseteq chosen \cup {} /\ chosen \ PageRows \in SUBSET Claims
      BY <1>a
    <3> QED BY <1>2, <2>1, <3>1, <3>2, <3>3
  <2>3. CASE ~(PageRows \subseteq chosen)
    <3>1. /\ CanWish(PageRows \ chosen) /\ Wished(PageRows \ chosen)
          /\ chosen' = chosen \cup PageRows
      BY <1>4, <2>3 DEF ChoosePage
    <3>2. PageRows \ chosen \in SUBSET Claims /\ chosen \cup PageRows \in SUBSET Claims
          /\ chosen \cup PageRows \subseteq chosen \cup (PageRows \ chosen)
      BY <1>a
    <3> QED BY <1>2, <2>1, <3>1, <3>2
  <2> QED BY <2>2, <2>3
<1>5. CASE QueueBulk
  <2>0. IsFiniteSet(chosen)
    BY <1>a, ArchiveAssumption, FS_Subset
  <2>1. PICK s : s = SetToSeq(chosen)
    OBVIOUS
  <2>2. /\ run.step = "idle"
        /\ run' = [step |-> "call", ids |-> s, queued |-> 0, single |-> FALSE]
        /\ UNCHANGED <<chosen, researched, wishes, mishaps>>
    BY <1>5, <2>1 DEF QueueBulk, Rest
  <2>3. s \in [1 .. Cardinality(chosen) -> chosen] /\ IsInjective(s) /\ Cardinality(chosen) \in Nat
    BY <2>0, <2>1, SetToSeqFacts, FS_CardinalityType
  <2>4. s \in Seq(Claims) /\ Len(s) = Cardinality(chosen)
    BY <1>a, <2>3
  <2>5. RunTyped'
    <3>1. run' \in Runs
      BY <2>2, <2>4 DEF Runs
    <3>2. IsInjective(run'.ids) /\ run'.queued <= Len(run'.ids) /\ run'.step # "idle"
      BY <2>2, <2>3, <2>4
    <3> QED BY <1>0, <2>2, <3>1, <3>2 DEF RunTyped, Runs
  <2>6. Outstanding' \subseteq Selected /\ Selected' = {}
    <3>1. Outstanding' = SliceOf(s, 1, Len(s))
      BY <2>2 DEF Outstanding, SliceOf, Stored
    <3>2. Selected = chosen /\ Selected' = {}
      BY <2>2 DEF Selected
    <3> QED BY <2>3, <2>4, <3>1, <3>2 DEF SliceOf
  <2>7. ASSUME NEW c \in Claims, Paid(c) PROVE (Paid(c))'
    <3>1. One(c \in Outstanding') <= One(c \in Selected) /\ One(c \in Selected') = 0
      BY <2>6 DEF One
    <3>2. One(c \in Outstanding') \in 0 .. 1 /\ One(c \in Outstanding) \in 0 .. 1
          /\ One(c \in Selected) \in 0 .. 1
      BY DEF One
    <3>3. researched[c] + One(c \in Outstanding') + One(c \in Selected') <= wishes[c]
      BY <1>c, <2>7, <3>1, <3>2 DEF Paid
    <3> QED BY <2>2, <3>3 DEF Paid, One
  <2> QED BY <1>0, <2>2, <2>5, <2>7 DEF RunInv
<1>6. CASE EnrichClaim
  <2>1. PICK c0 \in PageRows :
          /\ CanWish({c0}) /\ Wished({c0})
          /\ run' = [step |-> "call", ids |-> <<c0>>, queued |-> 0, single |-> TRUE]
    BY <1>6 DEF EnrichClaim, Rest
  <2>2. run.step = "idle" /\ UNCHANGED <<chosen, researched, mishaps>> /\ c0 \in Claims
    BY <1>6, <1>a DEF EnrichClaim
  <2>3. /\ wishes' \in [Claims -> 0 .. MaxWishes]
        /\ \A c \in Claims : wishes'[c] = wishes[c] + One(c \in {c0})
    BY <1>0, <2>1, <2>2, WishFacts
  <2>4. RunTyped'
    <3>1. <<c0>> \in Seq(Claims) /\ Len(<<c0>>) = 1
      BY <2>2
    <3>2. run' \in Runs
      BY <2>1, <3>1 DEF Runs
    <3>3. IsInjective(run'.ids) /\ run'.queued <= Len(run'.ids) /\ run'.step # "idle"
      BY <2>1 DEF IsInjective
    <3> QED BY <1>0, <2>2, <2>3, <3>2, <3>3 DEF RunTyped, Runs
  <2>5. Outstanding' \subseteq {c0} /\ Selected' = Selected
    <3>1. Outstanding' = SliceOf(<<c0>>, 1, 1)
      BY <2>1 DEF Outstanding, SliceOf, Stored
    <3>2. Selected' = Selected
      BY <2>1, <2>2 DEF Selected
    <3> QED BY <3>1, <3>2 DEF SliceOf
  <2>6. ASSUME NEW c \in Claims, Paid(c) PROVE (Paid(c))'
    <3>1. One(c \in Outstanding') <= One(c \in {c0})
      BY <2>5 DEF One
    <3>2. One(c \in Outstanding') \in 0 .. 1 /\ One(c \in Outstanding) \in 0 .. 1
          /\ One(c \in Selected) \in 0 .. 1 /\ One(c \in {c0}) \in 0 .. 1
      BY DEF One
    <3>3. researched[c] + One(c \in Outstanding') + One(c \in Selected) <= wishes'[c]
      BY <1>c, <2>3, <2>6, <3>1, <3>2 DEF Paid
    <3> QED BY <2>2, <2>5, <3>3 DEF Paid, One
  <2> QED BY <1>0, <2>2, <2>4, <2>6 DEF RunInv
<1>7. CASE ServeBatch
  <2>1. /\ run.step = "call" /\ run' = [run EXCEPT !.step = "answer"]
        /\ researched' = [c \in Claims |->
             IF c \in ToSet(Batch) /\ researched[c] <= MaxWishes THEN researched[c] + 1 ELSE researched[c]]
        /\ UNCHANGED <<chosen, wishes, mishaps>>
    BY <1>7 DEF ServeBatch
  <2>2. /\ run' \in Runs /\ run'.step = "answer" /\ run'.ids = run.ids /\ run'.queued = run.queued
        /\ run'.single = run.single
    BY <1>a, <2>1 DEF Runs
  <2>3. BatchEnd' = BatchEnd
    BY <2>2 DEF BatchEnd
  <2>4. RunTyped'
    <3>1. ASSUME NEW c \in Claims
          PROVE  (IF c \in ToSet(Batch) /\ researched[c] <= MaxWishes THEN researched[c] + 1
                  ELSE researched[c]) \in 0 .. MaxWishes + 1
      BY <1>a
    <3>2. researched' \in [Claims -> 0 .. MaxWishes + 1]
      BY <2>1, <3>1
    <3> QED BY <1>0, <2>1, <2>2, <3>2 DEF RunTyped, Runs
  <2>5. Outstanding = SliceOf(run.ids, run.queued + 1, Len(run.ids))
        /\ Outstanding' = SliceOf(run.ids, BatchEnd + 1, Len(run.ids)) /\ Selected' = Selected
    BY <2>1, <2>2, <2>3 DEF Outstanding, Stored, Selected, SliceOf
  <2>6. ToSet(Batch) = SliceOf(run.ids, run.queued + 1, BatchEnd)
    <3>1. run.queued + 1 \in 1 .. Len(run.ids) + 1 /\ run.queued + 1 <= BatchEnd + 1
      BY <1>b
    <3>2. run.ids \in Seq(Claims)
      BY <1>a DEF Runs
    <3>3. BatchEnd \in 0 .. Len(run.ids)
      BY <1>b
    <3>4. ToSet(SubSeq(run.ids, run.queued + 1, BatchEnd))
          = {run.ids[k] : k \in run.queued + 1 .. BatchEnd}
      BY ONLY <3>1, <3>2, <3>3, SliceFacts
    <3> QED BY ONLY <3>4 DEF Batch, SliceOf
  <2>7. Outstanding' \subseteq Outstanding /\ ToSet(Batch) \subseteq Outstanding
        /\ ToSet(Batch) \cap Outstanding' = {}
    <3>1. /\ BatchEnd + 1 .. Len(run.ids) \subseteq run.queued + 1 .. Len(run.ids)
          /\ run.queued + 1 .. BatchEnd \subseteq run.queued + 1 .. Len(run.ids)
          /\ run.queued + 1 .. Len(run.ids) \subseteq 1 .. Len(run.ids)
          /\ (run.queued + 1 .. BatchEnd) \cap (BatchEnd + 1 .. Len(run.ids)) = {}
      BY <1>b
    <3>2. Outstanding' \subseteq Outstanding
      BY <2>5, <3>1 DEF SliceOf
    <3>3. ToSet(Batch) \subseteq Outstanding
      BY <2>5, <2>6, <3>1 DEF SliceOf
    <3>4. ASSUME NEW x \in ToSet(Batch), x \in Outstanding' PROVE FALSE
      <4>1. PICK i \in run.queued + 1 .. BatchEnd : x = run.ids[i]
        BY <2>6 DEF SliceOf
      <4>2. PICK j \in BatchEnd + 1 .. Len(run.ids) : x = run.ids[j]
        BY <2>5, <3>4 DEF SliceOf
      <4>3. i = j
        BY <1>b, <3>1, <4>1, <4>2
      <4> QED BY <3>1, <4>3
    <3> QED BY <3>2, <3>3, <3>4
  <2>8. ASSUME NEW c \in Claims, Paid(c) PROVE (Paid(c))'
    <3>1. researched'[c] <= researched[c] + One(c \in ToSet(Batch)) /\ researched'[c] \in Nat
      BY <1>c, <2>1 DEF One
    <3>2. One(c \in ToSet(Batch)) + One(c \in Outstanding') <= One(c \in Outstanding)
      BY <2>7 DEF One
    <3>3. One(c \in Outstanding') \in 0 .. 1 /\ One(c \in Outstanding) \in 0 .. 1
          /\ One(c \in Selected) \in 0 .. 1 /\ One(c \in ToSet(Batch)) \in 0 .. 1
      BY DEF One
    <3>4. researched'[c] + One(c \in Outstanding') + One(c \in Selected) <= wishes[c]
      BY <1>c, <2>8, <3>1, <3>2, <3>3 DEF Paid
    <3> QED BY <2>1, <2>5, <3>4 DEF Paid, One
  <2> QED BY <1>0, <2>1, <2>4, <2>8 DEF RunInv
<1>8. CASE ReceiveBatch
  <2>1. run.step = "answer" /\ UNCHANGED <<researched, wishes, mishaps>>
    BY <1>8 DEF ReceiveBatch
  <2>2. CASE BatchEnd < Len(run.ids)
    <3>1. run' = [run EXCEPT !.step = "call", !.queued = BatchEnd] /\ UNCHANGED chosen
      BY <1>8, <2>2 DEF ReceiveBatch
    <3>2. /\ run' \in Runs /\ run'.step = "call" /\ run'.ids = run.ids /\ run'.queued = BatchEnd
          /\ run'.single = run.single
      <4>1. PICK e \in Nat : e = BatchEnd
        BY <1>b
      <4>2. run' = [run EXCEPT !.step = "call", !.queued = e]
        BY <3>1, <4>1
      <4>3. run \in Runs
        BY <1>a
      <4> QED BY <4>1, <4>2, <4>3 DEF Runs
    <3>3. RunTyped'
      BY <1>0, <1>b, <2>1, <3>1, <3>2 DEF RunTyped, Runs
    <3>4. Outstanding' = Outstanding /\ Selected' = Selected
      BY <2>1, <3>1, <3>2 DEF Outstanding, Stored, Selected, SliceOf
    <3>5. \A c \in Claims : Paid(c) => (Paid(c))'
      BY <2>1, <3>4 DEF Paid, One
    <3> QED BY <1>0, <2>1, <3>3, <3>5 DEF RunInv
  <2>3. CASE ~(BatchEnd < Len(run.ids))
    <3>1. run' = Rest /\ chosen' = IF run.single THEN chosen ELSE {}
      BY <1>8, <2>3 DEF ReceiveBatch, ChosenAfterRun
    <3>2. /\ run'.step = "idle" /\ run'.ids = <<>> /\ run'.queued = 0 /\ run' \in Runs
      BY <3>1 DEF Rest, Runs
    <3>3. RunTyped'
      <4>1. IsInjective(run'.ids) /\ run'.queued <= Len(run'.ids) /\ chosen' \in SUBSET Claims
        BY <1>a, <3>1, <3>2 DEF IsInjective
      <4> QED BY <1>0, <2>1, <3>1, <3>2, <4>1 DEF RunTyped, Runs, Rest
    <3>4. Outstanding' = {} /\ Selected' \subseteq Selected
      BY <2>1, <3>1, <3>2 DEF Outstanding, Stored, Selected, SliceOf
    <3>5. ASSUME NEW c \in Claims, Paid(c) PROVE (Paid(c))'
      <4>1. One(c \in Outstanding') = 0 /\ One(c \in Selected') <= One(c \in Selected)
        BY <3>4 DEF One
      <4>2. One(c \in Selected') \in 0 .. 1 /\ One(c \in Outstanding) \in 0 .. 1
            /\ One(c \in Selected) \in 0 .. 1
        BY DEF One
      <4>3. researched[c] + One(c \in Outstanding') + One(c \in Selected') <= wishes[c]
        BY <1>c, <3>5, <4>1, <4>2 DEF Paid
      <4> QED BY <2>1, <4>3 DEF Paid, One
    <3> QED BY <1>0, <2>1, <3>3, <3>5 DEF RunInv
  <2> QED BY <2>2, <2>3
<1>9. CASE LoseBatch
  <2>1. /\ run' = Rest /\ mishaps' = [mishaps EXCEPT !.broken = TRUE]
        /\ UNCHANGED <<chosen, researched, wishes>>
    BY <1>9 DEF LoseBatch
  <2>2. mishaps'.broken = TRUE
    BY <1>a, <2>1 DEF Mishaps
  <2>3. RunTyped'
    <3>1. /\ run'.ids = <<>> /\ run'.queued = 0 /\ run' \in Runs
      BY <2>1 DEF Rest, Runs
    <3>2. IsInjective(run'.ids) /\ run'.queued <= Len(run'.ids)
      BY <3>1 DEF IsInjective
    <3> QED BY <1>0, <2>1, <3>1, <3>2 DEF RunTyped, Runs, Rest
  <2> QED BY <2>2, <2>3 DEF RunInv
<1> QED BY <1>1, <1>3, <1>4, <1>5, <1>6, <1>7, <1>8, <1>9 DEF ResearchNext

ResearchInv == AskInv /\ RunInv

LEMMA ResearchInitially == ResearchInit => ResearchInv
BY AskInitially, RunInitially DEF ResearchInv

LEMMA ResearchStep == ASSUME ResearchInv, [ResearchNext]_researchVars PROVE ResearchInv'
BY AskStep, RunStep DEF ResearchInv, AskInv

LEMMA ResearchTypes == ResearchInv => ResearchTypeOK
<1> SUFFICES ASSUME ResearchInv PROVE ResearchTypeOK
  OBVIOUS
<1>1. AskTyped /\ RunTyped
  BY DEF ResearchInv, AskInv, RunInv
<1>2. asked.filter \in ArchiveFilters /\ asked.page \in Nat \ {0} /\ asked.armed \in BOOLEAN
  BY <1>1 DEF AskTyped
<1>3. shown = Unasked \/ shown.filter \in ArchiveFilters
  BY <1>1 DEF AskTyped, AnsweredQuestions
<1>4. run.step \in {"idle", "call", "answer"} /\ ToSet(run.ids) \subseteq Claims
  BY <1>1 DEF RunTyped, Runs, ToSet
<1> QED BY <1>1, <1>2, <1>3, <1>4 DEF ResearchTypeOK, AskTyped, RunTyped, Mishaps


-----------------------------------------------------------------------------
(* The capture jobs: what is known of them. *)

JobPolls == [jobs : [CaptureJobs -> Statuses], late : BOOLEAN]
Taken == [jobs |-> [j \in CaptureJobs |-> IF jobs[j] = "cleared" THEN "none" ELSE jobs[j]],
          late |-> FALSE]

JobsTyped ==
  /\ jobs \in [CaptureJobs -> Statuses]
  /\ listed \in [CaptureJobs -> Statuses] \cup {NotLoaded}
  /\ polled \in Seq(JobPolls)
  /\ jobFilter \in JobFilters
  /\ queueing \in [sent : Nat, served : SUBSET CaptureJobs]
  /\ clearing \in [step : {"none", "sent", "served"}, statuses : SUBSET Clearable]
  /\ opening \in BOOLEAN /\ missed \in BOOLEAN
  /\ lost \in SUBSET CaptureJobs /\ revised \in SUBSET CaptureJobs

\* What the server may make of a job, late reports apart.
Onward(a, b) ==
  /\ a # "none" => b # "none"
  /\ a = "completed" => b = "completed"
  /\ a \in {"failed", "cleared"} => b \in {"failed", "cleared"}
  /\ a = "cleared" => b = "cleared"

\* What it makes of job j in a step.
Proceeds(j) ==
  \/ Onward(jobs[j], jobs'[j])
  \/ j \in revised' /\ jobs[j] \in Finished /\ jobs'[j] \in Finished

Live(status) == status \notin {"none", "cleared"}

\* The steps by what they do to the answers: one more question, one fewer, or
\* none, while the server works on.
AsksJobs == polled' = Append(polled, Taken) /\ UNCHANGED <<jobs, revised, listed>>

SettlesJobs(i) ==
  /\ i \in DOMAIN polled /\ polled' = Settled(polled, i)
  /\ UNCHANGED <<jobs, revised, opening, queueing>>
  /\ \/ /\ listed' = polled[i].jobs
        /\ ~missed' => ~missed /\ (polled[i].late => Awaits(listed'))
     \/ /\ listed' = listed
        /\ ~missed' => ~missed /\ Awaits(listed)

ServesJobs ==
  /\ UNCHANGED <<listed, polled, opening>> /\ jobs' \in [CaptureJobs -> Statuses]
  /\ revised \subseteq revised' /\ \A j \in CaptureJobs : Proceeds(j)
  /\ ~missed' =>
       /\ ~missed
       /\ \A j \in OwnJobs : Live(jobs'[j]) /\ j \notin queueing'.served =>
            Live(jobs[j]) /\ j \notin queueing.served

LEMMA JobsForms ==
  ASSUME JobsTyped, [JobsNext]_jobVars
  PROVE  \/ AsksJobs
         \/ \E i \in 1 .. MaxJobCalls : SettlesJobs(i)
         \/ ServesJobs
<1>a. /\ jobs \in [CaptureJobs -> Statuses] /\ OwnJobs \subseteq CaptureJobs
      /\ queueing.served \in SUBSET CaptureJobs /\ clearing.statuses \subseteq Clearable
      /\ missed \in BOOLEAN
  BY OwnJobsAssumption DEF JobsTyped
<1>b. ASSUME UNCHANGED <<serverVars, listed, polled, opening, queueing, missed>> PROVE ServesJobs
  BY <1>a, <1>b DEF ServesJobs, serverVars, Proceeds, Onward
<1>1. CASE OpenPage \/ Poll \/ ReceiveClear
  BY <1>1 DEF OpenPage, Poll, ReceiveClear, Inquire, AsksJobs, Taken, serverVars
<1>2. ASSUME NEW i \in 1 .. MaxJobCalls, ShowJobs(i) PROVE SettlesJobs(i)
  <2>1. /\ i \in DOMAIN polled /\ polled' = Settled(polled, i)
        /\ UNCHANGED <<jobs, revised, opening, queueing>>
        /\ listed' = polled[i].jobs
        /\ missed' = (missed \/ (polled[i].late /\ ~Awaits(polled[i].jobs)))
    BY <1>2 DEF ShowJobs, Settle, Settled, commandVars, serverVars
  <2>2. ~missed' => ~missed /\ (polled[i].late => Awaits(listed'))
    BY <2>1
  <2> QED BY <2>1, <2>2 DEF SettlesJobs
<1>3. ASSUME NEW i \in 1 .. MaxJobCalls, MissJobs(i) PROVE SettlesJobs(i)
  <2>1. /\ i \in DOMAIN polled /\ polled' = Settled(polled, i)
        /\ UNCHANGED <<jobs, revised, opening, queueing>>
        /\ listed' = listed /\ missed' = (missed \/ ~Awaits(listed))
    BY <1>3 DEF MissJobs, Settle, Settled, commandVars, serverVars
  <2>2. ~missed' => ~missed /\ Awaits(listed)
    BY <2>1
  <2> QED BY <2>1, <2>2 DEF SettlesJobs
<1>4. CASE Confirm \/ CloseDialog \/ OpenClearance \/ PressClear \/ LoseClear \/ TurnReview
  BY <1>4, <1>b DEF Confirm, CloseDialog, OpenClearance, PressClear, LoseClear, TurnReview, commandVars
<1>5. ASSUME NEW f \in JobFilters, ChooseFilter(f) PROVE ServesJobs
  BY <1>5, <1>b DEF ChooseFilter, commandVars
<1>6. ASSUME NEW j \in CaptureJobs, Review(j) PROVE ServesJobs
  BY <1>6, <1>b DEF Review, commandVars
<1>7. CASE PressStart \/ RefuseStart
  <2>1. UNCHANGED <<serverVars, listed, polled, opening, missed>>
    BY <1>7 DEF PressStart, RefuseStart
  <2>2. queueing'.served = queueing.served
    BY <1>7 DEF PressStart, RefuseStart, JobsTyped
  <2> QED BY <1>a, <2>1, <2>2 DEF ServesJobs, serverVars, Proceeds, Onward
<1>8. ASSUME NEW j \in CaptureJobs, ServeStart(j) PROVE ServesJobs
  <2>1. /\ UNCHANGED <<revised, listed, polled, opening, missed>> /\ jobs[j] = "none"
        /\ jobs' = [jobs EXCEPT ![j] = "queued"] /\ queueing'.served = queueing.served \cup {j}
    BY <1>8 DEF ServeStart
  <2>2. jobs' \in [CaptureJobs -> Statuses]
    BY <1>a, <2>1 DEF Statuses
  <2>3. jobs'[j] = "queued" /\ \A k \in CaptureJobs : k # j => jobs'[k] = jobs[k]
    BY <1>a, <2>1
  <2>4. \A k \in CaptureJobs : Proceeds(k)
    BY <2>1, <2>3 DEF Proceeds, Onward
  <2>5. \A k \in OwnJobs : Live(jobs'[k]) /\ k \notin queueing'.served =>
          Live(jobs[k]) /\ k \notin queueing.served
    BY <1>a, <2>1, <2>3
  <2> QED BY <2>1, <2>2, <2>4, <2>5 DEF ServesJobs
<1>9. ASSUME NEW j \in CaptureJobs, ReceiveStart(j) PROVE AsksJobs
  BY <1>9 DEF ReceiveStart, Inquire, AsksJobs, Taken, serverVars
<1>10. ASSUME NEW j \in CaptureJobs, LoseStart(j) PROVE ServesJobs
  <2>1. UNCHANGED <<jobs, revised, listed, polled, opening>> /\ missed' = TRUE
    BY <1>10 DEF LoseStart, serverVars
  <2> QED BY <1>a, <2>1 DEF ServesJobs, Proceeds, Onward
<1>11. CASE ServeClear
  <2>1. /\ UNCHANGED <<revised, listed, polled, opening, missed, queueing>>
        /\ jobs' = [j \in CaptureJobs |-> IF Cleared(j) THEN "cleared" ELSE jobs[j]]
    BY <1>11 DEF ServeClear
  <2>2. \A j \in CaptureJobs : Cleared(j) => jobs[j] \in {"queued", "failed"}
    BY <1>a DEF Cleared, Clearable
  <2>3. \A j \in CaptureJobs : /\ jobs'[j] = IF Cleared(j) THEN "cleared" ELSE jobs[j]
                               /\ jobs'[j] \in Statuses
    BY <1>a, <2>1 DEF Statuses
  <2>4. \A j \in CaptureJobs : Proceeds(j) /\ (Live(jobs'[j]) => Live(jobs[j]))
    BY <2>2, <2>3 DEF Proceeds, Onward, Live
  <2>5. jobs' \in [CaptureJobs -> Statuses]
    BY <2>1, <2>3
  <2> QED BY <1>a, <2>1, <2>4, <2>5 DEF ServesJobs
<1>12. ASSUME NEW j \in CaptureJobs, JobMoves(j) PROVE ServesJobs
  <2>1. UNCHANGED <<revised, listed, polled, opening, missed, queueing>>
    BY <1>12 DEF JobMoves, commandVars
  <2>2. PICK a, b : /\ <<a, b>> \in JobSteps /\ jobs[j] = a
                    /\ jobs' = [jobs EXCEPT ![j] = b]
    <3>1. PICK step \in JobSteps : jobs[j] = step[1] /\ jobs' = [jobs EXCEPT ![j] = step[2]]
      BY <1>12 DEF JobMoves
    <3>2. step = <<step[1], step[2]>>
      BY DEF JobSteps
    <3> QED BY <3>1, <3>2
  <2>3. /\ b \in Statuses /\ Onward(a, b) /\ (Live(b) => a # "cleared") /\ (a = "none" => j \notin OwnJobs)
    <3>1. a = "none" => j \notin OwnJobs
      BY <1>12, <2>2 DEF JobMoves
    <3>2. \/ a = "none" /\ b = "queued"
          \/ a = "queued" /\ b \in {"running", "cleared"}
          \/ a = "running" /\ b \in {"completed", "failed", "queued"}
          \/ a = "failed" /\ b = "cleared"
      BY <2>2 DEF JobSteps
    <3> QED BY <3>1, <3>2 DEF Statuses, Finished, Onward, Live
  <2>4. jobs' \in [CaptureJobs -> Statuses] /\ jobs'[j] = b
        /\ \A k \in CaptureJobs : k # j => jobs'[k] = jobs[k]
    BY <1>a, <2>2, <2>3
  <2>5. \A k \in CaptureJobs : Proceeds(k)
    <3>1. \A s : Onward(s, s)
      BY DEF Onward
    <3> QED BY <2>2, <2>3, <2>4, <3>1 DEF Proceeds
  <2>6. \A k \in OwnJobs : Live(jobs'[k]) => Live(jobs[k])
    BY <1>a, <2>2, <2>3, <2>4 DEF Live
  <2> QED BY <2>1, <2>4, <2>5, <2>6 DEF ServesJobs
<1>13. ASSUME NEW j \in CaptureJobs, LateReport(j) PROVE ServesJobs
  <2>1. /\ UNCHANGED <<listed, polled, opening, missed, queueing>>
        /\ jobs[j] \in {"queued"} \cup Finished
        /\ revised' = IF jobs[j] \in Finished THEN revised \cup {j} ELSE revised
    BY <1>13 DEF LateReport, commandVars
  <2>2. PICK end \in Finished : jobs' = [jobs EXCEPT ![j] = end]
    BY <1>13 DEF LateReport
  <2>3. /\ jobs' \in [CaptureJobs -> Statuses] /\ jobs'[j] = end
        /\ \A k \in CaptureJobs : k # j => jobs'[k] = jobs[k]
    BY <1>a, <2>2 DEF Statuses
  <2>4. \A k \in CaptureJobs : Proceeds(k)
    BY <2>1, <2>3 DEF Proceeds, Onward, Finished
  <2>5. \A k \in OwnJobs : Live(jobs'[k]) => Live(jobs[k])
    BY <1>a, <2>1, <2>3 DEF Live, Finished
  <2> QED BY <2>1, <2>3, <2>4, <2>5 DEF ServesJobs
<1>14. ASSUME NEW j \in CaptureJobs, LoseFiles(j) PROVE ServesJobs
  <2>1. UNCHANGED <<jobs, revised, listed, polled, opening, queueing, missed>>
    BY <1>14 DEF LoseFiles, commandVars
  <2> QED BY <1>a, <2>1 DEF ServesJobs, Proceeds, Onward
<1>15. CASE UNCHANGED jobVars
  BY <1>15, <1>b DEF jobVars
<1> QED BY <1>1, <1>2, <1>3, <1>4, <1>5, <1>6, <1>7, <1>8, <1>9, <1>10, <1>11, <1>12, <1>13,
           <1>14, <1>15 DEF JobsNext

\* The place in s of what is at place k when i has been taken out.
Place(k, i) == IF k < i THEN k ELSE k + 1

LEMMA PlaceOrder == \A i, k, l \in Int : k < l => Place(k, i) < Place(l, i)
BY DEF Place

LEMMA LateJobPolls == TellLate(JobPolls)
BY DEF TellLate, JobPolls

\* t is s without its i-th question, the earlier ones overtaken.
Remains(t, s, i) ==
  /\ t \in Seq(JobPolls) /\ Len(t) = Len(s) - 1
  /\ \A k \in DOMAIN t : /\ Place(k, i) \in DOMAIN s /\ Place(k, i) # i
                         /\ t[k].jobs = s[Place(k, i)].jobs
                         /\ t[k].late <=> s[Place(k, i)].late \/ Place(k, i) < i
  /\ \A m \in DOMAIN s : m # i => \E k \in DOMAIN t : Place(k, i) = m

LEMMA SettledPolls ==
  ASSUME NEW s \in Seq(JobPolls), NEW i \in DOMAIN s
  PROVE  Remains(Settled(s, i), s, i)
<1> SUFFICES ASSUME NEW t, t = Settled(s, i) PROVE Remains(t, s, i)
  OBVIOUS
<1>1. /\ t \in Seq(JobPolls) /\ Len(t) = Len(s) - 1
      /\ \A k \in 1 .. Len(s) - 1 : k < i => t[k] = [s[k] EXCEPT !.late = TRUE]
      /\ \A k \in 1 .. Len(s) - 1 : k >= i => t[k] = s[k + 1]
  BY LateJobPolls, SettleFacts
<1>2. Len(s) \in Nat /\ i \in 1 .. Len(s) /\ DOMAIN s = 1 .. Len(s)
  OBVIOUS
<1>3. DOMAIN t = 1 .. Len(s) - 1
  BY <1>1, <1>2
<1>4. ASSUME NEW k \in DOMAIN t
      PROVE  /\ Place(k, i) \in DOMAIN s /\ Place(k, i) # i
             /\ t[k].jobs = s[Place(k, i)].jobs
             /\ t[k].late <=> s[Place(k, i)].late \/ Place(k, i) < i
  <2>1. CASE k < i
    <3>1. Place(k, i) = k /\ k \in DOMAIN s /\ k # i /\ k \in Int
      BY <1>2, <1>3, <2>1 DEF Place
    <3>2. s[k] \in JobPolls
      BY <3>1
    <3>3. t[k] = [s[k] EXCEPT !.late = TRUE]
      BY <1>1, <1>3, <2>1
    <3>4. t[k].jobs = s[k].jobs /\ t[k].late
      BY <3>2, <3>3 DEF JobPolls
    <3> QED BY <2>1, <3>1, <3>4
  <2>2. CASE ~(k < i)
    <3>1. Place(k, i) = k + 1 /\ k + 1 \in DOMAIN s /\ k + 1 # i /\ ~(k + 1 < i) /\ k >= i
      BY <1>2, <1>3, <2>2 DEF Place
    <3>2. t[k] = s[k + 1]
      BY <1>1, <1>3, <3>1
    <3> QED BY <3>1, <3>2
  <2> QED BY <2>1, <2>2
<1>5. ASSUME NEW m \in DOMAIN s, m # i PROVE \E k \in DOMAIN t : Place(k, i) = m
  <2>1. CASE m < i
    BY <1>2, <1>3, <2>1 DEF Place
  <2>2. CASE m > i
    <3>1. m - 1 \in DOMAIN t /\ Place(m - 1, i) = m
      BY <1>2, <1>3, <2>2 DEF Place
    <3> QED BY <3>1
  <2> QED BY <1>2, <1>5, <2>1, <2>2
<1> QED BY <1>1, <1>4, <1>5 DEF Remains

\* What a list of jobs, however old, says of them.
Snapshot(s) ==
  \A j \in CaptureJobs :
    /\ s[j] # "cleared"
    /\ s[j] \notin {"none", "unknown"} => jobs[j] # "none"
    /\ s[j] = "completed" => jobs[j] = "completed" \/ j \in revised
    /\ s[j] = "failed" => jobs[j] \in {"failed", "cleared"} \/ j \in revised

\* Of two lists the later one has every job of the earlier one that was not cleared.
InOrder(i, k) ==
  i < k => \A j \in CaptureJobs :
             polled[i].jobs[j] # "none" => polled[k].jobs[j] # "none" \/ jobs[j] = "cleared"

KnownInv ==
  /\ Snapshot(listed)
  /\ \A i \in DOMAIN polled : Snapshot(polled[i].jobs)
  /\ \A i, k \in DOMAIN polled : InOrder(i, k)

LEMMA TakenFacts ==
  ASSUME JobsTyped
  PROVE  /\ Taken \in JobPolls /\ ~Taken.late /\ Snapshot(Taken.jobs)
         /\ \A j \in CaptureJobs : Taken.jobs[j] = IF jobs[j] = "cleared" THEN "none" ELSE jobs[j]
<1>1. \A j \in CaptureJobs : Taken.jobs[j] = IF jobs[j] = "cleared" THEN "none" ELSE jobs[j]
  BY DEF Taken
<1>2. Taken.jobs \in [CaptureJobs -> Statuses] /\ Taken.late = FALSE
  BY DEF Taken, JobsTyped, Statuses
<1>3. Taken \in JobPolls
  BY <1>2 DEF Taken, JobPolls
<1>4. Snapshot(Taken.jobs)
  BY <1>1 DEF Snapshot
<1> QED BY <1>1, <1>2, <1>3, <1>4

LEMMA KnownStep ==
  ASSUME JobsTyped, KnownInv, [JobsNext]_jobVars PROVE KnownInv'
<1>a. /\ polled \in Seq(JobPolls) /\ Len(polled) \in Nat /\ DOMAIN polled = 1 .. Len(polled)
      /\ \A i \in DOMAIN polled : polled[i].jobs \in [CaptureJobs -> Statuses]
  <2>1. \A i \in DOMAIN polled : polled[i] \in JobPolls
    BY DEF JobsTyped
  <2>2. \A r \in JobPolls : r.jobs \in [CaptureJobs -> Statuses]
    BY DEF JobPolls
  <2> QED BY <2>1, <2>2 DEF JobsTyped
<1>1. CASE AsksJobs
  <2>1. polled' = Append(polled, Taken) /\ UNCHANGED <<jobs, revised, listed>>
    BY <1>1 DEF AsksJobs
  <2>2. PICK q \in JobPolls :
          /\ q = Taken /\ Snapshot(q.jobs)
          /\ \A j \in CaptureJobs : q.jobs[j] = IF jobs[j] = "cleared" THEN "none" ELSE jobs[j]
    BY TakenFacts
  <2>3. /\ DOMAIN polled' = 1 .. Len(polled) + 1 /\ polled'[Len(polled) + 1] = q
        /\ \A i \in 1 .. Len(polled) : polled'[i] = polled[i]
    BY <1>a, <2>1, <2>2
  <2>4. \A s : Snapshot(s) => (Snapshot(s))'
    BY <2>1 DEF Snapshot
  <2>5. ASSUME NEW i \in DOMAIN polled' PROVE (Snapshot(polled[i].jobs))'
    <3>1. Snapshot(polled'[i].jobs)
      BY <1>a, <2>2, <2>3 DEF KnownInv
    <3> QED BY <2>1, <3>1 DEF Snapshot
  <2>6. ASSUME NEW i \in DOMAIN polled', NEW k \in DOMAIN polled' PROVE (InOrder(i, k))'
    <3> SUFFICES ASSUME i < k, NEW j \in CaptureJobs, polled'[i].jobs[j] # "none", jobs[j] # "cleared"
                 PROVE  polled'[k].jobs[j] # "none"
      BY <2>1 DEF InOrder
    <3>1. i \in 1 .. Len(polled) /\ polled'[i] = polled[i]
      BY <1>a, <2>3
    <3>2. CASE k \in 1 .. Len(polled)
      BY <1>a, <2>3, <3>1, <3>2 DEF KnownInv, InOrder
    <3>3. CASE k = Len(polled) + 1
      <4>1. polled[i].jobs[j] \in Statuses /\ polled[i].jobs[j] # "none"
        BY <1>a, <3>1
      <4>2. polled[i].jobs[j] \notin {"none", "unknown"}
        BY <4>1 DEF Statuses, Finished
      <4>3. jobs[j] # "none"
        BY <1>a, <3>1, <4>2 DEF KnownInv, Snapshot
      <4> QED BY <2>2, <2>3, <3>3, <4>3
    <3> QED BY <1>a, <2>3, <3>2, <3>3
  <2>7. (Snapshot(listed))'
    BY <2>1 DEF KnownInv, Snapshot
  <2> QED BY <2>5, <2>6, <2>7 DEF KnownInv
<1>2. ASSUME NEW i \in 1 .. MaxJobCalls, SettlesJobs(i) PROVE KnownInv'
  <2>1. /\ i \in DOMAIN polled /\ polled' = Settled(polled, i) /\ UNCHANGED <<jobs, revised>>
        /\ listed' = polled[i].jobs \/ listed' = listed
    BY <1>2 DEF SettlesJobs
  <2>2. Remains(polled', polled, i)
    <3>1. polled \in Seq(JobPolls) /\ i \in DOMAIN polled
      BY <1>a, <2>1
    <3> QED BY <2>1, <3>1, SettledPolls
  <2>3. ASSUME NEW k \in DOMAIN polled' PROVE (Snapshot(polled[k].jobs))'
    <3>1. Place(k, i) \in DOMAIN polled /\ polled'[k].jobs = polled[Place(k, i)].jobs
      BY <2>2 DEF Remains
    <3>2. Snapshot(polled[Place(k, i)].jobs)
      BY <3>1 DEF KnownInv
    <3> QED BY <2>1, <3>1, <3>2 DEF Snapshot
  <2>4. ASSUME NEW k \in DOMAIN polled', NEW l \in DOMAIN polled' PROVE (InOrder(k, l))'
    <3>1. /\ Place(k, i) \in DOMAIN polled /\ polled'[k].jobs = polled[Place(k, i)].jobs
          /\ Place(l, i) \in DOMAIN polled /\ polled'[l].jobs = polled[Place(l, i)].jobs
      BY <2>2 DEF Remains
    <3>2. InOrder(Place(k, i), Place(l, i))
      BY <3>1 DEF KnownInv
    <3>3. k < l => Place(k, i) < Place(l, i)
      <4>1. DOMAIN polled' = 1 .. Len(polled')
        BY <2>2 DEF Remains
      <4>2. k \in Int /\ l \in Int /\ i \in Int
        <5>1. Len(polled') \in Nat
          BY <2>2 DEF Remains
        <5> QED BY <1>a, <2>1, <4>1, <5>1
      <4> QED BY <4>2, PlaceOrder
    <3> QED BY <2>1, <3>1, <3>2, <3>3 DEF InOrder
  <2>5. (Snapshot(listed))'
    BY <2>1 DEF KnownInv, Snapshot
  <2> QED BY <2>3, <2>4, <2>5 DEF KnownInv
<1>3. CASE ServesJobs
  <2>1. UNCHANGED <<listed, polled>> /\ revised \subseteq revised' /\ \A j \in CaptureJobs : Proceeds(j)
    BY <1>3 DEF ServesJobs
  <2>2. \A j \in CaptureJobs :
          /\ jobs[j] # "none" => jobs'[j] # "none"
          /\ jobs[j] = "cleared" => jobs'[j] = "cleared"
          /\ jobs[j] = "completed" => jobs'[j] = "completed" \/ j \in revised'
          /\ jobs[j] \in {"failed", "cleared"} => jobs'[j] \in {"failed", "cleared"} \/ j \in revised'
    BY <2>1 DEF Proceeds, Onward, Finished
  <2>3. (Snapshot(listed))'
    <3>1. Snapshot(listed)
      BY DEF KnownInv
    <3> QED BY <2>1, <2>2, <3>1 DEF Snapshot
  <2>4. ASSUME NEW i \in DOMAIN polled' PROVE (Snapshot(polled[i].jobs))'
    <3>1. Snapshot(polled[i].jobs)
      BY <2>1 DEF KnownInv
    <3> QED BY <2>1, <2>2, <3>1 DEF Snapshot
  <2>5. ASSUME NEW i \in DOMAIN polled', NEW k \in DOMAIN polled' PROVE (InOrder(i, k))'
    <3>1. InOrder(i, k)
      BY <2>1 DEF KnownInv
    <3> QED BY <2>1, <2>2, <3>1 DEF InOrder
  <2> QED BY <2>3, <2>4, <2>5 DEF KnownInv
<1> QED BY <1>1, <1>2, <1>3, JobsForms

LEMMA JobsTypedStep ==
  ASSUME JobsTyped, [JobsNext]_jobVars PROVE JobsTyped'
<1>a. /\ jobs \in [CaptureJobs -> Statuses] /\ polled \in Seq(JobPolls)
      /\ queueing \in [sent : Nat, served : SUBSET CaptureJobs]
      /\ clearing \in [step : {"none", "sent", "served"}, statuses : SUBSET Clearable]
      /\ opening \in BOOLEAN /\ missed \in BOOLEAN /\ jobFilter \in JobFilters
      /\ OwnJobs \subseteq CaptureJobs
  BY OwnJobsAssumption DEF JobsTyped
<1>1. /\ jobs' \in [CaptureJobs -> Statuses] /\ polled' \in Seq(JobPolls)
      /\ listed' \in [CaptureJobs -> Statuses] \cup {NotLoaded}
  <2>a. listed \in [CaptureJobs -> Statuses] \cup {NotLoaded}
    BY DEF JobsTyped
  <2>1. CASE AsksJobs
    <3>1. polled' = Append(polled, Taken) /\ UNCHANGED <<jobs, listed>> /\ Taken \in JobPolls
      BY <2>1, TakenFacts DEF AsksJobs
    <3> QED BY <1>a, <2>a, <3>1
  <2>2. ASSUME NEW i \in 1 .. MaxJobCalls, SettlesJobs(i)
        PROVE  /\ jobs' \in [CaptureJobs -> Statuses] /\ polled' \in Seq(JobPolls)
               /\ listed' \in [CaptureJobs -> Statuses] \cup {NotLoaded}
    <3>1. /\ i \in DOMAIN polled /\ polled' = Settled(polled, i) /\ UNCHANGED jobs
          /\ listed' = polled[i].jobs \/ listed' = listed
      BY <2>2 DEF SettlesJobs
    <3>2. polled' \in Seq(JobPolls)
      <4>1. Remains(polled', polled, i)
        BY <1>a, <3>1, SettledPolls
      <4> QED BY <4>1 DEF Remains
    <3>3. polled[i].jobs \in [CaptureJobs -> Statuses]
      <4>1. polled[i] \in JobPolls
        BY <1>a, <3>1
      <4> QED BY <4>1 DEF JobPolls
    <3> QED BY <1>a, <2>a, <3>1, <3>2, <3>3
  <2>3. CASE ServesJobs
    BY <1>a, <2>a, <2>3 DEF ServesJobs
  <2> QED BY <2>1, <2>2, <2>3, JobsForms
<1>2. jobFilter' \in JobFilters
  <2>1. jobFilter' = jobFilter \/ jobFilter' = "all" \/ \E f \in JobFilters : jobFilter' = f
    BY DEF JobsNext, OpenPage, Poll, ShowJobs, MissJobs, Confirm, CloseDialog, PressStart, RefuseStart,
           ServeStart, ReceiveStart, LoseStart, OpenClearance, PressClear, ServeClear, ReceiveClear,
           LoseClear, ChooseFilter, Review, JobMoves, LateReport, LoseFiles,
           TurnReview, viewVars, jobVars
  <2> QED BY <1>a, <2>1, JobFilterAssumption
<1>3. opening' \in BOOLEAN
  <2>1. opening' = opening \/ opening' = FALSE
    BY DEF JobsNext, OpenPage, Poll, ShowJobs, MissJobs, Confirm, CloseDialog, PressStart, RefuseStart,
           ServeStart, ReceiveStart, LoseStart, OpenClearance, PressClear, ServeClear, ReceiveClear,
           LoseClear, ChooseFilter, Review, JobMoves, LateReport, LoseFiles, TurnReview, jobVars
  <2> QED BY <1>a, <2>1
<1>4. missed' \in BOOLEAN
  <2>1. \/ missed' = missed \/ missed' = TRUE
        \/ \E i \in 1 .. MaxJobCalls : \/ missed' = (missed \/ (polled[i].late /\ ~Awaits(polled[i].jobs)))
                                       \/ missed' = (missed \/ ~Awaits(listed))
    BY DEF JobsNext, OpenPage, Poll, ShowJobs, MissJobs, Confirm, CloseDialog, PressStart, RefuseStart,
           ServeStart, ReceiveStart, LoseStart, OpenClearance, PressClear, ServeClear, ReceiveClear,
           LoseClear, ChooseFilter, Review, JobMoves, LateReport, LoseFiles, TurnReview, jobVars
  <2> QED BY <1>a, <2>1
<1>5. queueing' \in [sent : Nat, served : SUBSET CaptureJobs]
  <2>1. CASE PressStart
    BY <1>a, <2>1 DEF PressStart
  <2>2. CASE RefuseStart
    BY <1>a, <2>2 DEF RefuseStart
  <2>3. ASSUME NEW j \in CaptureJobs, ServeStart(j) \/ ReceiveStart(j) \/ LoseStart(j)
        PROVE  queueing' \in [sent : Nat, served : SUBSET CaptureJobs]
    BY <1>a, <2>3 DEF ServeStart, ReceiveStart, LoseStart
  <2>4. CASE UNCHANGED queueing
    BY <1>a, <2>4
  <2> QED
    BY <2>1, <2>2, <2>3, <2>4
       DEF JobsNext, OpenPage, Poll, ShowJobs, MissJobs, Confirm, CloseDialog, OpenClearance, PressClear,
           ServeClear, ReceiveClear, LoseClear, ChooseFilter, Review, JobMoves, LateReport, LoseFiles,
           TurnReview, commandVars, jobVars
<1>6. clearing' \in [step : {"none", "sent", "served"}, statuses : SUBSET Clearable]
  <2>1. CASE PressClear
    BY <2>1 DEF PressClear
  <2>2. CASE ServeClear
    BY <1>a, <2>2 DEF ServeClear
  <2>3. CASE clearing' = NoClearing
    BY <2>3 DEF NoClearing
  <2>4. CASE UNCHANGED clearing
    BY <1>a, <2>4
  <2> QED
    BY <2>1, <2>2, <2>3, <2>4
       DEF JobsNext, OpenPage, Poll, ShowJobs, MissJobs, Confirm, CloseDialog, PressStart, RefuseStart,
           ServeStart, ReceiveStart, LoseStart, OpenClearance, ReceiveClear, LoseClear, ChooseFilter,
           Review, JobMoves, LateReport, LoseFiles, TurnReview, commandVars, jobVars
<1>7. lost' \in SUBSET CaptureJobs /\ revised' \in SUBSET CaptureJobs
  <2>a. lost \in SUBSET CaptureJobs /\ revised \in SUBSET CaptureJobs
    BY DEF JobsTyped
  <2>1. ASSUME NEW j \in CaptureJobs, LateReport(j) \/ LoseFiles(j)
        PROVE  lost' \in SUBSET CaptureJobs /\ revised' \in SUBSET CaptureJobs
    BY <2>a, <2>1 DEF LateReport, LoseFiles
  <2>2. CASE UNCHANGED <<lost, revised>>
    BY <2>a, <2>2
  <2> QED
    BY <2>1, <2>2
       DEF JobsNext, OpenPage, Poll, ShowJobs, MissJobs, Confirm, CloseDialog, PressStart, RefuseStart,
           ServeStart, ReceiveStart, LoseStart, OpenClearance, PressClear, ServeClear, ReceiveClear,
           LoseClear, ChooseFilter, Review, JobMoves, TurnReview, jobVars, serverVars
<1> QED BY <1>1, <1>2, <1>3, <1>4, <1>5, <1>6, <1>7 DEF JobsTyped

\* Before its first question the page has asked for nothing.
OpeningInv ==
  opening =>
    /\ polled = <<>> /\ queueing = [sent |-> 0, served |-> {}] /\ clearing.step = "none"
    /\ listed = NotLoaded /\ dialog = NoDialog
    /\ \A j \in OwnJobs : jobs[j] = "none"

LEMMA OpeningStep ==
  ASSUME JobsTyped, OpeningInv, [JobsNext]_jobVars PROVE OpeningInv'
<1> SUFFICES ASSUME opening' PROVE OpeningInv'
  BY DEF OpeningInv
<1>a. /\ jobs \in [CaptureJobs -> Statuses] /\ OwnJobs \subseteq CaptureJobs
      /\ \A j \in CaptureJobs : listed[j] = "unknown" \/ ~opening
  BY OwnJobsAssumption DEF JobsTyped, OpeningInv, NotLoaded
<1>1. opening
  BY DEF JobsNext, OpenPage, Poll, ShowJobs, MissJobs, Confirm, CloseDialog, PressStart, RefuseStart,
         ServeStart, ReceiveStart, LoseStart, OpenClearance, PressClear, ServeClear, ReceiveClear,
         LoseClear, ChooseFilter, Review, JobMoves, LateReport, LoseFiles, TurnReview, jobVars
<1>2. /\ polled = <<>> /\ queueing = [sent |-> 0, served |-> {}] /\ clearing.step = "none"
      /\ listed = NotLoaded /\ dialog = NoDialog
      /\ \A j \in OwnJobs : jobs[j] = "none"
  BY <1>1 DEF OpeningInv
<1>3. /\ ~OpenPage /\ ~Poll
      /\ ~Confirm /\ ~CloseDialog /\ ~PressStart /\ ~RefuseStart
      /\ ~OpenClearance /\ ~PressClear /\ ~ServeClear /\ ~ReceiveClear /\ ~LoseClear /\ ~TurnReview
  <2>1. ~OpenPage /\ ~Poll
    <3>1. ~OpenPage
      BY <1>1 DEF OpenPage, OpeningInv
    <3>2. ~Awaits(listed)
      BY <1>1, <1>a DEF Awaits
    <3> QED BY <3>1, <3>2 DEF Poll
  <2>2. ~Confirm /\ ~CloseDialog /\ ~PressStart /\ ~RefuseStart /\ ~OpenClearance
    <3>1. ~Confirm /\ ~OpenClearance
      BY <1>2 DEF Confirm, OpenClearance, Loaded
    <3>2. ~CloseDialog
      BY <1>2 DEF CloseDialog
    <3>3. ~PressStart
      BY <1>2 DEF PressStart, NoDialog, Confirmation
    <3>4. ~RefuseStart
      <4>1. queueing.sent = 0
        BY <1>2
      <4> QED BY <4>1 DEF RefuseStart
    <3> QED BY <3>1, <3>2, <3>3, <3>4
  <2>3. ~PressClear /\ ~ServeClear /\ ~ReceiveClear /\ ~LoseClear /\ ~TurnReview
    <3>1. ~PressClear
      BY <1>2 DEF PressClear, NoDialog, Clearance
    <3>2. ~ServeClear /\ ~ReceiveClear /\ ~LoseClear
      BY <1>2 DEF ServeClear, ReceiveClear, LoseClear
    <3>3. ~TurnReview
      BY <1>2 DEF TurnReview, NoDialog
    <3> QED BY <3>1, <3>2, <3>3
  <2> QED BY <2>1, <2>2, <2>3
<1>4. /\ \A i \in 1 .. MaxJobCalls : ~ShowJobs(i) /\ ~MissJobs(i)
      /\ \A j \in CaptureJobs : ~ServeStart(j) /\ ~ReceiveStart(j) /\ ~LoseStart(j)
      /\ \A j \in CaptureJobs : ~Review(j)
      /\ \A f \in JobFilters : ~ChooseFilter(f)
  <2>1. \A i \in 1 .. MaxJobCalls : ~ShowJobs(i) /\ ~MissJobs(i)
    BY <1>2 DEF ShowJobs, MissJobs
  <2>2. \A j \in CaptureJobs : ~ServeStart(j) /\ ~ReceiveStart(j) /\ ~LoseStart(j)
    BY <1>2 DEF ServeStart, ReceiveStart, LoseStart
  <2>3. \A j \in CaptureJobs : ~Review(j)
    BY <1>1, <1>a DEF Review
  <2>4. \A f \in JobFilters : ~ChooseFilter(f)
    BY <1>2 DEF ChooseFilter, Loaded
  <2> QED BY <2>1, <2>2, <2>3, <2>4
<1>5. ASSUME NEW j \in CaptureJobs, JobMoves(j) PROVE OpeningInv'
  <2>1. UNCHANGED <<polled, queueing, clearing, listed, dialog>>
    BY <1>5 DEF JobMoves, viewVars, commandVars
  <2>2. \A k \in OwnJobs : jobs'[k] = jobs[k]
    BY <1>5, <1>a, <1>2 DEF JobMoves
  <2> QED BY <1>2, <2>1, <2>2 DEF OpeningInv
<1>6. ASSUME NEW j \in CaptureJobs, LateReport(j) \/ LoseFiles(j) PROVE OpeningInv'
  <2>1. UNCHANGED <<polled, queueing, clearing, listed, dialog>>
    BY <1>6 DEF LateReport, LoseFiles, viewVars, commandVars
  <2>2. \A k \in OwnJobs : jobs'[k] = jobs[k]
    BY <1>6, <1>a, <1>2 DEF LateReport, LoseFiles, Finished
  <2> QED BY <1>2, <2>1, <2>2 DEF OpeningInv
<1>7. CASE UNCHANGED jobVars
  BY <1>2, <1>7 DEF jobVars, serverVars, OpeningInv
<1> QED BY <1>3, <1>4, <1>5, <1>6, <1>7 DEF JobsNext

JobCallsBound == JobCalls <= MaxJobCalls

LEMMA JobCallsParts ==
  ASSUME JobsTyped
  PROVE  /\ Len(polled) \in Nat /\ queueing.sent \in Nat
         /\ IsFiniteSet(queueing.served) /\ Cardinality(queueing.served) \in Nat
         /\ \A j \in CaptureJobs :
              /\ Cardinality(queueing.served \cup {j}) <= Cardinality(queueing.served) + 1
              /\ Cardinality(queueing.served \cup {j}) \in Nat
              /\ j \in queueing.served =>
                   Cardinality(queueing.served \ {j}) = Cardinality(queueing.served) - 1
<1>1. Len(polled) \in Nat /\ queueing.sent \in Nat /\ queueing.served \subseteq CaptureJobs
  BY DEF JobsTyped
<1>2. IsFiniteSet(queueing.served)
  BY <1>1, FS_Subset, OwnJobsAssumption
<1>3. Cardinality(queueing.served) \in Nat
  BY <1>2, FS_CardinalityType
<1>4. ASSUME NEW j \in CaptureJobs
      PROVE  /\ Cardinality(queueing.served \cup {j}) <= Cardinality(queueing.served) + 1
             /\ Cardinality(queueing.served \cup {j}) \in Nat
             /\ j \in queueing.served =>
                  Cardinality(queueing.served \ {j}) = Cardinality(queueing.served) - 1
  <2>1. Cardinality(queueing.served \cup {j}) =
          IF j \in queueing.served THEN Cardinality(queueing.served) ELSE Cardinality(queueing.served) + 1
    BY <1>2, FS_AddElement
  <2>2. Cardinality(queueing.served \ {j}) =
          IF j \in queueing.served THEN Cardinality(queueing.served) - 1 ELSE Cardinality(queueing.served)
    BY <1>2, FS_RemoveElement
  <2> QED BY <1>3, <2>1, <2>2
<1> QED BY <1>1, <1>2, <1>3, <1>4


LEMMA JobCallsStep ==
  ASSUME JobsTyped, OpeningInv, JobCallsBound, [JobsNext]_jobVars PROVE JobCallsBound'
<1>p. Len(polled) \in Nat /\ queueing.sent \in Nat /\ Cardinality(queueing.served) \in Nat
  BY JobCallsParts
<1>0. PICK l, n, c \in Nat : l = Len(polled) /\ n = queueing.sent /\ c = Cardinality(queueing.served)
  BY <1>p
<1>a. PICK b \in 0 .. 1 : b = IF clearing.step = "none" THEN 0 ELSE 1
  OBVIOUS
<1>b. l + n + c + b <= MaxJobCalls /\ MaxJobCalls \in Nat \ {0} /\ JobCalls = l + n + c + b
  BY <1>0, <1>a, CallsAssumption DEF JobCallsBound, JobCalls
<1>c. /\ queueing \in [sent : Nat, served : SUBSET CaptureJobs] /\ polled \in Seq(JobPolls)
      /\ clearing \in [step : {"none", "sent", "served"}, statuses : SUBSET Clearable]
  BY DEF JobsTyped
<1>d. ASSUME Inquire PROVE Len(polled') = l + 1
  BY <1>0, <1>c, <1>d DEF Inquire
<1>1. CASE OpenPage
  <2>1. Inquire /\ opening /\ UNCHANGED <<queueing, clearing>>
    BY <1>1 DEF OpenPage, commandVars
  <2>2. polled = <<>> /\ queueing = [sent |-> 0, served |-> {}] /\ clearing.step = "none"
    BY <2>1 DEF OpeningInv
  <2>3. l = 0 /\ n = 0 /\ c = 0 /\ b = 0
    <3>1. queueing.sent = 0 /\ queueing.served = {}
      BY <2>2
    <3> QED BY <1>0, <1>a, <2>2, <3>1, FS_EmptySet
  <2> QED BY <1>0, <1>a, <1>b, <1>d, <2>1, <2>3 DEF JobCallsBound, JobCalls
<1>2. CASE Poll
  <2>1. Inquire /\ JobCalls < MaxJobCalls /\ UNCHANGED <<queueing, clearing>>
    BY <1>2 DEF Poll, commandVars
  <2> QED BY <1>0, <1>a, <1>b, <1>d, <2>1 DEF JobCallsBound, JobCalls
<1>3. ASSUME NEW i \in 1 .. MaxJobCalls, ShowJobs(i) \/ MissJobs(i) PROVE JobCallsBound'
  <2>1. i \in DOMAIN polled /\ polled' = Settled(polled, i) /\ UNCHANGED <<queueing, clearing>>
    BY <1>3 DEF ShowJobs, MissJobs, Settle, Settled, commandVars
  <2>2. Remains(polled', polled, i)
    BY <1>c, <2>1, SettledPolls
  <2>3. Len(polled') = l - 1
    BY <1>0, <2>2 DEF Remains
  <2> QED BY <1>0, <1>a, <1>b, <2>1, <2>3 DEF JobCallsBound, JobCalls
<1>4. CASE PressStart
  <2>1. /\ JobCalls < MaxJobCalls /\ queueing' = [queueing EXCEPT !.sent = @ + 1]
        /\ UNCHANGED <<polled, clearing>>
    BY <1>4 DEF PressStart
  <2>2. queueing'.sent = n + 1 /\ queueing'.served = queueing.served
    BY <1>0, <1>c, <2>1
  <2> QED BY <1>0, <1>a, <1>b, <2>1, <2>2 DEF JobCallsBound, JobCalls
<1>5. CASE RefuseStart
  <2>1. queueing' = [queueing EXCEPT !.sent = @ - 1] /\ UNCHANGED <<polled, clearing>>
    BY <1>5 DEF RefuseStart
  <2>2. queueing'.sent = n - 1 /\ queueing'.served = queueing.served
    BY <1>0, <1>c, <2>1
  <2> QED BY <1>0, <1>a, <1>b, <2>1, <2>2 DEF JobCallsBound, JobCalls
<1>6. ASSUME NEW j \in CaptureJobs, ServeStart(j) PROVE JobCallsBound'
  <2>1. /\ queueing' = [sent |-> queueing.sent - 1, served |-> queueing.served \cup {j}]
        /\ UNCHANGED <<polled, clearing>>
    BY <1>6 DEF ServeStart
  <2>2. queueing'.sent = n - 1 /\ queueing'.served = queueing.served \cup {j}
    BY <1>0, <2>1
  <2>3. Cardinality(queueing.served \cup {j}) <= c + 1 /\ Cardinality(queueing.served \cup {j}) \in Nat
    BY <1>0, JobCallsParts
  <2>4. Cardinality(queueing'.served) <= c + 1 /\ Cardinality(queueing'.served) \in Nat
    BY <2>2, <2>3
  <2> QED BY <1>0, <1>a, <1>b, <2>1, <2>2, <2>4 DEF JobCallsBound, JobCalls
<1>7. ASSUME NEW j \in CaptureJobs, ReceiveStart(j) \/ LoseStart(j) PROVE JobCallsBound'
  <2>1. /\ j \in queueing.served /\ queueing' = [queueing EXCEPT !.served = @ \ {j}]
        /\ UNCHANGED clearing /\ (Inquire \/ UNCHANGED polled)
    BY <1>7 DEF ReceiveStart, LoseStart
  <2>2. queueing'.sent = n /\ queueing'.served = queueing.served \ {j}
    BY <1>0, <1>c, <2>1
  <2>3. Cardinality(queueing.served \ {j}) = c - 1
    BY <1>0, <2>1, JobCallsParts
  <2>4. Cardinality(queueing'.served) = c - 1
    BY <2>2, <2>3
  <2>5. Len(polled') = l + 1 \/ Len(polled') = l
    BY <1>0, <1>d, <2>1
  <2> QED BY <1>0, <1>a, <1>b, <2>1, <2>2, <2>4, <2>5 DEF JobCallsBound, JobCalls
<1>8. CASE PressClear
  <2>1. /\ JobCalls < MaxJobCalls /\ clearing.step = "none" /\ UNCHANGED <<polled, queueing>>
    BY <1>8 DEF PressClear
  <2>2. PICK d \in 0 .. 1 : d = IF clearing'.step = "none" THEN 0 ELSE 1
    OBVIOUS
  <2> QED BY <1>0, <1>a, <1>b, <2>1, <2>2 DEF JobCallsBound, JobCalls
<1>9. CASE ServeClear
  <2>1. clearing.step = "sent" /\ clearing'.step = "served" /\ UNCHANGED <<polled, queueing>>
    BY <1>9, <1>c DEF ServeClear
  <2> QED BY <1>0, <1>a, <1>b, <2>1 DEF JobCallsBound, JobCalls
<1>10. CASE ReceiveClear \/ LoseClear
  <2>1. clearing.step # "none" /\ clearing'.step = "none" /\ UNCHANGED queueing
        /\ (Inquire \/ UNCHANGED polled)
    BY <1>10 DEF ReceiveClear, LoseClear, NoClearing
  <2>2. Len(polled') = l + 1 \/ Len(polled') = l
    BY <1>0, <1>d, <2>1
  <2> QED BY <1>0, <1>a, <1>b, <2>1, <2>2 DEF JobCallsBound, JobCalls
<1>11. CASE UNCHANGED <<polled, queueing, clearing>>
  BY <1>11 DEF JobCallsBound, JobCalls
<1>12. CASE Confirm \/ CloseDialog \/ OpenClearance \/ TurnReview
  BY <1>11, <1>12 DEF Confirm, CloseDialog, OpenClearance, TurnReview, commandVars
<1>13. ASSUME NEW j \in CaptureJobs, Review(j) \/ JobMoves(j) \/ LateReport(j) \/ LoseFiles(j)
       PROVE  JobCallsBound'
  BY <1>11, <1>13 DEF Review, JobMoves, LateReport, LoseFiles, commandVars
<1>14. ASSUME NEW f \in JobFilters, ChooseFilter(f) PROVE JobCallsBound'
  BY <1>11, <1>14 DEF ChooseFilter, commandVars
<1>15. CASE UNCHANGED jobVars
  BY <1>11, <1>15 DEF jobVars
<1> QED
  BY <1>1, <1>2, <1>3, <1>4, <1>5, <1>6, <1>7, <1>8, <1>9, <1>10, <1>12, <1>13, <1>14, <1>15
     DEF JobsNext

\* The capture under review is completed, at one of its pages, or a late report
\* has ended it anew.
Kept(j) == jobs[j] = "completed" \/ j \in revised
DialogInv ==
  \/ dialog \in {NoDialog, Confirmation, Clearance}
  \/ \E j \in CaptureJobs : \E p \in 1 .. Shots[j] : dialog = ReviewOf(j, p) /\ Kept(j)

LEMMA DialogStep ==
  ASSUME JobsTyped, KnownInv, DialogInv, [JobsNext]_jobVars PROVE DialogInv'
<1>a. \A j \in CaptureJobs : Shots[j] \in Nat \ {0}
  BY ShotsAssumption
<1>b. \A j \in CaptureJobs : Kept(j) => Kept(j)'
  <2>1. CASE UNCHANGED <<jobs, revised>>
    BY <2>1 DEF Kept
  <2>2. CASE ServesJobs
    BY <2>2 DEF ServesJobs, Proceeds, Onward, Kept
  <2> QED BY <2>1, <2>2, JobsForms DEF AsksJobs, SettlesJobs
<1>1. CASE UNCHANGED dialog
  BY <1>1, <1>b DEF DialogInv
<1>2. CASE dialog' \in {NoDialog, Confirmation, Clearance}
  BY <1>2 DEF DialogInv
<1>3. ASSUME NEW j \in CaptureJobs, Review(j) PROVE DialogInv'
  <2>1. listed[j] = "completed" /\ dialog' = ReviewOf(j, 1)
    BY <1>3 DEF Review
  <2>2. Kept(j)'
    BY <1>b, <2>1 DEF KnownInv, Snapshot, Kept
  <2>3. 1 \in 1 .. Shots[j]
    BY <1>a
  <2> QED BY <2>1, <2>2, <2>3 DEF DialogInv
<1>4. CASE TurnReview
  <2>1. dialog.is = "review"
    BY <1>4 DEF TurnReview
  <2>2. PICK j \in CaptureJobs : \E p \in 1 .. Shots[j] : dialog = ReviewOf(j, p) /\ Kept(j)
    BY <2>1 DEF DialogInv, NoDialog, Confirmation, Clearance
  <2>3. PICK p \in 1 .. Shots[j] : dialog = ReviewOf(j, p) /\ Kept(j)
    BY <2>2
  <2>4. dialog.page = p /\ dialog.job = j /\ \A q : [dialog EXCEPT !.page = q] = ReviewOf(j, q)
    BY <2>3 DEF ReviewOf
  <2>5. PICK q \in 1 .. Shots[j] : dialog' = [dialog EXCEPT !.page = q]
    <3>1. CASE dialog.page > 1 /\ dialog' = [dialog EXCEPT !.page = @ - 1]
      <4>1. p - 1 \in 1 .. Shots[j] /\ dialog' = [dialog EXCEPT !.page = p - 1]
        BY <1>a, <2>3, <2>4, <3>1
      <4> QED BY <4>1
    <3>2. CASE dialog.page < Shots[dialog.job] /\ dialog' = [dialog EXCEPT !.page = @ + 1]
      <4>1. p + 1 \in 1 .. Shots[j] /\ dialog' = [dialog EXCEPT !.page = p + 1]
        BY <1>a, <2>3, <2>4, <3>2
      <4> QED BY <4>1
    <3> QED BY <1>4, <3>1, <3>2 DEF TurnReview
  <2>6. dialog' = ReviewOf(j, q) /\ Kept(j)'
    BY <1>b, <2>3, <2>4, <2>5
  <2> QED BY <2>6 DEF DialogInv
<1>5. CASE UNCHANGED jobVars
  BY <1>1, <1>5 DEF jobVars
<1>6. ASSUME NEW j \in CaptureJobs,
             \/ ServeStart(j) \/ ReceiveStart(j) \/ LoseStart(j)
             \/ JobMoves(j) \/ LateReport(j) \/ LoseFiles(j)
      PROVE  DialogInv'
  <2>1. CASE UNCHANGED dialog
    BY <1>1, <2>1
  <2>2. CASE dialog' = IF dialog = Confirmation THEN NoDialog ELSE dialog
    BY <1>1, <1>2, <2>2
  <2> QED BY <1>6, <2>1, <2>2 DEF ServeStart, ReceiveStart, LoseStart, JobMoves, LateReport, LoseFiles, viewVars
<1>7. CASE PressClear \/ ServeClear \/ ReceiveClear \/ LoseClear
  BY <1>1, <1>2, <1>7 DEF PressClear, ServeClear, ReceiveClear, LoseClear, viewVars
<1>8. CASE Confirm \/ CloseDialog \/ OpenClearance
  BY <1>2, <1>8 DEF Confirm, CloseDialog, OpenClearance
<1>9. ASSUME NEW i \in 1 .. MaxJobCalls, ShowJobs(i) \/ MissJobs(i) PROVE DialogInv'
  BY <1>1, <1>9 DEF ShowJobs, MissJobs, viewVars
<1>10. CASE OpenPage \/ Poll \/ PressStart \/ RefuseStart \/ \E f \in JobFilters : ChooseFilter(f)
  BY <1>1, <1>10 DEF OpenPage, Poll, PressStart, RefuseStart, ChooseFilter, viewVars
<1> QED BY <1>3, <1>4, <1>5, <1>6, <1>7, <1>8, <1>9, <1>10 DEF JobsNext


\* A capture started here that the server has: it will be found by a question that
\* nothing has overtaken, or else it is shown, or the page goes on asking.
Found(j) == \E i \in DOMAIN polled : ~polled[i].late /\ polled[i].jobs[j] # "none"
Followed(j) ==
  /\ \A i \in DOMAIN polled : polled[i].jobs[j] = "none" => polled[i].late
  /\ listed[j] \notin {"none", "unknown"} \/ Awaits(listed)
Started(j) == Live(jobs[j]) /\ j \notin queueing.served

FollowInv ==
  ~missed =>
    /\ opening \/ polled # <<>> \/ \A j \in CaptureJobs : listed[j] # "unknown"
    /\ \A j \in OwnJobs : Started(j) => Found(j) \/ Followed(j)

LEMMA FollowStep ==
  ASSUME JobsTyped, KnownInv, FollowInv, [JobsNext]_jobVars PROVE FollowInv'
<1>a. /\ polled \in Seq(JobPolls) /\ Len(polled) \in Nat /\ DOMAIN polled = 1 .. Len(polled)
      /\ OwnJobs \subseteq CaptureJobs
  BY OwnJobsAssumption DEF JobsTyped
<1>b. \A i \in DOMAIN polled : polled[i].jobs \in [CaptureJobs -> Statuses] /\ polled[i].late \in BOOLEAN
  <2>1. \A i \in DOMAIN polled : polled[i] \in JobPolls
    BY <1>a
  <2> QED BY <2>1 DEF JobPolls
<1>c. \A s \in Statuses : s # "unknown"
  BY DEF Statuses, Finished
<1> SUFFICES ASSUME ~missed' PROVE FollowInv'
  BY DEF FollowInv
<1>1. CASE AsksJobs
  <2>1. polled' = Append(polled, Taken) /\ UNCHANGED jobs
    BY <1>1 DEF AsksJobs
  <2>2. PICK q \in JobPolls :
          /\ q = Taken /\ ~q.late
          /\ \A j \in CaptureJobs : q.jobs[j] = IF jobs[j] = "cleared" THEN "none" ELSE jobs[j]
    BY TakenFacts
  <2>3. polled'[Len(polled) + 1] = q /\ Len(polled) + 1 \in DOMAIN polled' /\ polled' # <<>>
    BY <1>a, <2>1, <2>2
  <2>4. ASSUME NEW j \in OwnJobs, Started(j)' PROVE Found(j)'
    <3>1. jobs[j] \notin {"none", "cleared"}
      BY <2>1, <2>4 DEF Started, Live
    <3>2. q.jobs[j] # "none" /\ ~q.late
      BY <1>a, <2>2, <3>1
    <3> QED BY <2>3, <3>2 DEF Found
  <2> QED BY <2>3, <2>4 DEF FollowInv
<1>2. ASSUME NEW i \in 1 .. MaxJobCalls, SettlesJobs(i) PROVE FollowInv'
  <2>1. /\ i \in DOMAIN polled /\ polled' = Settled(polled, i) /\ UNCHANGED <<jobs, opening, queueing>>
        /\ ~missed
        /\ \/ listed' = polled[i].jobs /\ (polled[i].late => Awaits(listed'))
           \/ listed' = listed /\ Awaits(listed')
    BY <1>2 DEF SettlesJobs
  <2>2. Remains(polled', polled, i)
    BY <1>a, <2>1, SettledPolls
  <2>3. \A k \in DOMAIN polled' : /\ Place(k, i) \in DOMAIN polled /\ Place(k, i) # i
                                  /\ polled'[k].jobs = polled[Place(k, i)].jobs
                                  /\ polled'[k].late <=> polled[Place(k, i)].late \/ Place(k, i) < i
    BY <2>2 DEF Remains
  <2>4. ASSUME NEW j \in CaptureJobs PROVE listed'[j] # "unknown"
    <3>1. CASE listed' = polled[i].jobs
      BY <1>b, <1>c, <2>1, <3>1
    <3>2. CASE listed' = listed /\ Awaits(listed')
      <4>1. listed # NotLoaded
        BY <3>2 DEF Awaits, NotLoaded
      <4>2. listed[j] \in Statuses
        BY <4>1 DEF JobsTyped
      <4> QED BY <1>c, <3>2, <4>2
    <3> QED BY <2>1, <3>1, <3>2
  <2>5. ASSUME NEW j \in OwnJobs, Started(j)' PROVE Found(j)' \/ Followed(j)'
    <3>1. Started(j) /\ jobs[j] # "cleared" /\ j \in CaptureJobs
      BY <1>a, <2>1, <2>5 DEF Started, Live
    <3>2. Found(j) \/ Followed(j)
      BY <2>1, <3>1 DEF FollowInv
    <3>3. \A m, n \in DOMAIN polled : m < n /\ polled[m].jobs[j] # "none" => polled[n].jobs[j] # "none"
      BY <3>1 DEF KnownInv, InOrder
    <3>4. ASSUME NEW m \in DOMAIN polled, m > i, ~polled[m].late, polled[m].jobs[j] # "none"
          PROVE  Found(j)'
      <4>1. PICK k \in DOMAIN polled' : Place(k, i) = m
        BY <2>2, <3>4, <1>a, <2>1 DEF Remains
      <4>2. polled'[k].jobs = polled[m].jobs
        BY <2>3, <4>1
      <4>3. ~(m < i)
        BY <1>a, <2>1, <3>4
      <4>4. ~polled'[k].late
        BY <2>3, <3>4, <4>1, <4>3
      <4> QED BY <3>4, <4>2, <4>4 DEF Found
    <3>5. ASSUME \A m \in DOMAIN polled : m # i /\ polled[m].jobs[j] = "none" => polled[m].late \/ m < i
          PROVE  \A k \in DOMAIN polled' : polled'[k].jobs[j] = "none" => polled'[k].late
      BY <2>3, <3>5
    <3>6. ASSUME NEW n \in DOMAIN polled, n <= i, polled[n].jobs[j] # "none"
          PROVE  \A m \in DOMAIN polled : m # i /\ polled[m].jobs[j] = "none" => polled[m].late \/ m < i
      <4> SUFFICES ASSUME NEW m \in DOMAIN polled, m # i, polled[m].jobs[j] = "none" PROVE m < i
        OBVIOUS
      <4>1. ~(n < m)
        BY <3>3, <3>6
      <4> QED BY <1>a, <2>1, <3>6, <4>1
    <3>7. CASE listed' = polled[i].jobs /\ polled[i].jobs[j] # "none"
      <4>1. listed'[j] \notin {"none", "unknown"}
        BY <2>4, <3>1, <3>7
      <4>2. i \in Int
        BY <1>a, <2>1
      <4>3. i <= i
        BY <4>2
      <4>4. \A k \in DOMAIN polled' : polled'[k].jobs[j] = "none" => polled'[k].late
        BY <2>1, <3>5, <3>6, <3>7, <4>3
      <4> QED BY <4>1, <4>4 DEF Followed
    <3>8. CASE /\ listed' = polled[i].jobs /\ polled[i].jobs[j] = "none"
               /\ polled[i].late => Awaits(listed')
      <4>1. CASE Found(j)
        <5>1. PICK m \in DOMAIN polled : ~polled[m].late /\ polled[m].jobs[j] # "none"
          BY <4>1 DEF Found
        <5>2. m # i /\ ~(m < i)
          BY <2>1, <3>3, <3>8, <5>1
        <5>3. m > i
          BY <1>a, <2>1, <5>2
        <5> QED BY <3>4, <5>1, <5>3
      <4>2. CASE Followed(j)
        <5>1. \A m \in DOMAIN polled : polled[m].jobs[j] = "none" => polled[m].late
          BY <4>2 DEF Followed
        <5>2. Awaits(listed')
          BY <2>1, <3>8, <5>1
        <5>3. \A k \in DOMAIN polled' : polled'[k].jobs[j] = "none" => polled'[k].late
          BY <3>5, <5>1
        <5> QED BY <5>2, <5>3 DEF Followed, Awaits
      <4> QED BY <3>2, <4>1, <4>2
    <3>9. CASE listed' = listed /\ Awaits(listed')
      <4>1. CASE Found(j)
        <5>1. PICK m \in DOMAIN polled : ~polled[m].late /\ polled[m].jobs[j] # "none"
          BY <4>1 DEF Found
        <5>2. CASE m > i
          BY <3>4, <5>1, <5>2
        <5>3. CASE m <= i
          <6>1. \A k \in DOMAIN polled' : polled'[k].jobs[j] = "none" => polled'[k].late
            BY <3>5, <3>6, <5>1, <5>3
          <6> QED BY <3>9, <6>1 DEF Followed, Awaits
        <5> QED BY <1>a, <2>1, <5>2, <5>3
      <4>2. CASE Followed(j)
        <5>1. \A m \in DOMAIN polled : polled[m].jobs[j] = "none" => polled[m].late
          BY <4>2 DEF Followed
        <5>2. \A k \in DOMAIN polled' : polled'[k].jobs[j] = "none" => polled'[k].late
          BY <3>5, <5>1
        <5> QED BY <3>9, <5>2 DEF Followed, Awaits
      <4> QED BY <3>2, <4>1, <4>2
    <3> QED BY <2>1, <3>7, <3>8, <3>9
  <2> QED BY <2>4, <2>5 DEF FollowInv
<1>3. CASE ServesJobs
  <2>1. /\ UNCHANGED <<listed, polled, opening>> /\ ~missed
        /\ \A j \in OwnJobs : Live(jobs'[j]) /\ j \notin queueing'.served =>
             Live(jobs[j]) /\ j \notin queueing.served
    BY <1>3 DEF ServesJobs
  <2>2. opening' \/ polled' # <<>> \/ \A j \in CaptureJobs : listed'[j] # "unknown"
    BY <2>1 DEF FollowInv
  <2>3. ASSUME NEW j \in OwnJobs, Started(j)' PROVE Found(j)' \/ Followed(j)'
    <3>1. Started(j)
      BY <2>1, <2>3 DEF Started, Live
    <3>2. Found(j) \/ Followed(j)
      BY <2>1, <3>1 DEF FollowInv
    <3> QED BY <2>1, <3>2 DEF Found, Followed, Awaits
  <2> QED BY <2>2, <2>3 DEF FollowInv
<1> QED BY <1>1, <1>2, <1>3, JobsForms


JobsInv == JobsTyped /\ JobCallsBound /\ OpeningInv /\ KnownInv /\ DialogInv /\ FollowInv

LEMMA JobsInitially == JobsInit => JobsInv
<1> SUFFICES ASSUME JobsInit PROVE JobsInv
  OBVIOUS
<1>1. /\ jobs = [j \in CaptureJobs |-> "none"] /\ listed = NotLoaded /\ opening = TRUE
      /\ polled = <<>> /\ dialog = NoDialog /\ jobFilter = "all"
      /\ queueing = [sent |-> 0, served |-> {}] /\ clearing = NoClearing /\ missed = FALSE
      /\ lost = {} /\ revised = {}
  BY DEF JobsInit
<1>2. \A j \in CaptureJobs : listed[j] = "unknown" /\ jobs[j] = "none"
  BY <1>1 DEF NotLoaded
<1>3. JobsTyped
  <2>1. jobs \in [CaptureJobs -> Statuses]
    BY <1>1 DEF Statuses
  <2>2. jobFilter \in JobFilters
    BY <1>1, JobFilterAssumption
  <2>3. polled \in Seq(JobPolls)
    BY <1>1
  <2>4. queueing \in [sent : Nat, served : SUBSET CaptureJobs]
    BY <1>1
  <2>5. clearing \in [step : {"none", "sent", "served"}, statuses : SUBSET Clearable]
    BY <1>1 DEF NoClearing
  <2> QED BY <1>1, <2>1, <2>2, <2>3, <2>4, <2>5 DEF JobsTyped
<1>4. JobCallsBound
  <2>1. queueing.sent = 0 /\ queueing.served = {} /\ clearing.step = "none" /\ Len(polled) = 0
    BY <1>1 DEF NoClearing
  <2>2. Cardinality(queueing.served) = 0
    BY <2>1, FS_EmptySet
  <2> QED BY <2>1, <2>2, CallsAssumption DEF JobCallsBound, JobCalls
<1>5. OpeningInv
  BY <1>1, <1>2, OwnJobsAssumption DEF OpeningInv, NoClearing
<1>6. KnownInv
  BY <1>1, <1>2 DEF KnownInv, Snapshot, InOrder
<1>7. DialogInv
  BY <1>1 DEF DialogInv
<1>8. FollowInv
  <2>1. \A j \in OwnJobs : ~Started(j)
    BY <1>2, OwnJobsAssumption DEF Started, Live
  <2> QED BY <1>1, <2>1 DEF FollowInv
<1> QED BY <1>3, <1>4, <1>5, <1>6, <1>7, <1>8 DEF JobsInv

LEMMA JobsStep == ASSUME JobsInv, [JobsNext]_jobVars PROVE JobsInv'
<1>1. JobsTyped /\ JobCallsBound /\ OpeningInv /\ KnownInv /\ DialogInv /\ FollowInv
  BY DEF JobsInv
<1>2. JobsTyped' /\ OpeningInv'
  BY <1>1, JobsTypedStep, OpeningStep
<1>3. JobCallsBound'
  BY <1>1, JobCallsStep
<1>4. KnownInv' /\ DialogInv'
  BY <1>1, KnownStep, DialogStep
<1>5. FollowInv'
  BY <1>1, FollowStep
<1> QED BY <1>2, <1>3, <1>4, <1>5 DEF JobsInv

LEMMA JobsTypes == JobsInv => JobsTypeOK
<1> SUFFICES ASSUME JobsInv PROVE JobsTypeOK
  OBVIOUS
<1>1. JobsTyped /\ JobCallsBound /\ DialogInv
  BY DEF JobsInv
<1>2. \A i \in DOMAIN polled : polled[i].jobs \in [CaptureJobs -> Statuses] /\ polled[i].late \in BOOLEAN
  <2>1. \A i \in DOMAIN polled : polled[i] \in JobPolls
    BY <1>1 DEF JobsTyped
  <2> QED BY <2>1 DEF JobPolls
<1>3. Len(polled) <= MaxJobCalls /\ queueing.sent \in 0 .. MaxJobCalls
  <2>1. PICK c \in Nat : c = Cardinality(queueing.served)
    BY <1>1, JobCallsParts
  <2>2. PICK b \in 0 .. 1 : b = IF clearing.step = "none" THEN 0 ELSE 1
    OBVIOUS
  <2>3. Len(polled) + queueing.sent + c + b <= MaxJobCalls
    BY <1>1, <2>1, <2>2 DEF JobCallsBound, JobCalls
  <2>4. Len(polled) \in Nat /\ queueing.sent \in Nat
    BY <1>1, JobCallsParts
  <2> QED BY <2>3, <2>4, CallsAssumption
<1>4. \/ dialog \in {NoDialog, Confirmation, Clearance}
      \/ dialog.is = "review" /\ dialog.job \in CaptureJobs /\ dialog.page \in Nat \ {0}
  BY <1>1, ShotsAssumption DEF DialogInv, ReviewOf
<1>5. queueing.served \subseteq CaptureJobs
  BY <1>1 DEF JobsTyped
<1> QED BY <1>1, <1>2, <1>3, <1>4, <1>5 DEF JobsTypeOK, JobsTyped

LEMMA JobsReviewed == JobsInv => ReviewedShotExists
<1> SUFFICES ASSUME JobsInv, dialog.is = "review", dialog.job \notin lost \cup revised
             PROVE  Served(dialog.job, dialog.page)
  BY DEF ReviewedShotExists
<1>1. DialogInv
  BY DEF JobsInv
<1>2. PICK j \in CaptureJobs : \E p \in 1 .. Shots[j] : dialog = ReviewOf(j, p) /\ Kept(j)
  BY <1>1 DEF DialogInv, NoDialog, Confirmation, Clearance
<1>3. PICK p \in 1 .. Shots[j] : dialog = ReviewOf(j, p) /\ Kept(j)
  BY <1>2
<1>4. dialog.job = j /\ dialog.page = p
  BY <1>3 DEF ReviewOf
<1> QED BY <1>3, <1>4 DEF Served, Kept

LEMMA JobsFollowed == JobsInv => OwnCapturesAreFollowed
<1> SUFFICES ASSUME JobsInv, ~missed, ~opening, JobCalls = 0, ~Awaits(listed),
                    NEW j \in OwnJobs, jobs[j] # "cleared"
             PROVE  listed[j] = jobs[j] \/ (j \in revised /\ listed[j] \in Finished)
  BY DEF OwnCapturesAreFollowed
<1>0. JobsTyped /\ KnownInv /\ FollowInv /\ j \in CaptureJobs
  BY OwnJobsAssumption DEF JobsInv
<1>1. polled = <<>> /\ queueing.served = {}
  <2>1. PICK n, c \in Nat : n = queueing.sent /\ c = Cardinality(queueing.served)
    BY <1>0, JobCallsParts
  <2>2. PICK b \in 0 .. 1 : b = IF clearing.step = "none" THEN 0 ELSE 1
    OBVIOUS
  <2>3. Len(polled) + n + c + b = 0 /\ Len(polled) \in Nat
    BY <1>0, <2>1, <2>2, JobCallsParts DEF JobCalls
  <2>4. Len(polled) = 0 /\ Cardinality(queueing.served) = 0
    BY <2>1, <2>3
  <2>5. polled = <<>>
    BY <1>0, <2>4 DEF JobsTyped
  <2>6. queueing.served = {}
    BY <1>0, <2>4, JobCallsParts, FS_EmptySet
  <2> QED BY <2>5, <2>6
<1>2. listed[j] \in Statuses \ {"cleared", "queued", "running"}
  <2>1. listed[j] # "unknown"
    BY <1>0, <1>1 DEF FollowInv
  <2>2. listed[j] \in Statuses
    BY <1>0, <2>1 DEF JobsTyped, NotLoaded
  <2>3. listed[j] # "cleared" /\ listed[j] \notin {"queued", "running"}
    BY <1>0 DEF KnownInv, Snapshot, Awaits
  <2> QED BY <2>2, <2>3
<1>3. CASE jobs[j] = "none"
  <2>1. listed[j] \in {"none", "unknown"}
    BY <1>0, <1>3 DEF KnownInv, Snapshot
  <2> QED BY <1>2, <1>3, <2>1 DEF Statuses, Finished
<1>4. CASE jobs[j] # "none"
  <2>1. Started(j)
    BY <1>1, <1>4 DEF Started, Live
  <2>2. ~Found(j)
    BY <1>1 DEF Found
  <2>3. listed[j] \notin {"none", "unknown"}
    BY <1>0, <2>1, <2>2 DEF FollowInv, Followed
  <2>4. listed[j] \in {"completed", "failed"}
    BY <1>2, <2>3 DEF Statuses, Finished
  <2> QED BY <1>0, <2>4 DEF KnownInv, Snapshot, Finished
<1> QED BY <1>3, <1>4


-----------------------------------------------------------------------------
(* The console. *)

ConsoleInv ==
  /\ part \in Parts
  /\ FrameTypeOK /\ TasksInv /\ SitesInv /\ JobsInv
  /\ SettingsInv /\ ResearchInv /\ ProfilesInv

LEMMA ConsoleInitially == ConsoleInit => ConsoleInv
BY FrameInitially, TasksInitially, SitesInitially, JobsInitially, SettingsInitially,
   ResearchInitially, ProfilesInitially
   DEF ConsoleInit, ConsoleInv

LEMMA ConsoleStep ==
  ASSUME ConsoleInv, [ConsoleNext]_consoleVars PROVE ConsoleInv'
<1>1. /\ [FrameNext]_frameVars /\ [TasksNext]_taskVars /\ [SitesNext]_siteVars
      /\ [JobsNext]_jobVars /\ [SettingsNext]_settingVars
      /\ [ResearchNext]_researchVars /\ [ProfilesNext]_profileVars
  BY PartsStep
<1>2. UNCHANGED part
  BY DEF ConsoleNext, UseFrame, UseTasks, UseSites, UseJobs, UseSettings, UseResearch,
         UseProfiles, consoleVars
<1>3. FrameTypeOK'
  BY <1>1, FrameStep DEF ConsoleInv
<1>4. TasksInv'
  BY <1>1, TasksStep DEF ConsoleInv
<1>5. SitesInv'
  BY <1>1, SitesStep DEF ConsoleInv
<1>6. JobsInv'
  BY <1>1, JobsStep DEF ConsoleInv
<1>7. SettingsInv'
  BY <1>1, SettingsStep DEF ConsoleInv
<1>8. ResearchInv'
  BY <1>1, ResearchStep DEF ConsoleInv
<1>9. ProfilesInv'
  BY <1>1, ProfilesStep DEF ConsoleInv
<1> QED BY <1>2, <1>3, <1>4, <1>5, <1>6, <1>7, <1>8, <1>9 DEF ConsoleInv

\* What is known of every page of the console, whatever part of it is in use:
\* the conjunction of the invariants of its pages, each kept by every step.
THEOREM ConsoleInvariant == ConsoleSpec => []ConsoleInv
BY ConsoleInitially, ConsoleStep, PTL DEF ConsoleSpec

\* The state of the frame and of every page keeps its type, and every count of
\* calls stays in its bound (App, BackgroundTasksPage, DirectSitesPage, SettingsPage,
\* ActivityDetailPage and ActorProfilesPage, App.tsx).
THEOREM ConsoleTypeCorrect == ConsoleSpec => []ConsoleTypeOK
<1>1. ASSUME ConsoleInv PROVE ConsoleTypeOK
  <2>1. TasksTypeOK /\ SettingsTypeOK
    BY <1>1 DEF ConsoleInv, TasksInv, SettingsInv
  <2>2. SitesTypeOK /\ JobsTypeOK /\ ResearchTypeOK /\ ProfilesTypeOK
    BY <1>1, SitesTypes, JobsTypes, ResearchTypes, ProfilesTypes DEF ConsoleInv
  <2> QED BY <1>1, <2>1, <2>2 DEF ConsoleInv, ConsoleTypeOK
<1> QED BY <1>1, ConsoleInvariant, PTL

\* Once nothing is under way the sites, the claims and the profile shown are
\* those the controls ask for, and the captures started here are shown as they
\* ended, unless a call was lost or overtaken, or an end written anew, in one of the
\* ways the properties name (the effects of the four pages, App.tsx).
THEOREM AnswersCorrect == ConsoleSpec => []AnswersMatchQuestions
<1>1. ASSUME ConsoleInv PROVE AnswersMatchQuestions
  <2>1. ASSUME ~tangle.searches, ~search.armed, answers = <<>> PROVE data.of = search.of
    <3>1. SearchInv
      BY <1>1 DEF ConsoleInv, SitesInv
    <3>2. ~Awaited(answers)
      BY <2>1 DEF Awaited
    <3> QED BY <2>1, <3>1, <3>2 DEF SearchInv
  <2>2. ASSUME ~mishaps.crossed, ~asked.armed, questions = <<>>
        PROVE  shown.filter = asked.filter /\ shown.page = asked.page
    <3>1. AskedInv
      BY <1>1 DEF ConsoleInv, ResearchInv, AskInv
    <3>2. ~Awaited(questions)
      BY <2>2 DEF Awaited
    <3> QED BY <2>2, <3>1, <3>2 DEF AskedInv
  <2>3. ASSUME ~odd.rechosen, ~odd.crossed, ~odd.failed, fetches = <<>>, index # {}
        PROVE  profile = actor
    <3>1. ChoiceInv /\ NothingOdd
      BY <1>1, <2>3 DEF ConsoleInv, ProfilesInv, NothingOdd
    <3>2. ~Awaited(fetches)
      BY <2>3 DEF Awaited
    <3> QED BY <2>3, <3>1, <3>2 DEF ChoiceInv
  <2>4. OwnCapturesAreFollowed
    BY <1>1, JobsFollowed DEF ConsoleInv
  <2> QED BY <2>1, <2>2, <2>3, <2>4
          DEF AnswersMatchQuestions, SearchIsAnswered, ClaimsAreThoseAskedFor, ChoiceIsShown
<1> QED BY <1>1, ConsoleInvariant, PTL

\* The count of the allowlist is that of the allowed sites in the list, however
\* many presses and answers come before, until another call on the site crosses
\* a press (toggle of DirectSitesPage, App.tsx).
THEOREM CountCorrect == ConsoleSpec => []CountIsRight
<1>1. ConsoleInv => CountIsRight
  BY DEF ConsoleInv, SitesInv, CountInv, CountIsRight
<1> QED BY <1>1, ConsoleInvariant, PTL

\* No save brings back an earlier choice, unless its page was behind the server
\* or two saves crossed (the two pages that save the runtime settings, App.tsx).
THEOREM ChoicesCorrect == ConsoleSpec => []ChoicesAreNotReverted
<1>1. ConsoleInv => ChoicesAreNotReverted
  BY DEF ConsoleInv, SettingsInv, SavesInOrder, ChoicesAreNotReverted
<1> QED BY <1>1, ConsoleInvariant, PTL

\* Whatever the archive, the jobs and the screenshots, the console asks neither
\* for a page of the claims that the server does not have, unless Next was pressed
\* before a new filter was answered, nor for a screenshot it does not have, unless a
\* late report or a worker's clean-up took the evidence away
\* (ActivityDetailPage and the review of DirectSitesPage, App.tsx).
THEOREM PagesCorrect == ConsoleSpec => []PageAskedForExists
<1>1. ConsoleInv => PageAskedForExists
  BY JobsReviewed DEF ConsoleInv, ResearchInv, AskInv, PageAskedForExists
<1> QED BY <1>1, ConsoleInvariant, PTL

\* Whatever the size of a batch, no claim is queued for research more often than
\* it was chosen, as long as no batch failed (queueBulk, App.tsx).
THEOREM ResearchCorrect == ConsoleSpec => []ResearchedAsOftenAsChosen
<1>1. ASSUME ConsoleInv, ~mishaps.broken, NEW c \in Claims PROVE researched[c] <= wishes[c]
  <2>1. RunTyped /\ Paid(c)
    BY <1>1 DEF ConsoleInv, ResearchInv, RunInv
  <2>2. researched[c] \in Nat /\ wishes[c] \in Nat
    BY <2>1 DEF RunTyped
  <2>3. One(c \in Outstanding) \in 0 .. 1 /\ One(c \in Selected) \in 0 .. 1
    BY DEF One
  <2> QED BY <2>1, <2>2, <2>3 DEF Paid
<1>2. ConsoleInv => ResearchedAsOftenAsChosen
  BY <1>1 DEF ResearchedAsOftenAsChosen
<1> QED BY <1>2, ConsoleInvariant, PTL

\* The history of the AI tasks never shows an answer to anything but what its
\* controls ask for by then: the effect that is not the current one any more
\* drops what it receives (BackgroundTasksPage, App.tsx).
THEOREM HistoryCorrect == ConsoleSpec => OnlyCurrentAnswers
<1>1. ASSUME ConsoleInv, [ConsoleNext]_consoleVars
      PROVE  [tasks' # tasks => tasks'.filter = wanted.filter /\ tasks'.page = wanted.page]_taskVars
  <2>1. TasksInv /\ [TasksNext]_taskVars
    BY <1>1, PartsStep DEF ConsoleInv
  <2> QED BY <2>1, TasksShown
<1> QED BY <1>1, ConsoleInvariant, PTL DEF ConsoleSpec, OnlyCurrentAnswers

=============================================================================
