------------------------------ MODULE WebTasks ------------------------------
(***************************************************************************)
(* The history of the AI tasks: BackgroundTasksPage with its filters and   *)
(* its pages (App.tsx).                                                    *)
(*                                                                         *)
(* Every change of the filters or of the page ends one effect and starts   *)
(* another: a load after 180 ms, and one every 5 seconds.  The answers to  *)
(* the loads of an effect that has ended are dropped.  A load is the       *)
(* number of pages the server found for it, until the page applies it.     *)
(***************************************************************************)
EXTENDS Naturals

CONSTANTS
  Filters,    \* combinations of status, type and query; AllTasks among them
  MaxPages,   \* bound: pages of a history
  MaxClicks,  \* bound: changes of the filters and of the page
  MaxGrowth   \* bound: times the server's number of pages changes

AllTasks == ""   \* no filter

ASSUME TasksAssumption ==
  /\ AllTasks \in Filters
  /\ MaxPages \in Nat \ {0} /\ MaxClicks \in Nat /\ MaxGrowth \in Nat

VARIABLES
  stock,      \* server: how many pages each filter has
  wanted,     \* the filters and the page: the effect's dependencies
  tasks,      \* history: the answer shown
  loads,      \* an answer for this effect, and one for an effect that has ended
  spent       \* clicks and changes of the stock so far

taskVars == <<stock, wanted, tasks, loads, spent>>

Sizes == 1 .. MaxPages
Dependencies == [filter : Filters, page : 1 .. MaxPages + MaxClicks]
NoAnswer == [filter |-> AllTasks, page |-> 1, pages |-> 0]

TasksTypeOK ==
  /\ stock \in [Filters -> Sizes]
  /\ wanted \in Dependencies
  /\ tasks \in [filter : Filters, page : 1 .. MaxPages + MaxClicks, pages : 0 .. MaxPages]
  /\ loads \in [{"current", "former"} ->
                [filter : Filters, page : 1 .. MaxPages + MaxClicks, pages : 0 .. MaxPages]]
  /\ spent \in [clicks : 0 .. MaxClicks, growth : 0 .. MaxGrowth]

TasksInit ==
  /\ stock = [f \in Filters |-> MaxPages]
  /\ wanted = [filter |-> AllTasks, page |-> 1]
  /\ tasks = NoAnswer
  /\ loads = [e \in {"current", "former"} |-> NoAnswer]
  /\ spent = [clicks |-> 0, growth |-> 0]

\* The load of an effect that ends is left behind; bound: the last such.
LeaveLoad == IF loads["current"] = NoAnswer THEN loads
             ELSE [current |-> NoAnswer, former |-> loads["current"]]

Click(deps) ==
  /\ spent.clicks < MaxClicks
  /\ deps # wanted
  /\ spent' = [spent EXCEPT !.clicks = @ + 1]
  /\ wanted' = deps
  /\ loads' = LeaveLoad
  /\ UNCHANGED <<stock, tasks>>

\* The search field, the selects, the four cards and Clear: to the first page.
SetFilters == \E f \in Filters : Click([filter |-> f, page |-> 1])

\* Mutant: the page is not kept from falling below the first.
PreviousOfAnswer ==
  /\ tasks.page > 1
  /\ Click([wanted EXCEPT !.page = @ - 1])

\* The buttons are enabled by the page of the answer, and count from the page
\* that is wanted.
Previous ==
  /\ tasks.page > 1
  /\ Click([wanted EXCEPT !.page = IF @ > 1 THEN @ - 1 ELSE 1])

NextPage ==
  /\ tasks.page < tasks.pages
  /\ Click([wanted EXCEPT !.page = @ + 1])

\* The server counts the pages, and echoes the page it was asked for.
ServeLoad ==
  /\ loads["current"] = NoAnswer
  /\ loads' = [loads EXCEPT !["current"] =
       [filter |-> wanted.filter, page |-> wanted.page, pages |-> stock[wanted.filter]]]
  /\ UNCHANGED <<stock, wanted, tasks, spent>>

\* Mutant: the page stays beyond the last one.
WantedStill(answer) == wanted

WantedAfter(answer) ==
  IF wanted.page > answer.pages THEN [wanted EXCEPT !.page = answer.pages] ELSE wanted

\* A page beyond the last one is set back, which starts another effect.
ReceiveLoad ==
  /\ loads["current"] # NoAnswer
  /\ tasks' = loads["current"]
  /\ wanted' = WantedAfter(loads["current"])
  /\ loads' = [loads EXCEPT !["current"] = NoAnswer]
  /\ UNCHANGED <<stock, spent>>

\* Mutant: the flag of the effect is not read.
ReceiveFormer ==
  /\ loads["former"] # NoAnswer
  /\ tasks' = loads["former"]
  /\ wanted' = WantedAfter(loads["former"])
  /\ loads' = [loads EXCEPT !["former"] = NoAnswer]
  /\ UNCHANGED <<stock, spent>>

\* if (!active) return.
DropFormer ==
  /\ loads["former"] # NoAnswer
  /\ loads' = [loads EXCEPT !["former"] = NoAnswer]
  /\ UNCHANGED <<stock, wanted, tasks, spent>>

\* Jobs are queued, and their statuses change.
StockChanges ==
  /\ spent.growth < MaxGrowth
  /\ spent' = [spent EXCEPT !.growth = @ + 1]
  /\ \E f \in Filters, n \in Sizes : n # stock[f] /\ stock' = [stock EXCEPT ![f] = n]
  /\ UNCHANGED <<wanted, tasks, loads>>

TasksNext ==
  SetFilters \/ Previous \/ NextPage \/ ServeLoad \/ ReceiveLoad \/ DropFormer \/ StockChanges

\* The effect's timers fire, and its requests are settled.
TasksProgress == ServeLoad \/ ReceiveLoad

-----------------------------------------------------------------------------
(* Properties. *)

\* The page shows an answer only to the question its controls ask by then,
\* however late the answers to earlier ones come in.
OnlyCurrentAnswers ==
  [][tasks' # tasks => tasks'.filter = wanted.filter /\ tasks'.page = wanted.page]_taskVars

\* Once nobody clicks and the tasks rest, the page shows what was asked for,
\* and a page that exists.
HistorySettles ==
  <>[](/\ tasks.filter = wanted.filter /\ tasks.page = wanted.page
       /\ tasks.pages = stock[wanted.filter] /\ wanted.page <= tasks.pages)

=============================================================================
