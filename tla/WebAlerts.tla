----------------------------- MODULE WebAlerts -----------------------------
(***************************************************************************)
(* The alert list of the web console: AlertsPage with its filters, its     *)
(* selection and its bulk operations, above App's refresh, which replaces  *)
(* the list every 30 seconds and after each change (App.tsx).              *)
(*                                                                         *)
(* The server handles a call at one step and the page receives its answer  *)
(* at a later one.  Nothing orders the answers of two refreshes: a refresh *)
(* is the snapshot the server took, until the page applies it.             *)
(***************************************************************************)
EXTENDS Naturals, Sequences, SequencesExt

CONSTANTS
  Alerts,
  Tabs,          \* the workflow filters in play
  Uncertain,     \* the alerts of severity "review"
  Facets,        \* sets of alerts that share a client, an industry or a country
  AlertStatuses, \* statuses in play; "new" and "dismissed" among them
  ChunkSize,     \* ids of one bulk assessment job (25 in the code)
  MaxRemoved,    \* bound: alerts that vanish with their client
  MaxLost        \* bound: calls that fail on their way

ASSUME ListAssumption ==
  /\ {"new", "dismissed"} \subseteq AlertStatuses
  /\ "open" \in Tabs /\ Tabs \subseteq {"open", "review", "all", "closed"}
  /\ IsFiniteSet(Alerts)
  /\ ChunkSize \in Nat \ {0} /\ MaxRemoved \in Nat /\ MaxLost \in Nat

VARIABLES
  desk,        \* server: the status of every alert
  live,        \* liveAlerts
  filter,      \* filter, and the chosen industry, geography and client
  selectedIds, \* selectedIds, in the order of selection
  bulk,        \* the bulk operation under way, or one that has failed, until
               \* the selection changes; touched and stored are history
  refreshes,   \* App.refresh: by the timer, and by the bulk operation
  losses       \* calls lost so far

listVars == <<desk, live, filter, selectedIds, bulk, refreshes, losses>>

Gone == "gone"
Closed == {"resolved", "dismissed"}
Rows == [Alerts -> AlertStatuses \cup {Gone}]
Listed == {a \in Alerts : live[a] # Gone}
Unanswered == [seen |-> FALSE, rows |-> [a \in Alerts |-> Gone]]
Quiet == [step |-> "idle", op |-> "status", ids |-> <<>>, status |-> "new",
          queued |-> 0, failures |-> {}, outcome |-> "none",
          touched |-> FALSE, stored |-> {}]

ListTypeOK ==
  /\ desk \in Rows /\ live \in Rows
  /\ filter \in [tab : Tabs, only : {Alerts} \cup Facets]
  /\ IsInjective(selectedIds) /\ ToSet(selectedIds) \subseteq Alerts
  /\ bulk.step \in {"idle", "call", "answer", "refresh"}
  /\ bulk.op \in {"status", "assess", "false"}
  /\ IsInjective(bulk.ids) /\ ToSet(bulk.ids) \subseteq Alerts
  /\ bulk.queued \in 0 .. Len(bulk.ids)
  /\ bulk.failures \subseteq ToSet(bulk.ids) /\ bulk.stored \subseteq ToSet(bulk.ids)
  /\ bulk.outcome \in {"none", "ok", "refused", "lost"}
  /\ refreshes \in [{"timer", "bulk"} -> [seen : BOOLEAN, rows : Rows]]
  /\ losses \in 0 .. MaxLost

ListInit ==
  /\ desk = [a \in Alerts |-> "new"]
  /\ live = desk
  /\ filter = [tab |-> "open", only |-> Alerts]
  /\ selectedIds = <<>>
  /\ bulk = Quiet
  /\ refreshes = [by \in {"timer", "bulk"} |-> Unanswered]
  /\ losses = 0

-----------------------------------------------------------------------------
(* What the page shows and which of its controls are enabled. *)

Filtered ==
  {a \in Listed \cap filter.only :
     \/ filter.tab = "all"
     \/ filter.tab = "open" /\ live[a] \notin Closed
     \/ filter.tab = "closed" /\ live[a] \in Closed
     \/ filter.tab = "review" /\ a \in Uncertain /\ live[a] = "new"}

AllFilteredSelected == Filtered # {} /\ Filtered \subseteq ToSet(selectedIds)

\* The buttons of the bulk panel, which is shown above a list that is not empty.
BulkEnabled ==
  /\ Filtered # {}
  /\ selectedIds # <<>>
  /\ bulk.step = "idle"

\* What a filter of JavaScript keeps of the first ids, for every number of them.
KeptPrefixes(ids, kept) ==
  LET prefix[n \in 0 .. Len(ids)] ==
        IF n = 0 THEN <<>>
        ELSE IF ids[n] \in kept THEN Append(prefix[n - 1], ids[n]) ELSE prefix[n - 1]
  IN prefix

Keep(ids, kept) == KeptPrefixes(ids, kept)[Len(ids)]

\* The selection after an effect has dropped what the list no longer holds.
Available(ids, rows) == Keep(ids, {a \in Alerts : rows[a] # Gone})

-----------------------------------------------------------------------------
(* The analyst. *)

SetFilter ==
  /\ \E tab \in Tabs, only \in {Alerts} \cup Facets :
       filter' = [tab |-> tab, only |-> only]
  /\ UNCHANGED <<desk, live, selectedIds, bulk, refreshes, losses>>

Touched == IF bulk.step = "idle" THEN Quiet ELSE [bulk EXCEPT !.touched = TRUE]

Select(ids) ==
  /\ selectedIds' = ids
  /\ bulk' = Touched
  /\ UNCHANGED <<desk, live, filter, refreshes, losses>>

ToggleSelected(a) ==
  /\ a \in Filtered
  /\ Select(IF a \in ToSet(selectedIds)
              THEN Keep(selectedIds, Alerts \ {a})
              ELSE Append(selectedIds, a))

\* Mutant: what is selected already is selected again.
ToggleAllAgain ==
  /\ Filtered # {}
  /\ Select(IF AllFilteredSelected
              THEN Keep(selectedIds, Alerts \ Filtered)
              ELSE selectedIds \o SetToSeq(Filtered))

\* The list's order is that of SetToSeq, whatever it is.
ToggleAllFiltered ==
  /\ Filtered # {}
  /\ Select(IF AllFilteredSelected
              THEN Keep(selectedIds, Alerts \ Filtered)
              ELSE selectedIds \o SetToSeq(Filtered \ ToSet(selectedIds)))

ClearSelection == Filtered # {} /\ selectedIds # <<>> /\ Select(<<>>)

StartBulk(op, status) ==
  /\ BulkEnabled
  /\ bulk' = [Quiet EXCEPT !.step = "call", !.op = op, !.ids = selectedIds, !.status = status]
  /\ UNCHANGED <<desk, live, filter, selectedIds, refreshes, losses>>

-----------------------------------------------------------------------------
(* The server. *)

\* queueBulkAssessments posts the next chunk of the ids it was started with.
ChunkEnd == LET end == bulk.queued + ChunkSize
            IN IF end < Len(bulk.ids) THEN end ELSE Len(bulk.ids)
Chunk == ToSet(SubSeq(bulk.ids, bulk.queued + 1, ChunkEnd))

Existing(ids) == {a \in ids : desk[a] # Gone}

ServeStatus ==
  /\ bulk.op = "status"
  /\ desk' = [a \in Alerts |-> IF a \in Existing(ToSet(bulk.ids)) THEN bulk.status ELSE desk[a]]
  /\ bulk' = [bulk EXCEPT !.step = "answer", !.outcome = "ok"]

\* ai_job_metadata refuses a chunk with an alert that no longer exists.
ServeChunk ==
  /\ bulk.op = "assess"
  /\ bulk' = IF Chunk = Existing(Chunk)
               THEN [bulk EXCEPT !.step = "answer", !.outcome = "ok", !.stored = @ \cup Chunk]
               ELSE [bulk EXCEPT !.step = "answer", !.outcome = "refused"]
  /\ UNCHANGED desk

ServeFalseMatches ==
  /\ bulk.op = "false"
  /\ desk' = [a \in Alerts |-> IF a \in Existing(ToSet(bulk.ids)) THEN "dismissed" ELSE desk[a]]
  /\ bulk' = [bulk EXCEPT !.step = "answer", !.outcome = "ok",
                          !.failures = ToSet(bulk.ids) \ Existing(ToSet(bulk.ids))]

ServeBulk ==
  /\ bulk.step = "call"
  /\ ServeStatus \/ ServeChunk \/ ServeFalseMatches
  /\ UNCHANGED <<live, filter, selectedIds, refreshes, losses>>

\* The call never reaches the server, or its answer never reaches the page.
LoseBulk ==
  /\ bulk.step \in {"call", "answer"}
  /\ losses < MaxLost
  /\ losses' = losses + 1
  /\ bulk' = [bulk EXCEPT !.step = "answer", !.outcome = "lost"]
  /\ UNCHANGED <<desk, live, filter, selectedIds, refreshes>>

\* delete_client removes the alerts of the client.
RemoveAlert(a) ==
  /\ desk[a] # Gone
  /\ \A b \in Alerts \ {a} : desk[b] # Gone
  /\ MaxRemoved > 0
  /\ desk' = [desk EXCEPT ![a] = Gone]
  /\ UNCHANGED <<live, filter, selectedIds, bulk, refreshes, losses>>

\* GET /api/v1/alerts of a refresh: by the 30 s timer at any time, by a bulk
\* operation once its own call has been answered.
ServeRefresh(by) ==
  /\ ~refreshes[by].seen
  /\ by = "bulk" => bulk.step = "refresh"
  /\ refreshes' = [refreshes EXCEPT ![by] = [seen |-> TRUE, rows |-> desk]]
  /\ UNCHANGED <<desk, live, filter, selectedIds, bulk, losses>>

-----------------------------------------------------------------------------
(* The answers. *)

Failed == [bulk EXCEPT !.step = "idle"]

\* applyBulkStatus shows the new status of every alert it was started with.
BulkStatusAnswered ==
  /\ bulk.op = "status" /\ bulk.outcome = "ok"
  /\ selectedIds' = <<>>
  /\ live' = [a \in Alerts |->
                IF a \in ToSet(bulk.ids) /\ live[a] # Gone THEN bulk.status ELSE live[a]]
  /\ bulk' = [bulk EXCEPT !.step = "refresh"]

ChunkQueued ==
  /\ bulk.op = "assess" /\ bulk.outcome = "ok"
  /\ IF ChunkEnd < Len(bulk.ids)
       THEN /\ bulk' = [bulk EXCEPT !.step = "call", !.queued = ChunkEnd]
            /\ UNCHANGED selectedIds
       ELSE /\ bulk' = Quiet
            /\ selectedIds' = <<>>
  /\ UNCHANGED live

FalseMatchesRecorded ==
  /\ bulk.op = "false" /\ bulk.outcome = "ok"
  /\ selectedIds' = Available(SetToSeq(bulk.failures), live)
  /\ live' = [a \in Alerts |->
                IF a \in ToSet(bulk.ids) \ bulk.failures /\ live[a] # Gone
                  THEN "dismissed" ELSE live[a]]
  /\ bulk' = [bulk EXCEPT !.step = "refresh"]

\* Mutant: the catch leaves the selection as it is.
AllOf(ids) == ids

RestOf(ids) == SubSeq(ids, bulk.queued + 1, Len(ids))

\* The catch of the three operations: a run of assessments drops from the
\* selection as many ids as it has queued.
BulkFailed ==
  /\ bulk.outcome \in {"refused", "lost"}
  /\ selectedIds' = IF bulk.op = "assess" THEN RestOf(selectedIds) ELSE selectedIds
  /\ bulk' = Failed
  /\ UNCHANGED live

ReceiveBulk ==
  /\ bulk.step = "answer"
  /\ BulkStatusAnswered \/ ChunkQueued \/ FalseMatchesRecorded \/ BulkFailed
  /\ UNCHANGED <<desk, filter, refreshes, losses>>

\* Mutant: the list is a state of the page that no effect replaces.
ShowRowsOfTheMount(rows) == UNCHANGED <<live, selectedIds>>

\* The effects of AlertsPage once App has replaced its alerts.
ShowRows(rows) ==
  /\ live' = rows
  /\ selectedIds' = Available(selectedIds, rows)

ReceiveRefresh(by) ==
  /\ refreshes[by].seen
  /\ ShowRows(refreshes[by].rows)
  /\ refreshes' = [refreshes EXCEPT ![by] = Unanswered]
  /\ bulk' = CASE by = "bulk" -> Quiet
               [] by = "timer" /\ selectedIds' # selectedIds -> Touched
               [] OTHER -> bulk
  /\ UNCHANGED <<desk, filter, losses>>

\* refresh never throws: a bulk operation ends although its refresh failed.  A
\* refresh of the timer that fails leaves the page as it was.
LoseRefresh ==
  /\ refreshes["bulk"].seen
  /\ losses < MaxLost
  /\ losses' = losses + 1
  /\ refreshes' = [refreshes EXCEPT !["bulk"] = Unanswered]
  /\ bulk' = Quiet
  /\ UNCHANGED <<desk, live, filter, selectedIds>>

ListNext ==
  \/ SetFilter
  \/ \E a \in Alerts : ToggleSelected(a) \/ RemoveAlert(a)
  \/ ToggleAllFiltered
  \/ ClearSelection
  \/ \E s \in AlertStatuses : StartBulk("status", s)
  \/ StartBulk("assess", "new")
  \/ StartBulk("false", "dismissed")
  \/ ServeBulk
  \/ LoseBulk
  \/ ReceiveBulk
  \/ \E by \in {"timer", "bulk"} : ServeRefresh(by) \/ ReceiveRefresh(by)
  \/ LoseRefresh

\* The steps of the server and of the browser that a waiting page relies on.
BulkProgress == ServeBulk \/ ReceiveBulk \/ ServeRefresh("bulk") \/ ReceiveRefresh("bulk")
TimerProgress == ServeRefresh("timer") \/ ReceiveRefresh("timer")

-----------------------------------------------------------------------------
(* Properties. *)

\* queueBulkAssessments cuts the first ids off the selection of the moment it
\* fails, by the number it has queued: while nobody changed the selection, no
\* answer was lost and no alert vanished from it, exactly the alerts with no
\* assessment queued by the run stay selected.
FailedRunKeepsTheRest ==
  bulk.step = "idle" /\ bulk.outcome = "refused" /\ ~bulk.touched
    => ToSet(selectedIds) = ToSet(bulk.ids) \ bulk.stored

\* The optimistic statuses of a bulk operation and the rows of an overtaken
\* refresh do not last: once the server's alerts rest, the list becomes and
\* stays what the server has.
ViewConverges == <>[][FALSE]_desk => <>[](live = desk)

=============================================================================
