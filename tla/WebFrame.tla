------------------------------ MODULE WebFrame ------------------------------
(***************************************************************************)
(* The frame of the web console: what App shows instead of, around and     *)
(* above a page.  The loading screen, the error of a missing service, the  *)
(* tour, the sidebar, the top bar with its refresh button, the corner of   *)
(* the AI tasks and the dialog of a result (App.tsx).                      *)
(***************************************************************************)
EXTENDS Naturals

CONSTANTS
  Pages,      \* the destinations; "home" among them
  MaxAsked    \* bound: refreshes without an answer

ASSUME FrameAssumption == "home" \in Pages /\ MaxAsked \in Nat \ {0}

VARIABLES
  screen,     \* showInitialLoader, loaderMinimumElapsed, loading, error, summary
  tour,       \* showOnboarding with its step, and whether it was completed (localStorage)
  route,      \* page, routeLoading
  chrome,     \* sidebarCollapsed, TopBar's refreshing, AIJobCenter's expanded
  result,     \* selectedAIJob: the destination of the job, or "none"
  unanswered  \* refreshes under way: of the timer and the page, and of the button

frameVars == <<screen, tour, route, chrome, result, unanswered>>

FrameTypeOK ==
  /\ screen \in [loader : BOOLEAN, elapsed : BOOLEAN, loading : BOOLEAN,
                 error : BOOLEAN, summary : BOOLEAN]
  /\ tour \in [shown : BOOLEAN, step : 1 .. 3, completed : BOOLEAN]
  /\ route \in [page : Pages, loading : BOOLEAN]
  /\ chrome \in [collapsed : BOOLEAN, refreshing : BOOLEAN, expanded : BOOLEAN]
  /\ result \in Pages \cup {"none"}
  /\ unanswered \in [others : 0 .. MaxAsked, button : 0 .. 1]

\* The first refresh is sent at once.
FrameInit ==
  /\ screen = [loader |-> TRUE, elapsed |-> FALSE, loading |-> TRUE,
               error |-> FALSE, summary |-> FALSE]
  /\ \E completed \in BOOLEAN : tour = [shown |-> ~completed, step |-> 1, completed |-> completed]
  /\ route = [page |-> "home", loading |-> FALSE]
  /\ chrome = [collapsed |-> FALSE, refreshing |-> FALSE, expanded |-> FALSE]
  /\ result = "none"
  /\ unanswered = [others |-> 1, button |-> 0]

-----------------------------------------------------------------------------
(* What App returns: the loader first, then the error, the tour, the page. *)

ShowsLoader == screen.loader
ShowsError == ~ShowsLoader /\ screen.error /\ ~screen.summary
ShowsTour == ~ShowsLoader /\ ~ShowsError /\ tour.shown
ShowsPage == ~ShowsLoader /\ ~ShowsError /\ ~tour.shown

-----------------------------------------------------------------------------
(* App.refresh. *)

\* Every 30 seconds, after a change of a page, and by "Try again".
AskRefresh ==
  /\ unanswered.others < MaxAsked
  /\ unanswered' = [unanswered EXCEPT !.others = @ + 1]
  /\ UNCHANGED <<screen, tour, route, chrome, result>>

\* TopBar.runRefresh; the button stays enabled.
PressRefresh ==
  /\ ShowsPage /\ unanswered.button = 0
  /\ unanswered' = [unanswered EXCEPT !.button = 1]
  /\ chrome' = [chrome EXCEPT !.refreshing = TRUE]
  /\ UNCHANGED <<screen, tour, route, result>>

\* The five answers together, or the first failure of one of them.
ScreenAfter(ok) == IF ok THEN [screen EXCEPT !.summary = TRUE, !.error = FALSE, !.loading = FALSE]
                   ELSE [screen EXCEPT !.error = TRUE, !.loading = FALSE]

AnswerRefresh(by) ==
  /\ unanswered[by] > 0
  /\ unanswered' = [unanswered EXCEPT ![by] = @ - 1]
  /\ \E ok \in BOOLEAN : screen' = ScreenAfter(ok)
  /\ chrome' = IF by = "button" THEN [chrome EXCEPT !.refreshing = FALSE] ELSE chrome
  /\ UNCHANGED <<tour, route, result>>

-----------------------------------------------------------------------------
(* Timers and animations. *)

MinimumElapsed ==
  /\ ~screen.elapsed
  /\ screen' = [screen EXCEPT !.elapsed = TRUE]
  /\ UNCHANGED <<tour, route, chrome, result, unanswered>>

\* AppLoadingScreen fades once it is ready, and calls back.
LoaderFaded ==
  /\ screen.loader /\ screen.elapsed /\ ~screen.loading
  /\ screen' = [screen EXCEPT !.loader = FALSE]
  /\ UNCHANGED <<tour, route, chrome, result, unanswered>>

RouteLoaded ==
  /\ route.loading
  /\ route' = [route EXCEPT !.loading = FALSE]
  /\ UNCHANGED <<screen, tour, chrome, result, unanswered>>

-----------------------------------------------------------------------------
(* The tour. *)

TurnTour ==
  /\ ShowsTour
  /\ \E step \in {tour.step - 1, tour.step + 1} \cap (1 .. 3) : tour' = [tour EXCEPT !.step = step]
  /\ UNCHANGED <<screen, route, chrome, result, unanswered>>

\* Skipped at any step, or finished at the last one on a page of its choice.
\* The page is set without navigate: no route is loading.
CompleteTour(p) ==
  /\ ShowsTour
  /\ p = "home" \/ tour.step = 3
  /\ tour' = [shown |-> FALSE, step |-> 1, completed |-> TRUE]
  /\ route' = [route EXCEPT !.page = p]
  /\ UNCHANGED <<screen, chrome, result, unanswered>>

\* The page is unmounted, and with it the corner of the AI tasks; the selected
\* result is App's and comes back after the tour.
OpenGuide ==
  /\ ShowsPage /\ result = "none"
  /\ tour' = [tour EXCEPT !.shown = TRUE]
  /\ chrome' = [chrome EXCEPT !.refreshing = FALSE, !.expanded = FALSE]
  /\ UNCHANGED <<screen, route, result, unanswered>>

-----------------------------------------------------------------------------
(* Around the page. *)

GoTo(p) == route' = IF p = route.page THEN route ELSE [page |-> p, loading |-> TRUE]

\* Sidebar, Home, "All task history".
Navigate(p) ==
  /\ ShowsPage /\ result = "none"
  /\ GoTo(p)
  /\ chrome' = IF p = "tasks" THEN [chrome EXCEPT !.expanded = FALSE] ELSE chrome
  /\ UNCHANGED <<screen, tour, result, unanswered>>

ToggleChrome ==
  /\ ShowsPage /\ result = "none"
  /\ \/ chrome' = [chrome EXCEPT !.collapsed = ~@]
     \/ chrome' = [chrome EXCEPT !.expanded = ~@]
  /\ UNCHANGED <<screen, tour, route, result, unanswered>>

\* openAIJob: from the corner with its page, from the tasks page without.
ViewResult(p) ==
  /\ ShowsPage /\ result = "none"
  /\ result' = p
  /\ \/ chrome.expanded /\ GoTo(p)
     \/ route.page = "tasks" /\ UNCHANGED route
  /\ UNCHANGED <<screen, tour, chrome, unanswered>>

\* onClose stays on the page, onContinue goes to that of the result.
LeaveResult ==
  /\ ShowsPage /\ result # "none"
  /\ result' = "none"
  /\ GoTo(result) \/ UNCHANGED route
  /\ UNCHANGED <<screen, tour, chrome, unanswered>>

FrameNext ==
  \/ AskRefresh \/ PressRefresh \/ AnswerRefresh("others") \/ AnswerRefresh("button")
  \/ MinimumElapsed \/ LoaderFaded \/ RouteLoaded
  \/ TurnTour \/ OpenGuide \/ ToggleChrome \/ LeaveResult
  \/ \E p \in Pages : CompleteTour(p) \/ Navigate(p) \/ ViewResult(p)

-----------------------------------------------------------------------------
(* Properties. *)

\* The loading screen gives way whatever the service does: to the page, or to
\* the error that offers another try.
LoaderEnds == <>[](~ShowsLoader)

=============================================================================
