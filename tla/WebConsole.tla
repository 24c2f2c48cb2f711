----------------------------- MODULE WebConsole -----------------------------
(***************************************************************************)
(* The frame of the web console and its pages beside the alert work, each  *)
(* with the part of the server it talks to.  As in WebTriage, a behaviour  *)
(* is a visit to one of them: App mounts one page at a time, and the pages *)
(* share no state of the browser.  The two pages that edit the runtime     *)
(* settings are one part (WebSettings).                                    *)
(***************************************************************************)
EXTENDS WebFrame, WebTasks, WebSites, WebJobs, WebSettings, WebResearch,
        WebProfiles

VARIABLE part   \* the part of the console in use

consoleVars ==
  <<part, frameVars, taskVars, siteVars, jobVars, settingVars, researchVars, profileVars>>

Parts == {"frame", "tasks", "sites", "jobs", "settings", "research", "profiles"}

ConsoleTypeOK ==
  /\ part \in Parts
  /\ FrameTypeOK /\ TasksTypeOK /\ SitesTypeOK /\ JobsTypeOK
  /\ SettingsTypeOK /\ ResearchTypeOK /\ ProfilesTypeOK

ConsoleInit ==
  /\ part \in Parts
  /\ FrameInit /\ TasksInit /\ SitesInit /\ JobsInit
  /\ SettingsInit /\ ResearchInit /\ ProfilesInit
  /\ part # "frame" => tour.shown

UseFrame ==
  /\ part = "frame" /\ FrameNext
  /\ UNCHANGED <<part, taskVars, siteVars, jobVars, settingVars, researchVars, profileVars>>

UseTasks ==
  /\ part = "tasks" /\ TasksNext
  /\ UNCHANGED <<part, frameVars, siteVars, jobVars, settingVars, researchVars, profileVars>>

UseSites ==
  /\ part = "sites" /\ SitesNext
  /\ UNCHANGED <<part, frameVars, taskVars, jobVars, settingVars, researchVars, profileVars>>

UseJobs ==
  /\ part = "jobs" /\ JobsNext
  /\ UNCHANGED <<part, frameVars, taskVars, siteVars, settingVars, researchVars, profileVars>>

UseSettings ==
  /\ part = "settings" /\ SettingsNext
  /\ UNCHANGED <<part, frameVars, taskVars, siteVars, jobVars, researchVars, profileVars>>

UseResearch ==
  /\ part = "research" /\ ResearchNext
  /\ UNCHANGED <<part, frameVars, taskVars, siteVars, jobVars, settingVars, profileVars>>

UseProfiles ==
  /\ part = "profiles" /\ ProfilesNext
  /\ UNCHANGED <<part, frameVars, taskVars, siteVars, jobVars, settingVars, researchVars>>

ConsoleNext ==
  UseFrame \/ UseTasks \/ UseSites \/ UseJobs \/ UseSettings \/ UseResearch \/ UseProfiles

\* The browser fires its timers, runs its animations and settles its requests,
\* by an answer or an error.  Nobody has to press anything.
ConsoleSpec ==
  /\ ConsoleInit /\ [][ConsoleNext]_consoleVars
  /\ WF_frameVars(part = "frame" /\ AnswerRefresh("others"))
  /\ WF_frameVars(part = "frame" /\ MinimumElapsed)
  /\ WF_frameVars(part = "frame" /\ LoaderFaded)
  /\ WF_taskVars(part = "tasks" /\ TasksProgress)

-----------------------------------------------------------------------------
(* Properties. *)

\* What the console shows meanwhile does not last: the loading screen ends
\* (LoaderEnds), and the history of the tasks settles (HistorySettles).
ConsoleSettles ==
  /\ part = "frame" => LoaderEnds
  /\ part = "tasks" => HistorySettles

\* Once nothing is under way, every page that asks by its controls shows the
\* answer to the question its controls ask: the sites (SearchIsAnswered), the
\* claims (ClaimsAreThoseAskedFor) and the profiles (ChoiceIsShown).  The page
\* that starts captures shows how they ended (OwnCapturesAreFollowed).
AnswersMatchQuestions ==
  SearchIsAnswered /\ ClaimsAreThoseAskedFor /\ ChoiceIsShown /\ OwnCapturesAreFollowed

\* No page is asked for that the server does not have: neither of the claims
\* (TurnedPageExists) nor, while no worker takes it away, of the screenshots
\* (ReviewedShotExists).
PageAskedForExists == TurnedPageExists /\ ReviewedShotExists

=============================================================================
