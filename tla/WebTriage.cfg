SPECIFICATION TriageSpec
CHECK_DEADLOCK FALSE
CONSTANTS
  a1 = a1
  a2 = a2
  Alerts = {a1, a2}
  Uncertain <- MCUncertain
  Facets <- MCFacets
  AlertStatuses = {"new", "dismissed"}
  Tabs = {"open"}
  ChunkSize = 1
  MaxRemoved = 1
  MaxLost = 1
  OpenAlerts = {a1, a2}
  SavedStatus = {"resolved"}
  OtherStatus = {"dismissed"}
  NoAlert = NoAlert
  MaxActs = 2
  MaxFailures = 1
  MaxWrites = 1
  MaxDrafts = 2
  Customers = {c1, c2}
  NewClient = NewClient
  NoClient = NoClient
  MaxEdits = 2
  TypedLists = {"keywords"}
  ChosenLists = {"countries"}
  Words = {w1, Letter, Endless}
  Letter = Letter
  Endless = Endless
  MaxTyped = 1
  MaxChosen = 1
  MaxRelated = 1
  MaxRows = 2
  MaxJobs = 2
  MaxPolls = 2
CONSTRAINT MCConstraint
INVARIANT TriageTypeOK
INVARIANT FailedRunKeepsTheRest
INVARIANT TextStaysWithItsSubject
INVARIANT LastActIsStored
INVARIANT UnsavedWorkIsKept
INVARIANT OnlyUncheckedInputIsRefused
INVARIANT RefreshedOncePerJob
PROPERTY ViewsConverge
