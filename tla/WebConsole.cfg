SPECIFICATION ConsoleSpec
CHECK_DEADLOCK FALSE
CONSTANTS
  Pages = {"home", "alerts", "tasks"}
  MaxAsked = 3
  Filters = {"", "failed"}
  MaxPages = 2
  MaxClicks = 4
  MaxGrowth = 2
  s1 = s1
  s2 = s2
  Sites = {s1, s2}
  Searches <- MCSearches
  MaxCalls = 2
  MaxPresses = 2
  j1 = j1
  j2 = j2
  CaptureJobs = {j1, j2}
  OwnJobs = {j1}
  Doubtful = {j1}
  JobFilters = {"all", "attention"}
  Shots <- MCShots
  MaxJobCalls = 2
  Fields = {"schedule", "coverage", "mode"}
  Buttons = {"save", "schedule", "coverage"}
  MaxEdits = 3
  MaxSaves = 2
  MaxFetches = 2
  k1 = k1
  k2 = k2
  Claims = {k1, k2}
  Archive <- MCArchive
  BatchSize = 1
  MaxTurns = 3
  MaxAsks = 2
  MaxWishes = 2
  Actors = {t1, t2}
  NoActor = NoActor
  MaxLoads = 2
  MaxSyncs = 2
  MaxChoices = 3
CONSTRAINT MCConstraint
INVARIANT ConsoleTypeOK
INVARIANT AnswersMatchQuestions
INVARIANT CountIsRight
INVARIANT ChoicesAreNotReverted
INVARIANT PageAskedForExists
INVARIANT ResearchedAsOftenAsChosen
PROPERTY OnlyCurrentAnswers
PROPERTY ConsoleSettles
