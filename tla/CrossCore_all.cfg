\* Two cores, a ring of two tasks that can be full.
CONSTANTS
  c1 = c1
  c2 = c2
  Cores = {c1, c2}
  Link <- OneWay
  Bound = 2
  MaxSubmit = 3
  MaxSchedule = 2
SPECIFICATION FairSpec
INVARIANTS NoNullReactor NoSleepOnWork
PROPERTIES SubmittedRuns ScheduledRuns LoopKeepsTurning
