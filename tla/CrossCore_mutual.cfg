\* Two cores that submit to each other and fill both rings: they really stop.
CONSTANTS
  c1 = c1
  c2 = c2
  Cores = {c1, c2}
  Link <- Mutual
  Bound = 1
  MaxSubmit = 2
  MaxSchedule = 0
SPECIFICATION FairSpec
PROPERTY LoopKeepsTurning
CHECK_DEADLOCK FALSE
