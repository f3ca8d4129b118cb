\* Three timers, times up to two, delays that have passed and that have not.
CONSTANTS
  Jobs = {j1, j2, j3}
  Delays <- SomeDelays
  MaxTime = 2
  None = None
SPECIFICATION FairSpec
INVARIANT NoSleepPastTimer
PROPERTIES AlarmSpec TimersFire
