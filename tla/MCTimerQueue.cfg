SPECIFICATION FairSpec
CONSTANTS
  Timers = {t1, t2}
  NoTimer = NoTimer
  Timeouts = {0, 1, 3}
  Wrap = 10
  MinDelay = 2
  MaxStall = 2
INVARIANTS TypeOK ArmedForEarliest
PROPERTIES NeverEarly RepeatingTimerStays TimerRunsOrIsLost
CHECK_DEADLOCK FALSE
