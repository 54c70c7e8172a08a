SPECIFICATION FairSpec
CONSTANTS
  Timers = {t1}
  NoTimer = NoTimer
  Timeouts = {3}
  Wrap = 8
  MinDelay = 1
  MaxStall = 0
PROPERTIES RepeatingTimerRuns
CHECK_DEADLOCK FALSE
