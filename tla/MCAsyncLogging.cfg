SPECIFICATION FairSpec
CONSTANTS
  Lengths = {1, 2}
  Capacity = 3
  NoBuffer = NoBuffer
  MaxLines = 6
INVARIANTS TypeOK BackendNeverFails EveryLineKept
PROPERTIES LogIsFifo LinesReachTheFile StopReturns
CHECK_DEADLOCK FALSE
