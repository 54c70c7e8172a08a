SPECIFICATION Spec
CONSTANTS
  Conns = {c1}
  NoConn = NoConn
  Limit <- MCLimit
  Period <- MCPeriod
  Wrap <- MCWrap
  MaxStall <- MCMaxStall
INVARIANTS TypeOK ExitIsExplained ClearIsFinal ClearedInTime
CHECK_DEADLOCK FALSE
