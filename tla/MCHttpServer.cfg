SPECIFICATION FairSpec
CONSTANTS
  c1 = c1
  c2 = c2
  l1 = l1
  l2 = l2
  Conns = {c1, c2}
  Loops = {l1, l2}
  LoopOf <- MCLoopOf
  Scripts <- MCScripts
  Known = {c1}
  Leavers = {c2}
INVARIANTS TypeOK RepliesAreExact OneReplyThenFin ExitIsExplained
PROPERTIES RequestIsAnswered
CHECK_DEADLOCK FALSE
