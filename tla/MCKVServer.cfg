SPECIFICATION FairSpec
CONSTANTS
  Callers = {1, 2}
  Workers = {w1, w2}
  MaxThreads = 1
  Order <- MCOrder
  Scenarios <- MCScenarios
  Files <- MCFiles
  Watched <- MCWatched
INVARIANTS TypeOK NoTaskOutlivesPool DumpIsFaithful DumpCanBeLoaded LoadIsExact
PROPERTIES CallsReturn
