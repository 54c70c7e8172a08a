SPECIFICATION Spec
CONSTANTS
  Clients = {c1, c2}
  NoClient = NoClient
  NumLoops = 2
  FirstFd = 6
  MaxFd = 10
  MaxChunks = 2
SYMMETRY Symmetry
INVARIANTS TypeOK NoEpollError FlagAgrees NoStaleEvent NoLostWakeup EchoInOrder HalfTheLoopsIdle
PROPERTIES LoopDiesOnlyInConstruction
CHECK_DEADLOCK FALSE
