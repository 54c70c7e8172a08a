SPECIFICATION Spec
CONSTANTS
  Clients = {c1}
  NoClient = NoClient
  NumLoops = 1
  FirstFd = 6
  MaxFd = 10
  MaxChunks = 2
INVARIANTS EchoComplete
CHECK_DEADLOCK FALSE
