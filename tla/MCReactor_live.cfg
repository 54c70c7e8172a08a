SPECIFICATION FairSpec
CONSTANTS
  Clients = {c1, c2}
  NoClient = NoClient
  NumLoops = 3
  FirstFd = 6
  MaxFd = 10
  MaxChunks = 1
PROPERTIES InputEventuallyRead
CHECK_DEADLOCK FALSE
