CONSTANTS
  Threads = {t1, t2, t3}
  NoThread = NoThread
  Ports <- MCPorts
  Addrs <- MCAddrs
SPECIFICATION FairSpec
INVARIANTS
  OneTun2Socks
  NoStaleTerminate
  FirstFreeRange
PROPERTIES
  JoinEndsOrRequestLost
  ImplementsInterface
