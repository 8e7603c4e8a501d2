CONSTANTS
  Threads = {t1, t2, t3}
  NoThread = NoThread
  Addrs = {}
  Ports = {1080}
SPECIFICATION FairSpec
PROPERTY
  TeardownFinishes
