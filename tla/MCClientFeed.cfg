CONSTANTS
  Clients = {c1, c2}
  MaxState = 2
  MaxEnds = 1
SPECIFICATION FairSpec
INVARIANT StaleOnlyFromRegister
INVARIANT NoStateMissed
INVARIANT FlagMeansBinding
INVARIANT StopReleases
PROPERTY ConnectsAgain
CHECK_DEADLOCK FALSE
