CONSTANTS
  Jobs = {j1, j2}
  NoJob = NoJob
  Params = {p1}
  NoParams = NoParams
  Actions = {"START", "STOP", "UPDATE", "OTHER"}
  CreatedBound = {TRUE, FALSE}
  Callbacks = {"connecting", "connected", "listening", "portInUse", "info"}
  Budgets <- SafetyBudgets
SPECIFICATION Spec
SYMMETRY Symmetry
INVARIANT OneOwner
INVARIANT ForegroundFlagHonest
INVARIANT StoppedMeansVpnDown
PROPERTY AnnouncedPortKept
