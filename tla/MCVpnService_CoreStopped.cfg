CONSTANTS
  Jobs = {j1}
  NoJob = NoJob
  Params = {p1}
  NoParams = NoParams
  Actions = {"START", "STOP", "UPDATE"}
  CreatedBound = {TRUE}
  Callbacks = {"portInUse"}
  Budgets <- OneSession
SPECIFICATION Spec
INVARIANT CoreStopped
