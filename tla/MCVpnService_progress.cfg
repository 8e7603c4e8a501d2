CONSTANTS
  Jobs = {j1, j2}
  NoJob = NoJob
  Params = {p1}
  NoParams = NoParams
  Actions = {"START", "STOP", "UPDATE"}
  CreatedBound = {TRUE}
  Callbacks = {"portInUse", "info"}
  Budgets <- ProgressBudgets
SPECIFICATION FairSpec
PROPERTY StopCompletes
PROPERTY StartCompletes
PROPERTY SessionDataReset
