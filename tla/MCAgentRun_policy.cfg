SPECIFICATION Spec
CONSTANTS
  cron = cron
  web = web
  Tools = {cron, web}
  Available = {cron, web}
  Cron = cron
  Gated = {}
  CallIds = {k0, k1, k2}
  Target = k0
  TargetTool = cron
  Starts = {"new", "approved"}
  Intents = {"none", "schedule", "fired"}
  ModelLimits = {0, 3}
  MaxToolCalls = 2
  MaxByName <- ToolLimits
  MaxReactSteps = 2
  None = None
CHECK_DEADLOCK FALSE
PROPERTY ToldOnlyIfNotCalled
