\* GGML_VIZ_LOG_LEVEL is set and no file says anything about the level.
SPECIFICATION Spec
CONSTANTS
  default_max_events = 2
  max_max_events = 3
  None = None  Unlocked = Unlocked
  Main = Main
  Starters = {}
  Loggers = {}
  Severities = {1}
  Files = {None}
  Env <- Environments
  LogLevelEnv = {3}
INVARIANTS EnvLevelUsed
CHECK_DEADLOCK FALSE
