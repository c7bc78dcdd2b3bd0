\* The environment variables and the file of GGML_VIZ_CONFIG set one field.
SPECIFICATION Spec
CONSTANTS
  default_max_events = 2
  max_max_events = 3
  None = None  Unlocked = Unlocked
  Main = Main
  Starters = {}
  Loggers = {}
  Severities = {1}
  Files <- SomeFiles
  Env <- Environments
  LogLevelEnv = {1}
INVARIANTS FileOverridesEnvironment
CHECK_DEADLOCK FALSE
