\* main() loads the configuration while another thread starts the hook.
SPECIFICATION Spec
CONSTANTS
  default_max_events = 2
  max_max_events = 3
  None = None  Unlocked = Unlocked
  Main = Main
  Starters = {s1}
  Loggers = {l1}
  Severities = {1}
  Files <- SomeFiles
  Env <- Environments
  LogLevelEnv = {1}
INVARIANTS ConfigValid StartConfigured PrecedenceKept LinesConsistent
CHECK_DEADLOCK FALSE
