\* The file of --config sets a field back to its default.
SPECIFICATION Spec
CONSTANTS
  default_max_events = 2
  max_max_events = 3
  None = None  Unlocked = Unlocked
  Main = Main
  Starters = {}
  Loggers = {}
  Severities = {1}
  Files <- SomeFiles
  Env <- Environments
  LogLevelEnv = {1}
INVARIANTS CommandLineWins
CHECK_DEADLOCK FALSE
