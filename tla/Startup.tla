-------------------------------- MODULE Startup --------------------------------
(***************************************************************************)
(* How the program gets its configuration: ConfigManager (config.cpp), the *)
(* main program that loads it with the command line's file and hands it to *)
(* the logger (setup_environment in main.cpp), and the threads that call   *)
(* GGMLHook::start(), which loads it without a command line unless that    *)
(* has happened already.  A start may be followed by others: the           *)
(* interposed functions try again in every call.                           *)
(*                                                                         *)
(* The files may change between two loads, the environment does not.       *)
(***************************************************************************)
EXTENDS Logger

CONSTANTS
  Main,        \* the thread of main()
  Starters,    \* threads that call start()
  Files,       \* what a configuration file may contain, None included
  Env,         \* the environment variables the program may be started with
  LogLevelEnv  \* levels GGML_VIZ_LOG_LEVEL may give, INFO if it is not set

Threads == Starters \cup {Main}

\* The sources a configuration is made of.
Sources == [default : Files, file : Files, cli : Files, env : Env]

ASSUME StartupAssumption ==
  /\ Main \notin Starters /\ Main \notin Loggers
  /\ Unlocked \notin Threads
  /\ None \in Files /\ None \notin Sources
  /\ None \notin BOOLEAN /\ None \notin Levels
  /\ \A e \in Env : e.DISABLE \in BOOLEAN /\ e.VERBOSE \in BOOLEAN
  /\ \A f \in Files \ {None} : "level" \in DOMAIN f => f["level"] \in Levels
  /\ LogLevelEnv \subseteq Levels

VARIABLES
  config,     \* what config_ptr_ points to
  loaded,
  mutex,      \* of the ConfigManager; Unlocked when nobody holds it
  pc,
  building,   \* the configuration its holder puts together
  sources,    \* what that one is made of, None when there is none
  origin,     \* the sources of config, None for the built-in defaults
  got,        \* the configuration each thread got last, and its origin
  env         \* the environment variables

configVars == <<config, loaded, mutex, pc, building, sources, origin, got, env>>
vars == <<config, loaded, mutex, pc, building, sources, origin, got, env,
          current_level, options, log_mutex, lpc, message, in_force, line>>

Init ==
  /\ config = DefaultConfig /\ origin = None
  /\ loaded = FALSE
  /\ mutex = Unlocked
  /\ pc = [t \in Threads |-> IF t = Main THEN "lock" ELSE "idle"]
  /\ building = DefaultConfig /\ sources = None
  /\ got = [t \in Threads |-> [config |-> DefaultConfig, origin |-> None]]
  /\ env \in Env
  /\ \E level \in LogLevelEnv : LoggerInit(level)

Goto(t, label) == pc' = [pc EXCEPT ![t] = label]

-----------------------------------------------------------------------------
(* GGMLHook::start() and ConfigManager *)

\* A hook that was stopped, disabled or not started at all is started.
StartHook(s) ==
  /\ pc[s] \in {"idle", "started", "disabled", "threw"}
  /\ Goto(s, IF loaded THEN "get" ELSE "lock")
  /\ UNCHANGED <<config, loaded, mutex, building, sources, origin, got, env,
                 loggerVars>>

LockConfig(t) ==
  /\ pc[t] = "lock" /\ mutex = Unlocked
  /\ mutex' = t
  /\ Goto(t, "read")
  /\ UNCHANGED <<config, loaded, building, sources, origin, got, env, loggerVars>>

\* The exception leaves load_with_precedence() and releases the mutex.
Throw(t) ==
  /\ Goto(t, "threw")
  /\ mutex' = Unlocked
  /\ building' = DefaultConfig /\ sources' = None

\* The default file is optional, a bad file of GGML_VIZ_CONFIG gives a warning,
\* a bad file of --config an exception.  Only main() has a --config.
ReadSources(t) ==
  /\ pc[t] = "read"
  /\ \E d, e \in Files, c \in (IF t = Main THEN Files ELSE {None}),
        given \in (IF t = Main THEN BOOLEAN ELSE {FALSE}) :
       /\ given \/ c = None
       /\ IF given /\ ~Readable(c) THEN Throw(t)
          ELSE /\ sources' = [default |-> d, file |-> e, cli |-> c, env |-> env]
               /\ building' = Resolve(sources')
               /\ Goto(t, "validate")
               /\ UNCHANGED mutex
  /\ UNCHANGED <<config, loaded, origin, got, env, loggerVars>>

\* Mutant of Validate: the sum of valid sources passes for valid.
ValidateNot(t) ==
  /\ pc[t] = "validate"
  /\ Goto(t, "store")
  /\ UNCHANGED <<config, loaded, mutex, building, sources, origin, got, env,
                 loggerVars>>

\* The environment variables have not been validated before.
Validate(t) ==
  /\ pc[t] = "validate"
  /\ IF IsValid(building)
     THEN Goto(t, "store") /\ UNCHANGED <<mutex, building, sources>>
     ELSE Throw(t)
  /\ UNCHANGED <<config, loaded, origin, got, env, loggerVars>>

\* Mutant of StoreConfig: the flag is set with the old configuration in place.
StoreFlagFirst(t) ==
  /\ pc[t] = "store"
  /\ loaded' = TRUE
  /\ Goto(t, "flag")
  /\ UNCHANGED <<config, mutex, building, sources, origin, got, env, loggerVars>>

StoreConfig(t) ==
  /\ pc[t] = "store"
  /\ config' = building /\ origin' = sources
  /\ Goto(t, "flag")
  /\ UNCHANGED <<loaded, mutex, building, sources, got, env, loggerVars>>

SetLoaded(t) ==
  /\ pc[t] = "flag"
  /\ loaded' = TRUE
  /\ mutex' = Unlocked
  /\ building' = DefaultConfig /\ sources' = None
  /\ Goto(t, "get")
  /\ UNCHANGED <<config, origin, got, env, loggerVars>>

\* What start() does with a configuration c.
Started(c) ==
  IF c.enable_op_timing \/ c.enable_memory_tracking THEN "started" ELSE "disabled"

GetConfig(t) ==
  /\ pc[t] = "get"
  /\ got' = [got EXCEPT ![t] = [config |-> config, origin |-> origin]]
  /\ Goto(t, IF t = Main THEN "configure" ELSE Started(config))
  /\ UNCHANGED <<config, loaded, mutex, building, sources, origin, env, loggerVars>>

\* record_event() and the other hooks read the configuration again each time.
Record(s) ==
  /\ pc[s] = "started"
  /\ got' = [got EXCEPT ![s] = [config |-> config, origin |-> origin]]
  /\ UNCHANGED <<config, loaded, mutex, pc, building, sources, origin, env,
                 loggerVars>>

-----------------------------------------------------------------------------
(* main(): the logger *)

MainStep(from, to) ==
  /\ pc[Main] = from
  /\ Goto(Main, to)
  /\ UNCHANGED <<config, loaded, mutex, building, sources, origin, got, env>>

ConfigureLogger ==
  \/ MainStep("configure", "level") /\ ConfigureLock(Main)
  \/ MainStep("level", "options") /\ ConfigureLevel(got[Main].config.level)
  \/ MainStep("options", "options") /\ ConfigureOption
  \/ MainStep("options", "running") /\ ConfigureUnlock

Next ==
  \/ \E s \in Starters : StartHook(s) \/ Record(s)
  \/ \E t \in Threads : \/ LockConfig(t) \/ ReadSources(t) \/ Validate(t)
                        \/ StoreConfig(t) \/ SetLoaded(t) \/ GetConfig(t)
  \/ ConfigureLogger
  \/ LoggerNext /\ UNCHANGED configVars

Spec == Init /\ [][Next]_vars

-----------------------------------------------------------------------------
(* Properties *)

\* Whoever reads the configuration, at any moment, gets one that passed the
\* validation: files, environment and command line are validated together, and
\* a load that fails leaves the configuration that was there.
ConfigValid ==
  /\ IsValid(config)
  /\ \A t \in Threads : IsValid(got[t].config)

\* A hook that starts, or records, never does it with the built-in defaults of
\* a manager that has not loaded anything: is_loaded() is only true when the
\* configuration is there.
StartConfigured ==
  /\ loaded => origin # None
  /\ \A s \in Starters : pc[s] \in {"started", "disabled"} => got[s].origin # None

\* No source is overruled by a lower one, in the order in which
\* load_with_precedence() applies them ("defaults < file < env < CLI"): a field
\* has the value of a source, and the sources above that one say nothing of it.
\* The exception is a file that sets a field to its default: merge_from() cannot
\* tell that from a file without the field, and a lower source that says
\* something else is not overruled (CommandLineWins).
PrecedenceKept ==
  origin # None =>
    \A f \in Fields :
      LET said == Said(origin, f)
      IN  \E i \in 1 .. 5 :
            /\ config[f] = said[i]
            /\ \A j \in 1 .. i - 1 :
                 said[j] # None => j # 2 /\ said[j] = DefaultConfig[f]

\* "Apply in precedence order: defaults < file < env < CLI" (config.cpp), "CLI >
\* file > env > defaults" (config.hpp): whatever the file of --config says is
\* taken, the default of a field included.
CommandLineWins ==
  origin # None /\ Readable(origin.cli) =>
    \A f \in DOMAIN origin.cli : config[f] = origin.cli[f]

\* "CLI > file > env > defaults" (config.hpp), "config file overrides
\* environment" (LOGGING_USAGE.md): what the file of GGML_VIZ_CONFIG sets and
\* that of --config leaves open is taken, whatever the environment variables say.
FileOverridesEnvironment ==
  origin # None =>
    \A f \in Fields :
      FromFile(origin.file, f) \notin {None, DefaultConfig[f]}
        /\ FromFile(origin.cli, f) = None =>
          config[f] = FromFile(origin.file, f)

\* "Environment variables are used ... Uses environment settings"
\* (LOGGING_USAGE.md): with no level in any file the program runs with the
\* level of GGML_VIZ_LOG_LEVEL.
EnvLevelUsed ==
  pc[Main] = "running" /\ FromEnv(env, "level") = None
    /\ (\A x \in {"default", "file", "cli"} : got[Main].origin[x] = None) =>
      current_level \in LogLevelEnv
=============================================================================
