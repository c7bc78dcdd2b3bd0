---------------------------- MODULE Startup_proofs ----------------------------
(***************************************************************************)
(* Proofs about Startup and Logger, for every set of threads, files,       *)
(* environments and messages.                                              *)
(***************************************************************************)
EXTENDS Startup, TLAPS

-----------------------------------------------------------------------------
(* The configuration as a value. *)

\* The file sets field f to something else than the default.
Sets(file, f) ==
  Readable(file) /\ f \in DOMAIN file /\ file[f] # DefaultConfig[f]

\* What the merges make of field f: a file says nothing of a field it leaves at,
\* or sets to, the default.
Merged(s, f) ==
  IF Sets(s.cli, f) THEN s.cli[f]
  ELSE IF FromEnv(s.env, f) # None THEN FromEnv(s.env, f)
  ELSE IF Sets(s.file, f) THEN s.file[f]
  ELSE IF Sets(s.default, f) THEN s.default[f]
  ELSE DefaultConfig[f]

\* A file that is merged decides exactly the fields that it sets.
LEMMA MergedField ==
  ASSUME NEW config0, NEW file, NEW f \in Fields
  PROVE  MergeFile(config0, file)[f] = IF Sets(file, f) THEN file[f] ELSE config0[f]
<1>1. FromJson(file)[f] = IF f \in DOMAIN file THEN file[f] ELSE DefaultConfig[f]
  BY DEF FromJson
<1>2. CASE Readable(file)
  <2>1. MergeFile(config0, file)[f] =
          IF FromJson(file)[f] # DefaultConfig[f] THEN FromJson(file)[f] ELSE config0[f]
    BY <1>2 DEF MergeFile, MergeFrom
  <2> QED
    BY <1>1, <1>2, <2>1 DEF Sets
<1>3. CASE ~Readable(file)
  BY <1>3 DEF MergeFile, Sets
<1> QED
  BY <1>2, <1>3

\* Merging a file keeps the fields of the configuration.
LEMMA MergedDomain ==
  ASSUME NEW config0, NEW file, DOMAIN config0 = Fields
  PROVE  DOMAIN MergeFile(config0, file) = Fields
BY DEF MergeFile, MergeFrom

\* The environment variables decide exactly the fields they have a value for.
LEMMA OverriddenField ==
  ASSUME NEW config0, DOMAIN config0 = Fields, NEW v \in Env, NEW f \in Fields
  PROVE  ApplyEnvOverrides(config0, v)[f] =
           IF FromEnv(v, f) # None THEN FromEnv(v, f) ELSE config0[f]
<1>1. v.DISABLE \in BOOLEAN /\ v.VERBOSE \in BOOLEAN
  BY StartupAssumption
<1>2. FALSE # None /\ TRUE # None /\ DEBUG # None
  <2>1. None \notin BOOLEAN /\ None \notin Levels
    BY StartupAssumption
  <2>2. DEBUG \in Levels
    BY DEF DEBUG, FATAL, Levels
  <2> QED
    BY <2>1, <2>2
<1> USE <1>1, <1>2 DEF ApplyEnvOverrides, FromEnv
<1>3. CASE f \in {"enable_op_timing", "enable_memory_tracking"}
  BY <1>3 DEF Fields
<1>4. CASE f = "write_to_file"
  BY <1>4 DEF Fields
<1>5. CASE f = "filename"
  BY <1>5 DEF Fields
<1>6. CASE f = "max_events"
  BY <1>6 DEF Fields
<1>7. CASE f = "level"
  BY <1>7 DEF Fields
<1> QED
  BY <1>3, <1>4, <1>5, <1>6, <1>7 DEF Fields

\* What the sources resolve to, field by field.
LEMMA ResolvedFields ==
  ASSUME NEW s \in Sources, NEW f \in Fields
  PROVE  Resolve(s)[f] = Merged(s, f)
<1> DEFINE first == MergeFile(DefaultConfig, s.default)
           second == MergeFile(first, s.file)
           third == ApplyEnvOverrides(second, s.env)
<1>1. DOMAIN DefaultConfig = Fields
  BY DEF DefaultConfig, Fields
<1>2. DOMAIN first = Fields /\ DOMAIN second = Fields
  BY <1>1, MergedDomain
<1>3. s.env \in Env
  BY DEF Sources
<1>4. first[f] = IF Sets(s.default, f) THEN s.default[f] ELSE DefaultConfig[f]
  BY MergedField
<1>5. second[f] = IF Sets(s.file, f) THEN s.file[f] ELSE first[f]
  BY MergedField
<1>6. third[f] = IF FromEnv(s.env, f) # None THEN FromEnv(s.env, f) ELSE second[f]
  BY <1>2, <1>3, OverriddenField
<1>7. Resolve(s) = MergeFile(third, s.cli)
  BY DEF Resolve
<1>8. Resolve(s)[f] = IF Sets(s.cli, f) THEN s.cli[f] ELSE third[f]
  BY <1>7, MergedField
<1> QED
  BY <1>4, <1>5, <1>6, <1>8 DEF Merged

\* The defaults are valid.
LEMMA DefaultValid == IsValid(DefaultConfig)
BY ConfigAssumption DEF IsValid, DefaultConfig
-----------------------------------------------------------------------------
(* Loading.  The holder of the mutex is the only thread that builds a          *)
(* configuration; what it stores was validated and is what its sources         *)
(* resolve to.                                                                 *)

Loading == {"read", "validate", "store", "flag"}

HolderLoads == \A t \in Threads : pc[t] \in Loading => mutex = t

BuiltFromSources ==
  \A t \in Threads :
    /\ pc[t] \in {"validate", "store", "flag"} =>
         sources \in Sources /\ building = Resolve(sources)
    /\ pc[t] = "store" => IsValid(building)
    /\ pc[t] = "flag" => origin # None

ConfigFromSources ==
  /\ IsValid(config)
  /\ origin # None => origin \in Sources /\ config = Resolve(origin)
  /\ loaded => origin # None
  /\ \A t \in Threads : /\ pc[t] \in {"get", "started"} => origin # None
                        /\ IsValid(got[t].config)
                        /\ t \in Starters /\ pc[t] \in {"started", "disabled"} =>
                             got[t].origin # None

LoadInv ==
  /\ DOMAIN pc = Threads /\ DOMAIN got = Threads /\ env \in Env
  /\ HolderLoads
  /\ BuiltFromSources
  /\ ConfigFromSources

LEMMA LoadInitially == Init => LoadInv
BY DefaultValid, StartupAssumption
   DEF Init, LoadInv, HolderLoads, BuiltFromSources, ConfigFromSources, Loading, Threads

LEMMA LoadPreserved == LoadInv /\ [Next]_vars => LoadInv'
<1> SUFFICES ASSUME LoadInv, [Next]_vars
             PROVE  LoadInv'
  OBVIOUS
<1> USE DEF LoadInv, HolderLoads, BuiltFromSources, ConfigFromSources, Loading, Goto
<1>1. ASSUME NEW s \in Starters, StartHook(s)
      PROVE  LoadInv'
  BY <1>1, StartupAssumption DEF StartHook, Threads
<1>2. ASSUME NEW s \in Starters, Record(s)
      PROVE  LoadInv'
  BY <1>2, StartupAssumption DEF Record, Threads
<1>3. ASSUME NEW t \in Threads, LockConfig(t)
      PROVE  LoadInv'
  BY <1>3, StartupAssumption DEF LockConfig
<1>4. ASSUME NEW t \in Threads, ReadSources(t)
      PROVE  LoadInv'
  BY <1>4, StartupAssumption DEF ReadSources, Throw, Sources
<1>5. ASSUME NEW t \in Threads, Validate(t)
      PROVE  LoadInv'
  BY <1>5, StartupAssumption DEF Validate, Throw
<1>6. ASSUME NEW t \in Threads, StoreConfig(t)
      PROVE  LoadInv'
  BY <1>6, StartupAssumption DEF StoreConfig
<1>7. ASSUME NEW t \in Threads, SetLoaded(t)
      PROVE  LoadInv'
  BY <1>7, StartupAssumption DEF SetLoaded
<1>8. ASSUME NEW t \in Threads, GetConfig(t)
      PROVE  LoadInv'
  BY <1>8, StartupAssumption DEF GetConfig, Started
<1>9. CASE ConfigureLogger
  BY <1>9, StartupAssumption DEF ConfigureLogger, MainStep, Threads
<1>10. CASE UNCHANGED configVars
  BY <1>10 DEF configVars
<1> QED
  BY <1>1, <1>2, <1>3, <1>4, <1>5, <1>6, <1>7, <1>8, <1>9, <1>10
     DEF Next, vars, configVars

\* The configuration that anyone reads has passed the validation, for every
\* number of threads that load it and whatever the files contain.
THEOREM ConfigAlwaysValid == Spec => []ConfigValid
<1>1. LoadInv => ConfigValid
  BY DEF LoadInv, ConfigFromSources, ConfigValid
<1> QED
  BY <1>1, LoadInitially, LoadPreserved, PTL DEF Spec

\* No hook starts with the defaults of a manager that has not loaded anything.
THEOREM HooksStartConfigured == Spec => []StartConfigured
<1>1. LoadInv => StartConfigured
  BY DEF LoadInv, ConfigFromSources, StartConfigured, Threads
<1> QED
  BY <1>1, LoadInitially, LoadPreserved, PTL DEF Spec

\* A field that a source decides against the defaults is not overruled from
\* below, whichever source that is.
LEMMA NoneOverruled ==
  ASSUME NEW s \in Sources, NEW f \in Fields
  PROVE  \E i \in 1 .. 5 :
           /\ Resolve(s)[f] = Said(s, f)[i]
           /\ \A j \in 1 .. i - 1 :
                Said(s, f)[j] # None => j # 2 /\ Said(s, f)[j] = DefaultConfig[f]
<1> DEFINE said == Said(s, f)
<1>1. /\ said[1] = FromFile(s.cli, f) /\ said[2] = FromEnv(s.env, f)
      /\ said[3] = FromFile(s.file, f) /\ said[4] = FromFile(s.default, f)
      /\ said[5] = DefaultConfig[f]
  BY DEF Said
<1>2. ASSUME NEW file
      PROVE  /\ Sets(file, f) => FromFile(file, f) = file[f]
             /\ ~Sets(file, f) => FromFile(file, f) \in {None, DefaultConfig[f]}
  BY DEF Sets, FromFile
<1>3. Resolve(s)[f] = Merged(s, f)
  BY ResolvedFields
<1> HIDE DEF said
<1>4. CASE Sets(s.cli, f)
  <2>1. Resolve(s)[f] = said[1]
    BY <1>1, <1>2, <1>3, <1>4 DEF Merged
  <2> QED
    BY <2>1 DEF said
<1>5. CASE ~Sets(s.cli, f) /\ FromEnv(s.env, f) # None
  <2>1. Resolve(s)[f] = said[2] /\ said[1] \in {None, DefaultConfig[f]}
    BY <1>1, <1>2, <1>3, <1>5 DEF Merged
  <2> QED
    BY <2>1 DEF said
<1>6. CASE ~Sets(s.cli, f) /\ FromEnv(s.env, f) = None /\ Sets(s.file, f)
  <2>1. /\ Resolve(s)[f] = said[3]
        /\ said[1] \in {None, DefaultConfig[f]} /\ said[2] = None
    BY <1>1, <1>2, <1>3, <1>6 DEF Merged
  <2> QED
    BY <2>1 DEF said
<1>7. CASE /\ ~Sets(s.cli, f) /\ FromEnv(s.env, f) = None /\ ~Sets(s.file, f)
           /\ Sets(s.default, f)
  <2>1. /\ Resolve(s)[f] = said[4] /\ said[2] = None
        /\ said[1] \in {None, DefaultConfig[f]} /\ said[3] \in {None, DefaultConfig[f]}
    BY <1>1, <1>2, <1>3, <1>7 DEF Merged
  <2> QED
    BY <2>1 DEF said
<1>8. CASE /\ ~Sets(s.cli, f) /\ FromEnv(s.env, f) = None /\ ~Sets(s.file, f)
           /\ ~Sets(s.default, f)
  <2>1. /\ Resolve(s)[f] = said[5] /\ said[2] = None
        /\ said[1] \in {None, DefaultConfig[f]} /\ said[3] \in {None, DefaultConfig[f]}
        /\ said[4] \in {None, DefaultConfig[f]}
    BY <1>1, <1>2, <1>3, <1>8 DEF Merged
  <2> QED
    BY <2>1 DEF said
<1> QED
  BY <1>4, <1>5, <1>6, <1>7, <1>8

\* No source is overruled by a lower one, except a file that sets a field to its
\* default, for all files and environments.
THEOREM PrecedenceHolds == Spec => []PrecedenceKept
<1>1. LoadInv => PrecedenceKept
  BY NoneOverruled DEF LoadInv, ConfigFromSources, PrecedenceKept
<1> QED
  BY <1>1, LoadInitially, LoadPreserved, PTL DEF Spec

-----------------------------------------------------------------------------
(* The logger. *)

\* A configuration that was loaded has a level.
LEMMA ResolvedLevel ==
  ASSUME NEW s \in Sources
  PROVE  Resolve(s).level \in Levels
<1>1. "level" \in Fields
  BY DEF Fields
<1>2. Resolve(s)["level"] = Merged(s, "level")
  BY <1>1, ResolvedFields
<1>3. DEBUG \in Levels /\ INFO \in Levels
  BY DEF DEBUG, INFO, FATAL, Levels
<1>4. FromEnv(s.env, "level") # None => FromEnv(s.env, "level") = DEBUG
  BY DEF FromEnv
<1>5. DefaultConfig["level"] = INFO
  BY DEF DefaultConfig
<1>6. ASSUME NEW file \in Files, Sets(file, "level")
      PROVE  file["level"] \in Levels
  BY <1>6, StartupAssumption DEF Sets, Readable
<1>7. s.default \in Files /\ s.file \in Files /\ s.cli \in Files
  BY DEF Sources
<1> QED
  BY <1>2, <1>3, <1>4, <1>5, <1>6, <1>7 DEF Merged

\* Levels are numbers, in order.
LEMMA LevelOrder ==
  ASSUME NEW x \in Levels, NEW y \in Levels
  PROVE  x >= y \/ x < y
BY DEF Levels, DEBUG, FATAL

LoggerTypes ==
  /\ current_level \in Levels
  /\ options \in [Options -> {"env", "config"}]
  /\ DOMAIN lpc = Loggers /\ DOMAIN message = Loggers
  /\ in_force \in [Loggers -> SUBSET Levels]
  /\ line \in [Loggers -> Seq({"env", "config"})]
  /\ \A l \in Loggers : message[l].level \in Levels
  /\ got[Main].config.level \in Levels

\* A logger puts its line together, and main() sets the options, as the holder
\* of the mutex.
LogHolder ==
  /\ \A l \in Loggers : lpc[l] = "format" => log_mutex = l
  /\ pc[Main] \in {"level", "options"} => log_mutex = Main

\* Only while main() sets them are the options those of two configurations.
OptionsUniform ==
  pc[Main] # "options" => \A o \in Options : options[o] = options["prefix"]

LineSoFar ==
  \A l \in Loggers :
    /\ lpc[l] \in {"test", "lock"} => line[l] = <<>>
    /\ lpc[l] = "format" => /\ Len(line[l]) <= 3
                            /\ \A i \in 1 .. Len(line[l]) : line[l][i] = options["prefix"]
    /\ lpc[l] = "written" => \A i, j \in 1 .. 3 : line[l][i] = line[l][j]

LevelInForce ==
  \A l \in Loggers :
    /\ lpc[l] = "test" => current_level \in in_force[l]
    /\ lpc[l] \in {"lock", "format", "written"} =>
         \E v \in in_force[l] : message[l].level >= v
    /\ lpc[l] = "dropped" => \E v \in in_force[l] : message[l].level < v

LogInv ==
  LoggerTypes /\ LogHolder /\ OptionsUniform /\ LineSoFar /\ LevelInForce

LEMMA LogInitially == Init => LogInv
<1> SUFFICES ASSUME Init
             PROVE  LogInv
  OBVIOUS
<1>1. PICK level \in LogLevelEnv : LoggerInit(level)
  BY DEF Init
<1>2. level \in Levels /\ INFO \in Levels
  BY StartupAssumption DEF INFO, DEBUG, FATAL, Levels
<1>3. \A t \in Threads : pc[t] \in {"lock", "idle"}
  BY DEF Init
<1>4. Main \in Threads /\ got[Main].config.level = INFO
  BY DEF Init, Threads, DefaultConfig
<1> QED
  BY <1>1, <1>2, <1>3, <1>4
     DEF LoggerInit, LogInv, LoggerTypes, LogHolder, OptionsUniform, LineSoFar,
         LevelInForce, Options

\* The steps of the loggers.
LEMMA LoggersKeep ==
  ASSUME LogInv, LoggerNext, UNCHANGED configVars
  PROVE  LogInv'
<1> USE DEF LogInv, LoggerTypes, LogHolder, OptionsUniform, LineSoFar, LevelInForce,
            configVars
<1>1. ASSUME NEW l \in Loggers, Message(l)
      PROVE  LogInv'
  <2>1. PICK level \in Severities, stream \in BOOLEAN :
          /\ message' = [message EXCEPT ![l] = [level |-> level, stream |-> stream]]
          /\ lpc' = [lpc EXCEPT ![l] = IF stream /\ ~ShouldLog(level) THEN "dropped"
                                       ELSE "test"]
    BY <1>1 DEF Message
  <2>2. level \in Levels
    BY LoggerAssumption
  <2>3. ~ShouldLog(level) => level < current_level
    BY <2>2, LevelOrder DEF ShouldLog
  <2>4. /\ in_force' = [in_force EXCEPT ![l] = {current_level}]
        /\ line' = [line EXCEPT ![l] = <<>>]
        /\ UNCHANGED <<current_level, options, log_mutex>>
    BY <1>1 DEF Message
  <2>5. /\ lpc'[l] \in {"dropped", "test"}
        /\ lpc'[l] = "dropped" => level < current_level
        /\ message'[l].level = level /\ in_force'[l] = {current_level}
        /\ line'[l] = <<>>
    BY <2>1, <2>3, <2>4
  <2>6. ASSUME NEW k \in Loggers \ {l}
        PROVE  /\ lpc'[k] = lpc[k] /\ message'[k] = message[k]
               /\ in_force'[k] = in_force[k] /\ line'[k] = line[k]
    BY <2>1, <2>4
  <2>7. LoggerTypes'
    BY <2>1, <2>2, <2>4
  <2>8. LogHolder' /\ OptionsUniform'
    BY <2>4, <2>5, <2>6
  <2>9. LineSoFar'
    BY <2>4, <2>5, <2>6
  <2>10. LevelInForce'
    BY <2>4, <2>5, <2>6
  <2> QED
    BY <2>7, <2>8, <2>9, <2>10
<1>2. ASSUME NEW l \in Loggers, TestLevel(l)
      PROVE  LogInv'
  <2>1. ~ShouldLog(message[l].level) => message[l].level < current_level
    BY LevelOrder DEF ShouldLog
  <2> QED
    BY <1>2, <2>1 DEF TestLevel, ShouldLog
<1>3. ASSUME NEW l \in Loggers, LockLine(l)
      PROVE  LogInv'
  BY <1>3, StartupAssumption, LoggerAssumption DEF LockLine, Threads
<1>4. ASSUME NEW l \in Loggers, Format(l)
      PROVE  LogInv'
  <2>1. /\ lpc[l] = "format" /\ Len(line[l]) < 3 /\ log_mutex = l
        /\ line' = [line EXCEPT ![l] = Append(@, options[Formatted[Len(@) + 1]])]
        /\ UNCHANGED <<current_level, options, log_mutex, lpc, message, in_force, pc, got>>
    BY <1>4 DEF Format
  <2>2. PICK n \in 0 .. 2 : n = Len(line[l])
    <3>1. line[l] \in Seq({"env", "config"})
      OBVIOUS
    <3>2. Len(line[l]) \in Nat
      BY ONLY <3>1
    <3>3. Len(line[l]) < 3
      BY <2>1
    <3>4. \A k \in Nat : k < 3 => k \in 0 .. 2
      BY ONLY SMT
    <3> QED
      BY ONLY <3>2, <3>3, <3>4, Zenon
  <2>3. Formatted[n + 1] \in Options
    <3>1. n = 0 \/ n = 1 \/ n = 2
      OBVIOUS
    <3>2. Formatted[1] \in Options /\ Formatted[2] \in Options /\ Formatted[3] \in Options
      BY ONLY DEF Formatted, Options
    <3> QED
      BY ONLY <3>1, <3>2
  <2> DEFINE x == options[Formatted[n + 1]]
  <2>4. x = options["prefix"] /\ x \in {"env", "config"}
    BY <2>1, <2>3, StartupAssumption
  <2>5. line'[l] = Append(line[l], x)
    BY <2>1, <2>2
  <2> HIDE DEF x
  <2>6. /\ line'[l] \in Seq({"env", "config"})
        /\ Len(line'[l]) = n + 1
        /\ \A i \in 1 .. n + 1 : line'[l][i] = IF i = n + 1 THEN x ELSE line[l][i]
    BY <2>2, <2>4, <2>5
  <2>7. \A i \in 1 .. n + 1 : line'[l][i] = options["prefix"]
    BY <2>1, <2>2, <2>4, <2>6
  <2>8. \A m \in Loggers : m # l => line'[m] = line[m]
    BY <2>1
  <2>9. LoggerTypes'
    BY <2>1, <2>6, <2>8
  <2>10. LineSoFar'
    BY <2>1, <2>2, <2>6, <2>7, <2>8
  <2> QED
    BY <2>1, <2>9, <2>10
<1>5. ASSUME NEW l \in Loggers, WriteLine(l)
      PROVE  LogInv'
  <2>1. lpc[l] = "format" /\ log_mutex = l /\ l # Main
    BY <1>5, StartupAssumption DEF WriteLine
  <2>2. \A i, j \in 1 .. 3 : line[l][i] = line[l][j]
    <3>1. Len(line[l]) = 3
      BY <1>5 DEF WriteLine
    <3>2. \A i \in 1 .. 3 : line[l][i] = options["prefix"]
      BY <2>1, <3>1
    <3> QED
      BY ONLY <3>2
  <2>3. /\ lpc' = [lpc EXCEPT ![l] = "written"]
        /\ UNCHANGED <<current_level, options, message, in_force, line, pc, got>>
    BY <1>5 DEF WriteLine
  <2>4. LogHolder'
    BY <2>1, <2>3
  <2>5. LoggerTypes' /\ OptionsUniform'
    BY <2>3
  <2>6. LineSoFar'
    BY <2>2, <2>3
  <2>7. LevelInForce'
    BY <2>1, <2>3
  <2> QED
    BY <2>4, <2>5, <2>6, <2>7
<1> QED
  BY <1>1, <1>2, <1>3, <1>4, <1>5 DEF LoggerNext

\* The steps of main().
LEMMA ConfigureKeeps ==
  ASSUME LogInv, LoadInv, ConfigureLogger
  PROVE  LogInv'
<1> USE DEF LogInv, LoggerTypes, LogHolder, OptionsUniform, LineSoFar, LevelInForce,
            MainStep, Goto, LoadInv
<1>0. Main \in Threads
  BY DEF Threads
<1>1. CASE MainStep("configure", "level") /\ ConfigureLock(Main)
  BY <1>0, <1>1, StartupAssumption, LoggerAssumption DEF ConfigureLock
<1>2. CASE MainStep("level", "options") /\ ConfigureLevel(got[Main].config.level)
  BY <1>0, <1>2 DEF ConfigureLevel
<1>3. CASE MainStep("options", "options") /\ ConfigureOption
  <2>1. PICK i \in 1 .. 3 : options' = [options EXCEPT ![Configured[i]] = "config"]
    BY <1>3 DEF ConfigureOption
  <2>2. options' \in [Options -> {"env", "config"}]
    BY <2>1
  <2>3. \A l \in Loggers : lpc[l] # "format"
    BY <1>3, StartupAssumption
  <2> QED
    BY <1>0, <1>3, <2>2, <2>3 DEF ConfigureOption
<1>4. CASE MainStep("options", "running") /\ ConfigureUnlock
  <2>1. \A l \in Loggers : lpc[l] # "format"
    BY <1>4, StartupAssumption
  <2>2. \A o \in Options : options[o] = options["prefix"]
    BY <1>4 DEF ConfigureUnlock, Options
  <2> QED
    BY <1>0, <1>4, <2>1, <2>2 DEF ConfigureUnlock
<1> QED
  BY <1>1, <1>2, <1>3, <1>4 DEF ConfigureLogger

\* Loading a configuration leaves the logger alone.
LEMMA LoadKeepsLogger ==
  ASSUME LogInv, LoadInv, UNCHANGED loggerVars,
         \/ \E s \in Starters : StartHook(s) \/ Record(s)
         \/ \E t \in Threads : \/ LockConfig(t) \/ ReadSources(t) \/ Validate(t)
                               \/ StoreConfig(t) \/ SetLoaded(t) \/ GetConfig(t)
  PROVE  LogInv'
<1>1. \/ pc'[Main] \notin {"level", "options"} /\ pc[Main] \notin {"level", "options"}
      \/ pc'[Main] = pc[Main]
  BY ZenonT(30), StartupAssumption
     DEF LoadInv, Threads, StartHook, Record, LockConfig, ReadSources, Throw, Validate,
         StoreConfig, SetLoaded, GetConfig, Goto
<1>2. got'[Main].config.level \in Levels
  <2>1. ASSUME NEW t \in Threads, GetConfig(t)
        PROVE  got'[Main].config.level \in Levels
    <3>1. origin # None /\ config.level \in Levels
      BY <2>1, ResolvedLevel DEF GetConfig, LoadInv, ConfigFromSources
    <3> QED
      BY <2>1, <3>1 DEF GetConfig, LogInv, LoggerTypes, LoadInv, Threads
  <2>2. ASSUME NEW s \in Starters, Record(s)
        PROVE  got'[Main].config.level \in Levels
    BY <2>2, StartupAssumption DEF Record, LogInv, LoggerTypes
  <2> QED
    BY <2>1, <2>2
       DEF StartHook, LockConfig, ReadSources, Validate, StoreConfig, SetLoaded,
           LogInv, LoggerTypes
<1> QED
  BY <1>1, <1>2
     DEF LogInv, LoggerTypes, LogHolder, OptionsUniform, LineSoFar, LevelInForce,
         loggerVars, ShouldLog

\* A line has the options of one configuration, and a message is written or
\* dropped by a level that was in force during the call, for every number of
\* threads that log while main() configures the logger.
THEOREM LinesAlwaysConsistent == Spec => []LinesConsistent
<1>1. LogInv => LinesConsistent
  BY DEF LogInv, LineSoFar, LevelInForce, LinesConsistent
<1>2. LogInv /\ LoadInv /\ [Next]_vars => LogInv'
  <2> SUFFICES ASSUME LogInv, LoadInv, [Next]_vars
               PROVE  LogInv'
    OBVIOUS
  <2>1. CASE \/ \E s \in Starters : StartHook(s) \/ Record(s)
             \/ \E t \in Threads : \/ LockConfig(t) \/ ReadSources(t) \/ Validate(t)
                                   \/ StoreConfig(t) \/ SetLoaded(t) \/ GetConfig(t)
    <3>1. UNCHANGED loggerVars
      BY <2>1 DEF StartHook, Record, LockConfig, ReadSources, Validate, StoreConfig,
                  SetLoaded, GetConfig
    <3> QED
      BY <2>1, <3>1, LoadKeepsLogger
  <2>2. CASE ConfigureLogger
    BY <2>2, ConfigureKeeps
  <2>3. CASE LoggerNext /\ UNCHANGED configVars
    BY <2>3, LoggersKeep
  <2>4. CASE UNCHANGED vars
    BY <2>4 DEF vars, LogInv, LoggerTypes, LogHolder, OptionsUniform, LineSoFar,
                LevelInForce
  <2> QED
    BY <2>1, <2>2, <2>3, <2>4 DEF Next
<1> QED
  BY <1>1, <1>2, LogInitially, LoadInitially, LoadPreserved, PTL DEF Spec
=============================================================================
