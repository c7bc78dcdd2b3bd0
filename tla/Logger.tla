-------------------------------- MODULE Logger --------------------------------
(***************************************************************************)
(* The logger (src/utils/logger.cpp): log() reads the level without the    *)
(* mutex, then locks it, puts the line together from the options and       *)
(* writes it; a log stream tests the level twice, when it is made and when *)
(* it is written.  configure_from_config() sets level and options one by   *)
(* one under the mutex.  An option is represented by the configuration it  *)
(* comes from, "env" or "config".                                          *)
(***************************************************************************)
EXTENDS Config, Sequences

CONSTANTS
  Loggers,    \* threads that write messages
  Severities, \* the levels of their messages
  Unlocked    \* log_mutex when nobody holds it

ASSUME LoggerAssumption == Severities \subseteq Levels /\ Unlocked \notin Loggers

VARIABLES
  current_level,
  options,     \* prefix_, timestamp_enabled_, thread_id_enabled_
  log_mutex,
  lpc,         \* where each thread is in a call
  message,     \* its message: the level, and whether it is a stream
  in_force,    \* the levels there were since the call began (of the proof)
  line         \* the line it puts together: the options used so far

Options == {"prefix", "timestamp", "thread_id"}
Formatted == <<"prefix", "timestamp", "thread_id">>    \* as log() uses them
Configured == <<"timestamp", "thread_id", "prefix">>   \* as they are set

loggerVars == <<current_level, options, log_mutex, lpc, message, in_force, line>>

\* The constructor configures itself from the environment.
LoggerInit(level) ==
  /\ current_level = level
  /\ options = [o \in Options |-> "env"]
  /\ log_mutex = Unlocked
  /\ lpc = [l \in Loggers |-> "idle"]
  /\ message = [l \in Loggers |-> [level |-> INFO, stream |-> FALSE]]
  /\ in_force = [l \in Loggers |-> {}]
  /\ line = [l \in Loggers |-> <<>>]

\* Mutant of ShouldLog: only more severe messages than the level.
ShouldLogAbove(level) == level > current_level

ShouldLog(level) == level >= current_level

\* A message, or a stream, whose constructor tests the level already.
Message(l) ==
  /\ lpc[l] \in {"idle", "written", "dropped"}
  /\ \E level \in Severities, stream \in BOOLEAN :
       /\ message' = [message EXCEPT ![l] = [level |-> level, stream |-> stream]]
       /\ lpc' = [lpc EXCEPT ![l] = IF stream /\ ~ShouldLog(level) THEN "dropped"
                                    ELSE "test"]
  /\ in_force' = [in_force EXCEPT ![l] = {current_level}]
  /\ line' = [line EXCEPT ![l] = <<>>]
  /\ UNCHANGED <<current_level, options, log_mutex>>

TestLevel(l) ==
  /\ lpc[l] = "test"
  /\ lpc' = [lpc EXCEPT ![l] = IF ShouldLog(message[l].level) THEN "lock"
                               ELSE "dropped"]
  /\ UNCHANGED <<current_level, options, log_mutex, message, in_force, line>>

\* Mutant of LockLine: the line is put together without the mutex.
LockLineNot(l) ==
  /\ lpc[l] = "lock"
  /\ lpc' = [lpc EXCEPT ![l] = "format"]
  /\ UNCHANGED <<current_level, options, log_mutex, message, in_force, line>>

LockLine(l) ==
  /\ lpc[l] = "lock" /\ log_mutex = Unlocked
  /\ log_mutex' = l
  /\ lpc' = [lpc EXCEPT ![l] = "format"]
  /\ UNCHANGED <<current_level, options, message, in_force, line>>

\* Prefix, timestamp and thread number are put into the line one by one.
Format(l) ==
  /\ lpc[l] = "format" /\ Len(line[l]) < 3
  /\ line' = [line EXCEPT ![l] = Append(@, options[Formatted[Len(@) + 1]])]
  /\ UNCHANGED <<current_level, options, log_mutex, lpc, message, in_force>>

WriteLine(l) ==
  /\ lpc[l] = "format" /\ Len(line[l]) = 3
  /\ lpc' = [lpc EXCEPT ![l] = "written"]
  /\ log_mutex' = IF log_mutex = l THEN Unlocked ELSE log_mutex
  /\ UNCHANGED <<current_level, options, message, in_force, line>>

LoggerNext ==
  \E l \in Loggers :
    Message(l) \/ TestLevel(l) \/ LockLine(l) \/ Format(l) \/ WriteLine(l)

-----------------------------------------------------------------------------
(* configure_from_config(), called by thread t *)

ConfigureLock(t) ==
  /\ log_mutex = Unlocked
  /\ log_mutex' = t
  /\ UNCHANGED <<current_level, options, lpc, message, in_force, line>>

ConfigureLevel(level) ==
  /\ current_level' = level
  /\ in_force' = [l \in Loggers |-> in_force[l] \cup {level}]
  /\ UNCHANGED <<options, log_mutex, lpc, message, line>>

ConfigureOption ==
  /\ \E i \in 1 .. 3 :
       /\ \A j \in 1 .. 3 : (options[Configured[j]] = "config") <=> (j < i)
       /\ options' = [options EXCEPT ![Configured[i]] = "config"]
  /\ UNCHANGED <<current_level, log_mutex, lpc, message, in_force, line>>

ConfigureUnlock ==
  /\ options = [o \in Options |-> "config"]
  /\ log_mutex' = Unlocked
  /\ UNCHANGED <<current_level, options, lpc, message, in_force, line>>

-----------------------------------------------------------------------------
(* Properties *)

\* "Each log message is atomic and properly synchronized" (LOGGING_USAGE.md):
\* a written line has the options of one configuration, and whether it was
\* written or dropped is what a level says that was in force during the call,
\* although the level is read without the mutex, and twice for a stream.
LinesConsistent ==
  \A l \in Loggers :
    /\ lpc[l] = "written" => /\ \A i, j \in 1 .. 3 : line[l][i] = line[l][j]
                             /\ \E v \in in_force[l] : message[l].level >= v
    /\ lpc[l] = "dropped" => \E v \in in_force[l] : message[l].level < v
=============================================================================
