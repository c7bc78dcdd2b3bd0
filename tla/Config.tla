-------------------------------- MODULE Config --------------------------------
(***************************************************************************)
(* The configuration as a value (src/utils/config.cpp): a JSON file is     *)
(* laid over the defaults, files are merged, and environment variables     *)
(* override fields.  Of the settings there are the six that other parts    *)
(* of the program or the environment variables look at; the others         *)
(* (intervals, formats, lists of back ends and operations) are read,       *)
(* merged and validated in the same way.                                   *)
(***************************************************************************)
EXTENDS Naturals

CONSTANTS
  default_max_events,  \* 1000000
  max_max_events,      \* what validation allows (100000000)
  None                 \* an environment variable that is not set; no file

ASSUME ConfigAssumption ==
  /\ max_max_events \in Nat
  /\ default_max_events \in 1 .. max_max_events

\* ConfigLogLevel and LogLevel, in this order.
DEBUG == 0
INFO == 1
WARN == 2
ERROR_LEVEL == 3
FATAL == 4
Levels == DEBUG .. FATAL

Fields == {"enable_op_timing", "enable_memory_tracking", "max_events",
           "filename", "write_to_file", "level"}

DefaultConfig ==
  [enable_op_timing |-> TRUE, enable_memory_tracking |-> FALSE,
   max_events |-> default_max_events, filename |-> "ggml_trace.ggmlviz",
   write_to_file |-> TRUE, level |-> INFO]

IsValid(config) ==
  /\ config.max_events \in 1 .. max_max_events
  /\ config.filename # ""

\* A file is the settings it contains, or None when there is none or it is
\* not JSON; what it does not contain has its default.
FromJson(file) ==
  [f \in Fields |-> IF f \in DOMAIN file THEN file[f] ELSE DefaultConfig[f]]

Readable(file) == file # None /\ IsValid(FromJson(file))

\* Mutant of MergeFrom: every field of the file is taken over.
MergeAll(config, other) == other

\* Only values other than the default are taken over.
MergeFrom(config, other) ==
  [f \in Fields |-> IF other[f] # DefaultConfig[f] THEN other[f] ELSE config[f]]

MergeFile(config, file) ==
  IF Readable(file) THEN MergeFrom(config, FromJson(file)) ELSE config

\* Environment variables: OUTPUT is a name, MAX_EVENTS a number (a text that is
\* no number counts as not set), VERBOSE and DISABLE are 1 or not.
ApplyEnvOverrides(config, env) ==
  LET named == IF env.OUTPUT = None THEN config
               ELSE [config EXCEPT !.filename = env.OUTPUT, !.write_to_file = TRUE]
      counted == IF env.MAX_EVENTS = None THEN named
                 ELSE [named EXCEPT !.max_events = env.MAX_EVENTS]
      verbose == IF env.VERBOSE THEN [counted EXCEPT !.level = DEBUG] ELSE counted
  IN  IF env.DISABLE
      THEN [verbose EXCEPT !.enable_op_timing = FALSE,
                           !.enable_memory_tracking = FALSE,
                           !.write_to_file = FALSE]
      ELSE verbose

\* Mutant of Resolve: the environment is applied last.
ResolveEnvLast(s) ==
  ApplyEnvOverrides(
    MergeFile(MergeFile(MergeFile(DefaultConfig, s.default), s.file), s.cli),
    s.env)

\* The sources s: the optional default file, the file of GGML_VIZ_CONFIG, the
\* environment variables and the file of --config.
Resolve(s) ==
  MergeFile(
    ApplyEnvOverrides(
      MergeFile(MergeFile(DefaultConfig, s.default), s.file), s.env),
    s.cli)

-----------------------------------------------------------------------------
(* What each source says of a field *)

FromFile(file, f) ==
  IF Readable(file) /\ f \in DOMAIN file THEN file[f] ELSE None

\* What the environment variables make of field f, or None.
FromEnv(env, f) ==
  CASE f \in {"enable_op_timing", "enable_memory_tracking"} ->
         IF env.DISABLE THEN FALSE ELSE None
    [] f = "write_to_file" ->
         IF env.DISABLE THEN FALSE ELSE IF env.OUTPUT # None THEN TRUE ELSE None
    [] f = "filename" -> env.OUTPUT
    [] f = "max_events" -> env.MAX_EVENTS
    [] f = "level" -> IF env.VERBOSE THEN DEBUG ELSE None

\* "defaults < file < env < CLI" (load_with_precedence()), the highest first.
Said(s, f) ==
  <<FromFile(s.cli, f), FromEnv(s.env, f), FromFile(s.file, f),
    FromFile(s.default, f), DefaultConfig[f]>>
=============================================================================
