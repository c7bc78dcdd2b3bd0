------------------------------ MODULE MCStartup ------------------------------
(* Instances of Startup for TLC. *)
EXTENDS Startup

\* A file that sets a field back to its default, and one that sets others.
FileA == [max_events |-> 2, filename |-> "a", level |-> WARN]
FileB == [max_events |-> 1, level |-> INFO, enable_op_timing |-> TRUE,
          write_to_file |-> FALSE]
Invalid == [max_events |-> 0]
SomeFiles == {None, FileA, FileB, Invalid}

NoEnv == [OUTPUT |-> None, MAX_EVENTS |-> None, VERBOSE |-> FALSE, DISABLE |-> FALSE]
Environments ==
  {[NoEnv EXCEPT !.OUTPUT = "env", !.MAX_EVENTS = 0],
   [NoEnv EXCEPT !.OUTPUT = ""],
   [NoEnv EXCEPT !.VERBOSE = TRUE, !.DISABLE = TRUE, !.OUTPUT = "env"],
   [NoEnv EXCEPT !.MAX_EVENTS = 3]}
=============================================================================
