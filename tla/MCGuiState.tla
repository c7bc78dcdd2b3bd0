------------------------------ MODULE MCGuiState ------------------------------
(* Instances of GuiState for TLC: two traces of different lengths and one
   without events. *)
EXTENDS GuiState

CONSTANTS short, long, empty
ThreeTraces == {short, long, empty}
ThreeCounts == (short :> 2) @@ (long :> 3) @@ (empty :> 0)
=============================================================================
