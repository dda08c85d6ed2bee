----------------------------- MODULE MCNodePlayer -----------------------------
(* Small instances of NodePlayer for TLC: the seek targets and the frames  *)
(* are the start and a position farther from it than the margin.           *)
EXTENDS NodePlayer

CONSTANTS app1, app2, player
=============================================================================
