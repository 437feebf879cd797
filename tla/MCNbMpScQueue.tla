--------------------------- MODULE MCNbMpScQueue ---------------------------
(* Bounds for model checking NbMpScQueue come from the configurations. *)
EXTENDS NbMpScQueue
=============================================================================
