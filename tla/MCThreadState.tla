--------------------------- MODULE MCThreadState ---------------------------
(* Constants for model checking ThreadState come from the configurations. *)
EXTENDS ThreadState
=============================================================================
