----------------------------- MODULE MCIoServer -----------------------------
(* Names of the callers for model checking IoServer. *)
EXTENDS IoServer
=============================================================================
