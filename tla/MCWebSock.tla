------------------------------ MODULE MCWebSock ------------------------------
(* Bounds for model checking WebSock come from the configurations. *)
EXTENDS WebSock
=============================================================================
