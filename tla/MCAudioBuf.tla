----------------------------- MODULE MCAudioBuf -----------------------------
(* Constants for model checking AudioBuf come from the configurations. *)
EXTENDS AudioBuf
=============================================================================
