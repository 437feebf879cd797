---------------------------- MODULE MCMidiParser ----------------------------
(* Bounds for model checking MidiParser: a buffer that is not a multiple of *)
(* a message, as 1024 bytes are not.                                        *)
EXTENDS MidiParser

=============================================================================
