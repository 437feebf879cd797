---------------------------- MODULE MCMidiDevice ----------------------------
(* Bounds for model checking MidiDevice: two files of which messages have    *)
(* the same time, and ALSA packets that fit and do not fit into the ring.    *)
EXTENDS MidiDevice

CONSTANT x

MCSongs == [port \in Ports |-> IF port = 0 THEN {<<0, 1>>} ELSE {<<1>>}]
MCMaxSets == [fl \in BOOLEAN |-> IF fl THEN 1 ELSE 4]
MCLive == {<<x>>, <<x, x>>}
=============================================================================
