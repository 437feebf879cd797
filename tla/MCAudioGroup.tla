---------------------------- MODULE MCAudioGroup ----------------------------
(* Bounds for model checking AudioGroup: a hardware input, and a file that  *)
(* is played into the group at its clock.                                   *)
EXTENDS AudioGroup, TLC

CONSTANTS hw, file

MCCfgL == << <<hw, "in">>, <<file, "in">> >>
MCFileDevs == <<file>>
MCInternal == {file}
MCPackets == [d \in {file} |-> << <<file, "in">> >>]
MCClockL == [p \in Ports |-> IF p[1] = hw THEN <<file>> ELSE <<>>]
=============================================================================
