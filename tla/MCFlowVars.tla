----------------------------- MODULE MCFlowVars -----------------------------
(* Networks for model checking FlowVars.  A source feeds the two voices of a  *)
(* poly processor, which together feed a mixer; the mixer has a variable that *)
(* the application sets, and feeds back into the source.                      *)
EXTENDS FlowVars

MCProcs == {"src", "v1", "v2", "mix"}
MCStages == <<{"src"}, {"v1", "v2"}, {"mix"}>>
MCVars == {"s.fb", "s.out", "v1.in", "v1.out", "v2.out", "m.in1", "m.in2", "m.gain"}
MCOwner == [v \in MCVars |->
  CASE v \in {"s.fb", "s.out"} -> "src"
    [] v \in {"v1.in", "v1.out"} -> "v1"
    [] v \in {"v2.out"} -> "v2"
    [] OTHER -> "mix"]
MCDsts == [v \in MCVars |->
  CASE v = "s.out" -> <<"v1.in">>
    [] v = "v1.out" -> <<"m.in1">>
    [] v = "v2.out" -> <<"m.in2">>
    [] v = "m.gain" -> <<"s.fb">>
    [] OTHER -> <<>>]
MCNotify == [p \in MCProcs |->
  CASE p = "src" -> <<"s.fb">>
    [] p = "v1" -> <<"v1.in">>
    [] p = "v2" -> <<>>
    [] OTHER -> <<"m.in1", "m.in2", "m.gain">>]
MCOuts == {"s.out", "v1.out", "v2.out"}
MCUiSets == {"m.gain"}
MCHasUi == {"v1.out", "m.in1", "m.in2", "m.gain"}
=============================================================================
