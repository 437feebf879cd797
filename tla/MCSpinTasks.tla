----------------------------- MODULE MCSpinTasks -----------------------------
(* Arguments of run() for model checking SpinTasks; no property speaks of the *)
(* states in which Known is lost for good.                                    *)
EXTENDS SpinTasks

TwoCalls == {<<1, 1>>, <<2, 2>>}
=============================================================================
