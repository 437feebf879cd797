----------------------------- MODULE MCCondTasks -----------------------------
(* Arguments of run() for model checking CondTasks: one task, and as    *)
(* many as workers.                                                          *)
EXTENDS CondTasks

TwoCalls == {<<1, 1>>, <<2, 2>>}
=============================================================================
