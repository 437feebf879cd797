------------------------------ MODULE TaskRun ------------------------------
(***************************************************************************)
(* What run() of a worker pool promises, whichever threads do the work: a  *)
(* run executes each of its tasks once, in any order and in parallel, no   *)
(* task is executed outside a run, and run() returns when all have ended.  *)
(***************************************************************************)
CONSTANT Tasks

VARIABLES
  active,      \* a run is under way
  todo,        \* its tasks ...
  begun,       \* ... those that were begun ...
  ended        \* ... and those that ended

vars == <<active, todo, begun, ended>>

Init == active = FALSE /\ todo = {} /\ begun = {} /\ ended = {}

Run ==
  /\ ~active
  /\ active' = TRUE
  /\ todo' \in SUBSET Tasks
  /\ begun' = {} /\ ended' = {}

Begin ==
  /\ active
  /\ \E k \in todo \ begun : begun' = begun \cup {k}
  /\ UNCHANGED <<active, todo, ended>>

End ==
  /\ active
  /\ \E k \in begun \ ended : ended' = ended \cup {k}
  /\ UNCHANGED <<active, todo, begun>>

Return ==
  /\ active
  /\ ended = todo
  /\ active' = FALSE
  /\ UNCHANGED <<todo, begun, ended>>

Next == Run \/ Begin \/ End \/ Return

Spec == Init /\ [][Next]_vars
=============================================================================
