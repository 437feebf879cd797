------------------------------ MODULE MpScFifo ------------------------------
(***************************************************************************)
(* What a multi-producer, single-consumer queue of libcw promises its      *)
(* users: the consumer takes the messages one at a time, each exactly      *)
(* once, in the one order in which the pushes took effect.                 *)
(***************************************************************************)
EXTENDS Naturals, Sequences

CONSTANT Msgs

VARIABLES
  sent,   \* every message pushed so far, in the order the pushes took effect
  got     \* every message the consumer has taken so far

fifoVars == <<sent, got>>

Init ==
  /\ sent = <<>>
  /\ got = <<>>

Push(m) ==
  /\ sent' = Append(sent, m)
  /\ UNCHANGED got

Take ==
  /\ Len(got) < Len(sent)
  /\ got' = Append(got, sent[Len(got) + 1])
  /\ UNCHANGED sent

Next == Take \/ \E m \in Msgs : Push(m)

Safe == Init /\ [][Next]_fifoVars

\* A message that took effect does not stay in the queue forever.
Spec == Safe /\ WF_fifoVars(Take)
=============================================================================
