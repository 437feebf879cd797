----------------------------- MODULE SampleFifo -----------------------------
(***************************************************************************)
(* What a channel of an audio buffer promises: samples, here numbered in   *)
(* the order they enter, leave in that order, and at most Cap are kept.    *)
(***************************************************************************)
EXTENDS Naturals, Sequences

CONSTANTS
  Cap,         \* the most samples that are kept
  First        \* the samples that are there at the start

VARIABLES
  kept,        \* the samples that entered and have not left
  last         \* the number of the last one that entered

vars == <<kept, last>>

Init == kept = [j \in 1 .. First |-> j] /\ last = First

Put ==
  \E m \in 1 .. Cap :
    /\ Len(kept) + m <= Cap
    /\ kept' = kept \o [j \in 1 .. m |-> last + j]
    /\ last' = last + m

Take ==
  \E m \in 1 .. Len(kept) :
    /\ kept' = SubSeq(kept, m + 1, Len(kept))
    /\ UNCHANGED last

Next == Put \/ Take

Spec == Init /\ [][Next]_vars
=============================================================================
