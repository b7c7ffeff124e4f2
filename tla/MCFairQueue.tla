---------------------------- MODULE MCFairQueue -----------------------------
(***************************************************************************)
(* Three classes of capacity one, so that backpressure, overfilling and    *)
(* every combination of active classes happen; two classes suffice to see  *)
(* what becomes of a paused one.                                           *)
(***************************************************************************)
EXTENDS FairQueue, TLC

MCOrder == <<"critical", "normal", "low">>
MCWeights == [critical |-> 50, normal |-> 25, low |-> 25]
TwoClasses == <<"critical", "low">>
TwoWeights == [critical |-> 75, low |-> 25]
Symmetry == Permutations(Jobs)

=============================================================================
