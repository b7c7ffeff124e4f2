----------------------------- MODULE MCRevenue ------------------------------
(***************************************************************************)
(* Every recognition rule with a period up to 3.                           *)
(***************************************************************************)
EXTENDS Revenue

MCRules ==
  {NoRule} \cup {[method |-> m, recognition_period |-> n] :
                   m \in RecognitionMethod, n \in 0..3}

=============================================================================
