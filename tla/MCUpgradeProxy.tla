--------------------------- MODULE MCUpgradeProxy ---------------------------
(***************************************************************************)
(* Three implementations: version 1, version 2 and a second version 2; and *)
(* a broken one whose validation fails.                                    *)
(***************************************************************************)
EXTENDS UpgradeProxy

CONSTANTS v1, v2, v2b, bad

MCVersionOf == [i \in Impls |-> IF i = v1 THEN 1 ELSE 2]

=============================================================================
