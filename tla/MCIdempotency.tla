--------------------------- MODULE MCIdempotency ----------------------------
(***************************************************************************)
(* A store for two keys, so that eviction happens; two of the three        *)
(* payloads have one hash.  Requests, keys and these two payloads are      *)
(* interchangeable.                                                        *)
(***************************************************************************)
EXTENDS Idempotency, TLC

CONSTANT Alike  \* payloads that hashRequest does not tell apart

Hash == [p \in Payloads |-> IF p \in Alike THEN 0 ELSE 1]

Symmetry == Permutations(Requests) \cup Permutations(Keys) \cup Permutations(Alike)

=============================================================================
