------------------------- MODULE MCProtectedCharges -------------------------
(***************************************************************************)
(* Three jobs over two subscriptions: two compete for a lock while a third *)
(* has a request under way that began in an earlier state of the breaker.  *)
(***************************************************************************)
EXTENDS ProtectedCharges

=============================================================================
