-------------------------- MODULE MCBillingOutbox --------------------------
(***************************************************************************)
(* BillingOutbox on small instances.                                       *)
(***************************************************************************)
EXTENDS BillingOutbox, TLC

\* No property names a tenant or a call.
CallSymmetry == Permutations(Tenants) \union Permutations(Calls)
=============================================================================
