----------------------------- MODULE MCSessions -----------------------------
(***************************************************************************)
(* Sessions on a small instance.                                           *)
(***************************************************************************)
EXTENDS Sessions, TLC

\* Each counter is bumped once before it expires, and again after that.
SmallGenerations == [k \in Keys |-> 1]

\* No property names a call.
SessionSymmetry == Permutations(Calls)
=============================================================================
