--------------------------- MODULE MCTenantPurge ---------------------------
(***************************************************************************)
(* TLC instances of TenantPurge.                                           *)
(***************************************************************************)
EXTENDS TenantPurge, TLC

Symmetry == Permutations(Requests) \union Permutations(Admins)
            \union Permutations(Desks) \union Permutations(Workers)

=============================================================================
