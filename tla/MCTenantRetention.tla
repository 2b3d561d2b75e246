------------------------- MODULE MCTenantRetention -------------------------
(***************************************************************************)
(* TLC instances of TenantRetention.  The periods keep the order of the    *)
(* code's 30, 90 and 180 days; the shortest still exceeds CallSpan.        *)
(***************************************************************************)
EXTENDS TenantRetention, TLC

Symmetry == Permutations(Sweepers) \union Permutations(Sessions)

=============================================================================
