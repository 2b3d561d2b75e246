--------------------------- MODULE MCRegistration ---------------------------
(***************************************************************************)
(* RegistrationSaga on a small instance.                                   *)
(***************************************************************************)
EXTENDS RegistrationSaga, TLC

CONSTANT MaxMishaps     \* bound on sagas abandoned, and on those overlapped

ASSUME MishapsAssumption == MaxMishaps \in Nat

\* Not followed further: too many mishaps, or no saga left that a property is about.
FewMishaps ==
    /\ Cardinality(overlapped) + Cardinality(abandoned) <= MaxMishaps
    /\ Cardinality(Created) = MaxSagas => ~(Created \subseteq overlapped)

\* The runs are interchangeable.
WorkerSymmetry == Permutations(Workers)
=============================================================================
