---------------------------- MODULE AssetCheckout ----------------------------
(***************************************************************************)
(* Check-out and check-in of one asset by services/inventory/service.go.   *)
(* Each reads, writes a row of asset_checkouts and writes the asset's      *)
(* status, three statements without a transaction and without a guard.     *)
(***************************************************************************)
EXTENDS Integers, Sequences, FiniteSets

CONSTANTS
    Handlers,        \* requests that may be in progress at the same time
    MaxCheckouts     \* bound: rows of asset_checkouts

ASSUME CheckoutAssumption == MaxCheckouts \in Nat

VARIABLES
    asset,          \* the status of the asset
    checkouts,      \* its rows of asset_checkouts: "open" or "returned"
    damaged,        \* the rows whose check-in reported damage
    handler,        \* how far each request is
    disturbed       \* history: "overlap" once two requests ran side by side,
                    \* "out" or "in" once one stopped before its last write

checkoutVars == <<asset, checkouts, damaged, handler, disturbed>>

Waiting == [at |-> "waiting", row |-> 0, damage |-> FALSE]

Active == {i \in DOMAIN checkouts : checkouts[i] = "open"}

CheckoutTypeOK ==
    /\ asset \in {"available", "checked_out", "under_repair"}
    /\ checkouts \in Seq({"open", "returned"})
    /\ damaged \subseteq DOMAIN checkouts
    /\ handler \in [Handlers -> [at : {"waiting", "insert", "out", "return", "in"},
                                 row : Nat, damage : BOOLEAN]]
    /\ disturbed \subseteq {"overlap", "out", "in"}

\* CreateAsset makes an available asset without checkouts.
CheckoutInit ==
    /\ asset = "available" /\ checkouts = <<>> /\ damaged = {}
    /\ handler = [h \in Handlers |-> Waiting] /\ disturbed = {}

Begin(h, next) ==
    /\ handler[h] = Waiting /\ handler' = [handler EXCEPT ![h] = next]
    /\ disturbed' = disturbed \union
          (IF \E other \in Handlers \ {h} : handler[other] # Waiting THEN {"overlap"} ELSE {})

\* CheckOutAsset reads the asset, which must be available.
CheckOutAsset(h) ==
    /\ asset = "available"
    /\ Begin(h, [Waiting EXCEPT !.at = "insert"])
    /\ UNCHANGED <<asset, checkouts, damaged>>

\* The checkout row.
InsertCheckout(h) ==
    /\ handler[h].at = "insert" /\ Len(checkouts) < MaxCheckouts
    /\ checkouts' = Append(checkouts, "open")
    /\ handler' = [handler EXCEPT ![h].at = "out"]
    /\ UNCHANGED <<asset, damaged, disturbed>>

\* CheckInAsset reads an open row, any of them if there are several.
CheckInAsset(h, i, damage) ==
    /\ i \in Active
    /\ Begin(h, [at |-> "return", row |-> i, damage |-> damage])
    /\ UNCHANGED <<asset, checkouts, damaged>>

\* Its UPDATE of the row, which does not look whether the row is still open.
ReturnCheckout(h) ==
    /\ handler[h].at = "return"
    /\ checkouts' = [checkouts EXCEPT ![handler[h].row] = "returned"]
    /\ damaged' = IF handler[h].damage THEN damaged \union {handler[h].row}
                                      ELSE damaged \ {handler[h].row}
    /\ handler' = [handler EXCEPT ![h].at = "in"]
    /\ UNCHANGED <<asset, disturbed>>

\* Mutant: a damaged asset is available again.
StatusForgetsDamage(h) ==
    /\ handler[h].at \in {"out", "in"}
    /\ asset' = IF handler[h].at = "out" THEN "checked_out" ELSE "available"
    /\ handler' = [handler EXCEPT ![h] = Waiting]
    /\ UNCHANGED <<checkouts, damaged, disturbed>>

\* The last write of both: the status, whatever it is by now.
UpdateAssetStatus(h) ==
    /\ handler[h].at \in {"out", "in"}
    /\ asset' = IF handler[h].at = "out" THEN "checked_out"
                ELSE IF handler[h].damage THEN "under_repair" ELSE "available"
    /\ handler' = [handler EXCEPT ![h] = Waiting]
    /\ UNCHANGED <<checkouts, damaged, disturbed>>

\* A statement fails or the process stops; what was written stays.
RequestStops(h) ==
    /\ handler[h] # Waiting
    /\ handler' = [handler EXCEPT ![h] = Waiting]
    /\ disturbed' = disturbed \union ({handler[h].at} \intersect {"out", "in"})
    /\ UNCHANGED <<asset, checkouts, damaged>>

CheckoutNext ==
    \E h \in Handlers :
        \/ CheckOutAsset(h) \/ InsertCheckout(h) \/ ReturnCheckout(h)
        \/ UpdateAssetStatus(h) \/ RequestStops(h)
        \/ \E i \in 1 .. MaxCheckouts, damage \in BOOLEAN : CheckInAsset(h, i, damage)

CheckoutSpec == CheckoutInit /\ [][CheckoutNext]_checkoutVars

-----------------------------------------------------------------------------
(* Properties                                                              *)

\* CheckOutAsset "checks out an asset, verifying it is available": the asset is
\* with one holder at most, unless requests overlapped or a check-out stopped
\* after its row and left the asset available.
OneHolder == disturbed \subseteq {"in"} => Cardinality(Active) <= 1

Quiet == \A h \in Handlers : handler[h] = Waiting

\* Between requests the status tells whether the asset is out and whether it came
\* back damaged, unless requests overlapped or one stopped before its last write.
StatusAgrees ==
    disturbed = {} /\ Quiet =>
        /\ asset = "checked_out" <=> Active # {}
        /\ asset = "under_repair" <=> Active = {} /\ checkouts # <<>> /\ Len(checkouts) \in damaged

\* An asset that is checked out with no row to check in can neither be returned nor
\* taken again.  A stopped check-out never leads there: it takes a check-in that
\* stopped after its row, or an overlap.
StrandedByCheckIn ==
    asset = "checked_out" /\ Active = {} /\ Quiet => disturbed \intersect {"overlap", "in"} # {}
=============================================================================
