----------------------------- MODULE MCServices -----------------------------
(***************************************************************************)
(* Small instances of five parts that share no state: spending with its    *)
(* projections, the documents, the notifications, the assets and the       *)
(* session of the web client.  A behaviour takes the steps of one of them, *)
(* the one in focus, so that the states to explore add up and do not       *)
(* multiply.                                                               *)
(***************************************************************************)
EXTENDS Spend, Documents, Notifications, AssetCheckout, WebSession, TLC

CONSTANTS n1, n2

VARIABLE focus

\* One event has a provider for its channel, the other has none.
SmallChannels == n1 :> "email" @@ n2 :> "in_app"

\* What is not in focus starts in one state, not in each of its initial states.
MCInit ==
    /\ focus \in {"spend", "documents", "notifications", "checkout", "web"}
    /\ SpendInit /\ DocumentsInit /\ NotificationsInit /\ CheckoutInit /\ WebInit
    /\ focus # "spend" => \A d \in Docs : status[d] = "absent"
    /\ focus # "notifications" => \A e \in Events : template[e] = "none"

MCNext ==
    /\ UNCHANGED focus
    /\ IF focus = "spend" THEN SpendNext ELSE UNCHANGED spendVars
    /\ IF focus = "documents" THEN DocumentsNext ELSE UNCHANGED docVars
    /\ IF focus = "notifications" THEN NotificationsNext ELSE UNCHANGED notificationVars
    /\ IF focus = "checkout" THEN CheckoutNext ELSE UNCHANGED checkoutVars
    /\ IF focus = "web" THEN WebNext ELSE UNCHANGED webVars

MCSpec ==
    MCInit /\ [][MCNext]_<<focus, spendVars, docVars, notificationVars, checkoutVars, webVars>>

\* The two calls in flight are interchangeable, and so are the two tabs.
CallSymmetry == Permutations(Callers) \union Permutations(Tabs)
=============================================================================
