------------------------------ MODULE MCLedger ------------------------------
(***************************************************************************)
(* Small instances of the journal, the chart of accounts, the invoices and *)
(* the payment methods.  They share no state in the model, so a behaviour  *)
(* takes the steps of one of them, the one in focus: the states to explore *)
(* add up, not multiply.                                                   *)
(***************************************************************************)
EXTENDS Ledger, ChartOfAccounts, Invoicing, PaymentMethods, TLC

CONSTANTS b1, b2

VARIABLE focus

\* Three numbers, for an entry and two reversals of it; the second tenant has
\* one number, enough for the two tenants to meet.
SmallSeq == b1 :> 3 @@ b2 :> 1

\* A chart of two accounts, one below the other, whose codes bank accounts use too.
SmallChart == <<[code |-> 20, parent |-> 0], [code |-> 21, parent |-> 20]>>

MCInit ==
    /\ focus \in {"ledger", "chart", "invoices", "methods"}
    /\ LedgerInit /\ ChartInit /\ InvoicingInit /\ MethodsInit

MCNext ==
    /\ UNCHANGED focus
    /\ IF focus = "ledger" THEN LedgerNext ELSE UNCHANGED ledgerVars
    /\ IF focus = "chart" THEN ChartNext ELSE UNCHANGED chartVars
    /\ IF focus = "invoices" THEN InvoicingNext ELSE UNCHANGED invoicingVars
    /\ IF focus = "methods" THEN MethodsNext ELSE UNCHANGED methodVars

MCSpec == MCInit /\ [][MCNext]_<<focus, ledgerVars, chartVars, invoicingVars, methodVars>>

\* The two calls in flight are interchangeable.
CallSymmetry == Permutations(Clerks)
=============================================================================
