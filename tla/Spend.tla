------------------------------- MODULE Spend --------------------------------
(***************************************************************************)
(* Approvals and the spend they are reported as: the expense and budget    *)
(* services (services/expense, services/budget) decide on documents with a *)
(* read, a check and an unguarded UPDATE, publish best-effort events, and  *)
(* the reporting consumer (services/reporting/consumer.go) projects them.  *)
(* Delivery is at least once; any statement of a handler may fail, a       *)
(* process may die between two of them, an Ack may get lost.  Every        *)
(* expense is of one unit, one month and one category.                     *)
(***************************************************************************)
EXTENDS Integers, FiniteSets

CONSTANTS
    Expenses, Budgets, Orders, Advances,  \* documents
    MaxDocs,        \* bound on the documents that exist
    Deciders,       \* service calls in progress
    MaxMessages,    \* bound on the events ever published
    MaxDeliveries   \* bound on the deliveries of one event

\* The ids of the four tables are different ones.
ASSUME SpendAssumption ==
    /\ {MaxDocs, MaxMessages, MaxDeliveries} \subseteq Nat
    /\ Expenses \intersect (Budgets \union Orders \union Advances) = {}
    /\ Budgets \intersect (Orders \union Advances) = {} /\ Orders \intersect Advances = {}
    /\ "none" \notin Expenses \union Budgets \union Orders \union Advances

Docs == Expenses \union Budgets \union Orders \union Advances
Messages == 1 .. MaxMessages

VARIABLES
    status,     \* of every document, "absent" before it is created
    decider,    \* the calls in progress
    decided,    \* decisions written for each document
    contested,  \* documents two calls were deciding on at once
    submitted,  \* expenses that came in through SubmitExpense
    message,    \* the events published
    facts,      \* expense_facts, budget_facts
    pending,    \* pending_approvals
    monthly, category   \* monthly_spend.actual, category_spend.actual

spendVars == <<status, decider, decided, contested, submitted, message, facts, pending, monthly,
               category>>

Published == DOMAIN message

NoDecision == [at |-> "idle", op |-> "none", doc |-> "none"]

Message == [kind : {"submitted", "approved", "budget"}, doc : Docs, complete : BOOLEAN,
            at : {"queued", "pend", "fact", "monthly", "category", "unpend", "ack", "acked"},
            deliveries : Nat]

Operations == {"approveExpense", "rejectExpense", "approveOrder", "settleAdvance", "submitBudget",
               "approveBudget"}

SpendTypeOK ==
    /\ status \in [Docs -> {"absent", "draft", "submitted", "approved", "rejected", "issued",
                            "settled"}]
    /\ decider \in [Deciders -> [at : {"idle", "write", "publish"}, op : Operations \union {"none"},
                                 doc : Docs \union {"none"}]]
    /\ decided \in [Docs -> Nat] /\ contested \subseteq Docs /\ submitted \subseteq Expenses
    /\ \E n \in Nat : message \in [1 .. n -> Message]
    /\ facts \subseteq Docs /\ pending \subseteq Docs
    /\ monthly \in Nat /\ category \in Nat

\* Orders, advances and budgets begin as the services create them; an expense
\* there at the start is from the demo seeds, which insert "submitted" rows.
SpendInit ==
    /\ \E seeded \in SUBSET Docs :
         /\ Cardinality(seeded) <= MaxDocs
         /\ status = [d \in Docs |-> CASE d \notin seeded -> "absent"
                                       [] d \in seeded \intersect Expenses -> "submitted"
                                       [] d \in seeded \intersect Advances -> "issued"
                                       [] OTHER -> "draft"]
    /\ decider = [c \in Deciders |-> NoDecision]
    /\ decided = [d \in Docs |-> 0] /\ contested = {} /\ submitted = {}
    /\ message = <<>>
    /\ facts = {} /\ pending = {} /\ monthly = 0 /\ category = 0

projections == <<facts, pending, monthly, category>>

\* publish: best effort, an error is swallowed.  complete: every amount the
\* consumer parses is in the payload.
Publish(kind, doc, complete) ==
    \/ UNCHANGED message
    \/ LET m == Cardinality(Published) + 1 IN
       /\ m \in Messages
       /\ message' = [n \in Published \union {m} |->
                        IF n = m THEN [kind |-> kind, doc |-> doc, complete |-> complete,
                                       at |-> "queued", deliveries |-> 0]
                        ELSE message[n]]

-----------------------------------------------------------------------------
(* The services                                                            *)

\* CreateExpense inserts no status, so the row has the column's default and
\* not the "submitted" SubmitExpense put into the struct.
CreateExpense == "draft"

\* The row, then the event (which a crash in between loses like the broker).
SubmitExpense(e) ==
    /\ status[e] = "absent" /\ Cardinality({d \in Docs : status[d] # "absent"}) < MaxDocs
    /\ status' = [status EXCEPT ![e] = CreateExpense]
    /\ submitted' = submitted \union {e}
    /\ Publish("submitted", e, TRUE)
    /\ UNCHANGED <<decider, decided, contested, projections>>

\* Which status each operation accepts, and which one it writes.
ApproveExpense(s) == s = "submitted"

\* Mutant: only a rejection is final.
RejectAnyway(s) == s # "rejected"

RejectExpense(s) == s \notin {"approved", "rejected"}

ApprovePurchaseOrder(s) == s = "draft"

SettlePettyCash(s) == s # "settled"

SubmitBudget(s) == s = "draft"

ApproveBudget(s) == s = "submitted"

Accepts(op, d, s) ==
    CASE op = "approveExpense" -> d \in Expenses /\ ApproveExpense(s)
      [] op = "rejectExpense" -> d \in Expenses /\ RejectExpense(s)
      [] op = "approveOrder" -> d \in Orders /\ ApprovePurchaseOrder(s)
      [] op = "settleAdvance" -> d \in Advances /\ SettlePettyCash(s)
      [] op = "submitBudget" -> d \in Budgets /\ SubmitBudget(s)
      [] op = "approveBudget" -> d \in Budgets /\ ApproveBudget(s)

Writes == [approveExpense |-> "approved", rejectExpense |-> "rejected", approveOrder |-> "approved",
           settleAdvance |-> "settled", submitBudget |-> "submitted", approveBudget |-> "approved"]

Decisions == Operations \ {"submitBudget"}

\* Read the row and check it (and the caller's limit, which may refuse it).
DecideRead(c, op, d) ==
    /\ decider[c].at = "idle"
    /\ status[d] # "absent" /\ Accepts(op, d, status[d])
    /\ decider' = [decider EXCEPT ![c] = [at |-> "write", op |-> op, doc |-> d]]
    /\ contested' = IF \E o \in Deciders \ {c} : decider[o].doc = d THEN contested \union {d}
                    ELSE contested
    /\ UNCHANGED <<status, decided, submitted, message, projections>>

\* UPDATE ... SET status WHERE id AND tenant_id: whatever the row says by now.
DecideWrite(c) ==
    LET d == decider[c].doc
        op == decider[c].op IN
    /\ decider[c].at = "write"
    /\ status' = [status EXCEPT ![d] = Writes[op]]
    /\ decided' = IF op \in Decisions THEN [decided EXCEPT ![d] = @ + 1] ELSE decided
    /\ decider' = [decider EXCEPT ![c] = IF op \in {"approveExpense", "approveBudget"}
                                         THEN [@ EXCEPT !.at = "publish"] ELSE NoDecision]
    /\ UNCHANGED <<contested, submitted, message, projections>>

\* The budget publisher fills in no total_actual and no total_committed.
DecidePublish(c) ==
    /\ decider[c].at = "publish"
    /\ IF decider[c].op = "approveExpense" THEN Publish("approved", decider[c].doc, TRUE)
       ELSE Publish("budget", decider[c].doc, FALSE)
    /\ decider' = [decider EXCEPT ![c] = NoDecision]
    /\ UNCHANGED <<status, decided, contested, submitted, projections>>

\* (After the write the call can only lose its event, as Publish allows.)
DecideFails(c) ==
    /\ decider[c].at = "write"
    /\ decider' = [decider EXCEPT ![c] = NoDecision]
    /\ UNCHANGED <<status, decided, contested, submitted, message, projections>>

-----------------------------------------------------------------------------
(* The reporting consumer                                                  *)

services == <<status, decider, decided, contested, submitted>>

MoveTo(m, at) == message' = [message EXCEPT ![m].at = at]

Handling(m) == message[m].at \notin {"queued", "acked"}

\* A subject's messages are handled one at a time.  Decoding: a payload that
\* does not parse is logged and acknowledged.
Deliver(m) ==
    /\ \A n \in Published : Handling(n) => message[n].kind # message[m].kind
    /\ message[m].at = "queued" /\ message[m].deliveries < MaxDeliveries
    /\ message' = [message EXCEPT ![m].deliveries = @ + 1,
                      ![m].at = IF ~message[m].complete THEN "ack"
                                ELSE IF message[m].kind = "submitted" THEN "pend" ELSE "fact"]
    /\ UNCHANGED <<services, projections>>

UpsertPendingApproval(m) ==
    /\ message[m].at = "pend"
    /\ pending' = pending \union {message[m].doc}
    /\ UNCHANGED <<facts, monthly, category>>

UpsertExpenseFact(m) ==
    /\ message[m].at = "fact"
    /\ facts' = facts \union {message[m].doc}
    /\ UNCHANGED <<pending, monthly, category>>

\* Mutant: the column is replaced, not added to.
ReplaceMonthlySpend(m) ==
    /\ message[m].at = "monthly"
    /\ monthly' = 1
    /\ UNCHANGED <<facts, pending, category>>

IncrementMonthlySpend(m) ==
    /\ message[m].at = "monthly"
    /\ monthly' = monthly + 1
    /\ UNCHANGED <<facts, pending, category>>

IncrementCategorySpend(m) ==
    /\ message[m].at = "category"
    /\ category' = category + 1
    /\ UNCHANGED <<facts, pending, monthly>>

DeletePendingApproval(m) ==
    /\ message[m].at = "unpend"
    /\ pending' = pending \ {message[m].doc}
    /\ UNCHANGED <<facts, monthly, category>>

ProjectionWrite(m) ==
    \/ UpsertPendingApproval(m) \/ UpsertExpenseFact(m) \/ IncrementMonthlySpend(m)
    \/ IncrementCategorySpend(m) \/ DeletePendingApproval(m)

\* The order of the writes in each handler.
Following == [pend |-> "ack", fact |-> "monthly", monthly |-> "category", category |-> "unpend",
              unpend |-> "ack"]

HandlerStep(m) ==
    /\ message[m].at \in DOMAIN Following
    /\ ProjectionWrite(m)
    /\ MoveTo(m, Following[message[m].at])
    /\ UNCHANGED services

\* A write fails, executed or not, and the message is Naked; or the process
\* dies, or the Ack is lost, and it is redelivered after AckWait.
HandlerFails(m) ==
    /\ Handling(m)
    /\ ProjectionWrite(m) \/ UNCHANGED projections
    /\ MoveTo(m, "queued")
    /\ UNCHANGED services

HandlerAcks(m) ==
    /\ message[m].at = "ack"
    /\ MoveTo(m, "acked")
    /\ UNCHANGED <<services, projections>>

-----------------------------------------------------------------------------
SpendNext ==
    \/ \E e \in Expenses : SubmitExpense(e)
    \/ \E c \in Deciders :
         \/ \E op \in Operations, d \in Docs : DecideRead(c, op, d)
         \/ DecideWrite(c) \/ DecidePublish(c) \/ DecideFails(c)
    \/ \E m \in Published : Deliver(m) \/ HandlerStep(m) \/ HandlerFails(m) \/ HandlerAcks(m)

SpendSpec == SpendInit /\ [][SpendNext]_spendVars

-----------------------------------------------------------------------------
(* Properties                                                              *)

\* No document is decided twice (approved and rejected, approved or settled
\* twice) unless two calls were deciding on it at the same time.
DecidedOnce == \A d \in Docs \ contested : decided[d] <= 1

\* What reporting counts as spent is an expense that is, and stays, approved,
\* with the same exception.
CountedIsApproved == \A e \in (facts \intersect Expenses) \ contested : status[e] = "approved"

\* An expense that came in through SubmitExpense is never approved: its row
\* is a draft, which ApproveExpense refuses.  Only seeded ones are counted.
SubmittedNeverApproved == \A e \in submitted : status[e] \in {"draft", "rejected"} /\ e \notin facts

\* Redelivery and failures inflate the totals, they never lose an approval:
\* every acknowledged event is in both of them.
SpendNotUnderstated ==
    LET acked == {m \in Published : message[m].kind = "approved" /\ message[m].at = "acked"} IN
    monthly >= Cardinality(acked) /\ category >= Cardinality(acked)

\* The totals are exact as long as nothing is delivered twice: duplicate
\* delivery is not the no-op for IncrementMonthlySpend that it is for the facts.
SpendExact ==
    LET approved == {m \in Published : message[m].kind = "approved"}
        past(steps) == {m \in approved : message[m].at \in steps} IN
    (\A m \in approved : message[m].deliveries <= 1 /\ (message[m].at = "queued" =>
                                                            message[m].deliveries = 0))
    => /\ monthly = Cardinality(past({"category", "unpend", "ack", "acked"}))
       /\ category = Cardinality(past({"unpend", "ack", "acked"}))
=============================================================================
