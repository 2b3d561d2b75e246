------------------------------ MODULE Invoicing ------------------------------
(***************************************************************************)
(* Invoices of services/billing: numbers come from a counter row per year, *)
(* a payment and an overdue mark read the invoice and then write back its  *)
(* status and transaction with an UPDATE that looks at neither.            *)
(* No statement of the code makes a subscription past_due, so the step of  *)
(* MarkInvoicePaid that reactivates one has nothing to do.                 *)
(***************************************************************************)
EXTENDS Integers, FiniteSets

CONSTANTS
    Invoices,     \* ids that CreateInvoice may draw
    Txns,         \* gateway transactions
    Years,        \* years that the clocks of the replicas show around New Year
    Payers,       \* calls that may be in progress at the same time
    MaxNumber     \* bound: numbers drawn per year

ASSUME InvoicingAssumption == MaxNumber \in Nat /\ "none" \notin Invoices \union Txns

VARIABLES
    sequences,    \* invoice_sequences.last_seq, 0 where there is no row
    invoice,      \* the rows of invoices
    payer,        \* how far each call is, and the row it is about to write
    payments,     \* history: transactions MarkInvoicePaid wrote on an invoice
    overlapped,   \* history: invoices that two calls worked on side by side
    reopened      \* history: invoices marked overdue after they were read as paid

invoicingVars == <<sequences, invoice, payer, payments, overlapped, reopened>>

NoNumber == <<0, 0>>
NoTxn == "none"

\* No row yet.
Unissued == [number |-> NoNumber, status |-> "absent", txn |-> NoTxn]

\* The row CreateInvoice prepares; amounts and tax are left out.
Draft(y, seq) == [number |-> <<y, seq>>, status |-> "pending", txn |-> NoTxn]

InvoiceRow == [number : {NoNumber} \union (Years \X (1 .. MaxNumber)),
               status : {"absent", "pending", "paid", "overdue"}, txn : Txns \union {NoTxn}]

Idle == [at |-> "idle", inv |-> NoTxn, row |-> Unissued]

\* No row is written but the ones the code makes.
InvoicingTypeOK ==
    /\ sequences \in [Years -> 0 .. MaxNumber]
    /\ invoice \in [Invoices -> InvoiceRow]
    /\ payer \in [Payers -> [at : {"idle", "insert", "update"},
                             inv : Invoices \union {NoTxn}, row : InvoiceRow]]
    /\ payments \in [Invoices -> SUBSET Txns]
    /\ overlapped \subseteq Invoices /\ reopened \subseteq Invoices

InvoicingInit ==
    /\ sequences = [y \in Years |-> 0]
    /\ invoice = [i \in Invoices |-> Unissued]
    /\ payer = [p \in Payers |-> Idle]
    /\ payments = [i \in Invoices |-> {}]
    /\ overlapped = {} /\ reopened = {}

WorkingOn(i) == {p \in Payers : payer[p].inv = i}

\* Mutant: the next number is one more than the invoices of the year.
CountInvoices(p, i, y) ==
    /\ payer[p] = Idle /\ invoice[i] = Unissued /\ WorkingOn(i) = {}
    /\ LET seq == Cardinality({j \in Invoices : invoice[j].number[1] = y}) + 1
       IN  /\ seq <= MaxNumber
           /\ sequences' = [sequences EXCEPT ![y] = seq]
           /\ payer' = [payer EXCEPT ![p] = [at |-> "insert", inv |-> i,
                          row |-> Draft(y, seq)]]
    /\ UNCHANGED <<invoice, payments, overlapped, reopened>>

\* CreateInvoice draws a fresh id and, in one statement, the next number of the year.
NextInvoiceSeq(p, i, y) ==
    /\ payer[p] = Idle /\ invoice[i] = Unissued /\ WorkingOn(i) = {}
    /\ sequences[y] < MaxNumber
    /\ sequences' = [sequences EXCEPT ![y] = @ + 1]
    /\ payer' = [payer EXCEPT ![p] = [at |-> "insert", inv |-> i,
                   row |-> Draft(y, sequences[y] + 1)]]
    /\ UNCHANGED <<invoice, payments, overlapped, reopened>>

\* Its INSERT, refused by the UNIQUE number if there is such an invoice.
InsertInvoice(p) ==
    /\ payer[p].at = "insert"
    /\ invoice' = IF \E j \in Invoices : invoice[j].number = payer[p].row.number
                  THEN invoice ELSE [invoice EXCEPT ![payer[p].inv] = payer[p].row]
    /\ payer' = [payer EXCEPT ![p] = Idle]
    /\ UNCHANGED <<sequences, payments, overlapped, reopened>>

\* A call reads invoice i and goes on with the status and transaction it will write.
ReadInvoice(p, i, newStatus, txn) ==
    /\ payer[p] = Idle /\ invoice[i] # Unissued
    /\ payer' = [payer EXCEPT ![p] = [at |-> "update", inv |-> i,
                   row |-> [number |-> invoice[i].number, status |-> newStatus, txn |-> txn]]]
    /\ overlapped' = IF WorkingOn(i) = {} THEN overlapped ELSE overlapped \union {i}
    /\ UNCHANGED <<sequences, invoice, payments>>

\* MarkInvoicePaid refuses an invoice it reads as paid.
MarkInvoicePaid(p, i, txn) ==
    /\ invoice[i].status # "paid"
    /\ ReadInvoice(p, i, "paid", txn)
    /\ UNCHANGED reopened

\* Mutant: the overdue mark starts from an empty row.
OverdueBlanks(p, i) ==
    /\ ReadInvoice(p, i, "overdue", NoTxn)
    /\ reopened' = IF invoice[i].status = "paid" THEN reopened \union {i} ELSE reopened

\* MarkInvoiceOverdue looks at no status, a paid invoice included.
MarkInvoiceOverdue(p, i) ==
    /\ ReadInvoice(p, i, "overdue", invoice[i].txn)
    /\ reopened' = IF invoice[i].status = "paid" THEN reopened \union {i} ELSE reopened

\* The UPDATE of both: status and transaction as computed from the row read.
UpdateInvoice(p) ==
    /\ payer[p].at = "update"
    /\ LET call == payer[p]
       IN  /\ invoice' = [invoice EXCEPT ![call.inv] =
                            [number |-> @.number, status |-> call.row.status, txn |-> call.row.txn]]
           /\ payments' = IF call.row.status = "paid"
                          THEN [payments EXCEPT ![call.inv] = @ \union {call.row.txn}]
                          ELSE payments
    /\ payer' = [payer EXCEPT ![p] = Idle]
    /\ UNCHANGED <<sequences, overlapped, reopened>>

\* A statement fails or the process stops: a number drawn is not given back.
BillingCallStops(p) ==
    /\ payer[p] # Idle
    /\ payer' = [payer EXCEPT ![p] = Idle]
    /\ UNCHANGED <<sequences, invoice, payments, overlapped, reopened>>

InvoicingNext ==
    \E p \in Payers :
        \/ InsertInvoice(p) \/ UpdateInvoice(p) \/ BillingCallStops(p)
        \/ \E i \in Invoices :
              \/ MarkInvoiceOverdue(p, i)
              \/ \E y \in Years : NextInvoiceSeq(p, i, y)
              \/ \E txn \in Txns : MarkInvoicePaid(p, i, txn)

InvoicingSpec == InvoicingInit /\ [][InvoicingNext]_invoicingVars

-----------------------------------------------------------------------------
(* Properties                                                              *)

\* The number NextInvoiceSeq gave a call is nobody else's until its INSERT: no other
\* invoice and no other call has it, whichever calls overlap or stop, so CreateInvoice
\* never fails on the UNIQUE number.
NumberIsFree ==
    \A p \in Payers : payer[p].at = "insert" =>
        /\ \A i \in Invoices : invoice[i].number # payer[p].row.number
        /\ \A q \in Payers \ {p} : payer[q].at = "insert" => payer[q].row.number # payer[p].row.number

\* ErrInvoiceAlreadyPaid keeps a second payment off an invoice, unless the two calls
\* overlapped or MarkInvoiceOverdue had taken the invoice as paid and reopened it.
PaidOnce ==
    \A i \in Invoices : i \notin overlapped \union reopened => \A x, y \in payments[i] : x = y

\* A payment that MarkInvoicePaid recorded is still on the invoice, and the invoice is
\* still paid unless it was reopened; only a call that overlapped it and wrote back
\* what it had read before can wipe the payment out.
PaymentKept ==
    \A i \in Invoices : payments[i] # {} /\ i \notin overlapped =>
        /\ invoice[i].txn \in payments[i]
        /\ i \notin reopened => invoice[i].status = "paid"
=============================================================================
