------------------------------- MODULE Ledger -------------------------------
(***************************************************************************)
(* Journal entries and accounting periods (services/ledger): draft, post,  *)
(* void.  Every service call is a sequence of SQL statements on one        *)
(* database shared by all tenants; calls interleave between statements,    *)
(* and any call may stop at any of them.  A tenant is a Book with one      *)
(* accounting period: a posting reads no other period than its entry's.    *)
(***************************************************************************)
EXTENDS Integers, FiniteSets

CONSTANTS
    Books,       \* tenants
    Clerks,      \* service calls in progress
    MaxEntries,  \* bound on the rows of journal_entries
    MaxSeq       \* bound on each tenant's journal_entry_counters.next_seq

ASSUME LedgerAssumption == MaxEntries \in Nat /\ MaxSeq \in [Books -> Nat]

Entries == 1 .. MaxEntries  \* in the order of insertion

VARIABLES
    period,     \* each tenant's accounting period
    counter,    \* journal_entry_counters
    entry,      \* journal_entries, with their lines
    clerk,      \* the calls in progress
    announced,  \* PublishJournalPosted events of each entry
    exposed     \* entries with two overlapping voids, or one that stopped midway

ledgerVars == <<period, counter, entry, clerk, announced, exposed>>

\* balanced: debits equal credits.  reverses: the entry whose lines this
\* one's swap (Reference in the code), 0 if it is nobody's reversal.
JournalEntry == [book: Books, status: {"draft", "posted", "void"}, number: Nat \ {0},
                 balanced: BOOLEAN, reverses: 0 .. MaxEntries]

Rows == DOMAIN entry

\* id: the entry being posted; overtaken: its period was closed after the
\* posting checked it.
Off == [op |-> "none", at |-> "idle", id |-> 0, number |-> 0, original |-> 0,
        book |-> "none", balanced |-> TRUE, overtaken |-> FALSE]

\* The tables and the calls.
LedgerTypeOK ==
    /\ period \in [Books -> {"none", "open", "closed"}]
    /\ counter \in [Books -> Nat]
    /\ Rows \subseteq Entries /\ \A e \in Rows : entry[e] \in JournalEntry
    /\ \A c \in Clerks :
         /\ clerk[c].op \in {"none", "create", "post", "void"}
         /\ clerk[c].at \in {"idle", "allocate", "insert", "read", "period", "write", "publish",
                             "mark"}
         /\ clerk[c].id \in 0 .. MaxEntries /\ clerk[c].original \in 0 .. MaxEntries
         /\ clerk[c].number \in Nat /\ clerk[c].overtaken \in BOOLEAN
    /\ announced \in [Entries -> Nat] /\ exposed \subseteq Entries

LedgerInit ==
    /\ period = [b \in Books |-> "none"] /\ counter = [b \in Books |-> 0]
    /\ entry = <<>>
    /\ clerk = [c \in Clerks |-> Off]
    /\ announced = [e \in Entries |-> 0] /\ exposed = {}

-----------------------------------------------------------------------------
(* Accounting periods                                                      *)

\* A second OpenAccountingPeriod meets the unique index and returns nil.
OpenAccountingPeriod(b) ==
    /\ period[b] = "none"
    /\ period' = [period EXCEPT ![b] = "open"]
    /\ UNCHANGED <<counter, entry, clerk, announced, exposed>>

\* Read and unguarded UPDATE in one: the status never leaves "closed", so a
\* second closing changes nothing.
CloseAccountingPeriod(b) ==
    /\ period[b] = "open"
    /\ period' = [period EXCEPT ![b] = "closed"]
    /\ clerk' = [c \in Clerks |-> IF clerk[c].at = "write" /\ entry[clerk[c].id].book = b
                                  THEN [clerk[c] EXCEPT !.overtaken = TRUE] ELSE clerk[c]]
    /\ UNCHANGED <<counter, entry, announced, exposed>>

-----------------------------------------------------------------------------
(* CreateJournalEntry, for a caller or for VoidJournalEntry                *)

\* Mutant: the counter is read, and written back only the first time.
AllocateStale(b) ==
    /\ counter[b] < MaxSeq[b]
    /\ counter' = [counter EXCEPT ![b] = 1]

\* One upsert on the tenant's counter, committed by itself.
AllocateEntryNumber(b) ==
    /\ counter[b] < MaxSeq[b]
    /\ counter' = [counter EXCEPT ![b] = @ + 1]

\* The accounts and parties of the lines are looked up; the period's status
\* is not, and neither is the balance.
CreateJournalEntry(c, b, balanced) ==
    /\ clerk[c].at = "idle" /\ period[b] # "none"
    /\ AllocateEntryNumber(b)
    /\ clerk' = [clerk EXCEPT ![c] = [Off EXCEPT !.op = "create", !.at = "insert", !.book = b,
                                          !.number = counter'[b], !.balanced = balanced]]
    /\ UNCHANGED <<period, entry, announced, exposed>>

\* entry_number is UNIQUE over the whole table.
NumberTaken(n) == \E e \in Rows : entry[e].number = n

\* Header and lines in one transaction.  VoidJournalEntry goes on to post.
InsertEntry(c) ==
    LET e == Cardinality(Rows) + 1
        k == clerk[c] IN
    /\ k.at = "insert" /\ ~NumberTaken(k.number) /\ e \in Entries
    /\ entry' = [r \in Rows \union {e} |->
                    IF r = e THEN [book |-> k.book, status |-> "draft", number |-> k.number,
                                   balanced |-> k.balanced, reverses |-> k.original]
                    ELSE entry[r]]
    /\ clerk' = [clerk EXCEPT ![c] = IF k.op = "void" THEN [k EXCEPT !.at = "read", !.id = e]
                                     ELSE Off]
    /\ UNCHANGED <<period, counter, announced, exposed>>

-----------------------------------------------------------------------------
(* PostJournalEntry                                                        *)

PostJournalEntry(c, e) ==
    /\ clerk[c].at = "idle"
    /\ entry[e].status = "draft"
    /\ clerk' = [clerk EXCEPT ![c] = [Off EXCEPT !.op = "post", !.at = "period", !.id = e]]
    /\ UNCHANGED <<period, counter, entry, announced, exposed>>

\* The same read when VoidJournalEntry posts its reversal.
ReadReversal(c) ==
    /\ clerk[c].at = "read"
    /\ entry[clerk[c].id].status = "draft"
    /\ clerk' = [clerk EXCEPT ![c].at = "period"]
    /\ UNCHANGED <<period, counter, entry, announced, exposed>>

\* Mutant: the period is looked up, its status is not compared.
CheckBalanceOnly(c) ==
    LET e == clerk[c].id IN
    /\ clerk[c].at = "period"
    /\ entry[e].balanced
    /\ clerk' = [clerk EXCEPT ![c].at = "write"]
    /\ UNCHANGED <<period, counter, entry, announced, exposed>>

\* The period must be open and the lines, which never change, balanced.
CheckPeriod(c) ==
    LET e == clerk[c].id IN
    /\ clerk[c].at = "period"
    /\ period[entry[e].book] = "open" /\ entry[e].balanced
    /\ clerk' = [clerk EXCEPT ![c].at = "write"]
    /\ UNCHANGED <<period, counter, entry, announced, exposed>>

\* UPDATE ... WHERE id = $1 AND status = 'draft'.
MarkPosted(c) ==
    /\ clerk[c].at = "write"
    /\ entry[clerk[c].id].status = "draft"
    /\ entry' = [entry EXCEPT ![clerk[c].id].status = "posted"]
    /\ clerk' = [clerk EXCEPT ![c].at = "publish"]
    /\ UNCHANGED <<period, counter, announced, exposed>>

\* Best effort: the event may be lost, the call goes on.
PublishJournalPosted(c) ==
    LET e == clerk[c].id IN
    /\ clerk[c].at = "publish"
    /\ announced' \in {announced, [announced EXCEPT ![e] = @ + 1]}
    /\ clerk' = [clerk EXCEPT ![c] = IF clerk[c].op = "void" THEN [@ EXCEPT !.at = "mark"] ELSE Off]
    /\ UNCHANGED <<period, counter, entry, exposed>>

-----------------------------------------------------------------------------
(* VoidJournalEntry                                                        *)

Overlapping(c, e) == \E d \in Clerks \ {c} : clerk[d].op = "void" /\ clerk[d].original = e

\* Mutant: an entry that is already void is not refused.
VoidAgain(c, e) ==
    /\ clerk[c].at = "idle"
    /\ entry[e].status # "draft"
    /\ clerk' = [clerk EXCEPT ![c] = [Off EXCEPT !.op = "void", !.at = "allocate", !.original = e,
                                                 !.book = entry[e].book,
                                                 !.balanced = entry[e].balanced]]
    /\ exposed' = IF Overlapping(c, e) THEN exposed \union {e} ELSE exposed
    /\ UNCHANGED <<period, counter, entry, announced>>

\* Reads the original; the reversal (same period, debits and credits swapped)
\* is then created and posted like any entry.
VoidJournalEntry(c, e) ==
    /\ clerk[c].at = "idle"
    /\ entry[e].status = "posted"
    /\ clerk' = [clerk EXCEPT ![c] = [Off EXCEPT !.op = "void", !.at = "allocate", !.original = e,
                                                 !.book = entry[e].book,
                                                 !.balanced = entry[e].balanced]]
    /\ exposed' = IF Overlapping(c, e) THEN exposed \union {e} ELSE exposed
    /\ UNCHANGED <<period, counter, entry, announced>>

\* CreateJournalEntry on behalf of the void.
AllocateReversal(c) ==
    /\ clerk[c].at = "allocate"
    /\ AllocateEntryNumber(clerk[c].book)
    /\ clerk' = [clerk EXCEPT ![c].at = "insert", ![c].number = counter'[clerk[c].book]]
    /\ UNCHANGED <<period, entry, announced, exposed>>

\* UPDATE ... WHERE id = $1 AND status = 'posted'.
MarkVoid(c) ==
    LET e == clerk[c].original IN
    /\ clerk[c].at = "mark"
    /\ entry[e].status = "posted"
    /\ entry' = [entry EXCEPT ![e].status = "void"]
    /\ clerk' = [clerk EXCEPT ![c] = Off]
    /\ UNCHANGED <<period, counter, announced, exposed>>

\* A check refuses, a statement fails or finds no row, the process dies.  A
\* void that had inserted its reversal leaves it behind.
Abort(c) ==
    /\ clerk[c].at # "idle"
    /\ clerk' = [clerk EXCEPT ![c] = Off]
    /\ exposed' = IF clerk[c].op = "void" /\ clerk[c].id # 0
                  THEN exposed \union {clerk[c].original} ELSE exposed
    /\ UNCHANGED <<period, counter, entry, announced>>

-----------------------------------------------------------------------------
LedgerStep(c) ==
    \/ \E b \in Books, balanced \in BOOLEAN : CreateJournalEntry(c, b, balanced)
    \/ \E e \in Rows : PostJournalEntry(c, e) \/ VoidJournalEntry(c, e)
    \/ AllocateReversal(c) \/ InsertEntry(c)
    \/ ReadReversal(c) \/ CheckPeriod(c) \/ MarkPosted(c) \/ PublishJournalPosted(c)
    \/ MarkVoid(c) \/ Abort(c)

LedgerNext ==
    \/ \E b \in Books : OpenAccountingPeriod(b) \/ CloseAccountingPeriod(b)
    \/ \E c \in Clerks : LedgerStep(c)

LedgerSpec == LedgerInit /\ [][LedgerNext]_ledgerVars

-----------------------------------------------------------------------------
(* Properties                                                              *)

\* However many PostJournalEntry calls race on a draft, one of them posts it
\* and at most one journal.posted event leaves, and only for a posted entry.
PostedOnce ==
    \A e \in Entries : announced[e] <= 1 /\ (announced[e] = 1 => entry[e].status # "draft")

\* A void entry has a reversal that was posted (and perhaps voided since):
\* the original is marked last, so a void that stops midway marks nothing.
VoidIsReversed ==
    \A e \in Rows : entry[e].status = "void" =>
        \E r \in Rows : entry[r].reverses = e /\ entry[r].status # "draft"

\* VoidJournalEntry "creates a reversing entry to cancel the financial
\* effect": exactly one reversal stands against a void entry, unless two voids
\* of it overlapped or one of them stopped after inserting its reversal.
VoidCancels ==
    \A e \in Rows \ exposed : entry[e].status = "void" =>
        Cardinality({r \in Rows : entry[r].reverses = e}) = 1

\* CloseAccountingPeriod marks a period as closed, "preventing new postings":
\* after it only those postings get through that had already read the period
\* as open when it was closed.
NoPostingAfterClose ==
    [][\A e \in DOMAIN entry : (entry[e].status = "draft" /\ entry'[e].status = "posted") =>
          \/ period[entry[e].book] = "open"
          \/ \E c \in Clerks : clerk[c].id = e /\ clerk[c].overtaken]_ledgerVars

\* A tenant never gets an entry number twice, whatever calls race or fail: the
\* only entry that can hold a number just allocated is another tenant's, because
\* the counter is per tenant and the UNIQUE constraint is not.
NumbersRise ==
    \A c \in Clerks : clerk[c].at = "insert" =>
        /\ \A e \in Rows : entry[e].book = clerk[c].book => entry[e].number # clerk[c].number
        /\ \A d \in Clerks \ {c} : clerk[d].at = "insert" /\ clerk[d].book = clerk[c].book
                                       => clerk[d].number # clerk[c].number
=============================================================================
