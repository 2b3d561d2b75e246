---------------------------- MODULE LedgerProofs ----------------------------
(***************************************************************************)
(* Proofs about the journal and the chart of accounts: numbers of a tenant *)
(* never repeat, an entry is announced once, a void leaves exactly one     *)
(* reversal, a closed period takes no new posting, and a bank account      *)
(* loses its code only to a rival.  They hold for every number of tenants, *)
(* calls, entries and codes.                                               *)
(***************************************************************************)
EXTENDS Ledger, ChartOfAccounts, FiniteSetTheorems, WellFoundedInduction, TLAPS

\* Most leaves are first-order: Zenon proves them.  Those that need arithmetic cite SMT, with
\* SMTT(30) as a second and longer try; ZenonT(40) gives a leaf more time.
USE Zenon

-----------------------------------------------------------------------------
(* The journal                                                             *)

\* What a call holds.
Clerk == [op: {"none", "create", "post", "void"},
          at: {"idle", "allocate", "insert", "read", "period", "write", "publish", "mark"},
          id: 0 .. MaxEntries, number: Nat, original: 0 .. MaxEntries,
          book: Books \union {"none"}, balanced: BOOLEAN, overtaken: BOOLEAN]

\* The ids in use are 1 .. n, so the next one is free.
JournalShape ==
    /\ period \in [Books -> {"none", "open", "closed"}]
    /\ counter \in [Books -> Nat]
    /\ \E n \in 0 .. MaxEntries : Rows = 1 .. n
    /\ entry \in [Rows -> JournalEntry]
    /\ clerk \in [Clerks -> Clerk]
    /\ announced \in [Entries -> Nat]
    /\ exposed \subseteq Entries

\* What call k has read or written, where en, co and pe are the tables.
ClerkOK(k, en, co, pe) ==
    /\ k.at = "idle" => k.op = "none" /\ k.id = 0
    /\ k.at \in {"allocate", "insert"} => k.book \in Books /\ k.id = 0
    /\ k.at = "insert" => k.number \in 1 .. co[k.book]
    /\ k.at \in {"read", "period", "write", "publish", "mark"} => k.id \in DOMAIN en
    /\ k.at \in {"allocate", "read", "mark"} => k.op = "void"
    /\ k.op = "void" => k.at # "idle" /\ k.original \in DOMAIN en
    /\ k.op = "void" /\ k.id # 0 => k.id \in DOMAIN en /\ en[k.id].reverses = k.original
    /\ k.op # "void" => k.original = 0
    /\ k.at = "write" => pe[en[k.id].book] = "open" \/ k.overtaken
    /\ k.at \in {"publish", "mark"} => en[k.id].status # "draft"

\* The calls, the numbers handed out so far, and whose reversal an entry is.
JournalInv ==
    /\ JournalShape
    /\ \A c \in Clerks : ClerkOK(clerk[c], entry, counter, period)
    /\ \A e \in Rows : entry[e].number <= counter[entry[e].book] /\ entry[e].reverses \in Rows \union {0}
    /\ NumbersRise

\* At most one call is about to announce an entry, and none once it is announced.
AnnounceInv ==
    /\ \A c, d \in Clerks : clerk[c].at = "publish" /\ clerk[d].at = "publish" /\ clerk[c].id = clerk[d].id
                               => c = d
    /\ \A e \in Entries : announced[e] # 0 =>
          /\ announced[e] = 1 /\ e \in Rows /\ entry[e].status # "draft"
          /\ \A c \in Clerks : ~(clerk[c].at = "publish" /\ clerk[c].id = e)

\* Call c is voiding entry e.
Voids(c, e) == clerk[c].op = "void" /\ clerk[c].original = e

\* The reversals of an entry that is not exposed: none before a void has inserted its
\* own, that one while the void is under way, and one for ever after.
ReversalOK(e) ==
    /\ \A c, d \in Clerks : Voids(c, e) /\ Voids(d, e) => c = d
    /\ entry[e].status # "posted" => \A c \in Clerks : ~Voids(c, e)
    /\ entry[e].status = "draft" => \A r \in Rows : entry[r].reverses # e
    /\ entry[e].status = "posted" =>
          \A r \in Rows : entry[r].reverses = e => \E c \in Clerks : Voids(c, e) /\ clerk[c].id = r
    /\ entry[e].status = "void" =>
          \E r \in Rows : entry[r].reverses = e /\ \A q \in Rows : entry[q].reverses = e => q = r

\* Every entry that no two voids raced for.
ReversalInv == \A e \in Rows \ exposed : ReversalOK(e)

USE LedgerAssumption DEF Entries

\* No row, no number and no call at first.
LEMMA JournalInit == LedgerInit => JournalInv /\ AnnounceInv /\ ReversalInv /\ VoidIsReversed
<1> SUFFICES ASSUME LedgerInit PROVE JournalInv /\ AnnounceInv /\ ReversalInv /\ VoidIsReversed
    OBVIOUS
<1>1. Rows = {} /\ Rows = 1 .. 0 /\ entry \in [Rows -> JournalEntry]
      BY SMT, SMTT(30) DEF LedgerInit, Rows
<1>2. Off \in Clerk
      BY SMT, SMTT(30) DEF Off, Clerk
<1>3. JournalShape
      <2>1. 0 \in 0 .. MaxEntries
            BY SMT, SMTT(30)
      <2>2. \E n \in 0 .. MaxEntries : Rows = 1 .. n
            BY <1>1, <2>1
      <2>3. QED
            BY <1>1, <1>2, <2>2 DEF LedgerInit, JournalShape
<1>4. \A c \in Clerks : ClerkOK(clerk[c], entry, counter, period)
      BY DEF LedgerInit, ClerkOK, Off
<1>5. JournalInv
      BY <1>1, <1>3, <1>4 DEF JournalInv, NumbersRise, LedgerInit, Off
<1>6. QED
      BY <1>1, <1>5 DEF AnnounceInv, ReversalInv, VoidIsReversed, LedgerInit, Off

\* A step keeps the rows, except that a draft may be posted and a posted entry voided.
RowsKept ==
    \A e \in Rows : /\ e \in Rows' /\ entry'[e].book = entry[e].book
                    /\ entry'[e].reverses = entry[e].reverses
                    /\ entry[e].status # "draft" => entry'[e].status # "draft"

\* What a call has read stays true while others add rows, numbers and open periods.
LEMMA ClerkStays ==
    ASSUME NEW k \in Clerk, ClerkOK(k, entry, counter, period), JournalShape, JournalShape', RowsKept,
           \A b \in Books : counter[b] <= counter'[b] /\ (period[b] = "open" => period'[b] = "open")
    PROVE  ClerkOK(k, entry', counter', period')
<1>1. k.at = "insert" => k.number \in 1 .. counter'[k.book]
      BY SMT, SMTT(30) DEF ClerkOK, Clerk, JournalShape
<1>2. k.at = "write" => period'[entry'[k.id].book] = "open" \/ k.overtaken
      BY ZenonT(40) DEF ClerkOK, Clerk, JournalShape, RowsKept, Rows, JournalEntry
<1>3. k.at \in {"publish", "mark"} => entry'[k.id].status # "draft"
      BY DEF ClerkOK, Clerk, JournalShape, RowsKept, Rows
<1>4. k.op = "void" /\ k.id # 0 => k.id \in DOMAIN entry' /\ entry'[k.id].reverses = k.original
      BY DEF ClerkOK, Clerk, RowsKept, Rows
<1>5. QED
      BY <1>1, <1>2, <1>3, <1>4 DEF ClerkOK, Clerk, RowsKept, Rows

\* One call moves on and the others see that their own readings still hold.
LEMMA OneClerk ==
    ASSUME JournalInv, NEW c \in Clerks, NEW k \in Clerk, clerk' = [clerk EXCEPT ![c] = k],
           JournalShape', RowsKept, ClerkOK(k, entry', counter', period'),
           \A b \in Books : counter[b] <= counter'[b] /\ (period[b] = "open" => period'[b] = "open")
    PROVE  \A d \in Clerks : ClerkOK(clerk'[d], entry', counter', period')
<1> SUFFICES ASSUME NEW d \in Clerks PROVE ClerkOK(clerk'[d], entry', counter', period')
    OBVIOUS
<1>1. clerk \in [Clerks -> Clerk] /\ JournalShape
      BY DEF JournalInv, JournalShape
<1>2. CASE d = c
      BY <1>1, <1>2
<1>3. CASE d # c
      <2>1. clerk'[d] = clerk[d] /\ clerk[d] \in Clerk
            BY <1>1, <1>3
      <2>2. ClerkOK(clerk[d], entry, counter, period)
            BY DEF JournalInv
      <2>3. QED
            BY <1>1, <2>1, <2>2, ClerkStays
<1>4. QED
      BY <1>2, <1>3

\* Steps that only move a call on, to anything but an insert.
LEMMA ClerkOnly ==
    ASSUME JournalInv, NEW c \in Clerks, NEW k \in Clerk, clerk' = [clerk EXCEPT ![c] = k],
           UNCHANGED <<period, counter, entry>>, announced' \in [Entries -> Nat], exposed' \subseteq Entries,
           ClerkOK(k, entry, counter, period), k.at # "insert"
    PROVE  JournalInv'
<1>1. clerk \in [Clerks -> Clerk] /\ JournalShape
      BY DEF JournalInv, JournalShape
<1>2. JournalShape'
      BY <1>1 DEF JournalShape, Rows
<1>3. RowsKept
      BY DEF RowsKept, Rows
<1>4. \A b \in Books : counter[b] <= counter'[b] /\ (period[b] = "open" => period'[b] = "open")
      BY <1>1, SMT, SMTT(30) DEF JournalShape
<1>5. \A d \in Clerks : ClerkOK(clerk'[d], entry', counter', period')
      BY <1>2, <1>3, <1>4, OneClerk
<1>6. NumbersRise'
      BY <1>1 DEF JournalInv, NumbersRise, Rows
<1>7. QED
      BY <1>2, <1>5, <1>6 DEF JournalInv, Rows

\* AllocateEntryNumber hands out a number beyond all that its tenant has.
LEMMA Numbered ==
    ASSUME JournalInv, NEW c \in Clerks, NEW k \in Clerk, clerk' = [clerk EXCEPT ![c] = k],
           NEW b \in Books, counter' = [counter EXCEPT ![b] = @ + 1],
           UNCHANGED <<period, entry, announced, exposed>>,
           k.at = "insert", k.book = b, k.number = counter[b] + 1, k.id = 0,
           k.op = "void" => k.original \in Rows, k.op # "void" => k.original = 0
    PROVE  JournalInv'
<1>1. clerk \in [Clerks -> Clerk] /\ JournalShape
      BY DEF JournalInv, JournalShape
<1>2. counter'[b] = counter[b] + 1 /\ \A a \in Books : counter'[a] \in Nat /\ counter[a] \in Nat /\ counter[a] <= counter'[a]
      BY <1>1, SMT, SMTT(30) DEF JournalShape
<1>3. JournalShape'
      BY <1>1, <1>2 DEF JournalShape, Rows
<1>4. RowsKept
      BY DEF RowsKept, Rows
<1>5. ClerkOK(k, entry', counter', period')
      BY <1>2, SMT, SMTT(30) DEF ClerkOK, Rows
<1>6. \A d \in Clerks : ClerkOK(clerk'[d], entry', counter', period')
      BY <1>2, <1>3, <1>4, <1>5, OneClerk
<1>7. \A e \in Rows : entry[e].book \in Books /\ entry[e].number \in Nat /\ entry[e].number <= counter[entry[e].book]
      BY <1>1 DEF JournalShape, JournalInv, JournalEntry
<1>8. \A e \in Rows : entry[e].number <= counter'[entry[e].book]
      BY <1>2, <1>7, SMT, SMTT(30)
<1>9. NumbersRise'
      <2> SUFFICES ASSUME NEW d \in Clerks, clerk'[d].at = "insert"
                   PROVE  /\ \A e \in Rows : entry[e].book = clerk'[d].book => entry[e].number # clerk'[d].number
                          /\ \A f \in Clerks \ {d} : clerk'[f].at = "insert" /\ clerk'[f].book = clerk'[d].book
                                       => clerk'[f].number # clerk'[d].number
          BY DEF NumbersRise, Rows
      <2>1. clerk'[c] = k /\ \A f \in Clerks \ {c} : clerk'[f] = clerk[f]
            BY <1>1
      <2>2. \A f \in Clerks : clerk[f].at = "insert" => clerk[f].number \in 1 .. counter[clerk[f].book] /\ clerk[f].book \in Books
            BY DEF JournalInv, ClerkOK
      <2>3. QED
            BY <1>2, <1>7, <2>1, <2>2, SMT, SMTT(30) DEF JournalInv, NumbersRise
<1>10. QED
      BY <1>3, <1>6, <1>8, <1>9 DEF JournalInv, Rows

\* The two guarded UPDATEs of a status.
LEMMA StatusOnly ==
    ASSUME JournalInv, NEW c \in Clerks, NEW k \in Clerk, clerk' = [clerk EXCEPT ![c] = k],
           NEW e \in Rows, NEW s \in {"posted", "void"}, entry' = [entry EXCEPT ![e].status = s],
           UNCHANGED <<period, counter, announced, exposed>>,
           ClerkOK(k, entry', counter, period), k.at # "insert"
    PROVE  JournalInv'
<1>1. clerk \in [Clerks -> Clerk] /\ entry \in [Rows -> JournalEntry] /\ JournalShape
      BY DEF JournalInv, JournalShape
<1>2. Rows' = Rows /\ entry' \in [Rows -> JournalEntry]
      BY <1>1 DEF Rows, JournalEntry
<1>3. \A r \in Rows : /\ entry'[r].book = entry[r].book /\ entry'[r].number = entry[r].number
                      /\ entry'[r].reverses = entry[r].reverses
                      /\ entry'[r].status = IF r = e THEN s ELSE entry[r].status
      BY <1>1 DEF Rows, JournalEntry
<1>4. JournalShape'
      BY <1>1, <1>2 DEF JournalShape
<1>5. RowsKept
      BY <1>2, <1>3 DEF RowsKept
<1>6. \A b \in Books : counter[b] <= counter'[b] /\ (period[b] = "open" => period'[b] = "open")
      BY <1>1, SMT, SMTT(30) DEF JournalShape
<1>7. \A d \in Clerks : ClerkOK(clerk'[d], entry', counter', period')
      BY <1>4, <1>5, <1>6, OneClerk
<1>8. NumbersRise'
      BY <1>1, <1>2, <1>3, SMT, SMTT(30) DEF JournalInv, NumbersRise
<1>9. QED
      BY <1>2, <1>3, <1>4, <1>7, <1>8 DEF JournalInv

\* The next id is free, and it is one more than the ids in use.
LEMMA NextId ==
    ASSUME JournalShape, NEW e, e = Cardinality(Rows) + 1, e \in Entries
    PROVE  e \notin Rows /\ Rows \union {e} = 1 .. e /\ e \in 0 .. MaxEntries
<1>1. PICK n \in 0 .. MaxEntries : Rows = 1 .. n
      BY DEF JournalShape
<1>2. Cardinality(1 .. n) = n
      BY FS_Interval, SMT, SMTT(30)
<1>3. QED
      BY <1>1, <1>2, SMT, SMTT(30)

\* InsertEntry adds a draft whose number no other entry of its tenant has.
LEMMA InsertJournal ==
    ASSUME JournalInv, NEW c \in Clerks, InsertEntry(c)
    PROVE  /\ JournalInv' /\ RowsKept
           /\ \E e \in Entries \ Rows :
                /\ Rows' = Rows \union {e} /\ \A r \in Rows : entry'[r] = entry[r]
                /\ entry'[e].status = "draft" /\ entry'[e].reverses = clerk[c].original
                /\ clerk'[c].at \in {"idle", "read"}
                /\ clerk[c].op = "void" => clerk'[c] = [clerk[c] EXCEPT !.at = "read", !.id = e]
                /\ clerk[c].op # "void" => clerk'[c] = Off
                /\ \A d \in Clerks \ {c} : clerk'[d] = clerk[d]
<1> DEFINE k == clerk[c]
<1>1. PICK e \in Entries : /\ e = Cardinality(Rows) + 1
                           /\ k.at = "insert"
                           /\ entry' = [r \in Rows \union {e} |->
                                 IF r = e THEN [book |-> k.book, status |-> "draft", number |-> k.number,
                                                balanced |-> k.balanced, reverses |-> k.original]
                                 ELSE entry[r]]
                           /\ clerk' = [clerk EXCEPT ![c] = IF k.op = "void" THEN [k EXCEPT !.at = "read", !.id = e]
                                                            ELSE Off]
                           /\ UNCHANGED <<period, counter, announced, exposed>>
      BY DEF InsertEntry
<1>2. JournalShape /\ clerk \in [Clerks -> Clerk] /\ entry \in [Rows -> JournalEntry] /\ k \in Clerk
      BY DEF JournalInv, JournalShape
<1>3. e \notin Rows /\ Rows \union {e} = 1 .. e /\ e \in 0 .. MaxEntries
      BY <1>1, <1>2, NextId
<1>4. ClerkOK(k, entry, counter, period)
      BY DEF JournalInv
<1>5. /\ k.book \in Books /\ k.number \in 1 .. counter[k.book] /\ counter[k.book] \in Nat
      /\ k.original \in Rows \union {0}
      BY <1>1, <1>2, <1>4 DEF ClerkOK, JournalShape, Clerk, Rows
<1>6. Rows' = Rows \union {e}
      BY <1>1 DEF Rows
<1>7. /\ \A r \in Rows : entry'[r] = entry[r]
      /\ entry'[e].book = k.book /\ entry'[e].status = "draft" /\ entry'[e].number = k.number
      /\ entry'[e].reverses = k.original
      BY <1>1, <1>3
<1>8. entry' \in [Rows' -> JournalEntry]
      <2> DEFINE new == [book |-> k.book, status |-> "draft", number |-> k.number,
                         balanced |-> k.balanced, reverses |-> k.original]
      <2>1. new \in JournalEntry
            BY <1>2, <1>5, SMT, SMTT(30) DEF JournalEntry, Clerk
      <2>2. entry' = [r \in Rows \union {e} |-> IF r = e THEN new ELSE entry[r]]
            BY <1>1
      <2> HIDE DEF new
      <2>3. QED
            BY <1>2, <1>6, <2>1, <2>2
<1>9. PICK j \in Clerk : /\ clerk' = [clerk EXCEPT ![c] = j]
                         /\ k.op = "void" => j = [k EXCEPT !.at = "read", !.id = e]
                         /\ k.op # "void" => j = Off
      <2>1. CASE k.op = "void"
            <3>1. [k EXCEPT !.at = "read", !.id = e] \in Clerk
                  BY <1>2, <1>3 DEF Clerk
            <3>2. QED
                  BY <1>1, <2>1, <3>1
      <2>2. CASE k.op # "void"
            <3>1. Off \in Clerk
                  BY SMT, SMTT(30) DEF Clerk, Off
            <3>2. QED
                  BY <1>1, <2>2, <3>1
      <2>3. QED
            BY <2>1, <2>2
<1>10. JournalShape'
      <2>1. \E n \in 0 .. MaxEntries : Rows' = 1 .. n
            BY <1>3, <1>6
      <2>2. clerk' \in [Clerks -> Clerk]
            BY <1>2, <1>9
      <2>3. QED
            BY <1>1, <1>2, <1>8, <2>1, <2>2 DEF JournalShape
<1>11. RowsKept
      BY <1>6, <1>7 DEF RowsKept
<1>12. ClerkOK(j, entry', counter', period')
      <2>1. CASE k.op = "void"
            <3>1. j.at = "read" /\ j.id = e /\ j.op = "void" /\ j.original = k.original
                  BY <1>2, <1>9, <2>1 DEF Clerk
            <3>2. k.original \in Rows
                  BY <1>4, <2>1 DEF ClerkOK, Rows
            <3>3. QED
                  BY <1>6, <1>7, <3>1, <3>2 DEF ClerkOK, Rows
      <2>2. CASE k.op # "void"
            BY <1>9, <2>2, SMT, SMTT(30) DEF ClerkOK, Off
      <2>3. QED
            BY <2>1, <2>2
<1>13. \A b \in Books : counter[b] <= counter'[b] /\ (period[b] = "open" => period'[b] = "open")
      BY <1>1, <1>2, SMT, SMTT(30) DEF JournalShape
<1>14. \A d \in Clerks : ClerkOK(clerk'[d], entry', counter', period')
      BY <1>9, <1>10, <1>11, <1>12, <1>13, OneClerk
<1>15. /\ clerk'[c] = j /\ \A d \in Clerks \ {c} : clerk'[d] = clerk[d]
       /\ j.at \in {"idle", "read"} /\ j.at # "insert"
      <2>1. clerk'[c] = j /\ \A d \in Clerks \ {c} : clerk'[d] = clerk[d]
            BY <1>2, <1>9
      <2>2. k.op = "void" => j.at = "read"
            BY <1>2, <1>9 DEF Clerk
      <2>3. k.op # "void" => j.at = "idle"
            BY <1>9, SMT, SMTT(30) DEF Off
      <2>4. QED
            BY <2>1, <2>2, <2>3
<1>16. NumbersRise'
      <2> SUFFICES ASSUME NEW d \in Clerks, clerk'[d].at = "insert"
                   PROVE  /\ \A r \in Rows' : entry'[r].book = clerk'[d].book => entry'[r].number # clerk'[d].number
                          /\ \A f \in Clerks \ {d} : clerk'[f].at = "insert" /\ clerk'[f].book = clerk'[d].book
                                       => clerk'[f].number # clerk'[d].number
          BY DEF NumbersRise
      <2>1. d # c /\ clerk'[d] = clerk[d] /\ clerk[d].at = "insert"
            BY <1>15
      <2>2. k.book = clerk[d].book => k.number # clerk[d].number
            BY <1>1, <2>1 DEF JournalInv, NumbersRise
      <2>3. \A r \in Rows' : entry'[r].book = clerk'[d].book => entry'[r].number # clerk'[d].number
            BY ZenonT(40), <1>6, <1>7, <2>1, <2>2 DEF JournalInv, NumbersRise
      <2>4. QED
            BY ZenonT(40), <1>15, <2>1, <2>3 DEF JournalInv, NumbersRise
<1>17. \A r \in Rows' : entry'[r].number <= counter'[entry'[r].book] /\ entry'[r].reverses \in Rows' \union {0}
      BY <1>1, <1>5, <1>6, <1>7, SMT, SMTT(30) DEF JournalInv
<1>18. JournalInv'
      BY <1>10, <1>14, <1>16, <1>17 DEF JournalInv
<1>19. /\ clerk[c].op = "void" => clerk'[c] = [clerk[c] EXCEPT !.at = "read", !.id = e]
       /\ clerk[c].op # "void" => clerk'[c] = Off
      BY <1>9, <1>15
<1> HIDE DEF k
<1>20. entry'[e].reverses = clerk[c].original
      BY <1>7 DEF k
<1>21. QED
      BY <1>3, <1>6, <1>7, <1>11, <1>15, <1>18, <1>19, <1>20

\* Opening and closing a period; a closing notes which postings it overtakes.
LEMMA PeriodJournal ==
    ASSUME JournalInv, NEW b \in Books, OpenAccountingPeriod(b) \/ CloseAccountingPeriod(b)
    PROVE  JournalInv' /\ UNCHANGED <<entry, counter, announced, exposed>>
           /\ \A c \in Clerks : /\ clerk'[c].op = clerk[c].op /\ clerk'[c].at = clerk[c].at
                                /\ clerk'[c].id = clerk[c].id /\ clerk'[c].original = clerk[c].original
<1>1. JournalShape /\ clerk \in [Clerks -> Clerk] /\ period \in [Books -> {"none", "open", "closed"}]
      BY DEF JournalInv, JournalShape
<1>2. UNCHANGED <<entry, counter, announced, exposed>>
      BY DEF OpenAccountingPeriod, CloseAccountingPeriod
<1>3. CASE OpenAccountingPeriod(b)
      <2>1. clerk' = clerk /\ period' = [period EXCEPT ![b] = "open"]
            BY <1>3 DEF OpenAccountingPeriod
      <2>2. JournalShape'
            BY <1>1, <1>2, <2>1 DEF JournalShape, Rows
      <2>3. RowsKept
            BY <1>2 DEF RowsKept, Rows
      <2>4. \A a \in Books : counter[a] <= counter'[a] /\ (period[a] = "open" => period'[a] = "open")
            BY <1>1, <1>2, <2>1, SMT, SMTT(30) DEF JournalShape
      <2>5. ASSUME NEW c \in Clerks PROVE ClerkOK(clerk'[c], entry', counter', period')
            <3>1. clerk[c] \in Clerk /\ ClerkOK(clerk[c], entry, counter, period)
                  BY <1>1 DEF JournalInv
            <3>2. QED
                  BY <1>1, <2>1, <2>2, <2>3, <2>4, <3>1, ClerkStays
      <2>6. JournalInv'
            BY <1>2, <2>1, <2>2, <2>5 DEF JournalInv, NumbersRise, Rows
      <2>7. QED
            BY <1>2, <2>1, <2>6
<1>4. CASE CloseAccountingPeriod(b)
      <2>1. /\ period' = [period EXCEPT ![b] = "closed"]
            /\ clerk' = [c \in Clerks |-> IF clerk[c].at = "write" /\ entry[clerk[c].id].book = b
                                          THEN [clerk[c] EXCEPT !.overtaken = TRUE] ELSE clerk[c]]
            BY <1>4 DEF CloseAccountingPeriod
      <2>2. ASSUME NEW c \in Clerks
            PROVE  /\ clerk'[c] \in Clerk /\ clerk'[c].op = clerk[c].op /\ clerk'[c].at = clerk[c].at
                   /\ clerk'[c].id = clerk[c].id /\ clerk'[c].original = clerk[c].original
                   /\ clerk'[c].book = clerk[c].book /\ clerk'[c].number = clerk[c].number
                   /\ clerk[c].at = "write" /\ entry[clerk[c].id].book = b => clerk'[c].overtaken
                   /\ ~(clerk[c].at = "write" /\ entry[clerk[c].id].book = b) => clerk'[c].overtaken = clerk[c].overtaken
            <3>1. clerk[c] \in Clerk
                  BY <1>1
            <3>2. CASE clerk[c].at = "write" /\ entry[clerk[c].id].book = b
                  <4>1. clerk'[c] = [clerk[c] EXCEPT !.overtaken = TRUE]
                        BY <2>1, <3>2
                  <4>2. QED
                        BY <3>1, <3>2, <4>1 DEF Clerk
            <3>3. CASE ~(clerk[c].at = "write" /\ entry[clerk[c].id].book = b)
                  BY <2>1, <3>1, <3>3
            <3>4. QED
                  BY <3>2, <3>3
      <2>3. clerk' \in [Clerks -> Clerk]
            BY <2>1, <2>2
      <2>4. JournalShape'
            BY <1>1, <1>2, <2>1, <2>3 DEF JournalShape, Rows
      <2>5. ASSUME NEW c \in Clerks PROVE ClerkOK(clerk'[c], entry', counter', period')
            <3>1. ClerkOK(clerk[c], entry, counter, period)
                  BY DEF JournalInv
            <3>2. clerk[c].at = "write" => \/ period'[entry[clerk[c].id].book] = "open"
                                           \/ clerk'[c].overtaken
                  BY <1>1, <2>1, <2>2, <3>1 DEF ClerkOK, JournalShape, JournalEntry, Rows
            <3>3. QED
                  BY <1>2, <2>2, <3>1, <3>2 DEF ClerkOK
      <2>6. NumbersRise'
            BY <1>2, <2>2, SMT, SMTT(30) DEF JournalInv, NumbersRise, Rows
      <2>7. JournalInv'
            BY <1>2, <2>4, <2>5, <2>6 DEF JournalInv, Rows
      <2>8. QED
            BY <1>2, <2>2, <2>7
<1>5. QED
      BY <1>3, <1>4

\* The steps of a call other than its insert.
LEMMA CallJournal ==
    ASSUME JournalInv, NEW c \in Clerks, LedgerStep(c), ~InsertEntry(c)
    PROVE  JournalInv'
<1>1. JournalShape /\ clerk \in [Clerks -> Clerk] /\ clerk[c] \in Clerk /\ entry \in [Rows -> JournalEntry]
      BY DEF JournalInv, JournalShape
<1>2. ClerkOK(clerk[c], entry, counter, period)
      BY DEF JournalInv
<1>3. announced \in [Entries -> Nat] /\ exposed \subseteq Entries /\ counter \in [Books -> Nat] /\ Rows \subseteq Entries
      BY <1>1, SMT, SMTT(30) DEF JournalShape
<1>0. /\ Off \in Clerk /\ Off.at = "idle" /\ Off.op = "none" /\ Off.id = 0 /\ Off.original = 0
      /\ \A en, co, pe : ClerkOK(Off, en, co, pe)
      BY SMT, SMTT(30) DEF Off, Clerk, ClerkOK
<1>4. CASE \E b \in Books, balanced \in BOOLEAN : CreateJournalEntry(c, b, balanced)
      <2>1. PICK b \in Books, balanced \in BOOLEAN : CreateJournalEntry(c, b, balanced)
            BY <1>4
      <2> DEFINE k == [Off EXCEPT !.op = "create", !.at = "insert", !.book = b,
                                  !.number = counter[b] + 1, !.balanced = balanced]
      <2>2. /\ counter' = [counter EXCEPT ![b] = @ + 1] /\ UNCHANGED <<period, entry, announced, exposed>>
            /\ clerk' = [clerk EXCEPT ![c] = k]
            BY <1>3, <2>1 DEF CreateJournalEntry, AllocateEntryNumber
      <2>3. counter[b] + 1 \in Nat
            BY <1>3, SMT, SMTT(30)
      <2>4. k \in Clerk
            BY <1>0, <2>3 DEF Clerk
      <2>5. /\ k.at = "insert" /\ k.book = b /\ k.number = counter[b] + 1 /\ k.id = 0
            /\ k.op = "create" /\ k.original = 0
            BY DEF Off
      <2> HIDE DEF k
      <2>6. QED
            BY <2>2, <2>4, <2>5, Numbered
<1>5. CASE \E e \in Rows : PostJournalEntry(c, e)
      <2>1. PICK e \in Rows : PostJournalEntry(c, e)
            BY <1>5
      <2> DEFINE k == [Off EXCEPT !.op = "post", !.at = "period", !.id = e]
      <2>2. UNCHANGED <<period, counter, entry, announced, exposed>> /\ clerk' = [clerk EXCEPT ![c] = k]
            BY <2>1 DEF PostJournalEntry
      <2>3. k \in Clerk
            <3>1. e \in 0 .. MaxEntries
                  BY <1>3, SMT, SMTT(30)
            <3>2. QED
                  BY <1>0, <3>1 DEF Clerk
      <2>4. k.at = "period" /\ k.id = e /\ k.op = "post" /\ k.original = 0
            BY DEF Off
      <2> HIDE DEF k
      <2>5. ClerkOK(k, entry, counter, period)
            BY <2>4 DEF ClerkOK, Rows
      <2>6. QED
            BY <1>3, <2>2, <2>3, <2>4, <2>5, ClerkOnly
<1>6. CASE \E e \in Rows : VoidJournalEntry(c, e)
      <2>1. PICK e \in Rows : VoidJournalEntry(c, e)
            BY <1>6
      <2> DEFINE k == [Off EXCEPT !.op = "void", !.at = "allocate", !.original = e, !.book = entry[e].book,
                                  !.balanced = entry[e].balanced]
      <2>2. UNCHANGED <<period, counter, entry, announced>> /\ exposed' \subseteq Entries /\ clerk' = [clerk EXCEPT ![c] = k]
            BY <1>3, <2>1 DEF VoidJournalEntry
      <2>3. k \in Clerk /\ k.at = "allocate"
            <3>1. entry[e].book \in Books /\ entry[e].balanced \in BOOLEAN /\ e \in 0 .. MaxEntries
                  BY <1>1, <1>3, SMT, SMTT(30) DEF JournalEntry
            <3>2. k \in Clerk
                  BY <1>0, <3>1 DEF Clerk
            <3>3. QED
                  BY <3>2 DEF Off
      <2>4. ClerkOK(k, entry, counter, period)
            BY <1>1, <1>3 DEF Off, ClerkOK, Rows, JournalEntry
      <2> HIDE DEF k
      <2>5. QED
            BY <1>3, <2>2, <2>3, <2>4, ClerkOnly
<1>7. CASE AllocateReversal(c)
      <2> DEFINE b == clerk[c].book
                 k == [clerk[c] EXCEPT !.at = "insert", !.number = counter[b] + 1]
      <2>1. b \in Books /\ clerk[c].id = 0 /\ clerk[c].op = "void" /\ clerk[c].original \in Rows
            BY <1>2, <1>7 DEF AllocateReversal, ClerkOK, Rows
      <2>2. counter' = [counter EXCEPT ![b] = @ + 1] /\ UNCHANGED <<period, entry, announced, exposed>>
            BY <1>7 DEF AllocateReversal, AllocateEntryNumber
      <2>3. counter'[b] = counter[b] + 1
            BY <1>3, <2>1, <2>2
      <2>4. clerk' = [clerk EXCEPT ![c] = k]
            BY <1>1, <1>7, <2>3 DEF AllocateReversal
      <2>5. /\ k \in Clerk /\ k.at = "insert" /\ k.book = b /\ k.number = counter[b] + 1 /\ k.id = 0
            /\ k.op = "void" /\ k.original \in Rows
            <3>1. counter[b] + 1 \in Nat
                  BY <1>3, <2>1, SMT, SMTT(30)
            <3>2. k \in Clerk
                  BY <1>1, <3>1 DEF Clerk
            <3>3. QED
                  BY <1>1, <2>1, <3>2 DEF Clerk
      <2> HIDE DEF k, b
      <2>6. QED
            BY <2>1, <2>2, <2>4, <2>5, Numbered DEF b
<1>8. CASE ReadReversal(c) \/ CheckPeriod(c)
      <2>1. PICK a \in {"period", "write"} :
               /\ clerk' = [clerk EXCEPT ![c].at = a]
               /\ clerk[c].at = (IF a = "period" THEN "read" ELSE "period")
               /\ a = "write" => period[entry[clerk[c].id].book] = "open"
            BY <1>8 DEF ReadReversal, CheckPeriod
      <2>2. UNCHANGED <<period, counter, entry, announced, exposed>>
            BY <1>8 DEF ReadReversal, CheckPeriod
      <2> DEFINE k == [clerk[c] EXCEPT !.at = a]
      <2>3. clerk' = [clerk EXCEPT ![c] = k]
            BY <1>1, <2>1
      <2>4. /\ k \in Clerk /\ k.at = a /\ k.op = clerk[c].op /\ k.id = clerk[c].id /\ k.original = clerk[c].original
            /\ k.overtaken = clerk[c].overtaken
            BY <1>1, <2>1 DEF Clerk
      <2> HIDE DEF k
      <2>5. ClerkOK(k, entry, counter, period)
            BY <1>2, <2>1, <2>4 DEF ClerkOK
      <2>6. QED
            BY <1>3, <2>1, <2>2, <2>3, <2>4, <2>5, ClerkOnly
<1>9. CASE MarkPosted(c)
      <2> DEFINE e == clerk[c].id
                 k == [clerk[c] EXCEPT !.at = "publish"]
      <2>1. /\ entry' = [entry EXCEPT ![e].status = "posted"] /\ UNCHANGED <<period, counter, announced, exposed>>
            /\ clerk[c].at = "write"
            BY <1>9 DEF MarkPosted
      <2>2. e \in Rows
            BY <1>2, <2>1 DEF ClerkOK, Rows
      <2>3. clerk' = [clerk EXCEPT ![c] = k]
            BY <1>1, <1>9 DEF MarkPosted
      <2>4. k \in Clerk /\ k.at = "publish" /\ k.op = clerk[c].op /\ k.id = e /\ k.original = clerk[c].original
            BY <1>1 DEF Clerk
      <2>5. /\ DOMAIN entry' = DOMAIN entry /\ entry'[e].status = "posted"
            /\ \A r \in Rows : entry'[r].reverses = entry[r].reverses
            BY <1>1, <2>1, <2>2 DEF Rows, JournalEntry
      <2> HIDE DEF k
      <2>6. ClerkOK(k, entry', counter, period)
            BY <1>2, <2>1, <2>2, <2>4, <2>5 DEF ClerkOK, Rows
      <2> HIDE DEF e
      <2>7. QED
            BY <2>1, <2>2, <2>3, <2>4, <2>6, StatusOnly
<1>10. CASE PublishJournalPosted(c)
      <2>1. PICK k : /\ clerk' = [clerk EXCEPT ![c] = k]
                     /\ clerk[c].op = "void" => k = [clerk[c] EXCEPT !.at = "mark"]
                     /\ clerk[c].op # "void" => k = Off
            BY <1>1, <1>10 DEF PublishJournalPosted
      <2>2. /\ UNCHANGED <<period, counter, entry, exposed>> /\ clerk[c].at = "publish"
            /\ announced' \in {announced, [announced EXCEPT ![clerk[c].id] = @ + 1]}
            BY <1>10 DEF PublishJournalPosted
      <2>3. announced' \in [Entries -> Nat]
            <3>1. clerk[c].id \in Entries
                  BY <1>2, <1>3, <2>2 DEF ClerkOK, Rows
            <3>2. announced[clerk[c].id] + 1 \in Nat
                  BY <1>3, <3>1, SMT, SMTT(30)
            <3>3. QED
                  BY <1>3, <2>2, <3>2
      <2>4. CASE clerk[c].op = "void"
            <3>1. k \in Clerk /\ k.at = "mark" /\ k.op = "void" /\ k.id = clerk[c].id /\ k.original = clerk[c].original
                  BY <1>1, <2>1, <2>4 DEF Clerk
            <3>2. ClerkOK(k, entry, counter, period)
                  BY <1>2, <2>2, <2>4, <3>1 DEF ClerkOK
            <3>3. QED
                  BY <1>3, <2>1, <2>2, <2>3, <3>1, <3>2, ClerkOnly
      <2>5. CASE clerk[c].op # "void"
            <3>1. k \in Clerk /\ k.at = "idle" /\ ClerkOK(k, entry, counter, period)
                  BY <1>0, <2>1, <2>5
            <3>2. QED
                  BY <1>3, <2>1, <2>2, <2>3, <3>1, ClerkOnly
      <2>6. QED
            BY <2>4, <2>5
<1>11. CASE MarkVoid(c)
      <2>1. /\ entry' = [entry EXCEPT ![clerk[c].original].status = "void"]
            /\ UNCHANGED <<period, counter, announced, exposed>>
            /\ clerk' = [clerk EXCEPT ![c] = Off] /\ clerk[c].at = "mark"
            BY <1>11 DEF MarkVoid
      <2>2. clerk[c].original \in Rows
            BY <1>2, <2>1 DEF ClerkOK, Rows
      <2>3. QED
            BY <1>0, <2>1, <2>2, StatusOnly
<1>12. CASE Abort(c)
      <2>1. clerk' = [clerk EXCEPT ![c] = Off] /\ UNCHANGED <<period, counter, entry, announced>>
            BY <1>12 DEF Abort
      <2>2. exposed' \subseteq Entries
            <3>1. clerk[c].op = "void" => clerk[c].original \in Entries
                  BY <1>2, <1>3 DEF ClerkOK, Rows
            <3>2. QED
                  BY <1>3, <1>12, <3>1 DEF Abort
      <2>3. QED
            BY <1>3, <1>0, <2>1, <2>2, ClerkOnly
<1>13. QED
      BY <1>4, <1>5, <1>6, <1>7, <1>8, <1>9, <1>10, <1>11, <1>12 DEF LedgerStep

\* Every step keeps the first part.
LEMMA JournalStep == ASSUME JournalInv, [LedgerNext]_ledgerVars PROVE JournalInv'
<1>1. CASE UNCHANGED ledgerVars
      BY <1>1 DEF ledgerVars, JournalInv, JournalShape, NumbersRise, Rows
<1>2. CASE \E b \in Books : OpenAccountingPeriod(b) \/ CloseAccountingPeriod(b)
      BY <1>2, PeriodJournal
<1>3. CASE \E c \in Clerks : LedgerStep(c)
      BY <1>3, CallJournal, InsertJournal
<1>4. QED
      BY <1>1, <1>2, <1>3 DEF LedgerNext

\* What each step does to a call's place: the steps that start, end or pass a publish and
\* the ones that start, end or pass a void.
LEMMA CallMoves ==
    ASSUME JournalInv, NEW c \in Clerks, LedgerStep(c)
    PROVE  /\ \A d \in Clerks \ {c} : clerk'[d] = clerk[d]
           /\ MarkPosted(c) => clerk'[c].at = "publish" /\ clerk'[c].id = clerk[c].id
           /\ ~MarkPosted(c) => clerk'[c].at # "publish"
<1>1. clerk \in [Clerks -> Clerk] /\ clerk[c] \in Clerk
      BY DEF JournalInv, JournalShape
<1>2. PICK k : clerk' = [clerk EXCEPT ![c] = k]
      <2>1. CASE InsertEntry(c)
            BY <1>1, <2>1 DEF InsertEntry
      <2>2. CASE ~InsertEntry(c)
            BY <1>1, <2>2 DEF LedgerStep, CreateJournalEntry, PostJournalEntry, VoidJournalEntry,
               AllocateReversal, ReadReversal, CheckPeriod, MarkPosted, PublishJournalPosted, MarkVoid, Abort
      <2>3. QED
            BY <2>1, <2>2
<1>3. \A d \in Clerks \ {c} : clerk'[d] = clerk[d]
      BY <1>1, <1>2
<1>4. ASSUME MarkPosted(c) PROVE clerk'[c].at = "publish" /\ clerk'[c].id = clerk[c].id
      BY <1>1, <1>4 DEF MarkPosted, Clerk
<1>5. ASSUME ~MarkPosted(c) PROVE clerk'[c].at # "publish"
      <2>1. CASE InsertEntry(c)
            BY <2>1, InsertJournal
      <2>2. CASE PublishJournalPosted(c)
            BY <1>1, <2>2 DEF PublishJournalPosted, Off, Clerk
      <2>3. CASE AllocateReversal(c) \/ ReadReversal(c) \/ CheckPeriod(c)
            BY <1>1, <2>3, SMT, SMTT(30) DEF AllocateReversal, ReadReversal, CheckPeriod, Clerk
      <2>4. CASE \E b \in Books, balanced \in BOOLEAN : CreateJournalEntry(c, b, balanced)
            <3>1. PICK b \in Books, balanced \in BOOLEAN : CreateJournalEntry(c, b, balanced)
                  BY <2>4
            <3>2. clerk'[c].at = "insert"
                  BY <1>1, <3>1 DEF CreateJournalEntry, Off
            <3>3. QED
                  BY <3>2
      <2>5. CASE \E e \in Rows : PostJournalEntry(c, e) \/ VoidJournalEntry(c, e)
            <3>1. PICK e \in Rows : PostJournalEntry(c, e) \/ VoidJournalEntry(c, e)
                  BY <2>5
            <3>2. CASE PostJournalEntry(c, e)
                  BY <1>1, <3>2 DEF PostJournalEntry, Off
            <3>3. CASE VoidJournalEntry(c, e)
                  BY <1>1, <3>3 DEF VoidJournalEntry, Off
            <3>4. QED
                  BY <3>1, <3>2, <3>3
      <2>6. CASE MarkVoid(c) \/ Abort(c)
            BY <1>1, <2>6, SMT, SMTT(30) DEF MarkVoid, Abort, Off
      <2>7. QED
            BY <1>5, <2>1, <2>2, <2>3, <2>4, <2>5, <2>6 DEF LedgerStep
<1>6. QED
      BY <1>3, <1>4, <1>5

\* Rows stay, drafts that are no longer drafts stay so, and only a publish announces.
LEMMA CallTables ==
    ASSUME JournalInv, NEW c \in Clerks, LedgerStep(c)
    PROVE  /\ RowsKept /\ (~PublishJournalPosted(c) => announced' = announced)
<1>1. entry \in [Rows -> JournalEntry] /\ clerk[c] \in Clerk /\ ClerkOK(clerk[c], entry, counter, period)
      BY DEF JournalInv, JournalShape
<1>2. CASE InsertEntry(c)
      <2>1. announced' = announced
            BY <1>2 DEF InsertEntry
      <2>2. QED
            BY <1>2, <2>1, InsertJournal
<1>3. CASE MarkPosted(c)
      BY <1>1, <1>3 DEF MarkPosted, RowsKept, Rows, JournalEntry
<1>4. CASE MarkVoid(c)
      BY <1>1, <1>4 DEF MarkVoid, RowsKept, Rows, JournalEntry
<1>5. CASE ~(InsertEntry(c) \/ MarkPosted(c) \/ MarkVoid(c))
      <2>1. entry' = entry /\ (~PublishJournalPosted(c) => announced' = announced)
            BY <1>5 DEF LedgerStep, CreateJournalEntry, PostJournalEntry, VoidJournalEntry,
               AllocateReversal, ReadReversal, CheckPeriod, PublishJournalPosted, Abort
      <2>2. QED
            BY <2>1 DEF RowsKept, Rows
<1>6. QED
      BY <1>2, <1>3, <1>4, <1>5

\* Every step keeps the second part.
LEMMA AnnounceStep == ASSUME JournalInv, AnnounceInv, [LedgerNext]_ledgerVars PROVE AnnounceInv'
<1>0. announced \in [Entries -> Nat] /\ Rows \subseteq Entries /\ entry \in [Rows -> JournalEntry]
      BY SMT, SMTT(30) DEF JournalInv, JournalShape
<1>1. CASE UNCHANGED ledgerVars
      BY <1>1 DEF ledgerVars, AnnounceInv, Rows
<1>2. CASE \E b \in Books : OpenAccountingPeriod(b) \/ CloseAccountingPeriod(b)
      BY <1>2, PeriodJournal, SMT, SMTT(30) DEF AnnounceInv, Rows
<1>3. ASSUME NEW c \in Clerks, LedgerStep(c) PROVE AnnounceInv'
      <2>1. /\ \A d \in Clerks \ {c} : clerk'[d] = clerk[d]
            /\ MarkPosted(c) => clerk'[c].at = "publish" /\ clerk'[c].id = clerk[c].id
            /\ ~MarkPosted(c) => clerk'[c].at # "publish"
            BY <1>3, CallMoves
      <2>2. RowsKept /\ (~PublishJournalPosted(c) => announced' = announced)
            BY <1>3, CallTables
      <2>3. CASE MarkPosted(c)
            <3>1. entry[clerk[c].id].status = "draft" /\ clerk[c].id \in Rows
                  BY <2>3 DEF MarkPosted, JournalInv, ClerkOK, Rows
            <3>2. \A d \in Clerks : clerk[d].at = "publish" => clerk[d].id # clerk[c].id
                  BY <3>1 DEF JournalInv, ClerkOK
            <3>3. announced[clerk[c].id] = 0
                  BY <1>0, <3>1 DEF AnnounceInv
            <3>4. announced' = announced
                  BY <2>3 DEF MarkPosted
            <3>5. QED
                  BY <2>1, <2>2, <2>3, <3>2, <3>3, <3>4, SMT, SMTT(30) DEF AnnounceInv, RowsKept
      <2>4. CASE PublishJournalPosted(c)
            <3>1. /\ clerk[c].at = "publish"
                  /\ announced' \in {announced, [announced EXCEPT ![clerk[c].id] = @ + 1]}
                  /\ entry' = entry
                  BY <2>4 DEF PublishJournalPosted
            <3>2. clerk[c].id \in Rows /\ entry[clerk[c].id].status # "draft"
                  BY <3>1 DEF JournalInv, ClerkOK, Rows
            <3>3. announced[clerk[c].id] = 0 /\ clerk'[c].at # "publish"
                  BY <1>0, <2>1, <2>4, <3>1, <3>2 DEF AnnounceInv, PublishJournalPosted, MarkPosted
            <3>4. \A d \in Clerks \ {c} : clerk[d].at = "publish" => clerk[d].id # clerk[c].id
                  BY <3>1 DEF AnnounceInv
            <3>5. \A e \in Entries : /\ e # clerk[c].id => announced'[e] = announced[e]
                                     /\ e = clerk[c].id => announced'[e] \in {0, 1}
                  BY <1>0, <3>1, <3>2, <3>3, SMT, SMTT(30)
            <3>6. \A d, f \in Clerks : clerk'[d].at = "publish" /\ clerk'[f].at = "publish"
                                          /\ clerk'[d].id = clerk'[f].id => d = f
                  BY <2>1, <3>3, SMT, SMTT(30) DEF AnnounceInv
            <3>7. ASSUME NEW e \in Entries, announced'[e] # 0
                  PROVE  /\ announced'[e] = 1 /\ e \in Rows' /\ entry'[e].status # "draft"
                         /\ \A d \in Clerks : ~(clerk'[d].at = "publish" /\ clerk'[d].id = e)
                  <4>1. CASE e = clerk[c].id
                        BY <2>1, <3>1, <3>2, <3>3, <3>4, <3>5, <3>7, <4>1, SMT, SMTT(30) DEF Rows
                  <4>2. CASE e # clerk[c].id
                        BY <2>1, <3>1, <3>3, <3>5, <3>7, <4>2, SMT, SMTT(30) DEF AnnounceInv, Rows
                  <4>3. QED
                        BY <4>1, <4>2
            <3>8. QED
                  BY <3>6, <3>7 DEF AnnounceInv
      <2>5. CASE ~MarkPosted(c) /\ ~PublishJournalPosted(c)
            BY <2>1, <2>2, <2>5, SMT, SMTT(30) DEF AnnounceInv, RowsKept
      <2>6. QED
            BY <2>3, <2>4, <2>5
<1>4. QED
      BY <1>1, <1>2, <1>3 DEF LedgerNext

\* A step that leaves every entry's row, every void under way and what is exposed alone.
LEMMA SameVoids ==
    ASSUME ReversalInv, entry' = entry, exposed \subseteq exposed',
           \A d \in Clerks : /\ clerk'[d].op = "void" <=> clerk[d].op = "void"
                             /\ clerk[d].op = "void" => /\ clerk'[d].original = clerk[d].original
                                                        /\ clerk'[d].id = clerk[d].id
    PROVE  ReversalInv'
<1>1. \A d \in Clerks, e \in Rows : Voids(d, e)' <=> Voids(d, e)
      BY DEF Voids
<1>2. \A d \in Clerks, e \in Rows : Voids(d, e) => clerk'[d].id = clerk[d].id
      BY DEF Voids
<1>3. ASSUME NEW e \in Rows \ exposed, ReversalOK(e) PROVE ReversalOK(e)'
      BY ZenonT(40), <1>1, <1>2, <1>3 DEF ReversalOK, Rows
<1>4. QED
      BY <1>3 DEF ReversalInv, Rows

\* InsertEntry: a void that inserts has no reversal yet.
LEMMA InsertReversal ==
    ASSUME JournalInv, ReversalInv, NEW c \in Clerks, InsertEntry(c)
    PROVE  ReversalInv'
<1>1. PICK n \in Entries \ Rows :
         /\ Rows' = Rows \union {n} /\ \A r \in Rows : entry'[r] = entry[r]
         /\ entry'[n].status = "draft" /\ entry'[n].reverses = clerk[c].original
         /\ clerk[c].op = "void" => clerk'[c] = [clerk[c] EXCEPT !.at = "read", !.id = n]
         /\ clerk[c].op # "void" => clerk'[c] = Off
         /\ \A d \in Clerks \ {c} : clerk'[d] = clerk[d]
      BY InsertJournal
<1>2. clerk[c] \in Clerk /\ ClerkOK(clerk[c], entry, counter, period) /\ clerk[c].at = "insert" /\ exposed' = exposed
      BY DEF JournalInv, JournalShape, InsertEntry
<1>3. clerk[c].id = 0 /\ (clerk[c].op = "void" => clerk[c].original \in Rows) /\ (clerk[c].op # "void" => clerk[c].original = 0)
      BY <1>2 DEF ClerkOK, Rows
<1>4. /\ clerk[c].op = "void" => clerk'[c].op = "void" /\ clerk'[c].original = clerk[c].original /\ clerk'[c].id = n
      /\ clerk[c].op # "void" => clerk'[c].op # "void"
      <2>1. CASE clerk[c].op = "void"
            BY <1>1, <1>2, <2>1 DEF Clerk
      <2>2. CASE clerk[c].op # "void"
            BY <1>1, <2>2, SMT, SMTT(30) DEF Off
      <2>3. QED
            BY <2>1, <2>2
<1>5. \A d \in Clerks : \A e : Voids(d, e)' <=> Voids(d, e)
      BY <1>1, <1>4 DEF Voids
<1>6. \A d \in Clerks : clerk[d].op = "void" => clerk[d].original \in Rows
      BY DEF JournalInv, ClerkOK, Rows
<1>7. \A r \in Rows : entry[r].reverses \in Rows \union {0}
      BY DEF JournalInv
<1>8. Rows \subseteq Entries /\ 0 \notin Entries
      BY SMT, SMTT(30) DEF JournalInv, JournalShape
<1>9. ASSUME NEW e \in Rows' \ exposed PROVE ReversalOK(e)'
      <2>1. CASE e = n
            <3>1. \A d \in Clerks : ~Voids(d, e)'
                  BY ZenonT(40), <1>1, <1>5, <1>6, <2>1 DEF Voids
            <3>2. \A r \in Rows' : entry'[r].reverses # e
                  BY <1>1, <1>3, <1>7, <1>8, <2>1, SMT, SMTT(30)
            <3>3. QED
                  BY <1>1, <2>1, <3>1, <3>2 DEF ReversalOK
      <2>2. CASE e \in Rows
            <3>1. ReversalOK(e) /\ entry'[e] = entry[e]
                  BY <1>1, <1>9, <2>2 DEF ReversalInv
            <3>2. CASE ~Voids(c, e)
                  <4>1. entry'[n].reverses # e
                        BY <1>1, <1>3, <1>8, <2>2, <3>2 DEF Voids
                  <4>2. \A d \in Clerks : Voids(d, e) => clerk'[d].id = clerk[d].id
                        BY <1>1, <3>2
                  <4>3. QED
                        BY <1>1, <1>5, <3>1, <4>1, <4>2, SMT, SMTT(30) DEF ReversalOK
            <3>3. CASE Voids(c, e)
                  <4>1. entry[e].status = "posted" /\ \A d \in Clerks : Voids(d, e) => d = c
                        BY <3>1, <3>3 DEF ReversalOK
                  <4>2. \A r \in Rows : entry[r].reverses # e
                        BY <1>3, <1>8, <3>1, <4>1 DEF ReversalOK
                  <4>3. clerk'[c].id = n /\ Voids(c, e)'
                        BY <1>4, <1>5, <3>3 DEF Voids
                  <4>4. \A r \in Rows' : entry'[r].reverses = e => Voids(c, e)' /\ clerk'[c].id = r
                        BY <1>1, <4>2, <4>3
                  <4>5. QED
                        BY <1>5, <3>1, <4>1, <4>4 DEF ReversalOK
            <3>4. QED
                  BY <3>2, <3>3
      <2>3. QED
            BY <1>1, <2>1, <2>2
<1>10. QED
      BY <1>2, <1>9 DEF ReversalInv

\* VoidJournalEntry: a second void of the same entry exposes it.
LEMMA VoidReversal ==
    ASSUME JournalInv, ReversalInv, NEW c \in Clerks, NEW e \in Rows, VoidJournalEntry(c, e)
    PROVE  ReversalInv'
<1>1. clerk \in [Clerks -> Clerk] /\ clerk[c].op # "void" /\ clerk[c].at = "idle"
      BY DEF JournalInv, JournalShape, ClerkOK, VoidJournalEntry
<1>2. /\ clerk'[c].op = "void" /\ clerk'[c].original = e
      /\ \A d \in Clerks \ {c} : clerk'[d] = clerk[d]
      BY <1>1 DEF VoidJournalEntry, Off
<1>3. entry' = entry /\ Rows' = Rows /\ entry[e].status = "posted"
      BY DEF VoidJournalEntry, Rows
<1>4. exposed \subseteq exposed' /\ (e \notin exposed' => \A d \in Clerks \ {c} : ~Voids(d, e))
      BY DEF VoidJournalEntry, Overlapping, Voids
<1>5. \A d \in Clerks : \A f : Voids(d, f)' <=> Voids(d, f) \/ (d = c /\ f = e)
      BY <1>1, <1>2 DEF Voids
<1>6. \A d \in Clerks : \A f : Voids(d, f) => clerk'[d].id = clerk[d].id
      BY <1>1, <1>2 DEF Voids
<1>7. ASSUME NEW f \in Rows \ exposed' PROVE ReversalOK(f)'
      <2>1. ReversalOK(f)
            BY <1>4, <1>7 DEF ReversalInv
      <2>2. CASE f # e
            BY ZenonT(40), <1>3, <1>5, <1>6, <2>1, <2>2 DEF ReversalOK
      <2>3. CASE f = e
            BY <1>3, <1>4, <1>5, <1>6, <1>7, <2>1, <2>3 DEF ReversalOK
      <2>4. QED
            BY <2>2, <2>3
<1>8. QED
      BY <1>3, <1>7 DEF ReversalInv

\* MarkPosted: a draft has no reversal.
LEMMA PostReversal ==
    ASSUME JournalInv, ReversalInv, NEW c \in Clerks, MarkPosted(c)
    PROVE  ReversalInv'
<1>1. clerk \in [Clerks -> Clerk] /\ entry \in [Rows -> JournalEntry] /\ ClerkOK(clerk[c], entry, counter, period)
      BY DEF JournalInv, JournalShape
<1>2. PICK p \in Rows : p = clerk[c].id /\ entry[p].status = "draft" /\ entry' = [entry EXCEPT ![p].status = "posted"]
      BY <1>1 DEF ClerkOK, MarkPosted, Rows
<1>3. exposed' = exposed
      BY DEF MarkPosted
<1>4. /\ Rows' = Rows /\ \A r \in Rows : entry'[r].reverses = entry[r].reverses
      /\ entry'[p].status = "posted" /\ \A r \in Rows \ {p} : entry'[r].status = entry[r].status
      BY <1>1, <1>2 DEF Rows, JournalEntry
<1>5. \A d \in Clerks : /\ clerk'[d].op = clerk[d].op /\ clerk'[d].original = clerk[d].original
                        /\ clerk'[d].id = clerk[d].id
      BY <1>1 DEF MarkPosted, Clerk
<1>6. \A d \in Clerks : \A e \in Rows : Voids(d, e)' <=> Voids(d, e)
      BY <1>5 DEF Voids
<1>7. ASSUME NEW e \in Rows \ exposed PROVE ReversalOK(e)'
      <2>1. ReversalOK(e)
            BY <1>7 DEF ReversalInv
      <2>2. CASE e = p
            BY ZenonT(40), <1>2, <1>4, <1>6, <2>1, <2>2 DEF ReversalOK
      <2>3. CASE e # p
            BY <1>4, <1>5, <1>6, <1>7, <2>1, <2>3, SMT, SMTT(30) DEF ReversalOK
      <2>4. QED
            BY <2>2, <2>3
<1>8. QED
      BY <1>3, <1>4, <1>7 DEF ReversalInv

\* MarkVoid: the reversal of the only void is the only reversal.
LEMMA MarkVoidReversal ==
    ASSUME JournalInv, ReversalInv, NEW c \in Clerks, MarkVoid(c)
    PROVE  ReversalInv'
<1>1. clerk \in [Clerks -> Clerk] /\ entry \in [Rows -> JournalEntry] /\ ClerkOK(clerk[c], entry, counter, period)
      BY DEF JournalInv, JournalShape
<1>2. PICK p \in Rows : p = clerk[c].original /\ entry[p].status = "posted" /\ entry' = [entry EXCEPT ![p].status = "void"]
      BY <1>1 DEF ClerkOK, MarkVoid, Rows
<1>3. exposed' = exposed /\ clerk' = [clerk EXCEPT ![c] = Off] /\ Voids(c, p)
      BY <1>1, <1>2 DEF MarkVoid, Voids, ClerkOK
<1>4. /\ Rows' = Rows /\ \A r \in Rows : entry'[r].reverses = entry[r].reverses
      /\ entry'[p].status = "void" /\ \A r \in Rows \ {p} : entry'[r].status = entry[r].status
      BY ZenonT(40), <1>1, <1>2 DEF Rows, JournalEntry
<1>5. \A d \in Clerks \ {c} : clerk'[d] = clerk[d]
      BY <1>1, <1>3
<1>6. \A e \in Rows : \A d \in Clerks : Voids(d, e)' <=> Voids(d, e) /\ d # c
      BY <1>1, <1>3, <1>5 DEF Voids, Off
<1>7. clerk[c].id \in Rows /\ entry[clerk[c].id].reverses = p
      BY <1>1, <1>2, SMT, SMTT(30) DEF MarkVoid, ClerkOK, Rows, JournalInv, JournalShape
<1>8. ASSUME NEW e \in Rows \ exposed PROVE ReversalOK(e)'
      <2>1. ReversalOK(e)
            BY <1>8 DEF ReversalInv
      <2>2. CASE e = p
            <3>1. \A d \in Clerks : Voids(d, p) => d = c
                  BY <1>3, <2>1, <2>2 DEF ReversalOK
            <3>2. \A q \in Rows : entry[q].reverses = p => q = clerk[c].id
                  BY <1>2, <2>1, <2>2, <3>1 DEF ReversalOK
            <3>3. \A d \in Clerks : ~Voids(d, e)'
                  BY <1>6, <2>2, <3>1
            <3>4. QED
                  BY <1>4, <1>7, <2>2, <3>2, <3>3, SMT, SMTT(30) DEF ReversalOK
      <2>3. CASE e # p
            <3>1. \A d \in Clerks : Voids(d, e)' <=> Voids(d, e)
                  BY <1>3, <1>6, <2>3 DEF Voids
            <3>2. \A d \in Clerks : Voids(d, e) => clerk'[d].id = clerk[d].id
                  BY <1>3, <1>5, <2>3 DEF Voids
            <3>3. QED
                  BY <1>4, <1>8, <2>1, <2>3, <3>1, <3>2, SMT, SMTT(30) DEF ReversalOK
      <2>4. QED
            BY <2>2, <2>3
<1>9. QED
      BY <1>3, <1>4, <1>8 DEF ReversalInv

\* Abort: a void that stops after its insert exposes its entry, one before it leaves nothing.
LEMMA AbortReversal ==
    ASSUME JournalInv, ReversalInv, NEW c \in Clerks, Abort(c)
    PROVE  ReversalInv'
<1>1. clerk \in [Clerks -> Clerk] /\ clerk' = [clerk EXCEPT ![c] = Off] /\ entry' = entry /\ Rows' = Rows
      BY DEF JournalInv, JournalShape, Abort, Rows
<1>2. \A d \in Clerks \ {c} : clerk'[d] = clerk[d]
      BY <1>1
<1>3. \A e \in Rows : \A d \in Clerks : Voids(d, e)' <=> Voids(d, e) /\ d # c
      BY <1>1, <1>2 DEF Voids, Off
<1>4. exposed \subseteq exposed' /\ \A e \in Rows \ exposed' : Voids(c, e) => clerk[c].id = 0
      BY DEF Abort, Voids
<1>5. 0 \notin Rows
      BY SMT, SMTT(30) DEF JournalInv, JournalShape
<1>6. ASSUME NEW e \in Rows \ exposed' PROVE ReversalOK(e)'
      <2>1. ReversalOK(e)
            BY <1>4, <1>6 DEF ReversalInv
      <2>2. ASSUME entry[e].status = "posted", NEW r \in Rows, entry[r].reverses = e
            PROVE  \E d \in Clerks : Voids(d, e)' /\ clerk'[d].id = r
            <3>1. PICK d \in Clerks : Voids(d, e) /\ clerk[d].id = r
                  BY <2>1, <2>2 DEF ReversalOK
            <3>2. d # c
                  BY <1>4, <1>5, <1>6, <3>1
            <3>3. QED
                  BY <1>2, <1>3, <1>6, <3>1, <3>2
      <2>3. QED
            BY <1>1, <1>3, <1>6, <2>1, <2>2 DEF ReversalOK
<1>7. QED
      BY <1>1, <1>6 DEF ReversalInv

\* Every step keeps the third part.
LEMMA ReversalStep == ASSUME JournalInv, ReversalInv, [LedgerNext]_ledgerVars PROVE ReversalInv'
<1>1. CASE UNCHANGED ledgerVars
      BY <1>1, SameVoids DEF ledgerVars
<1>2. CASE \E b \in Books : OpenAccountingPeriod(b) \/ CloseAccountingPeriod(b)
      BY <1>2, PeriodJournal, SameVoids
<1>3. ASSUME NEW c \in Clerks, LedgerStep(c) PROVE ReversalInv'
      <2>1. CASE InsertEntry(c)
            BY <2>1, InsertReversal
      <2>2. CASE \E e \in Rows : VoidJournalEntry(c, e)
            BY <2>2, VoidReversal
      <2>3. CASE MarkPosted(c)
            BY <2>3, PostReversal
      <2>4. CASE MarkVoid(c)
            BY <2>4, MarkVoidReversal
      <2>5. CASE Abort(c)
            BY <2>5, AbortReversal
      <2>6. clerk \in [Clerks -> Clerk] /\ clerk[c] \in Clerk /\ ClerkOK(clerk[c], entry, counter, period)
            BY DEF JournalInv, JournalShape
      <2>7. /\ \A d \in Clerks \ {c} : clerk'[d] = clerk[d]
            BY <1>3, CallMoves
      <2>8. CASE \E b \in Books, balanced \in BOOLEAN : CreateJournalEntry(c, b, balanced)
            <3>1. clerk[c].op # "void" /\ clerk'[c].op # "void" /\ UNCHANGED <<entry, exposed>>
                  BY <2>6, <2>8, SMT, SMTT(30) DEF CreateJournalEntry, Off, ClerkOK
            <3>2. QED
                  BY <2>7, <3>1, SameVoids
      <2>9. CASE \E e \in Rows : PostJournalEntry(c, e)
            <3>1. clerk[c].op # "void" /\ clerk'[c].op # "void" /\ UNCHANGED <<entry, exposed>>
                  BY ZenonT(40), <2>6, <2>9 DEF PostJournalEntry, Off, ClerkOK
            <3>2. QED
                  BY <2>7, <3>1, SameVoids
      <2>10. CASE AllocateReversal(c) \/ ReadReversal(c) \/ CheckPeriod(c)
            <3>1. /\ clerk'[c].op = clerk[c].op /\ clerk'[c].original = clerk[c].original /\ clerk'[c].id = clerk[c].id
                  /\ UNCHANGED <<entry, exposed>>
                  BY <2>6, <2>10, SMT, SMTT(30) DEF AllocateReversal, ReadReversal, CheckPeriod, Clerk
            <3>2. QED
                  BY <2>7, <3>1, SameVoids
      <2>11. CASE PublishJournalPosted(c)
            <3>1. UNCHANGED <<entry, exposed>>
                  BY <2>11 DEF PublishJournalPosted
            <3>2. CASE clerk[c].op = "void"
                  <4>1. clerk'[c].op = "void" /\ clerk'[c].original = clerk[c].original /\ clerk'[c].id = clerk[c].id
                        BY <2>6, <2>11, <3>2 DEF PublishJournalPosted, Clerk
                  <4>2. QED
                        BY <2>7, <3>1, <3>2, <4>1, SameVoids
            <3>3. CASE clerk[c].op # "void"
                  <4>1. clerk'[c].op # "void"
                        BY <2>6, <2>11, <3>3 DEF PublishJournalPosted, Off
                  <4>2. QED
                        BY <2>7, <3>1, <3>3, <4>1, SameVoids
            <3>4. QED
                  BY <3>2, <3>3
      <2>12. QED
            BY <1>3, <2>1, <2>2, <2>3, <2>4, <2>5, <2>8, <2>9, <2>10, <2>11 DEF LedgerStep
<1>4. QED
      BY <1>1, <1>2, <1>3 DEF LedgerNext

\* A void entry keeps its posted reversal: only MarkVoid makes one, after its own posting.
LEMMA VoidIsReversedStep == ASSUME JournalInv, VoidIsReversed, [LedgerNext]_ledgerVars PROVE VoidIsReversed'
<1>0. clerk \in [Clerks -> Clerk] /\ entry \in [Rows -> JournalEntry]
      BY DEF JournalInv, JournalShape
<1>1. CASE entry' = entry
      BY <1>1 DEF VoidIsReversed, Rows
<1>2. ASSUME NEW c \in Clerks, LedgerStep(c) PROVE VoidIsReversed'
      <2>1. RowsKept
            BY <1>2, CallTables
      <2>2. ClerkOK(clerk[c], entry, counter, period)
            BY DEF JournalInv
      <2>3. CASE InsertEntry(c)
            <3>1. PICK n \in Entries \ Rows : /\ Rows' = Rows \union {n} /\ \A r \in Rows : entry'[r] = entry[r]
                                              /\ entry'[n].status = "draft"
                  BY <2>3, InsertJournal
            <3>2. QED
                  BY <3>1, SMT, SMTT(30) DEF VoidIsReversed
      <2>4. CASE MarkPosted(c)
            <3>1. Rows' = Rows /\ \A e \in Rows : entry'[e].status = "void" => entry[e].status = "void"
                  BY <1>0, <2>2, <2>4 DEF MarkPosted, ClerkOK, Rows, JournalEntry
            <3>2. QED
                  BY <2>1, <3>1, SMT, SMTT(30) DEF VoidIsReversed, RowsKept
      <2>5. CASE MarkVoid(c)
            <3>1. Rows' = Rows /\ \A e \in Rows : entry'[e].status = "void" => entry[e].status = "void" \/ e = clerk[c].original
                  BY <1>0, <2>2, <2>5 DEF MarkVoid, ClerkOK, Rows, JournalEntry
            <3>2. clerk[c].id \in Rows /\ entry[clerk[c].id].reverses = clerk[c].original /\ entry[clerk[c].id].status # "draft"
                  BY <2>2, <2>5, SMT, SMTT(30) DEF MarkVoid, ClerkOK, Rows, JournalInv, JournalShape
            <3>3. QED
                  BY <2>1, <3>1, <3>2, SMT, SMTT(30) DEF VoidIsReversed, RowsKept
      <2>6. CASE ~(InsertEntry(c) \/ MarkPosted(c) \/ MarkVoid(c))
            <3>1. entry' = entry
                  BY <1>2, <2>6 DEF LedgerStep, CreateJournalEntry, PostJournalEntry, VoidJournalEntry,
                     AllocateReversal, ReadReversal, CheckPeriod, PublishJournalPosted, Abort
            <3>2. QED
                  BY <1>1, <3>1
      <2>7. QED
            BY <2>3, <2>4, <2>5, <2>6
<1>3. QED
      BY <1>1, <1>2 DEF LedgerNext, ledgerVars, OpenAccountingPeriod, CloseAccountingPeriod

\* The journal's invariant.
THEOREM JournalInvariant == LedgerSpec => [](JournalInv /\ AnnounceInv /\ ReversalInv /\ VoidIsReversed)
<1> DEFINE Inv == JournalInv /\ AnnounceInv /\ ReversalInv /\ VoidIsReversed
<1>1. LedgerInit => Inv
      BY JournalInit
<1>2. Inv /\ [LedgerNext]_ledgerVars => Inv'
      BY JournalStep, AnnounceStep, ReversalStep, VoidIsReversedStep
<1>3. QED
      BY <1>1, <1>2, PTL DEF LedgerSpec

\* The types of the tables and of the calls of the journal.
THEOREM LedgerTypeCorrect == LedgerSpec => []LedgerTypeOK
<1>1. JournalInv => LedgerTypeOK
      <2> SUFFICES ASSUME JournalInv PROVE LedgerTypeOK
          OBVIOUS
      <2>1. Rows \subseteq Entries
            BY SMT, SMTT(30) DEF JournalInv, JournalShape
      <2>2. \A c \in Clerks : clerk[c] \in Clerk
            BY DEF JournalInv, JournalShape
      <2>3. QED
            BY <2>1, <2>2 DEF JournalInv, JournalShape, LedgerTypeOK, Clerk
<1>2. QED
      BY <1>1, JournalInvariant, PTL

\* No tenant is given an entry number twice, whatever calls race, fail or die.
THEOREM NumbersRiseHolds == LedgerSpec => []NumbersRise
<1>1. JournalInv => NumbersRise
      BY DEF JournalInv
<1>2. QED
      BY <1>1, JournalInvariant, PTL

\* However many calls race to post an entry, at most one journal.posted event leaves.
THEOREM PostedOnceHolds == LedgerSpec => []PostedOnce
<1>1. JournalInv /\ AnnounceInv => PostedOnce
      BY SMT, SMTT(30) DEF JournalInv, JournalShape, AnnounceInv, PostedOnce
<1>2. QED
      BY <1>1, JournalInvariant, PTL

\* A void entry has a reversal that was posted.
THEOREM VoidIsReversedHolds == LedgerSpec => []VoidIsReversed
BY JournalInvariant, PTL

\* VoidJournalEntry leaves exactly one reversal against an entry, unless two voids of it
\* overlapped or one stopped after its insert.
THEOREM VoidCancelsHolds == LedgerSpec => []VoidCancels
<1>1. ReversalInv => VoidCancels
      <2> SUFFICES ASSUME ReversalInv, NEW e \in Rows \ exposed, entry[e].status = "void"
                   PROVE  Cardinality({r \in Rows : entry[r].reverses = e}) = 1
          BY DEF VoidCancels
      <2>1. PICK r \in Rows : entry[r].reverses = e /\ \A q \in Rows : entry[q].reverses = e => q = r
            BY DEF ReversalInv, ReversalOK
      <2>2. {q \in Rows : entry[q].reverses = e} = {r}
            BY <2>1
      <2>3. QED
            BY <2>2, FS_Singleton
<1>2. QED
      BY <1>1, JournalInvariant, PTL

\* After CloseAccountingPeriod only those postings get through that had read the period as
\* open before it.
THEOREM NoPostingAfterCloseHolds == LedgerSpec => NoPostingAfterClose
<1>1. JournalInv /\ [LedgerNext]_ledgerVars =>
         [\A e \in DOMAIN entry : (entry[e].status = "draft" /\ entry'[e].status = "posted") =>
             \/ period[entry[e].book] = "open"
             \/ \E c \in Clerks : clerk[c].id = e /\ clerk[c].overtaken]_ledgerVars
      <2> SUFFICES ASSUME JournalInv, LedgerNext, NEW e \in Rows, entry[e].status = "draft", entry'[e].status = "posted"
                   PROVE  \/ period[entry[e].book] = "open"
                          \/ \E c \in Clerks : clerk[c].id = e /\ clerk[c].overtaken
          BY DEF Rows
      <2>1. PICK c \in Clerks : LedgerStep(c)
            BY DEF LedgerNext, OpenAccountingPeriod, CloseAccountingPeriod
      <2>2. ClerkOK(clerk[c], entry, counter, period) /\ entry \in [Rows -> JournalEntry]
            BY DEF JournalInv, JournalShape
      <2>3. CASE MarkPosted(c)
            <3>1. e = clerk[c].id
                  BY <2>2, <2>3 DEF MarkPosted, ClerkOK, Rows, JournalEntry
            <3>2. QED
                  BY <2>2, <2>3, <3>1 DEF MarkPosted, ClerkOK
      <2>4. CASE InsertEntry(c)
            BY <2>4, InsertJournal
      <2>5. CASE MarkVoid(c)
            BY <2>2, <2>5 DEF MarkVoid, ClerkOK, Rows, JournalEntry
      <2>6. CASE ~(InsertEntry(c) \/ MarkPosted(c) \/ MarkVoid(c))
            BY <2>1, <2>6 DEF LedgerStep, CreateJournalEntry, PostJournalEntry, VoidJournalEntry,
               AllocateReversal, ReadReversal, CheckPeriod, PublishJournalPosted, Abort
      <2>7. QED
            BY <2>3, <2>4, <2>5, <2>6
<1>2. QED
      BY <1>1, JournalInvariant, PTL DEF LedgerSpec, NoPostingAfterClose

-----------------------------------------------------------------------------
(* The chart of accounts                                                   *)

\* What a call on the accounts holds.
Teller == [op: {"none", "seed", "bankRead", "bankInsert"}, tries: Nat, code: Nat, rivals: SUBSET Nat,
           result: {"none", "ok", "noRoom", "lost", "failed"}]

\* What call k is about to insert was free when it read, and the range has no room left
\* if it said so; cs is the table.
TellerOK(k, cs) ==
    /\ k.op # "none" => k.result = "none"
    /\ k.op = "bankInsert" => k.code \in bankCodeMin .. bankCodeMax /\ (k.code \in cs => k.code \in k.rivals)
    /\ k.result = "lost" => k.code \in k.rivals
    /\ k.result = "noRoom" => \E c \in cs : c \in bankCodeMax - bankCodeStep + 1 .. bankCodeMax

\* The inductive invariant.
ChartInv ==
    /\ codes \subseteq Nat /\ teller \in [Tellers -> Teller]
    /\ \A t \in Tellers : TellerOK(teller[t], codes)

\* A set of codes in a range has a greatest one, and Max is it.
LEMMA GreatestCode ==
    ASSUME NEW S \in SUBSET Nat, NEW hi \in Nat, S # {}, \A x \in S : x <= hi
    PROVE  Max(S) \in S /\ \A y \in S : y <= Max(S)
<1> DEFINE T == {hi - x : x \in S}
           R == OpToRel(<, Nat)
<1>1. T \subseteq Nat /\ T # {}
      <2>1. \A x \in S : hi - x \in Nat
            BY SMT, SMTT(30)
      <2>2. QED
            BY <2>1
<1>2. \E z \in T : \A y \in T : ~(<<y, z>> \in R)
      <2>1. IsWellFoundedOn(R, Nat)
            BY NatLessThanWellFounded
      <2> HIDE DEF T, R
      <2>2. QED
            BY <1>1, <2>1, WFMin
<1>3. PICK z \in T : \A y \in T : ~(<<y, z>> \in R)
      BY <1>2
<1>4. \A y \in T : ~(y < z)
      BY <1>1, <1>3 DEF OpToRel
<1>5. PICK x \in S : z = hi - x
      BY <1>3
<1>6. ASSUME NEW y \in S PROVE x >= y
      <2>1. hi - y \in T
            OBVIOUS
      <2>2. ~(hi - y < hi - x)
            BY <1>4, <1>5, <2>1
      <2>3. x \in Nat /\ y \in Nat
            OBVIOUS
      <2> HIDE DEF T
      <2>4. QED
            BY <2>2, <2>3, SMT, SMTT(30)
<1>7. QED
      BY <1>5, <1>6 DEF Max

USE ChartAssumption

\* BankRead finds a code that no account has, or the end of the range taken.
LEMMA NextCode ==
    ASSUME codes \subseteq Nat, NEW n, n = nextBankCode(NextBankAccountCode)
    PROVE  /\ n \in Nat /\ n >= bankCodeMin
           /\ n <= bankCodeMax => n \notin codes
           /\ n > bankCodeMax => \E c \in codes : c \in bankCodeMax - bankCodeStep + 1 .. bankCodeMax
<1> DEFINE inRange == {c \in codes : c \in bankCodeMin .. bankCodeMax}
<1>1. CASE inRange = {}
      <2>1. n = bankCodeMin
            BY <1>1, SMT, SMTT(30) DEF nextBankCode, NextBankAccountCode
      <2>2. QED
            BY <1>1, <2>1, SMT, SMTT(30)
<1>2. CASE inRange # {}
      <2> DEFINE m == Max(inRange)
      <2>1. m \in inRange /\ \A c \in inRange : c <= m
            <3>0. bankCodeMin \in Nat /\ bankCodeMax \in Nat
                  OBVIOUS
            <3>1. inRange \in SUBSET Nat /\ \A x \in inRange : x <= bankCodeMax
                  <4>1. ASSUME NEW x \in inRange PROVE x \in Nat /\ x <= bankCodeMax
                        <5>1. x \in codes /\ x \in bankCodeMin .. bankCodeMax
                              OBVIOUS
                        <5> HIDE DEF inRange
                        <5>2. QED
                              BY <3>0, <5>1, SMT, SMTT(30)
                  <4> HIDE DEF inRange
                  <4>2. QED
                        BY <4>1
            <3> HIDE DEF inRange
            <3>2. QED
                  BY <1>2, <3>0, <3>1, GreatestCode
      <2>2. NextBankAccountCode = m
            BY <1>2 DEF NextBankAccountCode
      <2> HIDE DEF m
      <2>3. m \in codes /\ m \in bankCodeMin .. bankCodeMax /\ m > 0
            BY <2>1, SMT, SMTT(30)
      <2>4. n = m + bankCodeStep
            BY <2>2, <2>3 DEF nextBankCode
      <2>5. n <= bankCodeMax => n \notin codes
            <3>1. SUFFICES ASSUME n <= bankCodeMax, n \in codes PROVE FALSE
                  OBVIOUS
            <3>2. n \in bankCodeMin .. bankCodeMax
                  BY <2>3, <2>4, <3>1, SMT, SMTT(30)
            <3>3. n <= m
                  BY <2>1, <3>1, <3>2
            <3>4. QED
                  BY <2>3, <2>4, <3>3, SMT, SMTT(30)
      <2>6. n > bankCodeMax => m \in bankCodeMax - bankCodeStep + 1 .. bankCodeMax
            BY <2>3, <2>4, SMT, SMTT(30)
      <2>7. QED
            BY <2>3, <2>4, <2>5, <2>6, SMT, SMTT(30)
<1>3. QED
      BY <1>1, <1>2

\* A call goes on, or ends, with the table as it is.
LEMMA OneTeller ==
    ASSUME ChartInv, NEW t \in Tellers, NEW k \in Teller, teller' = [teller EXCEPT ![t] = k],
           TellerOK(k, codes), codes' = codes
    PROVE  ChartInv'
BY DEF ChartInv

\* An insert: the other calls that are about to insert see the code as a rival's.
LEMMA Inserted ==
    ASSUME ChartInv, NEW t \in Tellers, NEW k \in Teller, NEW code \in Nat,
           codes' = codes \union {code},
           teller' = Witnessed([teller EXCEPT ![t] = k], t, code),
           k.op # "bankInsert", TellerOK(k, codes')
    PROVE  ChartInv'
<1> DEFINE ts == [teller EXCEPT ![t] = k]
<1>1. ts \in [Tellers -> Teller] /\ ts[t] = k /\ \A u \in Tellers \ {t} : ts[u] = teller[u]
      BY DEF ChartInv
<1>2. teller' = [u \in Tellers |-> IF u # t /\ ts[u].op = "bankInsert"
                                   THEN [ts[u] EXCEPT !.rivals = @ \union {code}] ELSE ts[u]]
      BY DEF Witnessed
<1> HIDE DEF ts
<1>3. ASSUME NEW u \in Tellers PROVE teller'[u] \in Teller /\ TellerOK(teller'[u], codes')
      <2>1. CASE u = t
            BY <1>1, <1>2, <2>1
      <2>2. CASE u # t /\ ts[u].op # "bankInsert"
            <3>1. teller'[u] = teller[u] /\ teller[u] \in Teller /\ teller[u].op # "bankInsert" /\ TellerOK(teller[u], codes)
                  BY <1>1, <1>2, <2>2 DEF ChartInv
            <3>2. QED
                  BY <3>1 DEF TellerOK
      <2>3. CASE u # t /\ ts[u].op = "bankInsert"
            <3>1. teller'[u] = [teller[u] EXCEPT !.rivals = @ \union {code}]
                  BY <1>1, <1>2, <2>3
            <3>2. teller[u] \in Teller /\ TellerOK(teller[u], codes) /\ teller[u].op = "bankInsert"
                  BY <1>1, <2>3 DEF ChartInv
            <3>3. /\ teller'[u] \in Teller /\ teller'[u].op = teller[u].op /\ teller'[u].code = teller[u].code
                  /\ teller'[u].result = teller[u].result /\ teller'[u].rivals = teller[u].rivals \union {code}
                  <4>1. teller[u].rivals \union {code} \in SUBSET Nat
                        BY <3>2 DEF Teller
                  <4>2. QED
                        BY <3>1, <3>2, <4>1 DEF Teller
            <3>4. QED
                  BY <3>2, <3>3 DEF TellerOK
      <2>4. QED
            BY <2>1, <2>2, <2>3
<1>4. teller' \in [Tellers -> Teller]
      BY <1>2, <1>3
<1>5. codes' \subseteq Nat
      BY DEF ChartInv
<1>6. QED
      BY <1>3, <1>4, <1>5 DEF ChartInv

\* How a call ends, or begins anew.
LEMMA EndedTeller ==
    ASSUME ChartInv, NEW t \in Tellers, NEW res \in {"ok", "noRoom", "lost", "failed"}
    PROVE  \E k \in Teller : /\ k.op = "none" /\ k.result = res /\ k.code = teller[t].code
                             /\ k.rivals = teller[t].rivals /\ Finish(t, res) = [teller EXCEPT ![t] = k]
<1> DEFINE k == [Vacant EXCEPT !.result = res, !.code = teller[t].code, !.rivals = teller[t].rivals]
<1>1. teller[t] \in Teller
      BY DEF ChartInv
<1>2. Vacant \in Teller
      BY DEF Vacant, Teller
<1>3. k \in Teller
      BY <1>1, <1>2 DEF Teller
<1>4. k.op = "none" /\ k.result = res /\ k.code = teller[t].code /\ k.rivals = teller[t].rivals
      BY DEF Vacant
<1>5. Finish(t, res) = [teller EXCEPT ![t] = k]
      BY DEF Finish
<1> HIDE DEF k
<1>6. QED
      BY <1>3, <1>4, <1>5

\* Every step keeps the invariant.
LEMMA ChartStep == ASSUME ChartInv, [ChartNext]_chartVars PROVE ChartInv'
<1>1. CASE UNCHANGED chartVars
      BY <1>1 DEF chartVars, ChartInv
<1>2. ASSUME NEW t \in Tellers, NEW code \in OtherCodes, CreateAccount(t, code) PROVE ChartInv'
      <2>1. teller = [teller EXCEPT ![t] = teller[t]] /\ teller[t] \in Teller /\ TellerOK(teller[t], codes)
            BY DEF ChartInv
      <2>2. codes' = codes \union {code} /\ teller' = Witnessed(teller, t, code) /\ teller[t].op = "none" /\ code \in Nat
            BY <1>2 DEF CreateAccount
      <2>3. TellerOK(teller[t], codes')
            BY <2>1, <2>2 DEF TellerOK
      <2>4. QED
            BY <2>1, <2>2, <2>3, Inserted
<1>3. ASSUME NEW t \in Tellers, SeedChartOfAccounts(t) \/ CreateBankAccount(t) PROVE ChartInv'
      <2>1. PICK op \in {"seed", "bankRead"} : teller' = [teller EXCEPT ![t] = [Vacant EXCEPT !.op = op, !.tries = 1]]
            BY <1>3 DEF SeedChartOfAccounts, CreateBankAccount
      <2> DEFINE k == [Vacant EXCEPT !.op = op, !.tries = 1]
      <2>2. k \in Teller /\ k.op = op /\ k.result = "none"
            BY DEF Vacant, Teller
      <2>3. codes' = codes
            BY <1>3 DEF SeedChartOfAccounts, CreateBankAccount
      <2>4. teller' = [teller EXCEPT ![t] = k]
            BY <2>1
      <2> HIDE DEF k
      <2>5. TellerOK(k, codes)
            BY <2>2 DEF TellerOK
      <2>6. QED
            BY <2>2, <2>3, <2>4, <2>5, OneTeller
<1>4. ASSUME NEW t \in Tellers, SeedEntry(t) PROVE ChartInv'
      <2> DEFINE n == teller[t].tries
                 code == Chart[n].code
      <2>1. teller[t].op = "seed" /\ n \in DOMAIN Chart /\ code \in Nat /\ teller[t] \in Teller /\ TellerOK(teller[t], codes)
            BY <1>4 DEF SeedEntry, ChartInv
      <2>2. CASE /\ codes' = codes \union {code}
                 /\ teller' = Witnessed([teller EXCEPT ![t].tries = @ + 1, ![t].code = code], t, code)
            <3> DEFINE k == [teller[t] EXCEPT !.tries = n + 1, !.code = code]
            <3>1. [teller EXCEPT ![t].tries = @ + 1, ![t].code = code] = [teller EXCEPT ![t] = k]
                  BY <2>1 DEF ChartInv, Teller
            <3>2. n + 1 \in Nat
                  BY <2>1, SMT, SMTT(30) DEF Teller
            <3>3. k \in Teller /\ k.op = "seed" /\ k.result = teller[t].result
                  BY <2>1, <3>2 DEF Teller
            <3> HIDE DEF k
            <3>4. TellerOK(k, codes')
                  BY <2>1, <3>3 DEF TellerOK
            <3> HIDE DEF code
            <3>5. QED
                  BY <2>1, <2>2, <3>1, <3>3, <3>4, Inserted
      <2>3. CASE teller' = Finish(t, "failed") /\ codes' = codes
            <3>2. PICK k \in Teller : k.op = "none" /\ k.result = "failed" /\ Finish(t, "failed") = [teller EXCEPT ![t] = k]
                  BY EndedTeller
            <3>3. TellerOK(k, codes)
                  BY <3>2 DEF TellerOK
            <3>4. QED
                  BY <2>3, <3>2, <3>3, OneTeller
      <2>4. QED
            BY <1>4, <2>2, <2>3 DEF SeedEntry
<1>5. ASSUME NEW t \in Tellers, SeedDone(t) PROVE ChartInv'
      <2>2. PICK k \in Teller : k.op = "none" /\ k.result = "ok" /\ Finish(t, "ok") = [teller EXCEPT ![t] = k]
            BY EndedTeller
      <2>3. TellerOK(k, codes)
            BY <2>2 DEF TellerOK
      <2>4. QED
            BY <1>5, <2>2, <2>3, OneTeller DEF SeedDone
<1>6. ASSUME NEW t \in Tellers, BankRead(t) PROVE ChartInv'
      <2>1. PICK n : n = nextBankCode(NextBankAccountCode)
            OBVIOUS
      <2>2. /\ n \in Nat /\ n >= bankCodeMin /\ (n <= bankCodeMax => n \notin codes)
            /\ n > bankCodeMax => \E c \in codes : c \in bankCodeMax - bankCodeStep + 1 .. bankCodeMax
            BY <2>1, NextCode DEF ChartInv
      <2>3. teller[t].op = "bankRead" /\ codes' = codes /\ teller[t] \in Teller /\ TellerOK(teller[t], codes)
            BY <1>6 DEF BankRead, ChartInv
      <2>4. CASE n > bankCodeMax
            <3>1. teller' = Finish(t, "noRoom")
                  BY <1>6, <2>1, <2>4 DEF BankRead
            <3>3. PICK k \in Teller : k.op = "none" /\ k.result = "noRoom" /\ Finish(t, "noRoom") = [teller EXCEPT ![t] = k]
                  BY EndedTeller
            <3>4. TellerOK(k, codes)
                  BY <2>2, <2>4, <3>3 DEF TellerOK
            <3>5. QED
                  BY <2>3, <3>1, <3>3, <3>4, OneTeller
      <2>5. CASE ~(n > bankCodeMax)
            <3> DEFINE k == [teller[t] EXCEPT !.op = "bankInsert", !.code = n, !.rivals = {}]
            <3>1. teller' = [teller EXCEPT ![t] = k]
                  BY <1>6, <2>1, <2>5 DEF BankRead, ChartInv, Teller
            <3>2. k \in Teller /\ k.op = "bankInsert" /\ k.code = n /\ k.result = teller[t].result
                  BY <2>2, <2>3 DEF Teller
            <3> HIDE DEF k
            <3>3. n \in bankCodeMin .. bankCodeMax
                  BY <2>2, <2>5, SMT, SMTT(30)
            <3>4. TellerOK(k, codes)
                  BY <2>2, <2>3, <2>5, <3>2, <3>3, SMT, SMTT(30) DEF TellerOK
            <3>5. QED
                  BY <2>3, <3>1, <3>2, <3>4, OneTeller
      <2>6. QED
            BY <2>4, <2>5
<1>7. ASSUME NEW t \in Tellers, BankInsert(t) PROVE ChartInv'
      <2>1. teller[t] \in Teller /\ TellerOK(teller[t], codes) /\ teller[t].op = "bankInsert"
            BY <1>7 DEF BankInsert, ChartInv
      <2>2. CASE teller[t].code \notin codes
            <3>1. codes' = codes \union {teller[t].code} /\ teller' = Witnessed(Finish(t, "ok"), t, teller[t].code)
                  BY <1>7, <2>2 DEF BankInsert, InsertAccount
            <3>3. PICK k \in Teller : k.op = "none" /\ k.result = "ok" /\ Finish(t, "ok") = [teller EXCEPT ![t] = k]
                  BY EndedTeller
            <3>4. TellerOK(k, codes') /\ teller[t].code \in Nat
                  BY <2>1, <3>3 DEF TellerOK, Teller
            <3>5. QED
                  BY <3>1, <3>3, <3>4, Inserted
      <2>3. CASE teller[t].code \in codes
            <3>1. codes' = codes /\ teller' = Finish(t, "lost")
                  BY <1>7, <2>3 DEF BankInsert, InsertAccount, CodeExists
            <3>3. PICK k \in Teller : /\ k.op = "none" /\ k.result = "lost" /\ k.code = teller[t].code
                                      /\ k.rivals = teller[t].rivals /\ Finish(t, "lost") = [teller EXCEPT ![t] = k]
                  BY EndedTeller
            <3>4. TellerOK(k, codes)
                  BY <2>1, <2>3, <3>3 DEF TellerOK
            <3>5. QED
                  BY <3>1, <3>3, <3>4, OneTeller
      <2>4. QED
            BY <2>2, <2>3
<1>8. ASSUME NEW t \in Tellers, CallBreaks(t) PROVE ChartInv'
      <2>1. Vacant \in Teller /\ TellerOK(Vacant, codes)
            BY DEF Vacant, Teller, TellerOK
      <2>2. QED
            BY <1>8, <2>1, OneTeller DEF CallBreaks
<1>9. QED
      BY <1>1, <1>2, <1>3, <1>4, <1>5, <1>6, <1>7, <1>8 DEF ChartNext

\* The invariant of the chart of accounts.
THEOREM ChartInvariant == ChartSpec => []ChartInv
<1>1. ChartInit => ChartInv
      <2>1. Vacant \in Teller /\ TellerOK(Vacant, {})
            BY DEF Vacant, Teller, TellerOK
      <2>2. QED
            BY <2>1 DEF ChartInit, ChartInv
<1>2. ChartInv /\ [ChartNext]_chartVars => ChartInv'
      BY ChartStep
<1>3. QED
      BY <1>1, <1>2, PTL DEF ChartSpec

\* The types of the accounts table and of the calls on it.
THEOREM ChartTypeCorrect == ChartSpec => []ChartTypeOK
<1>1. ChartInv => ChartTypeOK
      <2> SUFFICES ASSUME ChartInv, NEW t \in Tellers
                   PROVE  /\ codes \subseteq Nat
                          /\ teller[t].op \in {"none", "seed", "bankRead", "bankInsert"}
                          /\ teller[t].result \in {"none", "ok", "noRoom", "lost", "failed"}
                          /\ teller[t].tries \in Nat /\ teller[t].code \in Nat /\ teller[t].rivals \subseteq Nat
          BY DEF ChartTypeOK, ChartInv
      <2>1. teller[t] \in Teller
            BY DEF ChartInv
      <2>2. QED
            BY <2>1 DEF ChartInv, Teller
<1>2. QED
      BY <1>1, ChartInvariant, PTL

\* CreateBankAccount loses its code only to an insert between its own read and its own insert.
THEOREM LosesOnlyToARivalHolds == ChartSpec => []LosesOnlyToARival
<1>1. ChartInv => LosesOnlyToARival
      BY DEF ChartInv, TellerOK, LosesOnlyToARival
<1>2. QED
      BY <1>1, ChartInvariant, PTL

\* It never writes a code beyond the range and says so only when the range's end is taken.
THEOREM BankStaysInRangeHolds == ChartSpec => []BankStaysInRange
<1>1. ChartInv => BankStaysInRange
      BY DEF ChartInv, TellerOK, BankStaysInRange
<1>2. QED
      BY <1>1, ChartInvariant, PTL

=============================================================================
