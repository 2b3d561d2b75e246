--------------------------- MODULE ChartOfAccounts ---------------------------
(***************************************************************************)
(* The account codes of one tenant (services/ledger): CreateAccount, the   *)
(* seeding of a vertical's chart and CreateBankAccount, which picks a code *)
(* itself.  Accounts are never deleted.                                    *)
(***************************************************************************)
EXTENDS Integers, Sequences, FiniteSets, FiniteSetsExt

CONSTANTS
    Tellers,      \* calls in progress
    Chart,        \* the vertical's entries, [code, parent], parent 0 for none
    OtherCodes,   \* codes a user gives to CreateAccount
    bankCodeMin, bankCodeMax, bankCodeStep, bankCreateAttempts

ASSUME ChartAssumption ==
    /\ {bankCodeMin, bankCodeMax, bankCodeStep, bankCreateAttempts} \subseteq Nat \ {0}
    /\ bankCodeMin <= bankCodeMax
    /\ OtherCodes \subseteq Nat \ {0}
    /\ \A i \in DOMAIN Chart : Chart[i].code \in Nat \ {0} /\ Chart[i].parent \in Nat

VARIABLES
    codes,   \* the codes in the accounts table
    teller   \* the calls in progress, and how the last one ended

chartVars == <<codes, teller>>

\* tries: attempts of the loop, or position in the chart.  rivals: codes others
\* inserted since the call last read the highest one.
Vacant == [op |-> "none", tries |-> 0, code |-> 0, rivals |-> {}, result |-> "none"]

\* The codes and the calls.
ChartTypeOK ==
    /\ codes \subseteq Nat
    /\ \A t \in Tellers :
         /\ teller[t].op \in {"none", "seed", "bankRead", "bankInsert"}
         /\ teller[t].result \in {"none", "ok", "noRoom", "lost", "failed"}
         /\ teller[t].tries \in Nat /\ teller[t].code \in Nat /\ teller[t].rivals \subseteq Nat

ChartInit == codes = {} /\ teller = [t \in Tellers |-> Vacant]

Finish(t, result) == [teller EXCEPT ![t] = [Vacant EXCEPT !.result = result, !.code = teller[t].code,
                                                          !.rivals = teller[t].rivals]]

\* Every other call sees the new code as a rival's.
Witnessed(tellers, t, code) ==
    [u \in Tellers |-> IF u # t /\ tellers[u].op = "bankInsert"
                       THEN [tellers[u] EXCEPT !.rivals = @ \union {code}] ELSE tellers[u]]

-----------------------------------------------------------------------------
(* The repository                                                          *)

\* INSERT ... ON CONFLICT (tenant_id, code) DO NOTHING RETURNING, read with
\* QueryRow: on a conflict there is no row to scan and pgx says so.
InsertAccount(code) == IF code \in codes THEN "noRows" ELSE "inserted"

\* CreateAccount tells ErrAccountCodeExists by a unique violation, or by a
\* scanned row without an id.
CodeExists(outcome) == outcome \in {"uniqueViolation", "nilRow"}

NextBankAccountCode ==
    LET inRange == {c \in codes : c \in bankCodeMin .. bankCodeMax} IN
    IF inRange = {} THEN 0 ELSE Max(inRange)

-----------------------------------------------------------------------------
(* CreateAccount and SeedChartOfAccounts                                   *)

CreateAccount(t, code) ==
    /\ teller[t].op = "none" /\ code \notin codes
    /\ codes' = codes \union {code}
    /\ teller' = Witnessed(teller, t, code)

SeedChartOfAccounts(t) ==
    /\ teller[t].op = "none"
    /\ teller' = [teller EXCEPT ![t] = [Vacant EXCEPT !.op = "seed", !.tries = 1]]
    /\ UNCHANGED codes

\* One entry: look up the parent, which stays once it is there, then insert.
\* A code that exists is skipped if CreateAccount says so.
SeedEntry(t) ==
    LET k == teller[t].tries
        outcome == InsertAccount(Chart[k].code) IN
    /\ teller[t].op = "seed" /\ k \in DOMAIN Chart
    /\ IF Chart[k].parent \in codes \union {0} /\ (outcome = "inserted" \/ CodeExists(outcome))
       THEN /\ codes' = codes \union {Chart[k].code}
            /\ teller' = Witnessed([teller EXCEPT ![t].tries = @ + 1, ![t].code = Chart[k].code],
                                   t, Chart[k].code)
       ELSE teller' = Finish(t, "failed") /\ UNCHANGED codes

SeedDone(t) ==
    /\ teller[t].op = "seed" /\ teller[t].tries = Len(Chart) + 1
    /\ teller' = Finish(t, "ok") /\ UNCHANGED codes

-----------------------------------------------------------------------------
(* CreateBankAccount                                                       *)

\* Mutant: the highest code is taken for the next free one.
HighestAsNext(highest) == IF highest > 0 THEN highest ELSE bankCodeMin

nextBankCode(highest) == IF highest > 0 THEN highest + bankCodeStep ELSE bankCodeMin

CreateBankAccount(t) ==
    /\ teller[t].op = "none"
    /\ teller' = [teller EXCEPT ![t] = [Vacant EXCEPT !.op = "bankRead", !.tries = 1]]
    /\ UNCHANGED codes

BankRead(t) ==
    LET next == nextBankCode(NextBankAccountCode) IN
    /\ teller[t].op = "bankRead"
    /\ teller' = IF next > bankCodeMax THEN Finish(t, "noRoom")
                 ELSE [teller EXCEPT ![t].op = "bankInsert", ![t].code = next, ![t].rivals = {}]
    /\ UNCHANGED codes

BankInsert(t) ==
    LET k == teller[t]
        outcome == InsertAccount(k.code) IN
    /\ k.op = "bankInsert"
    /\ IF outcome = "inserted"
       THEN codes' = codes \union {k.code} /\ teller' = Witnessed(Finish(t, "ok"), t, k.code)
       ELSE /\ teller' = IF CodeExists(outcome) /\ k.tries < bankCreateAttempts
                         THEN [teller EXCEPT ![t].op = "bankRead", ![t].tries = @ + 1]
                         ELSE Finish(t, "lost")
            /\ UNCHANGED codes

\* A database error, or the process dies, wherever the call is.
CallBreaks(t) ==
    /\ teller[t].op # "none"
    /\ teller' = [teller EXCEPT ![t] = Vacant]
    /\ UNCHANGED codes

-----------------------------------------------------------------------------
ChartNext == \E t \in Tellers :
    \/ \E code \in OtherCodes : CreateAccount(t, code)
    \/ SeedChartOfAccounts(t) \/ SeedEntry(t) \/ SeedDone(t)
    \/ CreateBankAccount(t) \/ BankRead(t) \/ BankInsert(t)
    \/ CallBreaks(t)

ChartSpec == ChartInit /\ [][ChartNext]_chartVars

-----------------------------------------------------------------------------
(* Properties                                                              *)

\* CreateBankAccount loses its code only to an insert that came between its
\* own reading of the highest code and its own insert.
LosesOnlyToARival ==
    \A t \in Tellers : teller[t].result = "lost" => teller[t].code \in teller[t].rivals

\* It reports ErrNoBankCodeAvailable only if the tenant has an account within
\* one step of the end of the range, and never writes a code beyond it,
\* whatever was inserted while it ran.
BankStaysInRange ==
    /\ \A t \in Tellers : teller[t].op = "bankInsert" => teller[t].code \in bankCodeMin .. bankCodeMax
    /\ (\E t \in Tellers : teller[t].result = "noRoom") =>
           \E c \in codes : c \in bankCodeMax - bankCodeStep + 1 .. bankCodeMax
=============================================================================
