-------------------------- MODULE TenantRetention --------------------------
(***************************************************************************)
(* The tenant retention lifecycle of the iam service: the tenants row with *)
(* its status, its two clock stamps and its legal-hold columns, the        *)
(* retention sweeper that moves rows forward as time passes, the platform- *)
(* admin calls that suspend a tenant or place and lift a hold, and the     *)
(* billing consumer that suspends a tenant for non-payment.                *)
(*                                                                         *)
(* One action is one database round trip.  A call that reads a row and     *)
(* later writes it is two actions, with what it read kept in its session.  *)
(* Time is a discrete clock; its unit is a day, scaled down by the model.  *)
(***************************************************************************)
EXTENDS Integers, FiniteSets

CONSTANTS
    Tenants,        \* tenant ids
    Sweepers,       \* concurrent runs of cmd/retention-sweeper
    Sessions,       \* in-flight admin calls and billing deliveries
    HoldUntils,     \* the hold_until times an operator may name
    Reasons,        \* the freeze_reason texts an operator may name
    NULL,           \* an SQL NULL, a nil pointer
    SuspensionGracePeriod,
    GraceToDeactivatedDuration,
    DeactivatedToPurgeDuration,
    CallSpan,       \* the longest one call can take, in clock units
    BatchSize,      \* -batch flag of the sweeper
    MaxBatches,     \* -max-batches flag of the sweeper
    MaxTime         \* bound on the clock

ASSUME RetentionAssumption ==
    /\ NULL \notin Int
    /\ NULL \notin Tenants
    /\ SuspensionGracePeriod \in Nat
    /\ GraceToDeactivatedDuration \in Nat
    /\ DeactivatedToPurgeDuration \in Nat
    /\ CallSpan \in Nat
    /\ MaxTime \in Nat
    /\ BatchSize \in Nat \ {0}
    /\ MaxBatches \in Nat \ {0}
    /\ HoldUntils \subseteq Nat
    /\ NULL \notin Reasons

\* A call is over long before the shortest retention period is.
ASSUME CallSpanAssumption == CallSpan < SuspensionGracePeriod

VARIABLES
    clock,      \* the wall clock, read by Go and by Postgres now() alike
    tenant,     \* the tenants table
    sweep,      \* the runs of the sweeper
    rpc         \* the calls in flight

retentionVars == <<clock, tenant, sweep, rpc>>

Status == {"active", "suspended", "grace", "deactivated", "purge_eligible", "purged"}

Stamp == Nat \union {NULL}

\* freeze_reason: NULL, the empty text or a reason.
FreezeReason == Reasons \union {"", NULL}

TenantRow == [status: Status, suspended_at: Stamp, deactivated_at: Stamp,
              freeze_reason: FreezeReason, hold_until: Stamp]

SweepRun == [pc: {"idle", "list", "read", "write"}, now: Nat, batch: Nat,
             due: SUBSET Tenants, listed: Nat,
             id: Tenants \union {NULL}, from: Status, to: Status]

Call == [op: {"idle", "retention", "billing"}, id: Tenants \union {NULL},
         until: Stamp, reason: FreezeReason, at: Nat]

NoCall == [op |-> "idle", id |-> NULL, until |-> NULL, reason |-> NULL, at |-> 0]

NoSweep == [pc |-> "idle", now |-> 0, batch |-> 0, due |-> {}, listed |-> 0,
            id |-> NULL, from |-> "active", to |-> "active"]

NewTenant == [status |-> "active", suspended_at |-> NULL, deactivated_at |-> NULL,
              freeze_reason |-> NULL, hold_until |-> NULL]

RetentionInit ==
    /\ clock = 0
    /\ tenant = [t \in Tenants |-> NewTenant]
    /\ sweep = [w \in Sweepers |-> NoSweep]
    /\ rpc = [s \in Sessions |-> NoCall]

-----------------------------------------------------------------------------
(***************************************************************************)
(* The statements of services/iam/db, as functions from row to row.        *)
(***************************************************************************)

Coalesce(x, y) == IF x # NULL THEN x ELSE y

\* Mutant: the column is stamped on every entry (the COALESCE dropped).
StampOnEveryEntry(to, status, column) == IF to = status THEN clock ELSE column

\* The CASE that stamps a lifecycle column on the first entry only.
StampOnEntry(to, status, column) == IF to = status THEN Coalesce(column, clock) ELSE column

UpdateTenantStatus(row, status, until, reason) ==
    [row EXCEPT !.status = status,
                !.suspended_at = StampOnEntry(status, "suspended", @),
                !.deactivated_at = StampOnEntry(status, "deactivated", @),
                !.hold_until = Coalesce(until, @),
                !.freeze_reason = Coalesce(reason, @)]

TransitionTenantStatus(row, from, to) ==
    IF row.status = from
    THEN [row EXCEPT !.status = to,
                     !.suspended_at = StampOnEntry(to, "suspended", @),
                     !.deactivated_at = StampOnEntry(to, "deactivated", @)]
    ELSE row

SetTenantLegalHold(row, until, reason) ==
    [row EXCEPT !.hold_until = until, !.freeze_reason = reason]

ClearLegalHold(row) == [row EXCEPT !.hold_until = NULL, !.freeze_reason = NULL]

\* stamp <= now - INTERVAL: false on a NULL stamp.
Elapsed(stamp, period, now) == stamp # NULL /\ stamp + period <= now

\* The hold predicate of the sweeper's list query, negated.
OnHold(row, now) ==
    row.freeze_reason # NULL /\ (row.hold_until = NULL \/ row.hold_until > now)

DueForLifecycle(row, now) ==
    /\ \/ row.status = "suspended" /\ Elapsed(row.suspended_at, SuspensionGracePeriod, now)
       \/ row.status = "grace" /\ Elapsed(row.suspended_at, GraceToDeactivatedDuration, now)
       \/ row.status = "deactivated" /\ Elapsed(row.deactivated_at, DeactivatedToPurgeDuration, now)
    /\ ~OnHold(row, now)

\* ORDER BY COALESCE(deactivated_at, suspended_at) LIMIT BatchSize: the
\* batches the query may return, ties broken either way.
DueBatches(now) ==
    LET due == {t \in Tenants : DueForLifecycle(tenant[t], now)}
        age(t) == Coalesce(tenant[t].deactivated_at, tenant[t].suspended_at)
    IN  {batch \in SUBSET due :
            /\ Cardinality(batch) <= BatchSize
            /\ batch # due => Cardinality(batch) = BatchSize
            /\ \A t \in batch, u \in due \ batch : age(t) <= age(u)}

-----------------------------------------------------------------------------
(***************************************************************************)
(* The retention sweeper: one run lists due tenants in batches and         *)
(* advances each by at most one transition, with the time it started at.   *)
(***************************************************************************)

\* Mutant: leaves grace after the suspension grace period.
nextStatusShortGrace(row, now) ==
    CASE row.status = "suspended" /\ Elapsed(row.suspended_at, SuspensionGracePeriod, now)
            -> "grace"
      [] row.status = "grace" /\ Elapsed(row.suspended_at, SuspensionGracePeriod, now)
            -> "deactivated"
      [] row.status = "deactivated" /\ Elapsed(row.deactivated_at, DeactivatedToPurgeDuration, now)
            -> "purge_eligible"
      [] OTHER -> NULL

\* Mutant: measures grace from deactivated_at, which is not set yet.
nextStatusWrongStamp(row, now) ==
    CASE row.status = "suspended" /\ Elapsed(row.suspended_at, SuspensionGracePeriod, now)
            -> "grace"
      [] row.status = "grace" /\ Elapsed(row.deactivated_at, GraceToDeactivatedDuration, now)
            -> "deactivated"
      [] row.status = "deactivated" /\ Elapsed(row.deactivated_at, DeactivatedToPurgeDuration, now)
            -> "purge_eligible"
      [] OTHER -> NULL

\* The status the row should move to at time now, NULL when none is due.
nextLifecycleStatus(row, now) ==
    CASE row.status = "suspended" /\ Elapsed(row.suspended_at, SuspensionGracePeriod, now)
            -> "grace"
      [] row.status = "grace" /\ Elapsed(row.suspended_at, GraceToDeactivatedDuration, now)
            -> "deactivated"
      [] row.status = "deactivated" /\ Elapsed(row.deactivated_at, DeactivatedToPurgeDuration, now)
            -> "purge_eligible"
      [] OTHER -> NULL

SweepStart(w) ==
    /\ sweep[w].pc = "idle"
    /\ sweep' = [sweep EXCEPT ![w] = [NoSweep EXCEPT !.pc = "list", !.now = clock]]
    /\ UNCHANGED <<clock, tenant, rpc>>

\* An empty batch ends the run; so does an error of the query (SweepAbort).
SweepList(w) ==
    /\ sweep[w].pc = "list"
    /\ \E due \in DueBatches(sweep[w].now), listed \in 0 .. BatchSize :
          /\ listed = Cardinality(due)
          /\ \/ /\ due = {}
                /\ sweep' = [sweep EXCEPT ![w] = NoSweep]
             \/ /\ due # {}
                /\ sweep' = [sweep EXCEPT ![w].pc = "read", ![w].due = due,
                                          ![w].listed = listed, ![w].batch = @ + 1]
    /\ UNCHANGED <<clock, tenant, rpc>>

\* What the run does once tenant t of its batch is dealt with: the next
\* tenant, the next batch after a full one, or the end.
AfterTenant(run, t) ==
    LET rest == [run EXCEPT !.due = @ \ {t}, !.pc = "read", !.id = NULL]
    IN  CASE rest.due # {} -> rest
          [] rest.due = {} /\ run.listed = BatchSize /\ run.batch < MaxBatches -> [rest EXCEPT !.pc = "list"]
          [] OTHER -> NoSweep

\* AdvanceTenantLifecycle, its read: GetTenant and the due check.
SweepRead(w, t) ==
    /\ sweep[w].pc = "read"
    /\ t \in sweep[w].due
    /\ LET next == nextLifecycleStatus(tenant[t], sweep[w].now)
       IN  sweep' = [sweep EXCEPT ![w] =
               IF next = NULL THEN AfterTenant(@, t)
               ELSE [@ EXCEPT !.pc = "write", !.id = t,
                              !.from = tenant[t].status, !.to = next]]
    /\ UNCHANGED <<clock, tenant, rpc>>

\* AdvanceTenantLifecycle, its status-guarded write.
SweepWrite(w, t) ==
    /\ sweep[w].pc = "write"
    /\ sweep[w].id = t
    /\ tenant' = [tenant EXCEPT ![t] = TransitionTenantStatus(@, sweep[w].from, sweep[w].to)]
    /\ sweep' = [sweep EXCEPT ![w] = AfterTenant(@, t)]
    /\ UNCHANGED <<clock, rpc>>

\* GetTenant or the UPDATE fails: counted as failed, the run goes on.
SweepTenantFails(w, t) ==
    /\ \/ sweep[w].pc = "read" /\ t \in sweep[w].due
       \/ sweep[w].pc = "write" /\ t = sweep[w].id
    /\ sweep' = [sweep EXCEPT ![w] = AfterTenant(@, t)]
    /\ UNCHANGED <<clock, tenant, rpc>>

\* The list query fails, the 30-minute deadline passes or the pod dies.
SweepAbort(w) ==
    /\ sweep[w].pc # "idle"
    /\ sweep' = [sweep EXCEPT ![w] = NoSweep]
    /\ UNCHANGED <<clock, tenant, rpc>>

-----------------------------------------------------------------------------
(***************************************************************************)
(* The calls of a platform admin.                                          *)
(***************************************************************************)

\* SuspendTenant: one unguarded UPDATE (its reads feed the audit event).
SuspendTenant(t, until, reason) ==
    /\ tenant' = [tenant EXCEPT ![t] = UpdateTenantStatus(@, "suspended", until, reason)]
    /\ UNCHANGED <<clock, sweep, rpc>>

\* ClearTenantLegalHold: one unconditional UPDATE.
ClearTenantLegalHold(t) ==
    /\ tenant' = [tenant EXCEPT ![t] = ClearLegalHold(@)]
    /\ UNCHANGED <<clock, sweep, rpc>>

isHoldableStatus(status) == status \in {"suspended", "grace", "deactivated"}

\* before.FreezeReason != nil && *before.FreezeReason != ""
HasHold(row) == row.freeze_reason \notin {NULL, ""}

\* Mutant: overwrite lets a dated hold replace an indefinite one.
SetRetentionReadOverwriting(s, t, until, reason, overwrite) ==
    /\ rpc[s].op = "idle"
    /\ isHoldableStatus(tenant[t].status)
    /\ until # NULL => until > clock
    /\ HasHold(tenant[t]) => overwrite
    /\ rpc' = [rpc EXCEPT ![s] = [op |-> "retention", id |-> t, until |-> until,
                                  reason |-> reason, at |-> clock]]
    /\ UNCHANGED <<clock, tenant, sweep>>

\* SetTenantRetention, its read and its checks.
SetTenantRetentionRead(s, t, until, reason, overwrite) ==
    /\ rpc[s].op = "idle"
    /\ isHoldableStatus(tenant[t].status)
    /\ until # NULL => until > clock
    /\ HasHold(tenant[t]) => overwrite
    /\ ~(HasHold(tenant[t]) /\ tenant[t].hold_until = NULL /\ until # NULL)
    /\ rpc' = [rpc EXCEPT ![s] = [op |-> "retention", id |-> t, until |-> until,
                                  reason |-> reason, at |-> clock]]
    /\ UNCHANGED <<clock, tenant, sweep>>

\* SetTenantRetention, its write: the checks are not repeated.
SetTenantRetentionWrite(s) ==
    /\ rpc[s].op = "retention"
    /\ tenant' = [tenant EXCEPT ![rpc[s].id] = SetTenantLegalHold(@, rpc[s].until, rpc[s].reason)]
    /\ rpc' = [rpc EXCEPT ![s] = NoCall]
    /\ UNCHANGED <<clock, sweep>>

-----------------------------------------------------------------------------
(***************************************************************************)
(* The billing consumer, and time.                                         *)
(***************************************************************************)

\* Mutant: the no-regression guard only spares suspended tenants.
BillingHandleReadLoose(s, t) ==
    /\ rpc[s].op = "idle"
    /\ tenant[t].status # "suspended"
    /\ rpc' = [rpc EXCEPT ![s] = [op |-> "billing", id |-> t, until |-> NULL,
                                  reason |-> NULL, at |-> clock]]
    /\ UNCHANGED <<clock, tenant, sweep>>

\* BillingConsumer.Handle of a suspension event, its read: a tenant that is
\* not active is left alone and the message is acknowledged.
BillingHandleRead(s, t) ==
    /\ rpc[s].op = "idle"
    /\ tenant[t].status = "active"
    /\ rpc' = [rpc EXCEPT ![s] = [op |-> "billing", id |-> t, until |-> NULL,
                                  reason |-> NULL, at |-> clock]]
    /\ UNCHANGED <<clock, tenant, sweep>>

\* BillingConsumer.Handle, its call of SuspendTenant without a hold.
BillingHandleWrite(s) ==
    /\ rpc[s].op = "billing"
    /\ tenant' = [tenant EXCEPT ![rpc[s].id] = UpdateTenantStatus(@, "suspended", NULL, NULL)]
    /\ rpc' = [rpc EXCEPT ![s] = NoCall]
    /\ UNCHANGED <<clock, sweep>>

\* The write of a call fails, or its process dies before it.
CallFails(s) ==
    /\ rpc[s].op # "idle"
    /\ rpc' = [rpc EXCEPT ![s] = NoCall]
    /\ UNCHANGED <<clock, tenant, sweep>>

\* A day passes; no call in flight outlives CallSpan of them.
Tick ==
    /\ clock < MaxTime
    /\ \A s \in Sessions : rpc[s].op # "idle" => clock < rpc[s].at + CallSpan
    /\ clock' = clock + 1
    /\ UNCHANGED <<tenant, sweep, rpc>>

-----------------------------------------------------------------------------
SweeperStep(w) ==
    \/ SweepStart(w) \/ SweepList(w) \/ SweepAbort(w)
    \/ \E t \in Tenants : SweepRead(w, t) \/ SweepWrite(w, t) \/ SweepTenantFails(w, t)

AdminCall(t) ==
    \/ \E until \in HoldUntils \union {NULL}, reason \in FreezeReason :
          SuspendTenant(t, until, reason)
    \/ ClearTenantLegalHold(t)

SessionStep(s) ==
    \/ \E t \in Tenants, until \in HoldUntils \union {NULL}, reason \in Reasons, overwrite \in BOOLEAN :
          SetTenantRetentionRead(s, t, until, reason, overwrite)
    \/ SetTenantRetentionWrite(s)
    \/ \E t \in Tenants : BillingHandleRead(s, t)
    \/ BillingHandleWrite(s)
    \/ CallFails(s)

RetentionNext ==
    \/ Tick
    \/ \E w \in Sweepers : SweeperStep(w)
    \/ \E t \in Tenants : AdminCall(t)
    \/ \E s \in Sessions : SessionStep(s)

RetentionSpec == RetentionInit /\ [][RetentionNext]_retentionVars

\* The sweeper is a CronJob, so a run always starts again; a statement that
\* every run retries for a tenant does not fail for ever.
RetentionFairness ==
    \A w \in Sweepers :
        /\ WF_retentionVars(SweepStart(w))
        /\ SF_retentionVars(SweepList(w))
        /\ \A t \in Tenants : SF_retentionVars(SweepRead(w, t)) /\ SF_retentionVars(SweepWrite(w, t))

-----------------------------------------------------------------------------
(***************************************************************************)
(* Properties.                                                             *)
(***************************************************************************)

\* The types of the tables and of what the processes hold.
RetentionTypeOK ==
    /\ clock \in Nat
    /\ tenant \in [Tenants -> TenantRow]
    /\ sweep \in [Sweepers -> SweepRun]
    /\ rpc \in [Sessions -> Call]

\* No tenant is ever ahead of the retention policy: whatever the sweepers
\* read before whichever calls came between, a row in grace, deactivated,
\* purge_eligible or purged has spent the whole of every period behind it,
\* counted from its first suspension and its first deactivation
\* (lifecycle.go, AdvanceTenantLifecycle).
RetentionElapsed ==
    \A t \in Tenants : LET row == tenant[t] IN
        /\ row.status # "active" => row.suspended_at # NULL /\ row.suspended_at <= clock
        /\ row.status = "grace" => Elapsed(row.suspended_at, SuspensionGracePeriod, clock)
        /\ row.status \in {"deactivated", "purge_eligible", "purged"} =>
              /\ row.deactivated_at # NULL /\ row.deactivated_at <= clock
              /\ Elapsed(row.suspended_at, GraceToDeactivatedDuration, row.deactivated_at)
        /\ row.status \in {"purge_eligible", "purged"} =>
              Elapsed(row.deactivated_at, DeactivatedToPurgeDuration, clock)

\* A delivery that the billing consumer is about to apply never sends a
\* tenant back from grace or beyond, although its no-regression guard is a
\* read made before the write (billing_consumer.go, Handle).
BillingNeverRegresses ==
    \A s \in Sessions :
        rpc[s].op = "billing" => tenant[rpc[s].id].status \in {"active", "suspended"}

\* A tenant on hold at this moment and in no sweeper's batch.
PinnedByHold(t) ==
    /\ OnHold(tenant[t], clock)
    /\ \A w \in Sweepers : t \notin sweep[w].due

\* A hold works from the next batch on: no run that lists while the hold is
\* in force takes the tenant into its batch, however old the time the run
\* compares with, and the sweeper does not move the tenant meanwhile
\* (queries.sql, ListTenantsDueForLifecycle).
HoldPinsTenant ==
    [][\A t \in Tenants : PinnedByHold(t) =>
          /\ \A w \in Sweepers : t \notin sweep'[w].due
          /\ tenant'[t].status \in {tenant[t].status, "suspended"}]_retentionVars

\* Every other change of status is one rung of the ladder, even with several
\* sweepers acting on what they read earlier (TransitionTenantStatus).
LadderOnly ==
    [][\A t \in Tenants :
          LET from == tenant[t].status  to == tenant'[t].status
          IN  \/ to \in {from, "suspended"}
              \/ <<from, to>> \in {<<"suspended", "grace">>, <<"grace", "deactivated">>,
                                   <<"deactivated", "purge_eligible">>}]_retentionVars

\* The clocks count from the real transition: once stamped, suspended_at and
\* deactivated_at keep their value through every retry, regression and
\* re-entry (UpdateTenantStatus, TransitionTenantStatus).
StampsAreFinal ==
    [][\A t \in Tenants :
          /\ tenant[t].suspended_at \in {NULL, tenant'[t].suspended_at}
          /\ tenant[t].deactivated_at \in {NULL, tenant'[t].deactivated_at}]_retentionVars

\* The calls that will turn the tenant's hold into a dated one.
Narrowing(t) == {s \in Sessions : rpc[s].op = "retention" /\ rpc[s].id = t /\ rpc[s].until # NULL}

\* The guard of SetTenantRetention (retention_override.go) works on a row read
\* before the write: it protects an indefinite hold against every call that
\* reads the row while the hold stands.  So once no call in flight narrows the
\* hold, none will, whatever calls begin, write and fail.
HoldIsNotNarrowed ==
    [][\A t \in Tenants :
          /\ HasHold(tenant[t]) /\ tenant[t].hold_until = NULL
          /\ Narrowing(t) = {} /\ rpc' # rpc
          => tenant'[t].hold_until = NULL /\ Narrowing(t)' = {}]_retentionVars

\* A tenant that is due and not on hold is moved on, unless it is put on hold
\* or its status changes otherwise.
DueIsAdvanced ==
    \A t \in Tenants, st \in {"suspended", "grace", "deactivated"} :
        (tenant[t].status = st /\ DueForLifecycle(tenant[t], clock))
            ~> (tenant[t].status # st \/ OnHold(tenant[t], clock))

-----------------------------------------------------------------------------
(***************************************************************************)
(* The inductive invariant behind RetentionElapsed and                     *)
(* BillingNeverRegresses.                                                  *)
(***************************************************************************)

\* What a row's status says about its stamps.
RowInv(row) ==
    /\ row.status = "active" => row.suspended_at = NULL /\ row.deactivated_at = NULL
    /\ row.status # "active" => row.suspended_at # NULL
    /\ row.suspended_at # NULL => row.suspended_at <= clock
    /\ row.deactivated_at # NULL =>
          /\ row.deactivated_at <= clock
          /\ Elapsed(row.suspended_at, GraceToDeactivatedDuration, row.deactivated_at)
    /\ row.status = "grace" => Elapsed(row.suspended_at, SuspensionGracePeriod, clock)
    /\ row.status \in {"deactivated", "purge_eligible", "purged"} => row.deactivated_at # NULL
    /\ row.status \in {"purge_eligible", "purged"} =>
          Elapsed(row.deactivated_at, DeactivatedToPurgeDuration, clock)

\* What a sweeper judged a row by when it read it.
SweepDue(row, run) ==
    \/ /\ run.from = "suspended" /\ run.to = "grace"
       /\ Elapsed(row.suspended_at, SuspensionGracePeriod, run.now)
    \/ /\ run.from = "grace" /\ run.to = "deactivated"
       /\ Elapsed(row.suspended_at, GraceToDeactivatedDuration, run.now)
    \/ /\ run.from = "deactivated" /\ run.to = "purge_eligible"
       /\ Elapsed(row.deactivated_at, DeactivatedToPurgeDuration, run.now)

\* It stays true of the row until the sweeper writes: the stamps are final,
\* though the status may have moved on.
SweepInv(run) ==
    /\ run.now <= clock
    /\ run.pc = "write" => run.id \in Tenants /\ SweepDue(tenant[run.id], run)

\* A tenant the billing consumer read as active was suspended, if at all,
\* since then, hence too recently for the sweeper.
CallInv(call) ==
    /\ call.op # "idle" => call.id \in Tenants
    /\ call.op = "billing" =>
          /\ call.at <= clock /\ clock <= call.at + CallSpan
          /\ tenant[call.id].status \in {"active", "suspended"}
          /\ tenant[call.id].status = "suspended" => call.at <= tenant[call.id].suspended_at

RetentionInv ==
    /\ RetentionTypeOK
    /\ \A t \in Tenants : RowInv(tenant[t])
    /\ \A w \in Sweepers : SweepInv(sweep[w])
    /\ \A s \in Sessions : CallInv(rpc[s])

=============================================================================
