---------------------------- MODULE TenantPurge ----------------------------
(***************************************************************************)
(* The two-person purge of a purge_eligible tenant, on top of the          *)
(* retention lifecycle: one platform admin requests it, another approves   *)
(* it, either may cancel, and the purge worker claims the approved request,*)
(* drops the tenant's schema and leaves a tombstone row.                   *)
(***************************************************************************)
EXTENDS TenantRetention

CONSTANTS
    Requests,   \* ids of purge requests
    Admins,     \* platform admins, the actors of audit.ActorFromContext
    Desks,      \* purge calls in flight
    Workers,    \* concurrent runs of cmd/purge-worker
    PurgeBatch  \* -batch flag of the worker

ASSUME PurgeAssumption ==
    /\ NULL \notin Requests
    /\ NULL \notin Admins
    /\ PurgeBatch \in Nat \ {0}

VARIABLES
    reqs,       \* the tenant_purge_requests table
    schema,     \* whether the schema tenant_<uuid> exists
    desk,       \* the purge calls in flight
    worker,     \* the runs of the purge worker
    audited     \* requests with an ActionTenantPurged audit event

requestVars == <<reqs, schema, desk, worker, audited>>
purgeVars == <<retentionVars, requestVars>>

Request == [status: {"none", "pending", "approved", "executed", "failed", "cancelled"},
            tenant_id: Tenants \union {NULL}, requested_by: Admins \union {NULL},
            approved_by: Admins \union {NULL}, approved_at: Stamp]

DeskCall == [op: {"idle", "request", "approve", "approving", "cancel"},
             id: Tenants \union {NULL}, req: Requests \union {NULL}, actor: Admins \union {NULL}]

WorkerRun == [pc: {"idle", "run", "failed"}, todo: SUBSET Requests, req: Requests \union {NULL}]

NoRequest == [status |-> "none", tenant_id |-> NULL, requested_by |-> NULL,
              approved_by |-> NULL, approved_at |-> NULL]
NoDesk == [op |-> "idle", id |-> NULL, req |-> NULL, actor |-> NULL]
NoWorker == [pc |-> "idle", todo |-> {}, req |-> NULL]

PurgeInit ==
    /\ RetentionInit
    /\ reqs = [r \in Requests |-> NoRequest]
    /\ schema = [t \in Tenants |-> TRUE]
    /\ desk = [d \in Desks |-> NoDesk]
    /\ worker = [w \in Workers |-> NoWorker]
    /\ audited = {}

-----------------------------------------------------------------------------
(***************************************************************************)
(* Requesting, approving and cancelling.                                   *)
(***************************************************************************)

IsOpen(r, t) == reqs[r].tenant_id = t /\ reqs[r].status \in {"pending", "approved"}

\* RequestTenantPurge, its read of the tenant.
RequestTenantPurgeRead(d, t, actor) ==
    /\ desk[d].op = "idle"
    /\ tenant[t].status = "purge_eligible"
    /\ desk' = [desk EXCEPT ![d] = [op |-> "request", id |-> t, req |-> NULL, actor |-> actor]]
    /\ UNCHANGED <<retentionVars, reqs, schema, worker, audited>>

\* RequestTenantPurge, its insert; the partial unique index rejects a
\* second open request of the tenant.
CreateTenantPurgeRequest(d) ==
    /\ desk[d].op = "request"
    /\ ~\E r \in Requests : IsOpen(r, desk[d].id)
    /\ \E r \in Requests :
          /\ reqs[r].status = "none"
          /\ reqs' = [reqs EXCEPT ![r] = [NoRequest EXCEPT !.status = "pending",
                         !.tenant_id = desk[d].id, !.requested_by = desk[d].actor]]
    /\ desk' = [desk EXCEPT ![d] = NoDesk]
    /\ UNCHANGED <<retentionVars, schema, worker, audited>>

\* Mutant: the requester may approve.
ApproveReadByAnyone(d, t, actor) ==
    /\ desk[d].op = "idle"
    /\ \E r \in Requests :
          /\ IsOpen(r, t)
          /\ reqs[r].status = "pending"
          /\ desk' = [desk EXCEPT ![d] = [op |-> "approve", id |-> t, req |-> r, actor |-> actor]]
    /\ UNCHANGED <<retentionVars, reqs, schema, worker, audited>>

\* ApproveTenantPurge, its read of the open request and the two-person check.
ApproveTenantPurgeRead(d, t, actor) ==
    /\ desk[d].op = "idle"
    /\ \E r \in Requests :
          /\ IsOpen(r, t)
          /\ reqs[r].status = "pending"
          /\ actor # reqs[r].requested_by
          /\ desk' = [desk EXCEPT ![d] = [op |-> "approve", id |-> t, req |-> r, actor |-> actor]]
    /\ UNCHANGED <<retentionVars, reqs, schema, worker, audited>>

\* ApproveTenantPurge, its re-read of the tenant.
ApproveTenantPurgeCheck(d) ==
    /\ desk[d].op = "approve"
    /\ desk' = [desk EXCEPT ![d] = IF tenant[@.id].status = "purge_eligible"
                                   THEN [@ EXCEPT !.op = "approving"] ELSE NoDesk]
    /\ UNCHANGED <<retentionVars, reqs, schema, worker, audited>>

\* Mutant: the approval without AND status = 'pending'.
ApproveUnguarded(d) ==
    /\ desk[d].op = "approving"
    /\ reqs' = [reqs EXCEPT ![desk[d].req] =
          [@ EXCEPT !.status = "approved", !.approved_by = desk[d].actor, !.approved_at = clock]]
    /\ desk' = [desk EXCEPT ![d] = NoDesk]
    /\ UNCHANGED <<retentionVars, schema, worker, audited>>

\* ApproveTenantPurge, its status-guarded write.
ApproveTenantPurgeRequest(d) ==
    /\ desk[d].op = "approving"
    /\ reqs' = [reqs EXCEPT ![desk[d].req] =
          IF @.status = "pending"
          THEN [@ EXCEPT !.status = "approved", !.approved_by = desk[d].actor,
                         !.approved_at = clock]
          ELSE @]
    /\ desk' = [desk EXCEPT ![d] = NoDesk]
    /\ UNCHANGED <<retentionVars, schema, worker, audited>>

\* CancelTenantPurge, its read of the open request.
CancelTenantPurgeRead(d, t) ==
    /\ desk[d].op = "idle"
    /\ \E r \in Requests :
          /\ IsOpen(r, t)
          /\ desk' = [desk EXCEPT ![d] = [op |-> "cancel", id |-> t, req |-> r, actor |-> NULL]]
    /\ UNCHANGED <<retentionVars, reqs, schema, worker, audited>>

\* CancelTenantPurge, its status-guarded write.
CancelTenantPurgeRequest(d) ==
    /\ desk[d].op = "cancel"
    /\ reqs' = [reqs EXCEPT ![desk[d].req] =
          IF @.status \in {"pending", "approved"} THEN [@ EXCEPT !.status = "cancelled"] ELSE @]
    /\ desk' = [desk EXCEPT ![d] = NoDesk]
    /\ UNCHANGED <<retentionVars, schema, worker, audited>>

\* A read or a write of the call fails, or the insert meets an open request.
DeskFails(d) ==
    /\ desk[d].op # "idle"
    /\ desk' = [desk EXCEPT ![d] = NoDesk]
    /\ UNCHANGED <<retentionVars, reqs, schema, worker, audited>>

-----------------------------------------------------------------------------
(***************************************************************************)
(* The purge worker.                                                       *)
(***************************************************************************)

\* ListApprovedTenantPurgeRequests: oldest approval first, at most PurgeBatch.
ApprovedBatches ==
    LET approved == {r \in Requests : reqs[r].status = "approved"}
    IN  {batch \in SUBSET approved :
            /\ Cardinality(batch) <= PurgeBatch
            /\ batch # approved => Cardinality(batch) = PurgeBatch
            /\ \A r \in batch, q \in approved \ batch : reqs[r].approved_at <= reqs[q].approved_at}

WorkerList(w) ==
    /\ worker[w].pc = "idle"
    /\ \E batch \in ApprovedBatches :
          /\ batch # {}
          /\ worker' = [worker EXCEPT ![w] = [pc |-> "run", todo |-> batch, req |-> NULL]]
    /\ UNCHANGED <<retentionVars, reqs, schema, desk, audited>>

\* The run once request r is dealt with.
AfterRequest(run, r) ==
    IF run.todo = {r} THEN NoWorker ELSE [pc |-> "run", todo |-> run.todo \ {r}, req |-> NULL]

\* The transaction of PurgeTenantSchemaAndTombstone: the claim, the DROP and
\* the tombstone take effect together, each under its status guard.
PurgeTransaction(r, t) ==
    /\ reqs[r].status = "approved"
    /\ tenant[t].status = "purge_eligible"
    /\ reqs' = [reqs EXCEPT ![r] = [@ EXCEPT !.status = "executed"]]
    /\ schema' = [schema EXCEPT ![t] = FALSE]
    /\ tenant' = [tenant EXCEPT ![t] = [@ EXCEPT !.status = "purged"]]

\* PurgeApprovedTenant when the transaction commits.  The worker may see an
\* error all the same (an ambiguous commit).
PurgeApprovedTenant(w, r, seen) ==
    /\ worker[w].pc = "run"
    /\ r \in worker[w].todo
    /\ PurgeTransaction(r, reqs[r].tenant_id)
    /\ \/ /\ seen = "ok"
          /\ worker' = [worker EXCEPT ![w] = AfterRequest(@, r)]
          /\ audited' = audited \union {r}
       \/ /\ seen = "error"
          /\ worker' = [worker EXCEPT ![w] = [@ EXCEPT !.pc = "failed", !.req = r]]
          /\ UNCHANGED audited
    /\ UNCHANGED <<clock, sweep, rpc, desk>>

\* PurgeApprovedTenant when the transaction rolls back: the claim or the
\* tombstone matched no row, or a statement failed.
PurgeRolledBack(w, r) ==
    /\ worker[w].pc = "run"
    /\ r \in worker[w].todo
    /\ worker' = [worker EXCEPT ![w] = [@ EXCEPT !.pc = "failed", !.req = r]]
    /\ UNCHANGED <<retentionVars, reqs, schema, desk, audited>>

\* Mutant: the mark without AND status = 'approved'.
MarkFailedUnguarded(w) ==
    /\ worker[w].pc = "failed"
    /\ reqs' = [reqs EXCEPT ![worker[w].req].status = "failed"]
    /\ worker' = [worker EXCEPT ![w] = AfterRequest(@, @.req)]
    /\ UNCHANGED <<retentionVars, schema, desk, audited>>

\* Mutant: the mark guarded by the wrong status.
MarkFailedWrongGuard(w) ==
    /\ worker[w].pc = "failed"
    /\ reqs' = [reqs EXCEPT ![worker[w].req] =
          IF @.status = "pending" THEN [@ EXCEPT !.status = "failed"] ELSE @]
    /\ worker' = [worker EXCEPT ![w] = AfterRequest(@, @.req)]
    /\ UNCHANGED <<retentionVars, schema, desk, audited>>

\* PurgeApprovedTenant's MarkTenantPurgeRequestFailed, guarded by status:
\* no row is the benign case, and the run goes on.
MarkTenantPurgeRequestFailed(w) ==
    /\ worker[w].pc = "failed"
    /\ reqs' = [reqs EXCEPT ![worker[w].req] =
          IF @.status = "approved" THEN [@ EXCEPT !.status = "failed"] ELSE @]
    /\ worker' = [worker EXCEPT ![w] = AfterRequest(@, @.req)]
    /\ UNCHANGED <<retentionVars, schema, desk, audited>>

\* The mark itself fails: the request keeps its status, the run goes on.
MarkFails(w) ==
    /\ worker[w].pc = "failed"
    /\ worker' = [worker EXCEPT ![w] = AfterRequest(@, @.req)]
    /\ UNCHANGED <<retentionVars, reqs, schema, desk, audited>>

\* The run passes its deadline or its pod dies.
WorkerCrash(w) ==
    /\ worker[w].pc # "idle"
    /\ worker' = [worker EXCEPT ![w] = NoWorker]
    /\ UNCHANGED <<retentionVars, reqs, schema, desk, audited>>

-----------------------------------------------------------------------------
DeskStep(d) ==
    \/ \E t \in Tenants, actor \in Admins :
          RequestTenantPurgeRead(d, t, actor) \/ ApproveTenantPurgeRead(d, t, actor)
    \/ \E t \in Tenants : CancelTenantPurgeRead(d, t)
    \/ CreateTenantPurgeRequest(d)
    \/ ApproveTenantPurgeCheck(d)
    \/ ApproveTenantPurgeRequest(d)
    \/ CancelTenantPurgeRequest(d)
    \/ DeskFails(d)

WorkerStep(w) ==
    \/ WorkerList(w)
    \/ \E r \in Requests, seen \in {"ok", "error"} : PurgeApprovedTenant(w, r, seen)
    \/ \E r \in Requests : PurgeRolledBack(w, r)
    \/ MarkTenantPurgeRequestFailed(w)
    \/ MarkFails(w)
    \/ WorkerCrash(w)

PurgeNext ==
    \/ RetentionNext /\ UNCHANGED requestVars
    \/ \E d \in Desks : DeskStep(d)
    \/ \E w \in Workers : WorkerStep(w)

PurgeSpec == PurgeInit /\ [][PurgeNext]_purgeVars

\* The worker is a CronJob that keeps coming back; it does not die before
\* every attempt at a request, nor does the mark fail every time.
PurgeFairness ==
    \A w \in Workers :
        /\ WF_purgeVars(WorkerList(w))
        /\ \A r \in Requests :
              /\ SF_purgeVars(worker[w].req = r /\ MarkTenantPurgeRequestFailed(w))
              /\ SF_purgeVars(\/ PurgeRolledBack(w, r)
                             \/ \E seen \in {"ok", "error"} : PurgeApprovedTenant(w, r, seen))

PurgeFairSpec == PurgeSpec /\ PurgeFairness /\ RetentionFairness

-----------------------------------------------------------------------------
(***************************************************************************)
(* Properties.                                                             *)
(***************************************************************************)

\* The types of the tables and of what the processes hold.
PurgeTypeOK ==
    /\ RetentionTypeOK
    /\ reqs \in [Requests -> Request]
    /\ schema \in [Tenants -> BOOLEAN]
    /\ desk \in [Desks -> DeskCall]
    /\ worker \in [Workers -> WorkerRun]
    /\ audited \subseteq Requests

\* Two-person control: a request that was ever approved names an approver,
\* and not the admin who opened it, whatever calls of the two overlapped
\* (purge.go, ApproveTenantPurge).
TwoPersonControl ==
    \A r \in Requests : reqs[r].status \in {"approved", "executed", "failed"} =>
        /\ reqs[r].approved_by \in Admins
        /\ reqs[r].requested_by \in Admins
        /\ reqs[r].approved_by # reqs[r].requested_by

\* Data is destroyed exactly by executed requests: a schema is gone if and
\* only if some request of that tenant is executed, so a cancelled, failed or
\* still open request never cost the tenant its data, ambiguous commits and
\* crashes of the worker included (PurgeTenantSchemaAndTombstone).
DroppedIffExecuted ==
    \A t \in Tenants :
        ~schema[t] <=> \E r \in Requests : reqs[r].tenant_id = t /\ reqs[r].status = "executed"

\* Data is destroyed only after the whole retention window, from the first
\* suspension over the first deactivation (lifecycle.go and purge.go).
DroppedAfterRetention ==
    \A t \in Tenants : ~schema[t] =>
        /\ Elapsed(tenant[t].deactivated_at, DeactivatedToPurgeDuration, clock)
        /\ Elapsed(tenant[t].suspended_at, GraceToDeactivatedDuration, tenant[t].deactivated_at)

\* At most one open request per tenant (the index tenant_purge_requests_one_open
\* and CreateTenantPurgeRequest).
OneOpenRequest ==
    \A t \in Tenants, r, q \in Requests : IsOpen(r, t) /\ IsOpen(q, t) => r = q

\* A success audit event is written only for a purge that happened
\* (purge.go, PurgeApprovedTenant).
AuditedIsExecuted == \A r \in audited : reqs[r].status = "executed"

\* A request that was executed, failed or cancelled keeps that status: a
\* late approval, cancel, claim or mark-failed never revives or relabels it
\* (the status guards of the four UPDATEs).
ClosedIsFinal ==
    [][\A r \in Requests : reqs[r].status \in {"executed", "failed", "cancelled"} =>
          reqs'[r] = reqs[r]]_purgeVars

\* Every approved request is settled: executed, failed or cancelled.
ApprovedIsSettled ==
    \A r \in Requests : reqs[r].status = "approved" ~> reqs[r].status # "approved"

=============================================================================
