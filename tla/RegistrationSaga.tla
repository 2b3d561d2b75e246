-------------------------- MODULE RegistrationSaga --------------------------
(***************************************************************************)
(* The registration saga (pkg/registration/saga.go) for one email and one  *)
(* company: Orchestrator.Start and Resume run nine steps, save the saga    *)
(* after each, and compensate when a critical step fails.  Every step, save *)
(* and compensating call is a round trip of its own; each may fail, a call *)
(* may be executed although its answer is lost, and a process may crash    *)
(* between any two.                                                        *)
(***************************************************************************)
EXTENDS Integers, FiniteSets

CONSTANTS
    Workers,    \* requests running the orchestrator
    Seeders,    \* steps 4 to 7, alike in every respect: 4 of them
    Couriers,   \* steps 8 and 9, the event and the email: 2 of them
    MaxSagas,   \* bound on the rows of registration_sagas
    MaxTenants, \* bound on the tenants ever created
    NULL

\* Saga ids in the order of created_at, tenant ids in the order of creation.
Sagas == 1 .. MaxSagas
Tenants == 1 .. MaxTenants

CreateTenant == 1
CreateUser == 2
BindVertical == 3
LastCritical == BindVertical + Seeders  \* they write to the tenant's schema
LastStep == LastCritical + Couriers

VARIABLES
    saga,       \* registration_sagas
    provision,  \* for each tenant, the steps whose effect is in the database
    minted,     \* the tenants created so far
    worker,     \* the runs in progress
    undone,     \* sagas for which a compensating call has been executed
    overlapped, \* sagas resumed while another run, or an undoing, was about
    abandoned   \* sagas whose process died or whose last save failed

sagaVars == <<saga, provision, minted, worker, undone, overlapped, abandoned>>

Statuses == {"in_progress", "completed", "failed", "compensating", "compensated",
             "compensation_failed"}

\* CompletedSteps is always a prefix of the nine steps: done is its length.
Row == [status: Statuses, done: 0 .. LastStep, tenant: Tenants \union {NULL}]

ASSUME SagaAssumption ==
    {Seeders, Couriers, MaxSagas, MaxTenants} \subseteq Nat /\ NULL \notin Nat /\ NULL \notin Row

NewRow == [status |-> "in_progress", done |-> 0, tenant |-> NULL]

\* errors: some compensating call of this run has failed.
NoRun == [pc |-> "idle", id |-> NULL, mem |-> NewRow, errors |-> FALSE]

RunState == [pc: {"idle", "create", "resume", "step", "save", "fail", "giveUp", "compensating",
                  "unbind", "deleteUser", "deleteTenant", "conclude", "settle"},
             id: Sagas \union {NULL}, mem: Row, errors: BOOLEAN]

SagaTypeOK ==
    /\ saga \in [Sagas -> Row \union {NULL}]
    /\ provision \in [Tenants -> SUBSET (1 .. LastCritical)]
    /\ minted \in 0 .. MaxTenants
    /\ worker \in [Workers -> RunState]
    /\ undone \subseteq Sagas /\ overlapped \subseteq Sagas /\ abandoned \subseteq Sagas

SagaInit ==
    /\ saga = [s \in Sagas |-> NULL]
    /\ provision = [t \in Tenants |-> {}] /\ minted = 0
    /\ worker = [w \in Workers |-> NoRun]
    /\ undone = {} /\ overlapped = {} /\ abandoned = {}

\* How run begins: loadVerticalConfig, whose failure marks the saga failed
\* and undoes nothing, then the first step that is not done (after the last
\* one, only the final save is left).
Run(id, mem) ==
    {[NoRun EXCEPT !.pc = "giveUp", !.id = id, !.mem = [mem EXCEPT !.status = "failed"]],
     [NoRun EXCEPT !.pc = IF mem.done = LastStep THEN "settle" ELSE "step", !.id = id,
                   !.mem = IF mem.done = LastStep THEN [mem EXCEPT !.status = "completed"] ELSE mem]}

Created == {s \in Sagas : saga[s] # NULL}

Latest == CHOOSE s \in Created : \A r \in Created : r <= s

-----------------------------------------------------------------------------
(* Start and Resume                                                        *)

\* GetByEmail: a completed, running or failed saga is returned as it is;
\* any other status, compensating included, lets a new saga begin.
Start(w) ==
    /\ worker[w].pc = "idle"
    /\ Created # {} => saga[Latest].status \notin {"completed", "in_progress", "failed"}
    /\ Cardinality(Created) < MaxSagas
    /\ worker' = [worker EXCEPT ![w].pc = "create"]
    /\ UNCHANGED <<saga, provision, minted, undone, overlapped, abandoned>>

\* SagaStore.Create: there is no unique index on the email.
Create(w) ==
    LET s == Cardinality(Created) + 1 IN
    /\ worker[w].pc = "create"
    /\ s \in Sagas
    /\ saga' = [saga EXCEPT ![s] = NewRow]
    /\ \E run \in Run(s, NewRow) : worker' = [worker EXCEPT ![w] = run]
    /\ UNCHANGED <<provision, minted, undone, overlapped, abandoned>>

\* Resume loads the saga, which must be failed, ...
ResumeRead(w, s) ==
    /\ worker[w].pc = "idle"
    /\ s \in Created /\ saga[s].status = "failed"
    /\ worker' = [worker EXCEPT ![w] = [NoRun EXCEPT !.pc = "resume", !.id = s,
                                        !.mem = [saga[s] EXCEPT !.status = "in_progress"]]]
    /\ UNCHANGED <<saga, provision, minted, undone, overlapped, abandoned>>

\* ... and writes it back as in progress, without checking it again.
Resume(w) ==
    LET s == worker[w].id IN
    /\ worker[w].pc = "resume"
    /\ saga' = [saga EXCEPT ![s] = worker[w].mem]
    /\ \E run \in Run(s, worker[w].mem) : worker' = [worker EXCEPT ![w] = run]
    /\ overlapped' = IF s \in undone \/ \E v \in Workers \ {w} : worker[v].id = s
                     THEN overlapped \union {s} ELSE overlapped
    /\ UNCHANGED <<provision, minted, undone, abandoned>>

-----------------------------------------------------------------------------
(* run: the step after mem.done                                            *)

\* What the databases allow: one tenant per (normalised) company name, one
\* user per tenant and email, nothing in a tenant that is gone.  (Seeding the
\* chart of accounts a second time fails too; see ChartOfAccounts.)
Possible(t, n) ==
    CASE n = CreateTenant -> (\A r \in Tenants : provision[r] = {}) /\ minted < MaxTenants
      [] n = CreateUser -> CreateTenant \in provision[t] /\ CreateUser \notin provision[t]
      [] OTHER -> CreateTenant \in provision[t]

StepOf(w) == worker[w].mem.done + 1

\* Step 1 works on a new tenant id, the others on the saga's.
TargetOf(w) == IF StepOf(w) = CreateTenant THEN minted + 1 ELSE worker[w].mem.tenant

Execute(t, n) ==
    /\ Possible(t, n)
    /\ provision' = [provision EXCEPT ![t] = @ \union {n}]
    /\ minted' = IF n = CreateTenant THEN t ELSE minted

StepSucceeds(w) ==
    /\ worker[w].pc = "step" /\ StepOf(w) <= LastCritical
    /\ Execute(TargetOf(w), StepOf(w))
    /\ worker' = [worker EXCEPT ![w].pc = "save", ![w].mem.done = StepOf(w),
                                ![w].mem.tenant = TargetOf(w)]
    /\ UNCHANGED <<saga, undone, overlapped, abandoned>>

\* Mutant: a failing critical step is skipped like a best-effort one.
StepSkipped(w) ==
    /\ worker[w].pc = "step" /\ StepOf(w) <= LastCritical
    /\ Execute(TargetOf(w), StepOf(w)) \/ UNCHANGED <<provision, minted>>
    /\ worker' = [worker EXCEPT ![w].pc = IF StepOf(w) = CreateTenant THEN "giveUp" ELSE "save",
                                ![w].mem.done = IF StepOf(w) = CreateTenant THEN 0 ELSE StepOf(w),
                                ![w].mem.status = IF StepOf(w) = CreateTenant THEN "failed" ELSE @]
    /\ UNCHANGED <<saga, undone, overlapped, abandoned>>

\* The step returns an error, executed or not.  A failed CreateTenant ends
\* the run (failSaga); a later step is compensated (failAndCompensate).
StepFails(w) ==
    /\ worker[w].pc = "step" /\ StepOf(w) <= LastCritical
    /\ Execute(TargetOf(w), StepOf(w)) \/ UNCHANGED <<provision, minted>>
    /\ worker' = [worker EXCEPT ![w].pc = IF StepOf(w) = CreateTenant THEN "giveUp" ELSE "fail",
                                ![w].mem.status = "failed"]
    /\ UNCHANGED <<saga, undone, overlapped, abandoned>>

\* PublishTenantCreated and SendWelcomeEmail: done whatever they return.
BestEffortStep(w) ==
    /\ worker[w].pc = "step" /\ StepOf(w) \in LastCritical + 1 .. LastStep
    /\ worker' = [worker EXCEPT ![w].pc = "save", ![w].mem.done = @ + 1]
    /\ UNCHANGED <<saga, provision, minted, undone, overlapped, abandoned>>

\* Mutant: the errors of the compensating calls are only logged.
SavedRegardless(w) ==
    IF worker[w].pc # "conclude" THEN worker[w].mem
    ELSE [worker[w].mem EXCEPT !.status = "compensated"]

\* The saga as it is saved: compensated once nothing is left to undo.
Saved(w) ==
    IF worker[w].pc # "conclude" THEN worker[w].mem
    ELSE [worker[w].mem EXCEPT !.status = IF worker[w].errors THEN "compensation_failed"
                                          ELSE "compensated"]

Abandon(w, last) == abandoned' = IF last THEN abandoned \union {worker[w].id} ELSE abandoned

\* Mutant: failSaga returns the error without saving the saga.
PersistUnlessFailed(w) ==
    LET pc == worker[w].pc IN
    /\ pc \in {"save", "fail", "giveUp", "compensating", "conclude", "settle"}
    /\ IF pc = "giveUp" THEN UNCHANGED saga ELSE saga' = [saga EXCEPT ![worker[w].id] = Saved(w)]
    /\ worker' = [worker EXCEPT ![w] =
                    CASE pc = "save" /\ worker[w].mem.done < LastStep -> [@ EXCEPT !.pc = "step"]
                      [] pc = "fail" -> [@ EXCEPT !.pc = "compensating", !.mem.status = "compensating"]
                      [] pc = "compensating" -> [@ EXCEPT !.pc = "unbind"]
                      [] OTHER -> NoRun]
    /\ UNCHANGED <<provision, minted, undone, overlapped, abandoned>>

\* persist: a failed write is logged and forgotten.
Persist(w) ==
    LET pc == worker[w].pc IN
    /\ pc \in {"save", "fail", "giveUp", "compensating", "conclude", "settle"}
    /\ \/ saga' = [saga EXCEPT ![worker[w].id] = Saved(w)] /\ UNCHANGED abandoned
       \/ UNCHANGED saga /\ Abandon(w, pc \in {"giveUp", "conclude", "settle"})
    /\ worker' = [worker EXCEPT ![w] =
                    CASE pc = "save" /\ worker[w].mem.done < LastStep -> [@ EXCEPT !.pc = "step"]
                      [] pc = "save" /\ worker[w].mem.done = LastStep -> [@ EXCEPT !.pc = "settle",
                                                                 !.mem.status = "completed"]
                      [] pc = "fail" -> [@ EXCEPT !.pc = "compensating", !.mem.status = "compensating"]
                      [] pc = "compensating" -> [@ EXCEPT !.pc = "unbind"]
                      [] OTHER -> NoRun]
    /\ UNCHANGED <<provision, minted, undone, overlapped>>

-----------------------------------------------------------------------------
(* failAndCompensate: UnbindVertical, DeleteUser, DeleteTenant             *)

Undo(w, step, removed, next) ==
    LET t == worker[w].mem.tenant IN
    IF worker[w].mem.done < step
    THEN /\ worker' = [worker EXCEPT ![w].pc = next]
         /\ UNCHANGED <<provision, undone>>
    ELSE \E executed, failed \in BOOLEAN :
            /\ executed \/ failed
            /\ provision' = IF executed THEN [provision EXCEPT ![t] = @ \ removed] ELSE provision
            /\ undone' = undone \union {worker[w].id}
            /\ worker' = [worker EXCEPT ![w].pc = next, ![w].errors = @ \/ failed]

UnbindVertical(w) ==
    /\ worker[w].pc = "unbind"
    /\ Undo(w, BindVertical, {BindVertical}, "deleteUser")
    /\ UNCHANGED <<saga, minted, overlapped, abandoned>>

DeleteUser(w) ==
    /\ worker[w].pc = "deleteUser"
    /\ Undo(w, CreateUser, {CreateUser}, "deleteTenant")
    /\ UNCHANGED <<saga, minted, overlapped, abandoned>>

\* Removes the row and drops the schema, and with it what steps 4 to 7 seeded.
DeleteTenant(w) ==
    /\ worker[w].pc = "deleteTenant"
    /\ Undo(w, CreateTenant, 1 .. LastCritical, "conclude")
    /\ UNCHANGED <<saga, minted, overlapped, abandoned>>

-----------------------------------------------------------------------------
\* The process dies: what it had not saved is forgotten.
Crash(w) ==
    /\ worker[w].pc # "idle"
    /\ worker' = [worker EXCEPT ![w] = NoRun]
    /\ Abandon(w, worker[w].pc \notin {"create", "resume"})
    /\ UNCHANGED <<saga, provision, minted, undone, overlapped>>

RunStep(w) ==
    \/ Create(w) \/ Resume(w)
    \/ StepSucceeds(w) \/ StepFails(w) \/ BestEffortStep(w) \/ Persist(w)
    \/ UnbindVertical(w) \/ DeleteUser(w) \/ DeleteTenant(w)

SagaNext == \E w \in Workers :
    Start(w) \/ (\E s \in Sagas : ResumeRead(w, s)) \/ RunStep(w) \/ Crash(w)

SagaSpec == SagaInit /\ [][SagaNext]_sagaVars

-----------------------------------------------------------------------------
(* Properties                                                              *)

\* A completed registration is one: the tenant, its admin, its vertical and
\* all its seed data are there, unless the saga was resumed while another
\* run of it, or the undoing of its steps, was under way or already over
\* (Resume trusts a status that failSaga saves before compensation starts).
CompletedIsProvisioned ==
    \A s \in Created \ overlapped :
        saga[s].status = "completed" => provision[saga[s].tenant] = 1 .. LastCritical

\* A saga saved as compensated has left nothing behind, "the system is back
\* to the pre-registration state", with the same exception.
CompensatedLeavesNothing ==
    \A s \in Created \ overlapped :
        saga[s].status = "compensated" => provision[saga[s].tenant] = {}

\* However many sagas two racing Starts create for an email, at most one of
\* them completes: the unique company name stops the others at step 1.
OneCompleted == Cardinality({s \in Created \ overlapped : saga[s].status = "completed"}) <= 1

\* "A process crash or network partition leaves a recoverable record": a saga no
\* process is running any more has reached a status Start or Resume can go on
\* from, unless its process died or its last save was lost.  Those stay in
\* progress, or compensating, for ever: nothing looks for them.
UnattendedIsSettled ==
    \A s \in Created \ (abandoned \union overlapped) :
        (\A w \in Workers : worker[w].id # s) => saga[s].status \notin {"in_progress", "compensating"}
=============================================================================
