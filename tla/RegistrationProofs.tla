------------------------- MODULE RegistrationProofs -------------------------
(***************************************************************************)
(* Proofs about the saga that registers a tenant: a completed run has      *)
(* provisioned everything, a compensated one leaves nothing behind, and one *)
(* registration completes per key, for any number of keys and workers.     *)
(***************************************************************************)
EXTENDS RegistrationSaga, FiniteSetTheorems, TLAPS

\* Most leaves are first-order: Zenon proves them.  Those that need arithmetic cite SMT, with
\* SMTT(30) as a second and longer try; ZenonT(40) gives a leaf more time.
USE Zenon

-----------------------------------------------------------------------------
(* The registration saga                                                   *)

\* Where a run is that compensates.
Undoing == {"compensating", "unbind", "deleteUser", "deleteTenant", "conclude"}
Running(w) == worker[w].pc \notin {"idle", "create", "resume"}

\* A tenant id is recorded with the first step, and was handed out before.
RowIsSound(r) == (r.done = 0 <=> r.tenant = NULL) /\ (r.tenant # NULL => r.tenant <= minted)

\* What a run holds at each point of run and failAndCompensate.
RunIsSound(k) ==
    /\ k.pc = "idle" => k = NoRun
    /\ k.pc \in {"idle", "create"} => k.id = NULL /\ k.mem = NewRow
    /\ k.pc \notin {"idle", "create"} => k.id \in Created
    /\ RowIsSound(k.mem)
    /\ k.pc \in {"resume", "step", "save"} => k.mem.status = "in_progress"
    /\ k.pc \in {"giveUp", "fail"} => k.mem.status = "failed"
    /\ k.pc = "settle" => k.mem.status = "completed" /\ k.mem.done = LastStep
    /\ k.pc \in Undoing => k.mem.status = "compensating"
    /\ k.pc \in Undoing \union {"fail"} => k.mem.done >= 1
    /\ k.pc = "step" => k.mem.done < LastStep

\* The shape of the state: ids are handed out in order, and a run works on a saga there is.
ShapeInv ==
    /\ SagaTypeOK
    /\ \E n \in 0 .. MaxSagas : Created = 1 .. n
    /\ undone \subseteq Created /\ overlapped \subseteq Created
    /\ \A s \in Created : RowIsSound(saga[s])
    /\ \A w \in Workers : RunIsSound(worker[w])

\* Saga s says, in its row or in the memory of a run, that d steps are done on tenant t.
Claim(s, t, d) ==
    \/ s \in Created /\ saga[s].tenant = t /\ saga[s].done = d
    \/ \E w \in Workers : worker[w].id = s /\ worker[w].mem.tenant = t /\ worker[w].mem.done = d

\* A tenant belongs to one saga, and unless its undoing has begun the steps it claims are in the
\* database.
ClaimsInv ==
    /\ \A s, r \in Sagas, t \in Tenants, d, e \in 0 .. LastStep : Claim(s, t, d) /\ Claim(r, t, e) => s = r
    /\ \A s \in Sagas \ undone, t \in Tenants, d \in 0 .. LastStep :
          Claim(s, t, d) => \A n \in 1 .. LastCritical : n <= d => n \in provision[t]

\* The unique company name leaves room for one tenant at a time.
TenantsInv ==
    /\ \A t, r \in Tenants : provision[t] # {} /\ provision[r] # {} => t = r
    /\ \A t \in Tenants : provision[t] # {} => t <= minted

\* One saga that was never resumed under another run.
SagaIsExclusive(s) ==
    /\ \A v, w \in Workers : worker[v].id = s /\ worker[w].id = s /\ Running(v) /\ Running(w) => v = w
    /\ \A w \in Workers : worker[w].id = s /\ Running(w) /\ worker[w].pc \notin Undoing =>
          /\ s \notin undone /\ saga[s].status = "in_progress"
          /\ \A v \in Workers : worker[v].id = s => v = w
    /\ \A w \in Workers : worker[w].id = s /\ worker[w].pc \in Undoing =>
          saga[s].status \in {"in_progress", "failed", "compensating"}
    /\ \A w \in Workers : worker[w].id = s /\ worker[w].pc = "conclude" =>
          s \in undone /\ (~worker[w].errors => provision[worker[w].mem.tenant] = {})
    /\ saga[s].status = "completed" =>
          s \notin undone /\ saga[s].done = LastStep /\ \A w \in Workers : worker[w].id # s
    /\ saga[s].status = "compensated" =>
          /\ s \in undone /\ saga[s].tenant # NULL /\ provision[saga[s].tenant] = {}
          /\ \A w \in Workers : worker[w].id = s => ~Running(w)

\* The sagas that nobody runs twice.
ExclusiveInv == \A s \in Created \ overlapped : SagaIsExclusive(s)

\* A saga is being run, has ended, or was given up by its process.
AttendedInv ==
    \A s \in Created \ (abandoned \union overlapped) :
        \/ \E w \in Workers : worker[w].id = s /\ Running(w)
        \/ saga[s].status \in {"completed", "failed", "compensated", "compensation_failed"}

\* The number of steps, and what NULL is not.
LEMMA StepNumbers ==
    /\ Seeders \in Nat /\ Couriers \in Nat /\ MaxSagas \in Nat /\ MaxTenants \in Nat
    /\ LastCritical \in Nat /\ LastStep \in Nat /\ 3 <= LastCritical /\ LastCritical <= LastStep
    /\ NULL \notin Sagas /\ NULL \notin Tenants /\ NULL \notin Row
    /\ NewRow \in Row /\ NewRow # NULL /\ NoRun \in RunState
    /\ NewRow.done = 0 /\ NewRow.tenant = NULL /\ NewRow.status = "in_progress"
    /\ NoRun.pc = "idle" /\ NoRun.id = NULL /\ NoRun.mem = NewRow /\ NoRun.errors = FALSE
<1>1. /\ Seeders \in Nat /\ Couriers \in Nat /\ MaxSagas \in Nat /\ MaxTenants \in Nat
      /\ NULL \notin Sagas /\ NULL \notin Tenants /\ NULL \notin Row
      BY SagaAssumption, SMT, SMTT(30) DEF Sagas, Tenants
<1>2. LastCritical \in Nat /\ LastStep \in Nat /\ 3 <= LastCritical /\ LastCritical <= LastStep
      BY <1>1, SMT, SMTT(30) DEF LastCritical, LastStep, BindVertical
<1>3. NewRow \in Row /\ NewRow.done = 0 /\ NewRow.tenant = NULL /\ NewRow.status = "in_progress"
      BY <1>2, SMT, SMTT(30) DEF NewRow, Row, Statuses
<1>4. NoRun \in RunState /\ NoRun.pc = "idle" /\ NoRun.id = NULL /\ NoRun.mem = NewRow /\ NoRun.errors = FALSE
      BY <1>3 DEF NoRun, RunState
<1>5. NewRow # NULL
      BY <1>1, <1>3
<1>q. QED BY <1>1, <1>2, <1>3, <1>4, <1>5

\* A run's record, and the row of a saga there is.
LEMMA RunFields ==
    ASSUME ShapeInv
    PROVE  /\ \A w \in Workers : /\ worker[w] \in RunState /\ worker[w].mem \in Row /\ worker[w].errors \in BOOLEAN
                                 /\ RunIsSound(worker[w])
                                 /\ worker[w].mem.tenant \in Tenants \union {NULL} /\ worker[w].mem.done \in 0 .. LastStep
           /\ \A s \in Created : /\ s \in Sagas /\ saga[s] \in Row /\ saga[s] # NULL /\ RowIsSound(saga[s])
                                 /\ saga[s].tenant \in Tenants \union {NULL} /\ saga[s].done \in 0 .. LastStep
           /\ minted \in Nat /\ worker \in [Workers -> RunState]
<1>1. ASSUME NEW w \in Workers PROVE worker[w] \in RunState
      BY DEF ShapeInv, SagaTypeOK
<1>2. ASSUME NEW w \in Workers PROVE worker[w].mem \in Row /\ worker[w].errors \in BOOLEAN
      BY <1>1 DEF RunState
<1>3. ASSUME NEW s \in Created PROVE s \in Sagas /\ saga[s] \in Row /\ saga[s] # NULL /\ RowIsSound(saga[s])
      BY DEF ShapeInv, SagaTypeOK, Created
<1>4. minted \in Nat
      BY StepNumbers, SMT, SMTT(30) DEF ShapeInv, SagaTypeOK
<1>5. \A r \in Row : r.tenant \in Tenants \union {NULL} /\ r.done \in 0 .. LastStep
      BY DEF Row
<1>6. worker \in [Workers -> RunState]
      BY DEF ShapeInv, SagaTypeOK
<1>q. QED BY <1>1, <1>2, <1>3, <1>4, <1>5, <1>6 DEF ShapeInv

\* How run begins.
LEMMA RunBegins ==
    ASSUME NEW id \in Sagas, NEW mem \in Row, NEW k \in Run(id, mem), mem.status = "in_progress"
    PROVE  /\ k \in RunState /\ k.id = id /\ k.mem.done = mem.done /\ k.mem.tenant = mem.tenant
           /\ k.pc \in {"giveUp", "settle", "step"}
           /\ k.pc = "giveUp" => k.mem.status = "failed"
           /\ k.pc = "settle" => k.mem.status = "completed" /\ mem.done = LastStep
           /\ k.pc = "step" => k.mem = mem /\ mem.done < LastStep
<1>0. mem.done \in 0 .. LastStep /\ LastStep \in Nat
      BY StepNumbers DEF Row
<1>1. PICK mf : mf = [mem EXCEPT !.status = "failed"]
      OBVIOUS
<1>2. PICK mc : mc = [mem EXCEPT !.status = "completed"]
      OBVIOUS
<1>3. mf \in Row /\ mf.done = mem.done /\ mf.tenant = mem.tenant /\ mf.status = "failed"
      BY <1>1 DEF Row, Statuses
<1>4. mc \in Row /\ mc.done = mem.done /\ mc.tenant = mem.tenant /\ mc.status = "completed"
      BY <1>2 DEF Row, Statuses
<1>5. \/ k = [pc |-> "giveUp", id |-> id, mem |-> mf, errors |-> FALSE]
      \/ mem.done = LastStep /\ k = [pc |-> "settle", id |-> id, mem |-> mc, errors |-> FALSE]
      \/ mem.done # LastStep /\ k = [pc |-> "step", id |-> id, mem |-> mem, errors |-> FALSE]
      BY <1>1, <1>2 DEF Run, NoRun
<1>6. CASE k = [pc |-> "giveUp", id |-> id, mem |-> mf, errors |-> FALSE]
      BY <1>3, <1>6 DEF RunState
<1>7. CASE mem.done = LastStep /\ k = [pc |-> "settle", id |-> id, mem |-> mc, errors |-> FALSE]
      BY <1>4, <1>7 DEF RunState
<1>8. CASE mem.done # LastStep /\ k = [pc |-> "step", id |-> id, mem |-> mem, errors |-> FALSE]
      BY <1>0, <1>8, SMT, SMTT(30) DEF RunState
<1>q. QED BY <1>5, <1>6, <1>7, <1>8

\* Every step is one of one run: the others keep their records.
LEMMA OneRunMoves ==
    ASSUME ShapeInv, NEW w \in Workers, NEW k \in RunState, worker' = [worker EXCEPT ![w] = k]
    PROVE  worker'[w] = k /\ (\A v \in Workers \ {w} : worker'[v] = worker[v]) /\ worker' \in [Workers -> RunState]
BY DEF ShapeInv, SagaTypeOK

\* What a step has to show to keep the shape of the state.
LEMMA ShapeKept ==
    ASSUME ShapeInv, NEW w \in Workers, NEW k \in RunState, worker' = [worker EXCEPT ![w] = k], RunIsSound(k)',
           saga' \in [Sagas -> Row \union {NULL}], Created \subseteq Created',
           \E n \in 0 .. MaxSagas : Created' = 1 .. n,
           \A s \in Created' : (s \in Created /\ saga'[s] = saga[s]) \/ RowIsSound(saga[s])',
           provision' \in [Tenants -> SUBSET (1 .. LastCritical)],
           minted' \in 0 .. MaxTenants, minted <= minted',
           undone' \subseteq Created', overlapped' \subseteq Created', abandoned' \subseteq Sagas
    PROVE  ShapeInv'
<1>0. minted \in Nat /\ minted' \in Nat
      BY RunFields, StepNumbers, SMT, SMTT(30)
<1>1. SagaTypeOK'
  <2>1. undone' \subseteq Sagas /\ overlapped' \subseteq Sagas
        BY DEF Created
  <2>q. QED BY <2>1, OneRunMoves DEF SagaTypeOK
<1>2. ASSUME NEW s \in Created' PROVE RowIsSound(saga[s])'
  <2>1. CASE s \in Created /\ saga'[s] = saga[s]
    <3>1. RowIsSound(saga[s]) /\ saga[s].tenant \in Tenants \union {NULL}
          BY <2>1, RunFields
    <3>q. QED BY <1>0, <2>1, <3>1, SMT, SMTT(30) DEF RowIsSound, Tenants
  <2>q. QED BY <1>2, <2>1
<1>3. ASSUME NEW v \in Workers PROVE RunIsSound(worker[v])'
  <2>1. CASE v = w
        BY <2>1, OneRunMoves DEF RunIsSound, RowIsSound
  <2>2. CASE v # w
    <3>1. worker'[v] = worker[v] /\ RunIsSound(worker[v]) /\ worker[v].mem.tenant \in Tenants \union {NULL}
          BY <2>2, OneRunMoves, RunFields
    <3>2. RowIsSound(worker[v].mem)'
          BY <1>0, <3>1, SMT, SMTT(30) DEF RunIsSound, RowIsSound, Tenants
    <3>q. QED BY <3>1, <3>2 DEF RunIsSound
  <2>q. QED BY <2>1, <2>2
<1>q. QED BY <1>1, <1>2, <1>3 DEF ShapeInv

\* Start reserves the worker, Resume's first half copies the row.
LEMMA StartMoves ==
    ASSUME ShapeInv, NEW w \in Workers, Start(w)
    PROVE  /\ \E k \in RunState : worker' = [worker EXCEPT ![w] = k] /\ k.pc = "create" /\ k.id = NULL /\ k.mem = NewRow
           /\ worker[w] = NoRun /\ UNCHANGED <<saga, provision, minted, undone, overlapped, abandoned>>
<1>1. worker[w].pc = "idle" /\ worker' = [worker EXCEPT ![w].pc = "create"]
      BY DEF Start
<1>2. worker[w] = NoRun /\ worker \in [Workers -> RunState]
      BY <1>1, RunFields DEF RunIsSound
<1>3. PICK k : k = [NoRun EXCEPT !.pc = "create"]
      OBVIOUS
<1>4. k \in RunState /\ k.pc = "create" /\ k.id = NULL /\ k.mem = NewRow
      BY <1>3, StepNumbers DEF RunState, NoRun
<1>5. worker' = [worker EXCEPT ![w] = k]
      BY <1>1, <1>2, <1>3
<1>q. QED BY <1>2, <1>4, <1>5 DEF Start

\* ResumeSaga reads a failed row: the run it holds is that row, in progress again.
LEMMA ResumeReadMoves ==
    ASSUME ShapeInv, NEW w \in Workers, NEW s \in Sagas, ResumeRead(w, s)
    PROVE  /\ \E k \in RunState :
                 /\ worker' = [worker EXCEPT ![w] = k] /\ k.pc = "resume" /\ k.id = s
                 /\ k.mem.done = saga[s].done /\ k.mem.tenant = saga[s].tenant /\ k.mem.status = "in_progress"
           /\ s \in Created /\ saga[s].status = "failed" /\ worker[w] = NoRun
           /\ UNCHANGED <<saga, provision, minted, undone, overlapped, abandoned>>
<1>1. worker[w] = NoRun /\ s \in Created /\ saga[s].status = "failed" /\ saga[s] \in Row
      BY RunFields DEF ResumeRead, RunIsSound
<1>2. PICK m : m = [saga[s] EXCEPT !.status = "in_progress"]
      OBVIOUS
<1>3. m \in Row /\ m.done = saga[s].done /\ m.tenant = saga[s].tenant /\ m.status = "in_progress"
      BY <1>1, <1>2 DEF Row, Statuses
<1>4. PICK k : k = [NoRun EXCEPT !.pc = "resume", !.id = s, !.mem = m]
      OBVIOUS
<1>5. k \in RunState /\ k.pc = "resume" /\ k.id = s /\ k.mem = m
      BY <1>3, <1>4 DEF RunState, NoRun
<1>6. worker' = [worker EXCEPT ![w] = k]
      BY <1>2, <1>4 DEF ResumeRead
<1>q. QED BY <1>1, <1>3, <1>5, <1>6 DEF ResumeRead

\* SagaStore.Create hands out the next id.
LEMMA CreateMoves ==
    ASSUME ShapeInv, NEW w \in Workers, Create(w)
    PROVE  \E s \in Sagas \ Created : \E k \in Run(s, NewRow) :
              /\ worker' = [worker EXCEPT ![w] = k] /\ saga' = [saga EXCEPT ![s] = NewRow]
              /\ Created' = Created \union {s} /\ (\E n \in 0 .. MaxSagas : Created' = 1 .. n)
              /\ worker[w].pc = "create" /\ UNCHANGED <<provision, minted, undone, overlapped, abandoned>>
<1>1. PICK n \in 0 .. MaxSagas : Created = 1 .. n
      BY DEF ShapeInv
<1>2. Cardinality(Created) = n /\ n \in Nat /\ MaxSagas \in Nat
  <2>1. n \in Nat /\ MaxSagas \in Nat
        BY StepNumbers, SMT, SMTT(30)
  <2>2. Cardinality(1 .. n) = IF 1 > n THEN 0 ELSE n - 1 + 1
        BY <2>1, FS_Interval, SMT, SMTT(30)
  <2>q. QED BY <1>1, <2>1, <2>2, SMT, SMTT(30)
<1>3. n + 1 \in Sagas \ Created /\ 1 .. n + 1 = Created \union {n + 1} /\ n + 1 \in 0 .. MaxSagas
      BY <1>1, <1>2, SMT, SMTT(30) DEF Create, Sagas
<1>4. PICK s : s = n + 1
      OBVIOUS
<1>5. /\ saga' = [saga EXCEPT ![s] = NewRow] /\ \E k \in Run(s, NewRow) : worker' = [worker EXCEPT ![w] = k]
      BY <1>2, <1>4 DEF Create
<1>6. Created' = Created \union {s}
      BY <1>3, <1>4, <1>5, StepNumbers, SMT, SMTT(30) DEF Created, ShapeInv, SagaTypeOK
<1>q. QED BY <1>3, <1>4, <1>5, <1>6 DEF Create

\* ResumeSaga saves the row it read and goes on; unless somebody else runs or has undone the
\* saga meanwhile, it is alone with it.
LEMMA ResumeMoves ==
    ASSUME ShapeInv, NEW w \in Workers, Resume(w)
    PROVE  /\ \E k \in Run(worker[w].id, worker[w].mem) : worker' = [worker EXCEPT ![w] = k]
           /\ worker[w].id \in Created /\ saga' = [saga EXCEPT ![worker[w].id] = worker[w].mem]
           /\ worker[w].pc = "resume" /\ worker[w].mem.status = "in_progress" /\ Created' = Created
           /\ overlapped \subseteq overlapped' /\ overlapped' \subseteq overlapped \union {worker[w].id}
           /\ worker[w].id \notin overlapped' =>
                 worker[w].id \notin undone /\ \A v \in Workers \ {w} : worker[v].id # worker[w].id
           /\ UNCHANGED <<provision, minted, undone, abandoned>>
<1>1. RunIsSound(worker[w]) /\ worker[w].pc = "resume" /\ worker[w].mem \in Row
      BY RunFields DEF Resume
<1>2. worker[w].id \in Created /\ worker[w].mem.status = "in_progress"
      BY <1>1 DEF RunIsSound
<1>3. saga' = [saga EXCEPT ![worker[w].id] = worker[w].mem]
      BY DEF Resume
<1>4. Created' = Created
      BY <1>1, <1>2, <1>3, StepNumbers DEF Created, ShapeInv, SagaTypeOK
<1>5. /\ overlapped \subseteq overlapped' /\ overlapped' \subseteq overlapped \union {worker[w].id}
      /\ worker[w].id \notin overlapped' =>
            worker[w].id \notin undone /\ \A v \in Workers \ {w} : worker[v].id # worker[w].id
      BY DEF Resume
<1>q. QED BY <1>1, <1>2, <1>3, <1>4, <1>5 DEF Resume

\* A critical step that succeeds.
LEMMA StepSucceedsMoves ==
    ASSUME ShapeInv, NEW w \in Workers, StepSucceeds(w)
    PROVE  \E k \in RunState, t \in Tenants, n \in 1 .. LastCritical :
              /\ worker' = [worker EXCEPT ![w] = k] /\ worker[w].pc = "step"
              /\ k.pc = "save" /\ k.id = worker[w].id /\ k.mem.status = "in_progress" /\ k.mem.done = n /\ k.mem.tenant = t
              /\ worker[w].mem.done = n - 1 /\ Execute(t, n)
              /\ IF n = 1 THEN t = minted + 1 ELSE t = worker[w].mem.tenant
              /\ UNCHANGED <<saga, undone, overlapped, abandoned>>
<1>1. /\ worker[w] \in RunState /\ worker[w].mem \in Row /\ RunIsSound(worker[w]) /\ worker[w].pc = "step"
      /\ worker[w].mem.done \in 0 .. LastStep /\ worker[w].mem.tenant \in Tenants \union {NULL}
      /\ worker[w].mem.status = "in_progress" /\ LastCritical \in Nat /\ LastStep \in Nat
      BY RunFields, StepNumbers DEF StepSucceeds, RunIsSound
<1>2. PICK n : n = StepOf(w)
      OBVIOUS
<1>3. n \in 1 .. LastCritical /\ worker[w].mem.done = n - 1
      BY <1>1, <1>2, SMT, SMTT(30) DEF StepOf, StepSucceeds
<1>4. PICK t : t = TargetOf(w)
      OBVIOUS
<1>5. Execute(t, n)
      BY <1>2, <1>4 DEF StepSucceeds
<1>6. IF n = 1 THEN t = minted + 1 ELSE t = worker[w].mem.tenant
      BY <1>2, <1>4 DEF TargetOf, CreateTenant
<1>7. t \in Tenants
  <2>1. CASE n = 1
    <3>1. minted \in 0 .. MaxTenants /\ minted < MaxTenants /\ MaxTenants \in Nat
          BY <1>5, <2>1, StepNumbers DEF Execute, Possible, CreateTenant, ShapeInv, SagaTypeOK
    <3>q. QED BY <1>6, <2>1, <3>1, SMT, SMTT(30) DEF Tenants
  <2>2. CASE n # 1
    <3>1. worker[w].mem.tenant # NULL
          BY <1>1, <1>3, <2>2, SMT, SMTT(30) DEF RunIsSound, RowIsSound
    <3>q. QED BY <1>1, <1>6, <2>2, <3>1
  <2>q. QED BY <2>1, <2>2
<1>8. PICK m : m = [worker[w].mem EXCEPT !.done = n, !.tenant = t]
      OBVIOUS
<1>9. m \in Row /\ m.done = n /\ m.tenant = t /\ m.status = "in_progress"
  <2>1. n \in 0 .. LastStep
        BY <1>3, StepNumbers, SMT, SMTT(30)
  <2>q. QED BY <1>1, <1>7, <1>8, <2>1 DEF Row
<1>10. PICK k : k = [worker[w] EXCEPT !.pc = "save", !.mem = m]
      OBVIOUS
<1>11. k \in RunState /\ k.pc = "save" /\ k.id = worker[w].id /\ k.mem = m
      BY <1>1, <1>9, <1>10 DEF RunState
<1>12. worker' = [worker EXCEPT ![w] = k]
  <2>1. worker' = [worker EXCEPT ![w].pc = "save", ![w].mem.done = n, ![w].mem.tenant = t]
        BY <1>2, <1>4 DEF StepSucceeds
  <2>2. worker \in [Workers -> RunState]
        BY RunFields
  <2>q. QED BY <1>1, <1>8, <1>10, <2>1, <2>2 DEF RunState, Row
<1>q. QED BY <1>1, <1>3, <1>5, <1>6, <1>7, <1>9, <1>11, <1>12 DEF StepSucceeds

\* A critical step that fails, executed or not.
LEMMA StepFailsMoves ==
    ASSUME ShapeInv, NEW w \in Workers, StepFails(w)
    PROVE  /\ \E k \in RunState :
                 /\ worker' = [worker EXCEPT ![w] = k] /\ k.pc \in {"giveUp", "fail"} /\ k.id = worker[w].id
                 /\ k.mem.status = "failed" /\ k.mem.done = worker[w].mem.done /\ k.mem.tenant = worker[w].mem.tenant
                 /\ k.pc = "fail" => k.mem.done >= 1
           /\ worker[w].pc = "step" /\ UNCHANGED <<saga, undone, overlapped, abandoned>>
           /\ \/ UNCHANGED <<provision, minted>>
              \/ \E t \in Tenants, n \in 1 .. LastCritical :
                    Execute(t, n) /\ (IF n = 1 THEN t = minted + 1 ELSE t = worker[w].mem.tenant)
<1>1. /\ worker[w] \in RunState /\ worker[w].mem \in Row /\ RunIsSound(worker[w]) /\ worker[w].pc = "step"
      /\ worker[w].mem.done \in 0 .. LastStep /\ worker[w].mem.tenant \in Tenants \union {NULL}
      /\ LastCritical \in Nat /\ LastStep \in Nat
      BY RunFields, StepNumbers DEF StepFails
<1>2. PICK n : n = StepOf(w)
      OBVIOUS
<1>3. n \in 1 .. LastCritical /\ worker[w].mem.done = n - 1
      BY <1>1, <1>2, SMT, SMTT(30) DEF StepOf, StepFails
<1>4. PICK t : t = TargetOf(w)
      OBVIOUS
<1>5. Execute(t, n) \/ UNCHANGED <<provision, minted>>
      BY <1>2, <1>4 DEF StepFails
<1>6. IF n = 1 THEN t = minted + 1 ELSE t = worker[w].mem.tenant
      BY <1>2, <1>4 DEF TargetOf, CreateTenant
<1>7. Execute(t, n) => t \in Tenants
  <2>1. CASE n = 1
    <3>1. Execute(t, n) => minted \in 0 .. MaxTenants /\ minted < MaxTenants /\ MaxTenants \in Nat
          BY <2>1, StepNumbers DEF Execute, Possible, CreateTenant, ShapeInv, SagaTypeOK
    <3>q. QED BY <1>6, <2>1, <3>1, SMT, SMTT(30) DEF Tenants
  <2>2. CASE n # 1
    <3>1. worker[w].mem.tenant # NULL
          BY <1>1, <1>3, <2>2, SMT, SMTT(30) DEF RunIsSound, RowIsSound
    <3>q. QED BY <1>1, <1>6, <2>2, <3>1
  <2>q. QED BY <2>1, <2>2
<1>8. PICK m : m = [worker[w].mem EXCEPT !.status = "failed"]
      OBVIOUS
<1>9. m \in Row /\ m.done = worker[w].mem.done /\ m.tenant = worker[w].mem.tenant /\ m.status = "failed"
      BY <1>1, <1>8 DEF Row, Statuses
<1>10. PICK k : k = [worker[w] EXCEPT !.pc = IF n = 1 THEN "giveUp" ELSE "fail", !.mem = m]
      OBVIOUS
<1>11. /\ k \in RunState /\ k.pc = (IF n = 1 THEN "giveUp" ELSE "fail") /\ k.id = worker[w].id /\ k.mem = m
      BY <1>1, <1>9, <1>10 DEF RunState
<1>12. worker' = [worker EXCEPT ![w] = k]
  <2>1. worker' = [worker EXCEPT ![w].pc = IF n = 1 THEN "giveUp" ELSE "fail", ![w].mem.status = "failed"]
        BY <1>2 DEF StepFails, CreateTenant
  <2>2. worker \in [Workers -> RunState]
        BY RunFields
  <2>q. QED BY <1>1, <1>8, <1>10, <2>1, <2>2 DEF RunState, Row
<1>13. k.pc = "fail" => k.mem.done >= 1
      BY <1>3, <1>9, <1>11, SMT, SMTT(30)
<1>14. UNCHANGED <<saga, undone, overlapped, abandoned>>
      BY DEF StepFails
<1>15. k.pc \in {"giveUp", "fail"}
      BY <1>11
<1>q. QED BY <1>1, <1>3, <1>5, <1>6, <1>7, <1>9, <1>11, <1>12, <1>13, <1>14, <1>15

\* A step after the critical ones only counts itself as done.
LEMMA BestEffortMoves ==
    ASSUME ShapeInv, NEW w \in Workers, BestEffortStep(w)
    PROVE  /\ \E k \in RunState :
                 /\ worker' = [worker EXCEPT ![w] = k] /\ k.pc = "save" /\ k.id = worker[w].id
                 /\ k.mem.status = "in_progress" /\ k.mem.done = worker[w].mem.done + 1
                 /\ k.mem.tenant = worker[w].mem.tenant
           /\ worker[w].pc = "step" /\ worker[w].mem.done >= LastCritical
           /\ UNCHANGED <<saga, provision, minted, undone, overlapped, abandoned>>
<1>1. /\ worker[w] \in RunState /\ worker[w].mem \in Row /\ RunIsSound(worker[w]) /\ worker[w].pc = "step"
      /\ worker[w].mem.done \in 0 .. LastStep /\ worker[w].mem.status = "in_progress"
      /\ LastCritical \in Nat /\ LastStep \in Nat
      BY RunFields, StepNumbers DEF BestEffortStep, RunIsSound
<1>2. PICK n : n = worker[w].mem.done + 1
      OBVIOUS
<1>3. n \in 0 .. LastStep /\ worker[w].mem.done >= LastCritical
      BY <1>1, <1>2, SMT, SMTT(30) DEF BestEffortStep, StepOf
<1>4. PICK m : m = [worker[w].mem EXCEPT !.done = n]
      OBVIOUS
<1>5. m \in Row /\ m.done = n /\ m.tenant = worker[w].mem.tenant /\ m.status = "in_progress"
      BY <1>1, <1>3, <1>4 DEF Row
<1>6. PICK k : k = [worker[w] EXCEPT !.pc = "save", !.mem = m]
      OBVIOUS
<1>7. k \in RunState /\ k.pc = "save" /\ k.id = worker[w].id /\ k.mem = m
      BY <1>1, <1>5, <1>6 DEF RunState
<1>8. worker' = [worker EXCEPT ![w] = k]
  <2>1. worker' = [worker EXCEPT ![w].pc = "save", ![w].mem.done = n]
        BY <1>2 DEF BestEffortStep
  <2>2. worker \in [Workers -> RunState]
        BY RunFields
  <2>q. QED BY <1>1, <1>4, <1>6, <2>1, <2>2 DEF RunState, Row
<1>q. QED BY <1>1, <1>2, <1>3, <1>5, <1>7, <1>8 DEF BestEffortStep

\* What persist writes.
LEMMA PersistSaves ==
    ASSUME ShapeInv, NEW w \in Workers, Persist(w), worker[w].id \in Created
    PROVE  /\ Created' = Created
           /\ \/ /\ UNCHANGED saga
                 /\ abandoned' = IF worker[w].pc \in {"giveUp", "conclude", "settle"}
                                 THEN abandoned \union {worker[w].id} ELSE abandoned
              \/ \E r \in Row : /\ saga' = [saga EXCEPT ![worker[w].id] = r]
                                /\ r.done = worker[w].mem.done /\ r.tenant = worker[w].mem.tenant
                                /\ UNCHANGED abandoned
                                /\ worker[w].pc # "conclude" => r.status = worker[w].mem.status
                                /\ worker[w].pc = "conclude" =>
                                     r.status = IF worker[w].errors THEN "compensation_failed" ELSE "compensated"
           /\ UNCHANGED <<provision, minted, undone, overlapped>>
<1>1. worker[w].mem \in Row
      BY RunFields
<1>2. PICK r : r = Saved(w)
      OBVIOUS
<1>3. /\ r \in Row /\ r.done = worker[w].mem.done /\ r.tenant = worker[w].mem.tenant
      /\ worker[w].pc # "conclude" => r.status = worker[w].mem.status
      /\ worker[w].pc = "conclude" => r.status = IF worker[w].errors THEN "compensation_failed" ELSE "compensated"
  <2>1. CASE worker[w].pc # "conclude"
        BY <1>1, <1>2, <2>1 DEF Saved
  <2>2. CASE worker[w].pc = "conclude"
    <3>1. PICK st \in Statuses : st = IF worker[w].errors THEN "compensation_failed" ELSE "compensated"
          BY DEF Statuses
    <3>2. r = [worker[w].mem EXCEPT !.status = st]
          BY <1>2, <2>2, <3>1 DEF Saved
    <3>q. QED BY <1>1, <2>2, <3>1, <3>2 DEF Row
  <2>q. QED BY <2>1, <2>2
<1>4. /\ \/ saga' = [saga EXCEPT ![worker[w].id] = r] /\ UNCHANGED abandoned
         \/ UNCHANGED saga /\ abandoned' = IF worker[w].pc \in {"giveUp", "conclude", "settle"}
                                           THEN abandoned \union {worker[w].id} ELSE abandoned
      /\ UNCHANGED <<provision, minted, undone, overlapped>>
      BY <1>2 DEF Persist, Abandon
<1>5. Created' = Created
      BY <1>3, <1>4, StepNumbers DEF Created, ShapeInv, SagaTypeOK
<1>q. QED BY <1>3, <1>4, <1>5

\* persist, whether the write succeeds or not, and how the run goes on after it.
LEMMA PersistMoves ==
    ASSUME ShapeInv, NEW w \in Workers, Persist(w)
    PROVE  /\ worker[w].id \in Created /\ Created' = Created
           /\ \E k \in RunState :
                 /\ worker' = [worker EXCEPT ![w] = k]
                 /\ k = NoRun \/ (k.id = worker[w].id /\ k.mem.done = worker[w].mem.done /\ k.mem.tenant = worker[w].mem.tenant)
                 /\ worker[w].pc \in {"save", "fail", "giveUp", "compensating", "conclude", "settle"}
                 /\ worker[w].pc = "save" => k.id = worker[w].id /\
                       (\/ k.pc = "step" /\ k.mem.status = "in_progress" /\ k.mem.done < LastStep
                        \/ k.pc = "settle" /\ k.mem.status = "completed" /\ k.mem.done = LastStep)
                 /\ worker[w].pc = "fail" => k.id = worker[w].id /\ k.pc = "compensating" /\ k.mem.status = "compensating"
                 /\ worker[w].pc = "compensating" => k.id = worker[w].id /\ k.pc = "unbind" /\ k.mem.status = "compensating"
                 /\ worker[w].pc \in {"giveUp", "conclude", "settle"} => k = NoRun
           /\ \/ /\ UNCHANGED saga
                 /\ abandoned' = IF worker[w].pc \in {"giveUp", "conclude", "settle"}
                                 THEN abandoned \union {worker[w].id} ELSE abandoned
              \/ \E r \in Row : /\ saga' = [saga EXCEPT ![worker[w].id] = r]
                                /\ r.done = worker[w].mem.done /\ r.tenant = worker[w].mem.tenant
                                /\ UNCHANGED abandoned
                                /\ worker[w].pc # "conclude" => r.status = worker[w].mem.status
                                /\ worker[w].pc = "conclude" =>
                                     r.status = IF worker[w].errors THEN "compensation_failed" ELSE "compensated"
           /\ UNCHANGED <<provision, minted, undone, overlapped>>
<1>1. /\ worker[w] \in RunState /\ worker[w].mem \in Row /\ RunIsSound(worker[w]) /\ worker[w].errors \in BOOLEAN
      /\ worker[w].mem.done \in 0 .. LastStep /\ LastStep \in Nat
      /\ worker[w].pc \in {"save", "fail", "giveUp", "compensating", "conclude", "settle"}
      BY RunFields, StepNumbers DEF Persist
<1>2. worker[w].id \in Created
      BY <1>1 DEF RunIsSound
<1>3. PICK mc : mc = [worker[w].mem EXCEPT !.status = "completed"]
      OBVIOUS
<1>4. PICK mu : mu = [worker[w].mem EXCEPT !.status = "compensating"]
      OBVIOUS
<1>5. /\ mc \in Row /\ mc.done = worker[w].mem.done /\ mc.tenant = worker[w].mem.tenant /\ mc.status = "completed"
      /\ mu \in Row /\ mu.done = worker[w].mem.done /\ mu.tenant = worker[w].mem.tenant /\ mu.status = "compensating"
      BY <1>1, <1>3, <1>4 DEF Row, Statuses
<1>6. PICK k : k = CASE worker[w].pc = "save" /\ worker[w].mem.done < LastStep -> [worker[w] EXCEPT !.pc = "step"]
                     [] worker[w].pc = "save" /\ worker[w].mem.done = LastStep ->
                           [worker[w] EXCEPT !.pc = "settle", !.mem.status = "completed"]
                     [] worker[w].pc = "fail" -> [worker[w] EXCEPT !.pc = "compensating", !.mem.status = "compensating"]
                     [] worker[w].pc = "compensating" -> [worker[w] EXCEPT !.pc = "unbind"]
                     [] OTHER -> NoRun
      OBVIOUS
<1>7. worker' = [worker EXCEPT ![w] = k]
      BY <1>6 DEF Persist
<1>8. /\ worker[w].pc = "save" /\ worker[w].mem.done < LastStep => k = [worker[w] EXCEPT !.pc = "step"]
      /\ worker[w].pc = "save" /\ worker[w].mem.done = LastStep => k = [worker[w] EXCEPT !.pc = "settle", !.mem.status = "completed"]
      /\ worker[w].pc = "fail" => k = [worker[w] EXCEPT !.pc = "compensating", !.mem.status = "compensating"]
      /\ worker[w].pc = "compensating" => k = [worker[w] EXCEPT !.pc = "unbind"]
      /\ worker[w].pc \in {"giveUp", "conclude", "settle"} => k = NoRun
      BY <1>1, <1>6, SMT, SMTT(30)
<1>9. /\ worker[w].pc = "save" /\ worker[w].mem.done = LastStep => k = [worker[w] EXCEPT !.pc = "settle", !.mem = mc]
      /\ worker[w].pc = "fail" => k = [worker[w] EXCEPT !.pc = "compensating", !.mem = mu]
      BY <1>1, <1>3, <1>4, <1>8 DEF RunState
<1>10. CASE worker[w].pc = "save" /\ worker[w].mem.done < LastStep
  <2>1. k \in RunState /\ k.pc = "step" /\ k.id = worker[w].id /\ k.mem = worker[w].mem
        BY <1>1, <1>8, <1>10 DEF RunState
  <2>2. k.mem.status = "in_progress"
        BY <1>1, <1>10, <2>1 DEF RunIsSound
  <2>q. QED BY <1>2, <1>7, <1>10, <2>1, <2>2, PersistSaves
<1>11. CASE worker[w].pc = "save" /\ worker[w].mem.done = LastStep
  <2>1. k \in RunState /\ k.pc = "settle" /\ k.id = worker[w].id /\ k.mem = mc
        BY <1>1, <1>5, <1>9, <1>11 DEF RunState
  <2>q. QED BY <1>2, <1>5, <1>7, <1>11, <2>1, PersistSaves
<1>12. CASE worker[w].pc = "fail"
  <2>1. k \in RunState /\ k.pc = "compensating" /\ k.id = worker[w].id /\ k.mem = mu
        BY <1>1, <1>5, <1>9, <1>12 DEF RunState
  <2>q. QED BY <1>2, <1>5, <1>7, <1>12, <2>1, PersistSaves
<1>13. CASE worker[w].pc = "compensating"
  <2>1. k \in RunState /\ k.pc = "unbind" /\ k.id = worker[w].id /\ k.mem = worker[w].mem
        BY <1>1, <1>8, <1>13 DEF RunState
  <2>2. k.mem.status = "compensating"
        BY <1>1, <1>13, <2>1 DEF RunIsSound, Undoing
  <2>q. QED BY <1>2, <1>7, <1>13, <2>1, <2>2, PersistSaves
<1>14. CASE worker[w].pc \in {"giveUp", "conclude", "settle"}
      BY <1>2, <1>7, <1>8, <1>14, PersistSaves, StepNumbers
<1>15. worker[w].mem.done < LastStep \/ worker[w].mem.done = LastStep
      BY <1>1, SMT, SMTT(30)
<1>q. QED BY <1>1, <1>10, <1>11, <1>12, <1>13, <1>14, <1>15

\* A compensating call: it may fail, executed or not, and is not made for a step that was not done.
LEMMA UndoMoves ==
    ASSUME ShapeInv, NEW w \in Workers, UnbindVertical(w) \/ DeleteUser(w) \/ DeleteTenant(w)
    PROVE  /\ worker[w].id \in Created /\ worker[w].mem.tenant \in Tenants
           /\ \E k \in RunState :
                 /\ worker' = [worker EXCEPT ![w] = k] /\ k.id = worker[w].id /\ k.mem = worker[w].mem
                 /\ worker[w].pc \in {"unbind", "deleteUser", "deleteTenant"}
                 /\ k.pc \in {"deleteUser", "deleteTenant", "conclude"}
                 /\ k.pc = "conclude" => worker[w].id \in undone' /\ (~k.errors => provision'[k.mem.tenant] = {})
           /\ provision' \in [Tenants -> SUBSET (1 .. LastCritical)]
           /\ \A t \in Tenants : provision'[t] \subseteq provision[t]
           /\ \A t \in Tenants : provision'[t] # provision[t] => t = worker[w].mem.tenant /\ worker[w].id \in undone'
           /\ undone \subseteq undone' /\ undone' \subseteq undone \union {worker[w].id}
           /\ UNCHANGED <<saga, minted, overlapped, abandoned>>
<1>1. /\ worker[w] \in RunState /\ worker[w].mem \in Row /\ RunIsSound(worker[w]) /\ worker[w].errors \in BOOLEAN
      /\ worker[w].mem.done \in 0 .. LastStep /\ worker[w].mem.tenant \in Tenants \union {NULL} /\ LastStep \in Nat
      /\ worker[w].pc \in {"unbind", "deleteUser", "deleteTenant"}
      BY RunFields, StepNumbers DEF UnbindVertical, DeleteUser, DeleteTenant
<1>2. worker[w].id \in Created /\ worker[w].mem.done >= 1
      BY <1>1 DEF RunIsSound, Undoing
<1>3. PICK t \in Tenants : t = worker[w].mem.tenant
      BY <1>1, <1>2, SMT, SMTT(30) DEF RunIsSound, RowIsSound
<1>4. PICK step \in {1, 2, 3}, removed \in SUBSET (1 .. LastCritical), next \in {"deleteUser", "deleteTenant", "conclude"} :
         /\ Undo(w, step, removed, next)
         /\ next = "conclude" => step = 1 /\ removed = 1 .. LastCritical
  <2>1. {2} \subseteq 1 .. LastCritical /\ {3} \subseteq 1 .. LastCritical
        BY StepNumbers, SMT, SMTT(30)
  <2>q. QED BY <2>1 DEF UnbindVertical, DeleteUser, DeleteTenant, BindVertical, CreateUser, CreateTenant
<1>5. /\ worker \in [Workers -> RunState] /\ provision \in [Tenants -> SUBSET (1 .. LastCritical)]
      BY RunFields DEF ShapeInv, SagaTypeOK
<1>6. UNCHANGED <<saga, minted, overlapped, abandoned>>
      BY DEF UnbindVertical, DeleteUser, DeleteTenant
<1>7. CASE worker[w].mem.done < step
  <2>1. PICK k : k = [worker[w] EXCEPT !.pc = next]
        OBVIOUS
  <2>2. k \in RunState /\ k.pc = next /\ k.id = worker[w].id /\ k.mem = worker[w].mem
        BY <1>1, <2>1 DEF RunState
  <2>3. worker' = [worker EXCEPT ![w] = k] /\ UNCHANGED <<provision, undone>>
        BY <1>4, <1>5, <1>7, <2>1 DEF Undo
  <2>4. next # "conclude"
        BY <1>1, <1>2, <1>4, <1>7, SMT, SMTT(30)
  <2>q. QED BY <1>1, <1>2, <1>3, <1>4, <1>5, <1>6, <2>2, <2>3, <2>4
<1>8. CASE ~(worker[w].mem.done < step)
  <2>1. PICK executed \in BOOLEAN, failed \in BOOLEAN :
           /\ executed \/ failed
           /\ provision' = IF executed THEN [provision EXCEPT ![t] = @ \ removed] ELSE provision
           /\ undone' = undone \union {worker[w].id}
           /\ worker' = [worker EXCEPT ![w].pc = next, ![w].errors = @ \/ failed]
        BY <1>3, <1>4, <1>8 DEF Undo
  <2>2. PICK b : b = (worker[w].errors \/ failed)
        OBVIOUS
  <2>3. b \in BOOLEAN
        BY <1>1, <2>2
  <2>4. PICK k : k = [worker[w] EXCEPT !.pc = next, !.errors = b]
        OBVIOUS
  <2>5. k \in RunState /\ k.pc = next /\ k.id = worker[w].id /\ k.mem = worker[w].mem /\ k.errors = b
        BY <1>1, <2>3, <2>4 DEF RunState
  <2>6. worker' = [worker EXCEPT ![w] = k]
        BY <1>1, <1>5, <2>1, <2>2, <2>4 DEF RunState
  <2>7. /\ provision' \in [Tenants -> SUBSET (1 .. LastCritical)]
        /\ \A r \in Tenants : provision'[r] \subseteq provision[r] /\ (provision'[r] # provision[r] => r = t)
        BY <1>4, <1>5, <2>1
  <2>8. next = "conclude" /\ ~b => provision'[t] = {}
    <3>1. ~b => executed
          BY <2>1, <2>2
    <3>2. executed => provision'[t] = provision[t] \ removed
          BY <1>5, <2>1
    <3>3. provision[t] \subseteq 1 .. LastCritical
          BY <1>5
    <3>q. QED BY <1>4, <3>1, <3>2, <3>3
  <2>9. worker[w].id \in undone' /\ undone \subseteq undone' /\ undone' \subseteq undone \union {worker[w].id}
        BY <2>1
  <2>q. QED BY <1>1, <1>2, <1>3, <1>4, <1>6, <2>5, <2>6, <2>7, <2>8, <2>9
<1>q. QED BY <1>7, <1>8

\* A crash forgets the run.
LEMMA CrashMoves ==
    ASSUME ShapeInv, NEW w \in Workers, Crash(w)
    PROVE  /\ worker' = [worker EXCEPT ![w] = NoRun] /\ NoRun \in RunState
           /\ UNCHANGED <<saga, provision, minted, undone, overlapped>> /\ abandoned' \subseteq Sagas
           /\ abandoned \subseteq abandoned' /\ (Running(w) => worker[w].id \in abandoned')
<1>1. RunIsSound(worker[w]) /\ \A s \in Created : s \in Sagas
      BY RunFields
<1>2. worker[w].pc \notin {"idle", "create"} => worker[w].id \in Sagas
      BY <1>1 DEF RunIsSound
<1>3. abandoned \subseteq Sagas
      BY DEF ShapeInv, SagaTypeOK
<1>q. QED BY <1>2, <1>3, StepNumbers DEF Crash, Abandon, Running

\* A step that claims nothing new and undoes nothing.
LEMMA ClaimsKept ==
    ASSUME ShapeInv, ClaimsInv, NEW w \in Workers, NEW k \in RunState, worker' = [worker EXCEPT ![w] = k],
           k.mem.tenant = NULL \/ Claim(k.id, k.mem.tenant, k.mem.done),
           \A s \in Created' : \/ s \in Created /\ saga'[s] = saga[s]
                               \/ saga'[s].tenant = NULL \/ Claim(s, saga'[s].tenant, saga'[s].done),
           undone \subseteq undone', \A t \in Tenants : provision[t] \subseteq provision'[t]
    PROVE  ClaimsInv'
<1>1. ASSUME NEW s \in Sagas, NEW t \in Tenants, NEW d \in 0 .. LastStep, Claim(s, t, d)' PROVE Claim(s, t, d)
  <2>1. CASE s \in Created' /\ saga'[s].tenant = t /\ saga'[s].done = d
        BY <2>1, StepNumbers DEF Claim
  <2>2. ASSUME NEW v \in Workers, worker'[v].id = s, worker'[v].mem.tenant = t, worker'[v].mem.done = d
        PROVE  Claim(s, t, d)
    <3>1. CASE v = w
      <4>1. worker'[v] = k
            BY <3>1, OneRunMoves
      <4>q. QED BY <2>2, <4>1, StepNumbers
    <3>2. CASE v # w
      <4>1. worker'[v] = worker[v]
            BY <3>2, OneRunMoves
      <4>q. QED BY <2>2, <4>1 DEF Claim
    <3>q. QED BY <3>1, <3>2
  <2>q. QED BY <1>1, <2>1, <2>2 DEF Claim
<1>2. ASSUME NEW s \in Sagas, NEW r \in Sagas, NEW t \in Tenants, NEW d \in 0 .. LastStep, NEW e \in 0 .. LastStep,
             Claim(s, t, d)', Claim(r, t, e)'
      PROVE  s = r
      BY <1>1, <1>2 DEF ClaimsInv
<1>3. ASSUME NEW s \in Sagas \ undone', NEW t \in Tenants, NEW d \in 0 .. LastStep, Claim(s, t, d)',
             NEW n \in 1 .. LastCritical, n <= d
      PROVE  n \in provision'[t]
      BY <1>1, <1>3 DEF ClaimsInv
<1>q. QED BY <1>2, <1>3 DEF ClaimsInv

\* A step that claims one step more.
LEMMA ClaimsGrow ==
    ASSUME ShapeInv, ClaimsInv, NEW w \in Workers, NEW k \in RunState, worker' = [worker EXCEPT ![w] = k],
           NEW t \in Tenants, k.mem.tenant = t, UNCHANGED <<saga, undone>>,
           \A s \in Sagas, d \in 0 .. LastStep : Claim(s, t, d) => s = k.id,
           k.id \notin undone => \A n \in 1 .. LastCritical : n <= k.mem.done => n \in provision'[t],
           \A r \in Tenants : provision[r] \subseteq provision'[r]
    PROVE  ClaimsInv'
<1>0. Created' = Created
      BY DEF Created
<1>1. ASSUME NEW s \in Sagas, NEW r \in Tenants, NEW d \in 0 .. LastStep, Claim(s, r, d)'
      PROVE  Claim(s, r, d) \/ (s = k.id /\ r = t /\ d = k.mem.done)
  <2>1. CASE s \in Created' /\ saga'[s].tenant = r /\ saga'[s].done = d
        BY <1>0, <2>1 DEF Claim
  <2>2. ASSUME NEW v \in Workers, worker'[v].id = s, worker'[v].mem.tenant = r, worker'[v].mem.done = d
        PROVE  Claim(s, r, d) \/ (s = k.id /\ r = t /\ d = k.mem.done)
    <3>1. CASE v = w
          BY <2>2, <3>1, OneRunMoves
    <3>2. CASE v # w
      <4>1. worker'[v] = worker[v]
            BY <3>2, OneRunMoves
      <4>q. QED BY <2>2, <4>1 DEF Claim
    <3>q. QED BY <3>1, <3>2
  <2>q. QED BY <1>1, <2>1, <2>2 DEF Claim
<1>2. ASSUME NEW s \in Sagas, NEW r \in Sagas, NEW u \in Tenants, NEW d \in 0 .. LastStep, NEW e \in 0 .. LastStep,
             Claim(s, u, d)', Claim(r, u, e)'
      PROVE  s = r
  <2>1. /\ Claim(s, u, d) \/ (s = k.id /\ u = t)
        /\ Claim(r, u, e) \/ (r = k.id /\ u = t)
        BY <1>1, <1>2
  <2>q. QED BY <2>1 DEF ClaimsInv
<1>3. ASSUME NEW s \in Sagas \ undone', NEW r \in Tenants, NEW d \in 0 .. LastStep, Claim(s, r, d)',
             NEW n \in 1 .. LastCritical, n <= d
      PROVE  n \in provision'[r]
      BY ZenonT(40), <1>1, <1>3 DEF ClaimsInv
<1>q. QED BY <1>2, <1>3 DEF ClaimsInv

\* What a run holds it claims, and a claimed tenant was handed out.
LEMMA ClaimsOfRuns ==
    ASSUME ShapeInv
    PROVE  /\ \A w \in Workers : Claim(worker[w].id, worker[w].mem.tenant, worker[w].mem.done)
           /\ \A s \in Created : Claim(s, saga[s].tenant, saga[s].done)
           /\ \A s \in Sagas, t \in Tenants, d \in 0 .. LastStep : Claim(s, t, d) => t <= minted
<1>1. \A w \in Workers : Claim(worker[w].id, worker[w].mem.tenant, worker[w].mem.done)
      BY DEF Claim
<1>2. \A s \in Created : Claim(s, saga[s].tenant, saga[s].done)
      BY DEF Claim
<1>3. ASSUME NEW s \in Sagas, NEW t \in Tenants, NEW d \in 0 .. LastStep, Claim(s, t, d) PROVE t <= minted
  <2>1. CASE s \in Created /\ saga[s].tenant = t
        BY <2>1, StepNumbers, RunFields DEF RowIsSound
  <2>2. ASSUME NEW w \in Workers, worker[w].mem.tenant = t PROVE t <= minted
        BY <2>2, StepNumbers, RunFields DEF RunIsSound, RowIsSound
  <2>q. QED BY <1>3, <2>1, <2>2 DEF Claim
<1>q. QED BY <1>1, <1>2, <1>3

\* A step of the saga in the databases: a first tenant, or more of the one there is.
LEMMA ExecuteGrows ==
    ASSUME ShapeInv, TenantsInv, NEW t \in Tenants, NEW n \in 1 .. LastCritical, Execute(t, n),
           n = 1 => t = minted + 1
    PROVE  /\ TenantsInv' /\ provision' \in [Tenants -> SUBSET (1 .. LastCritical)]
           /\ minted' \in 0 .. MaxTenants /\ minted <= minted'
           /\ \A r \in Tenants : provision[r] \subseteq provision'[r] /\ (r # t => provision'[r] = provision[r])
           /\ n \in provision'[t]
<1>0. /\ minted \in Nat /\ MaxTenants \in Nat /\ minted \in 0 .. MaxTenants
      /\ provision \in [Tenants -> SUBSET (1 .. LastCritical)]
      BY StepNumbers, SMT, SMTT(30) DEF ShapeInv, SagaTypeOK
<1>1. provision' = [provision EXCEPT ![t] = provision[t] \union {n}] /\ minted' = IF n = 1 THEN t ELSE minted
      BY DEF Execute, CreateTenant
<1>2. /\ provision' \in [Tenants -> SUBSET (1 .. LastCritical)] /\ n \in provision'[t]
      /\ \A r \in Tenants : provision[r] \subseteq provision'[r] /\ (r # t => provision'[r] = provision[r])
      BY <1>0, <1>1
<1>3. CASE n = 1
  <2>1. (\A r \in Tenants : provision[r] = {}) /\ minted < MaxTenants /\ minted' = minted + 1 /\ t = minted'
        BY <1>1, <1>3 DEF Execute, Possible, CreateTenant
  <2>2. \A r \in Tenants : provision'[r] # {} => r = t
        BY <1>2, <2>1
  <2>3. minted' \in 0 .. MaxTenants /\ minted <= minted'
        BY <1>0, <2>1, SMT, SMTT(30)
  <2>4. t <= minted'
        BY <1>0, <2>1, SMT, SMTT(30)
  <2>5. TenantsInv'
        BY <2>2, <2>4 DEF TenantsInv
  <2>q. QED BY <1>2, <2>3, <2>5
<1>4. CASE n # 1
  <2>1. provision[t] # {} /\ UNCHANGED minted
        BY <1>1, <1>4 DEF Execute, Possible, CreateTenant, CreateUser
  <2>2. \A r \in Tenants : provision'[r] # {} => provision[r] # {}
        BY <1>2, <2>1
  <2>3. TenantsInv'
        BY <2>1, <2>2 DEF TenantsInv
  <2>q. QED BY <1>0, <1>2, <2>1, <2>3, SMT, SMTT(30)
<1>q. QED BY <1>3, <1>4

\* A saga whose own run does not move, and whose tenant nobody else touches, stays exclusive.
LEMMA OtherSagaKept ==
    ASSUME ShapeInv, NEW s \in Created, SagaIsExclusive(s),
           NEW w \in Workers, NEW k \in RunState, worker' = [worker EXCEPT ![w] = k],
           worker[w].id # s, k.id # s, saga'[s] = saga[s], s \in undone' <=> s \in undone,
           \A t \in Tenants, d \in 0 .. LastStep : Claim(s, t, d) => provision'[t] = provision[t]
    PROVE  SagaIsExclusive(s)'
<1>1. \A v \in Workers : \/ worker'[v] = worker[v] /\ v # w
                         \/ worker'[v].id # s /\ worker[v].id # s /\ v = w
      BY OneRunMoves
<1>2. \A v \in Workers : worker'[v].id = s => worker'[v] = worker[v] /\ worker[v].id = s
      BY <1>1
<1>3. ASSUME NEW v \in Workers, worker[v].id = s, worker[v].mem.tenant \in Tenants
      PROVE  provision'[worker[v].mem.tenant] = provision[worker[v].mem.tenant]
      BY <1>3, RunFields, ClaimsOfRuns
<1>4. ASSUME NEW v \in Workers, worker'[v].id = s, worker'[v].pc = "conclude", ~worker'[v].errors
      PROVE  provision'[worker'[v].mem.tenant] = {}
  <2>1. worker'[v] = worker[v] /\ worker[v].id = s
        BY <1>2, <1>4
  <2>2. worker[v].mem.tenant \in Tenants
        BY <1>4, <2>1, RunFields, SMT, SMTT(30) DEF RunIsSound, RowIsSound, Undoing
  <2>q. QED BY <1>3, <1>4, <2>1, <2>2 DEF SagaIsExclusive
<1>5. ASSUME saga[s].status = "compensated" PROVE provision'[saga[s].tenant] = {} /\ saga[s].tenant # NULL
  <2>1. saga[s].tenant \in Tenants /\ provision[saga[s].tenant] = {}
        BY <1>5, RunFields DEF SagaIsExclusive
  <2>q. QED BY <2>1, RunFields, ClaimsOfRuns, StepNumbers
<1>6. \A v \in Workers : worker'[v].id = s => (Running(v)' <=> Running(v))
      BY <1>2 DEF Running
<1>7. \A u, v \in Workers : worker'[u].id = s /\ worker'[v].id = s /\ Running(u)' /\ Running(v)' => u = v
      BY <1>2, <1>6 DEF SagaIsExclusive
<1>8. ASSUME NEW v \in Workers, worker'[v].id = s, Running(v)', worker'[v].pc \notin Undoing
      PROVE  s \notin undone' /\ saga'[s].status = "in_progress" /\ \A u \in Workers : worker'[u].id = s => u = v
      BY <1>2, <1>6, <1>8 DEF SagaIsExclusive
<1>9. ASSUME NEW v \in Workers, worker'[v].id = s
      PROVE  /\ worker'[v].pc \in Undoing => saga'[s].status \in {"in_progress", "failed", "compensating"}
             /\ worker'[v].pc = "conclude" => s \in undone'
      BY <1>2, <1>9 DEF SagaIsExclusive
<1>10. saga'[s].status = "completed" => s \notin undone' /\ saga'[s].done = LastStep /\ \A v \in Workers : worker'[v].id # s
      BY <1>2 DEF SagaIsExclusive
<1>11. saga'[s].status = "compensated" => s \in undone' /\ \A v \in Workers : worker'[v].id = s => ~Running(v)'
      BY <1>2, <1>6 DEF SagaIsExclusive
<1>q. QED BY <1>4, <1>5, <1>7, <1>8, <1>9, <1>10, <1>11 DEF SagaIsExclusive

\* A saga is still attended, or settled, if its run goes on or ends it.
LEMMA AttendedKept ==
    ASSUME ShapeInv, AttendedInv, NEW w \in Workers, NEW k \in RunState, worker' = [worker EXCEPT ![w] = k],
           \A s \in Created' \ (abandoned' \union overlapped') :
              \/ s \in Created \ (abandoned \union overlapped) /\ saga'[s] = saga[s] /\ (worker[w].id = s => ~Running(w))
              \/ k.id = s /\ k.pc \notin {"idle", "create", "resume"}
              \/ saga'[s].status \in {"completed", "failed", "compensated", "compensation_failed"}
    PROVE  AttendedInv'
<1>0. SUFFICES ASSUME NEW s \in Created' \ (abandoned' \union overlapped')
               PROVE  \/ \E v \in Workers : worker'[v].id = s /\ Running(v)'
                      \/ saga'[s].status \in {"completed", "failed", "compensated", "compensation_failed"}
      BY DEF AttendedInv
<1>1. CASE k.id = s /\ k.pc \notin {"idle", "create", "resume"}
      BY <1>1, OneRunMoves DEF Running
<1>2. CASE s \in Created \ (abandoned \union overlapped) /\ saga'[s] = saga[s] /\ (worker[w].id = s => ~Running(w))
  <2>1. CASE saga[s].status \in {"completed", "failed", "compensated", "compensation_failed"}
        BY <1>2, <2>1
  <2>2. ASSUME NEW v \in Workers, worker[v].id = s, Running(v) PROVE worker'[v].id = s /\ Running(v)'
    <3>1. v # w
          BY <1>2, <2>2
    <3>q. QED BY <2>2, <3>1, OneRunMoves DEF Running
  <2>q. QED BY <1>2, <2>1, <2>2 DEF AttendedInv
<1>q. QED BY <1>0, <1>1, <1>2

\* The inductive invariant.
SagaInv == ShapeInv /\ TenantsInv /\ ClaimsInv /\ ExclusiveInv /\ AttendedInv

\* Start, and a crash: a run less, or one that has no saga yet.
LEMMA StartAndCrashKeep ==
    ASSUME SagaInv, NEW w \in Workers, Start(w) \/ Crash(w)
    PROVE  SagaInv'
<1>0. ShapeInv /\ TenantsInv /\ ClaimsInv /\ ExclusiveInv /\ AttendedInv
      BY DEF SagaInv
<1>1. PICK k \in RunState : /\ worker' = [worker EXCEPT ![w] = k] /\ k.id = NULL /\ k.mem = NewRow
                            /\ k = NoRun \/ (k.pc = "create" /\ worker[w] = NoRun)
      BY <1>0, StartMoves, CrashMoves, StepNumbers
<1>2. /\ UNCHANGED <<saga, provision, minted, undone, overlapped>> /\ abandoned \subseteq abandoned'
      /\ abandoned' \subseteq Sagas /\ Created' = Created
      BY ZenonT(40), <1>0, StartMoves, CrashMoves DEF ShapeInv, SagaTypeOK, Created
<1>3. ShapeInv'
  <2>1. RowIsSound(NewRow)'
        BY StepNumbers DEF RowIsSound
  <2>2. RunIsSound(k)'
        BY <1>1, <2>1, StepNumbers DEF RunIsSound, Undoing
  <2>3. minted <= minted' /\ minted' \in 0 .. MaxTenants
        BY <1>0, <1>2, RunFields, SMT, SMTT(30) DEF ShapeInv, SagaTypeOK
  <2>q. QED BY <1>0, <1>1, <1>2, <2>2, <2>3, ShapeKept DEF ShapeInv, SagaTypeOK
<1>4. TenantsInv'
      BY <1>0, <1>2 DEF TenantsInv
<1>5. ClaimsInv'
  <2>1. k.mem.tenant = NULL
        BY <1>1, StepNumbers
  <2>q. QED BY <1>0, <1>1, <1>2, <2>1, ClaimsKept
<1>6. ASSUME NEW s \in Created \ overlapped PROVE SagaIsExclusive(s)'
  <2>0. SagaIsExclusive(s) /\ s # NULL
        BY <1>0, RunFields, StepNumbers DEF ExclusiveInv
  <2>1. CASE worker[w].id # s
        BY <1>0, <1>1, <1>2, <2>0, <2>1, OtherSagaKept
  <2>2. CASE worker[w].id = s
    <3>1. \A v \in Workers : worker'[v].id = s => worker'[v] = worker[v] /\ v # w
          BY <1>0, <1>1, <2>0, OneRunMoves
    <3>2. \A v \in Workers : worker'[v].id = s => (Running(v)' <=> Running(v))
          BY <3>1 DEF Running
    <3>q. QED BY <1>2, <2>0, <3>1, <3>2 DEF SagaIsExclusive
  <2>q. QED BY <2>1, <2>2
<1>7. AttendedInv'
  <2>1. CASE Start(w)
    <3>1. ~Running(w) /\ UNCHANGED abandoned
          BY <1>0, <2>1, StartMoves, StepNumbers DEF Running
    <3>q. QED BY <1>0, <1>1, <1>2, <3>1, AttendedKept
  <2>2. CASE Crash(w)
    <3>1. Running(w) => worker[w].id \in abandoned'
          BY <1>0, <2>2, CrashMoves
    <3>q. QED BY <1>0, <1>1, <1>2, <3>1, AttendedKept
  <2>q. QED BY <2>1, <2>2
<1>q. QED BY <1>2, <1>3, <1>4, <1>5, <1>6, <1>7 DEF SagaInv, ExclusiveInv

\* A new saga belongs to the run that created it.
LEMMA CreateKeeps ==
    ASSUME SagaInv, NEW w \in Workers, Create(w)
    PROVE  SagaInv'
<1>0. ShapeInv /\ TenantsInv /\ ClaimsInv /\ ExclusiveInv /\ AttendedInv
      BY DEF SagaInv
<1>a. PICK r \in Sagas \ Created : \E k \in Run(r, NewRow) :
              /\ worker' = [worker EXCEPT ![w] = k] /\ saga' = [saga EXCEPT ![r] = NewRow]
              /\ Created' = Created \union {r} /\ (\E n \in 0 .. MaxSagas : Created' = 1 .. n)
              /\ worker[w].pc = "create" /\ UNCHANGED <<provision, minted, undone, overlapped, abandoned>>
      BY <1>0, CreateMoves
<1>1. PICK k \in Run(r, NewRow) :
              /\ worker' = [worker EXCEPT ![w] = k] /\ saga' = [saga EXCEPT ![r] = NewRow]
              /\ Created' = Created \union {r} /\ (\E n \in 0 .. MaxSagas : Created' = 1 .. n)
              /\ worker[w].pc = "create" /\ UNCHANGED <<provision, minted, undone, overlapped, abandoned>>
      BY <1>a
<1>2. /\ k \in RunState /\ k.id = r /\ k.mem.done = 0 /\ k.mem.tenant = NULL /\ k.pc \in {"giveUp", "step"}
      /\ k.pc = "giveUp" => k.mem.status = "failed"
      /\ k.pc = "step" => k.mem = NewRow
      BY StepNumbers, RunBegins, SMT, SMTT(30)
<1>3. /\ worker[w].id = NULL /\ worker[w].mem = NewRow
      BY <1>0, <1>1, RunFields DEF RunIsSound
<1>4. saga' \in [Sagas -> Row \union {NULL}] /\ saga'[r] = NewRow /\ \A s \in Created : saga'[s] = saga[s]
      BY <1>0, <1>1, StepNumbers, SMT, SMTT(30) DEF ShapeInv, SagaTypeOK
<1>5. ShapeInv'
  <2>1. RowIsSound(NewRow)' /\ RowIsSound(k.mem)'
        BY <1>2, StepNumbers DEF RowIsSound
  <2>2. RunIsSound(k)'
        BY <1>1, <1>2, <2>1, StepNumbers, SMT, SMTT(30) DEF RunIsSound, Undoing
  <2>3. minted <= minted' /\ minted' \in 0 .. MaxTenants
        BY <1>0, <1>1, RunFields, SMT, SMTT(30) DEF ShapeInv, SagaTypeOK
  <2>4. \A s \in Created' : (s \in Created /\ saga'[s] = saga[s]) \/ RowIsSound(saga[s])'
        BY <1>1, <1>4, <2>1 DEF RowIsSound
  <2>5. Created \subseteq Created' /\ undone' \subseteq Created' /\ overlapped' \subseteq Created' /\ abandoned' \subseteq Sagas
        BY <1>0, <1>1 DEF ShapeInv, SagaTypeOK
  <2>6. provision' \in [Tenants -> SUBSET (1 .. LastCritical)]
        BY <1>0, <1>1 DEF ShapeInv, SagaTypeOK
  <2>q. QED BY <1>0, <1>1, <1>2, <1>4, <2>2, <2>3, <2>4, <2>5, <2>6, ShapeKept
<1>6. TenantsInv'
      BY <1>0, <1>1 DEF TenantsInv
<1>7. ClaimsInv'
      BY <1>0, <1>1, <1>2, <1>4, StepNumbers, ClaimsKept
<1>8. ASSUME NEW s \in Created' \ overlapped' PROVE SagaIsExclusive(s)'
  <2>1. CASE s # r
    <3>1. s \in Created \ overlapped /\ SagaIsExclusive(s) /\ s # NULL
          BY <1>0, <1>1, <1>8, <2>1, RunFields, StepNumbers DEF ExclusiveInv
    <3>q. QED BY <1>0, <1>1, <1>2, <1>3, <1>4, <2>1, <3>1, OtherSagaKept
  <2>2. CASE s = r
    <3>1. \A v \in Workers \ {w} : worker'[v] = worker[v] /\ worker[v].id # r
      <4>1. \A v \in Workers : worker[v].id \in Created \union {NULL}
            BY <1>0, RunFields DEF RunIsSound
      <4>q. QED BY <1>0, <1>1, <1>2, <4>1, OneRunMoves, StepNumbers
    <3>2. worker'[w] = k
          BY <1>0, <1>1, <1>2, OneRunMoves
    <3>3. \A v \in Workers : worker'[v].id = r => v = w
          BY <3>1
    <3>4. r \notin undone' /\ saga'[r].status = "in_progress"
          BY <1>0, <1>1, <1>4, StepNumbers DEF ShapeInv
    <3>5. worker'[w].pc \notin Undoing
          BY <1>2, <3>2 DEF Undoing
    <3>6. worker'[w].pc # "conclude"
          BY <1>2, <3>2
    <3>q. QED BY <2>2, <3>3, <3>4, <3>5, <3>6 DEF SagaIsExclusive
  <2>q. QED BY <2>1, <2>2
<1>9. AttendedInv'
  <2>1. ~Running(w)
        BY <1>1 DEF Running
  <2>2. k.pc \notin {"idle", "create", "resume"}
        BY <1>2
  <2>q. QED BY <1>0, <1>1, <1>2, <1>4, <2>1, <2>2, AttendedKept
<1>q. QED BY <1>5, <1>6, <1>7, <1>8, <1>9 DEF SagaInv, ExclusiveInv

\* Resume's read: only a failed saga is copied, whose run is past every step of its own.
LEMMA ResumeReadKeeps ==
    ASSUME SagaInv, NEW w \in Workers, NEW r \in Sagas, ResumeRead(w, r)
    PROVE  SagaInv'
<1>0. ShapeInv /\ TenantsInv /\ ClaimsInv /\ ExclusiveInv /\ AttendedInv
      BY DEF SagaInv
<1>1. PICK k \in RunState :
                 /\ worker' = [worker EXCEPT ![w] = k] /\ k.pc = "resume" /\ k.id = r
                 /\ k.mem.done = saga[r].done /\ k.mem.tenant = saga[r].tenant /\ k.mem.status = "in_progress"
      BY <1>0, ResumeReadMoves, SMT, SMTT(30)
<1>2. /\ r \in Created /\ saga[r].status = "failed" /\ worker[w] = NoRun /\ Created' = Created
      /\ UNCHANGED <<saga, provision, minted, undone, overlapped, abandoned>>
      BY <1>0, ResumeReadMoves, SMT, SMTT(30) DEF Created
<1>3. ShapeInv'
  <2>1. RowIsSound(k.mem)'
        BY <1>0, <1>1, <1>2, RunFields DEF RowIsSound
  <2>2. RunIsSound(k)'
        BY <1>1, <1>2, <2>1 DEF RunIsSound, Undoing
  <2>3. minted <= minted' /\ minted' \in 0 .. MaxTenants
        BY <1>0, <1>2, RunFields, SMT, SMTT(30) DEF ShapeInv, SagaTypeOK
  <2>q. QED BY <1>0, <1>1, <1>2, <2>2, <2>3, ShapeKept DEF ShapeInv, SagaTypeOK
<1>4. TenantsInv'
      BY <1>0, <1>2 DEF TenantsInv
<1>5. ClaimsInv'
  <2>1. Claim(k.id, k.mem.tenant, k.mem.done)
        BY <1>0, <1>1, <1>2, ClaimsOfRuns
  <2>q. QED BY <1>0, <1>1, <1>2, <2>1, ClaimsKept
<1>6. ASSUME NEW s \in Created \ overlapped PROVE SagaIsExclusive(s)'
  <2>0. SagaIsExclusive(s) /\ s # NULL
        BY <1>0, RunFields, StepNumbers DEF ExclusiveInv
  <2>1. CASE s # r
        BY <1>0, <1>1, <1>2, <2>0, <2>1, StepNumbers, OtherSagaKept
  <2>2. CASE s = r
    <3>1. /\ worker'[w] = k /\ ~Running(w)' /\ k.pc \notin Undoing /\ k.pc # "conclude"
          /\ \A v \in Workers \ {w} : worker'[v] = worker[v]
          BY <1>0, <1>1, OneRunMoves DEF Running, Undoing
    <3>2. \A v \in Workers : Running(v)' => v # w /\ Running(v) /\ worker'[v] = worker[v]
          BY <3>1 DEF Running
    <3>3. \A v \in Workers : worker[v].id = s /\ Running(v) => worker[v].pc \in Undoing
          BY <1>2, <2>0, <2>2 DEF SagaIsExclusive
    <3>4. \A v \in Workers : worker'[v].pc \in Undoing => worker'[v] = worker[v]
          BY <3>1
    <3>5. \A v \in Workers : worker'[v].pc = "conclude" => worker'[v] = worker[v]
          BY <3>1
    <3>q. QED BY <1>2, <2>0, <2>2, <3>2, <3>3, <3>4, <3>5 DEF SagaIsExclusive
  <2>q. QED BY <2>1, <2>2
<1>7. AttendedInv'
  <2>1. worker[w].id # r /\ ~Running(w)
        BY <1>2, StepNumbers, RunFields DEF Running
  <2>q. QED BY <1>0, <1>1, <1>2, <2>1, AttendedKept
<1>q. QED BY <1>2, <1>3, <1>4, <1>5, <1>6, <1>7 DEF SagaInv, ExclusiveInv

\* Resume's write: the saga is the run's alone, or counts as overlapped.
LEMMA ResumeKeeps ==
    ASSUME SagaInv, NEW w \in Workers, Resume(w)
    PROVE  SagaInv'
<1>0. ShapeInv /\ TenantsInv /\ ClaimsInv /\ ExclusiveInv /\ AttendedInv
      BY DEF SagaInv
<1>1. PICK r \in Created : r = worker[w].id
      BY <1>0, ResumeMoves
<1>2. PICK m \in Row : m = worker[w].mem
      BY <1>0, RunFields
<1>3. /\ saga' = [saga EXCEPT ![r] = m] /\ worker[w].pc = "resume" /\ m.status = "in_progress" /\ Created' = Created
      /\ overlapped \subseteq overlapped' /\ overlapped' \subseteq overlapped \union {r}
      /\ r \notin overlapped' => r \notin undone /\ \A v \in Workers \ {w} : worker[v].id # r
      /\ UNCHANGED <<provision, minted, undone, abandoned>> /\ r \in Sagas
      BY <1>0, <1>1, <1>2, ResumeMoves, RunFields
<1>4. PICK k \in Run(r, m) : worker' = [worker EXCEPT ![w] = k]
      BY <1>0, <1>1, <1>2, ResumeMoves
<1>5. /\ k \in RunState /\ k.id = r /\ k.mem.done = m.done /\ k.mem.tenant = m.tenant
      /\ k.pc \in {"giveUp", "settle", "step"}
      /\ k.pc = "giveUp" => k.mem.status = "failed"
      /\ k.pc = "settle" => k.mem.status = "completed" /\ m.done = LastStep
      /\ k.pc = "step" => k.mem = m /\ m.done < LastStep
      BY <1>3, RunBegins
<1>6. RowIsSound(m) /\ Claim(r, m.tenant, m.done)
      BY <1>0, <1>1, <1>2, RunFields, ClaimsOfRuns DEF RunIsSound
<1>7. saga' \in [Sagas -> Row \union {NULL}] /\ saga'[r] = m /\ \A s \in Created \ {r} : saga'[s] = saga[s]
      BY <1>0, <1>3 DEF ShapeInv, SagaTypeOK, Created
<1>8. ShapeInv'
  <2>1. RowIsSound(k.mem)' /\ RowIsSound(saga[r])'
        BY <1>3, <1>5, <1>6, <1>7 DEF RowIsSound
  <2>2. RunIsSound(k)'
        BY <1>3, <1>5, <2>1 DEF RunIsSound, Undoing
  <2>3. minted <= minted' /\ minted' \in 0 .. MaxTenants
        BY <1>0, <1>3, RunFields, SMT, SMTT(30) DEF ShapeInv, SagaTypeOK
  <2>4. \A s \in Created' : (s \in Created /\ saga'[s] = saga[s]) \/ RowIsSound(saga[s])'
        BY <1>3, <1>7, <2>1
  <2>5. /\ Created \subseteq Created' /\ undone' \subseteq Created' /\ overlapped' \subseteq Created' /\ abandoned' \subseteq Sagas
        /\ \E n \in 0 .. MaxSagas : Created' = 1 .. n
        BY <1>0, <1>3 DEF ShapeInv, SagaTypeOK
  <2>6. provision' \in [Tenants -> SUBSET (1 .. LastCritical)]
        BY <1>0, <1>3 DEF ShapeInv, SagaTypeOK
  <2>q. QED BY <1>0, <1>4, <1>5, <1>7, <2>2, <2>3, <2>4, <2>5, <2>6, ShapeKept
<1>9. TenantsInv'
      BY <1>0, <1>3 DEF TenantsInv
<1>10. ClaimsInv'
  <2>1. Claim(k.id, k.mem.tenant, k.mem.done)
        BY <1>5, <1>6
  <2>2. \A s \in Created' : (s \in Created /\ saga'[s] = saga[s]) \/ Claim(s, saga'[s].tenant, saga'[s].done)
        BY <1>3, <1>6, <1>7
  <2>q. QED BY <1>0, <1>3, <1>4, <1>5, <2>1, <2>2, ClaimsKept
<1>11. ASSUME NEW s \in Created' \ overlapped' PROVE SagaIsExclusive(s)'
  <2>0. s \in Created \ overlapped /\ SagaIsExclusive(s)
        BY <1>0, <1>3, <1>11 DEF ExclusiveInv
  <2>1. CASE s # r
        BY <1>0, <1>1, <1>3, <1>4, <1>5, <1>7, <2>0, <2>1, OtherSagaKept
  <2>2. CASE s = r
    <3>1. r \notin undone' /\ saga'[r].status = "in_progress"
          BY <1>3, <1>7, <1>11, <2>2
    <3>2. worker'[w] = k /\ \A v \in Workers : worker'[v].id = r => v = w
          BY <1>0, <1>3, <1>4, <1>5, <1>11, <2>2, OneRunMoves
    <3>3. k.pc \notin Undoing /\ k.pc # "conclude"
          BY <1>5 DEF Undoing
    <3>q. QED BY <2>2, <3>1, <3>2, <3>3 DEF SagaIsExclusive
  <2>q. QED BY <2>1, <2>2
<1>12. AttendedInv'
  <2>1. ~Running(w) /\ k.pc \notin {"idle", "create", "resume"}
        BY <1>3, <1>5 DEF Running
  <2>q. QED BY <1>0, <1>3, <1>4, <1>5, <1>7, <2>1, AttendedKept
<1>q. QED BY <1>8, <1>9, <1>10, <1>11, <1>12 DEF SagaInv, ExclusiveInv

\* The steps of run: the saga is this run's alone, and the claims grow with what was executed.
LEMMA StepKeeps ==
    ASSUME SagaInv, NEW w \in Workers, StepSucceeds(w) \/ StepFails(w) \/ BestEffortStep(w)
    PROVE  SagaInv'
<1>0. ShapeInv /\ TenantsInv /\ ClaimsInv /\ ExclusiveInv /\ AttendedInv
      BY DEF SagaInv
<1>1. PICK r \in Created : r = worker[w].id
      BY <1>0, RunFields DEF StepSucceeds, StepFails, BestEffortStep, RunIsSound
<1>2. /\ worker[w].pc = "step" /\ UNCHANGED <<saga, undone, overlapped, abandoned>> /\ Created' = Created
      /\ r \in Sagas /\ worker[w].mem.tenant \in Tenants \union {NULL} /\ worker[w].mem.done \in 0 .. LastStep
      /\ RunIsSound(worker[w]) /\ minted \in Nat /\ LastStep \in Nat /\ LastCritical \in Nat
      BY ZenonT(40), <1>0, RunFields, StepNumbers DEF StepSucceeds, StepFails, BestEffortStep, Created
<1>3. \A s \in Sagas, d \in 0 .. LastStep : Claim(s, worker[w].mem.tenant, d) /\ worker[w].mem.tenant # NULL => s = r
      BY <1>0, <1>1, <1>2, ClaimsOfRuns DEF ClaimsInv
<1>4. ASSUME NEW k \in RunState, worker' = [worker EXCEPT ![w] = k], k.id = r, k.pc \in {"save", "giveUp", "fail"},
             RowIsSound(k.mem)', k.pc = "save" => k.mem.status = "in_progress",
             k.pc # "save" => k.mem.status = "failed", k.pc = "fail" => k.mem.done >= 1,
             ClaimsInv', TenantsInv', provision' \in [Tenants -> SUBSET (1 .. LastCritical)],
             minted' \in 0 .. MaxTenants, minted <= minted',
             \A t \in Tenants : provision'[t] = provision[t] \/ t = worker[w].mem.tenant \/ t = minted + 1
      PROVE  SagaInv'
  <2>1. ShapeInv'
    <3>1. RunIsSound(k)'
          BY <1>2, <1>4 DEF RunIsSound, Undoing
    <3>2. /\ saga' \in [Sagas -> Row \union {NULL}] /\ undone' \subseteq Created' /\ overlapped' \subseteq Created'
          /\ abandoned' \subseteq Sagas /\ \E n \in 0 .. MaxSagas : Created' = 1 .. n
          BY <1>0, <1>2 DEF ShapeInv, SagaTypeOK
    <3>q. QED BY <1>0, <1>2, <1>4, <3>1, <3>2, ShapeKept
  <2>2. ASSUME NEW s \in Created \ overlapped PROVE SagaIsExclusive(s)'
    <3>0. SagaIsExclusive(s) /\ s \in Sagas
          BY <1>0, RunFields DEF ExclusiveInv
    <3>1. CASE s # r
      <4>1. ASSUME NEW t \in Tenants, NEW d \in 0 .. LastStep, Claim(s, t, d) PROVE provision'[t] = provision[t]
        <5>1. t # worker[w].mem.tenant
              BY <1>3, <3>0, <3>1, <4>1, StepNumbers
        <5>2. t <= minted
              BY <1>0, <3>0, <4>1, ClaimsOfRuns
        <5>3. t # minted + 1
              BY <1>2, <5>2, SMT, SMTT(30) DEF Tenants
        <5>q. QED BY <1>4, <5>1, <5>3
      <4>q. QED BY <1>0, <1>1, <1>2, <1>4, <3>0, <3>1, <4>1, OtherSagaKept
    <3>2. CASE s = r
      <4>1. /\ s \notin undone /\ saga[s].status = "in_progress" /\ \A v \in Workers : worker[v].id = s => v = w
            BY <1>1, <1>2, <3>0, <3>2 DEF SagaIsExclusive, Running, Undoing
      <4>2. worker'[w] = k /\ \A v \in Workers : worker'[v].id = s => v = w
            BY <1>0, <1>4, <3>2, <4>1, OneRunMoves
      <4>3. k.pc \notin Undoing /\ k.pc # "conclude"
            BY <1>4 DEF Undoing
      <4>q. QED BY <1>2, <4>1, <4>2, <4>3 DEF SagaIsExclusive
    <3>q. QED BY <3>1, <3>2
  <2>3. AttendedInv'
    <3>1. k.pc \notin {"idle", "create", "resume"}
          BY <1>4
    <3>q. QED BY <1>0, <1>1, <1>2, <1>4, <3>1, AttendedKept
  <2>q. QED BY <1>2, <1>4, <2>1, <2>2, <2>3 DEF SagaInv, ExclusiveInv
<1>5. CASE StepSucceeds(w)
  <2>1. PICK k \in RunState, t \in Tenants, n \in 1 .. LastCritical :
              /\ worker' = [worker EXCEPT ![w] = k]
              /\ k.pc = "save" /\ k.id = worker[w].id /\ k.mem.status = "in_progress" /\ k.mem.done = n /\ k.mem.tenant = t
              /\ worker[w].mem.done = n - 1 /\ Execute(t, n)
              /\ IF n = 1 THEN t = minted + 1 ELSE t = worker[w].mem.tenant
        BY <1>0, <1>5, StepSucceedsMoves, SMT, SMTT(30)
  <2>2. /\ TenantsInv' /\ provision' \in [Tenants -> SUBSET (1 .. LastCritical)]
        /\ minted' \in 0 .. MaxTenants /\ minted <= minted'
        /\ \A u \in Tenants : provision[u] \subseteq provision'[u] /\ (u # t => provision'[u] = provision[u])
        /\ n \in provision'[t]
        BY <1>0, <2>1, ExecuteGrows
  <2>3. RowIsSound(k.mem)'
    <3>1. t <= minted'
      <4>1. CASE n = 1
            BY <1>2, <2>1, <4>1, SMT, SMTT(30) DEF Execute, CreateTenant, Tenants
      <4>2. CASE n # 1
            BY <1>2, <2>1, <2>2, <4>2, StepNumbers, SMT, SMTT(30) DEF RunIsSound, RowIsSound, Tenants
      <4>q. QED BY <4>1, <4>2
    <3>q. QED BY <2>1, <3>1, StepNumbers, SMT, SMTT(30) DEF RowIsSound
  <2>4. ClaimsInv'
    <3>1. \A s \in Sagas, d \in 0 .. LastStep : Claim(s, t, d) => s = k.id
      <4>1. CASE n = 1
        <5>1. ASSUME NEW s \in Sagas, NEW d \in 0 .. LastStep, Claim(s, t, d) PROVE FALSE
          <6>1. t <= minted
                BY <1>0, <5>1, ClaimsOfRuns
          <6>q. QED BY <1>2, <2>1, <4>1, <6>1, SMT, SMTT(30)
        <5>q. QED BY <5>1
      <4>2. CASE n # 1
            BY <1>1, <1>3, <2>1, <4>2, StepNumbers
      <4>q. QED BY <4>1, <4>2
    <3>2. ASSUME k.id \notin undone, NEW j \in 1 .. LastCritical, j <= n PROVE j \in provision'[t]
      <4>1. CASE j = n
            BY <2>2, <4>1
      <4>2. CASE j # n
        <5>1. n # 1 /\ j <= n - 1 /\ n - 1 \in 0 .. LastStep
              BY <1>2, <2>1, <3>2, <4>2, SMT, SMTT(30)
        <5>2. Claim(r, t, n - 1)
              BY <1>0, <1>1, <2>1, <5>1, ClaimsOfRuns
        <5>3. j \in provision[t]
              BY <1>0, <1>1, <1>2, <2>1, <3>2, <5>1, <5>2 DEF ClaimsInv
        <5>q. QED BY <2>2, <5>3
      <4>q. QED BY <4>1, <4>2
    <3>q. QED BY <1>0, <1>2, <2>1, <2>2, <3>1, <3>2, ClaimsGrow
  <2>5. \A u \in Tenants : provision'[u] = provision[u] \/ u = worker[w].mem.tenant \/ u = minted + 1
        BY <2>1, <2>2
  <2>q. QED BY <1>1, <1>4, <2>1, <2>2, <2>3, <2>4, <2>5
<1>6. CASE StepFails(w)
  <2>1. PICK k \in RunState :
                 /\ worker' = [worker EXCEPT ![w] = k] /\ k.pc \in {"giveUp", "fail"} /\ k.id = worker[w].id
                 /\ k.mem.status = "failed" /\ k.mem.done = worker[w].mem.done /\ k.mem.tenant = worker[w].mem.tenant
                 /\ k.pc = "fail" => k.mem.done >= 1
        BY <1>0, <1>6, StepFailsMoves
  <2>2. /\ TenantsInv' /\ provision' \in [Tenants -> SUBSET (1 .. LastCritical)]
        /\ minted' \in 0 .. MaxTenants /\ minted <= minted'
        /\ \A u \in Tenants : provision[u] \subseteq provision'[u]
        /\ \A u \in Tenants : provision'[u] = provision[u] \/ u = worker[w].mem.tenant \/ u = minted + 1
    <3>1. CASE UNCHANGED <<provision, minted>>
          BY <1>0, <1>2, <3>1, SMT, SMTT(30) DEF TenantsInv, ShapeInv, SagaTypeOK
    <3>2. ASSUME NEW t \in Tenants, NEW n \in 1 .. LastCritical, Execute(t, n),
                 IF n = 1 THEN t = minted + 1 ELSE t = worker[w].mem.tenant
          PROVE  /\ TenantsInv' /\ provision' \in [Tenants -> SUBSET (1 .. LastCritical)]
                 /\ minted' \in 0 .. MaxTenants /\ minted <= minted'
                 /\ \A u \in Tenants : provision[u] \subseteq provision'[u]
                 /\ \A u \in Tenants : provision'[u] = provision[u] \/ u = worker[w].mem.tenant \/ u = minted + 1
      <4>1. /\ TenantsInv' /\ provision' \in [Tenants -> SUBSET (1 .. LastCritical)]
            /\ minted' \in 0 .. MaxTenants /\ minted <= minted'
            /\ \A u \in Tenants : provision[u] \subseteq provision'[u] /\ (u # t => provision'[u] = provision[u])
            BY <1>0, <3>2, ExecuteGrows
      <4>q. QED BY <3>2, <4>1
    <3>q. QED BY <1>0, <1>6, <3>1, <3>2, StepFailsMoves
  <2>3. RowIsSound(k.mem)'
    <3>1. RowIsSound(worker[w].mem)
          BY <1>2 DEF RunIsSound
    <3>2. minted' \in Nat
          BY <2>2, StepNumbers, SMT, SMTT(30)
    <3>q. QED BY <1>2, <2>1, <2>2, <3>1, <3>2, SMT, SMTT(30) DEF RowIsSound, Tenants
  <2>4. ClaimsInv'
    <3>1. Claim(k.id, k.mem.tenant, k.mem.done)
          BY <1>0, <2>1, ClaimsOfRuns
    <3>q. QED BY <1>0, <1>2, <2>1, <2>2, <3>1, ClaimsKept
  <2>q. QED BY <1>1, <1>4, <2>1, <2>2, <2>3, <2>4
<1>7. CASE BestEffortStep(w)
  <2>1. PICK k \in RunState :
                 /\ worker' = [worker EXCEPT ![w] = k] /\ k.pc = "save" /\ k.id = worker[w].id
                 /\ k.mem.status = "in_progress" /\ k.mem.done = worker[w].mem.done + 1
                 /\ k.mem.tenant = worker[w].mem.tenant
        BY <1>0, <1>7, BestEffortMoves
  <2>2. worker[w].mem.done >= LastCritical /\ UNCHANGED <<provision, minted>>
        BY <1>0, <1>7, BestEffortMoves
  <2>3. worker[w].mem.tenant \in Tenants
        BY <1>2, <2>2, StepNumbers, SMT, SMTT(30) DEF RunIsSound, RowIsSound
  <2>4. RowIsSound(k.mem)'
        BY <1>2, <2>1, <2>2, <2>3, StepNumbers, SMT, SMTT(30) DEF RunIsSound, RowIsSound
  <2>5. ClaimsInv'
    <3>0. PICK t \in Tenants : t = worker[w].mem.tenant
          BY <2>3
    <3>1. \A s \in Sagas, d \in 0 .. LastStep : Claim(s, t, d) => s = k.id
          BY <1>1, <1>3, <2>1, <3>0, StepNumbers
    <3>2. ASSUME k.id \notin undone, NEW j \in 1 .. LastCritical PROVE j \in provision'[t]
      <4>1. Claim(r, t, worker[w].mem.done)
            BY <1>0, <1>1, <3>0, ClaimsOfRuns
      <4>2. j <= worker[w].mem.done
            BY <1>2, <2>2, SMT, SMTT(30)
      <4>q. QED BY <1>0, <1>1, <1>2, <2>1, <2>2, <3>2, <4>1, <4>2 DEF ClaimsInv
    <3>q. QED BY <1>0, <1>2, <2>1, <2>2, <3>0, <3>1, <3>2, ClaimsGrow
  <2>6. TenantsInv' /\ provision' \in [Tenants -> SUBSET (1 .. LastCritical)] /\ minted' \in 0 .. MaxTenants /\ minted <= minted'
        BY <1>0, <1>2, <2>2, SMT, SMTT(30) DEF TenantsInv, ShapeInv, SagaTypeOK
  <2>q. QED BY <1>1, <1>4, <2>1, <2>2, <2>4, <2>5, <2>6
<1>q. QED BY <1>5, <1>6, <1>7

\* persist: the row is what the run holds, and its last save settles the saga or gives it up.
LEMMA PersistKeeps ==
    ASSUME SagaInv, NEW w \in Workers, Persist(w)
    PROVE  SagaInv'
<1>0. ShapeInv /\ TenantsInv /\ ClaimsInv /\ ExclusiveInv /\ AttendedInv
      BY DEF SagaInv
<1>1. PICK r \in Created : r = worker[w].id
      BY <1>0, PersistMoves
<1>2. /\ Created' = Created /\ UNCHANGED <<provision, minted, undone, overlapped>> /\ r \in Sagas
      /\ worker[w].mem.tenant \in Tenants \union {NULL} /\ worker[w].mem.done \in 0 .. LastStep
      /\ RunIsSound(worker[w]) /\ minted \in Nat /\ NULL \notin Sagas /\ worker[w].errors \in BOOLEAN
      BY <1>0, PersistMoves, RunFields, StepNumbers
<1>3. PICK k \in RunState :
                 /\ worker' = [worker EXCEPT ![w] = k]
                 /\ k = NoRun \/ (k.id = worker[w].id /\ k.mem.done = worker[w].mem.done /\ k.mem.tenant = worker[w].mem.tenant)
                 /\ worker[w].pc \in {"save", "fail", "giveUp", "compensating", "conclude", "settle"}
                 /\ worker[w].pc = "save" => k.id = worker[w].id /\
                       (\/ k.pc = "step" /\ k.mem.status = "in_progress" /\ k.mem.done < LastStep
                        \/ k.pc = "settle" /\ k.mem.status = "completed" /\ k.mem.done = LastStep)
                 /\ worker[w].pc = "fail" => k.id = worker[w].id /\ k.pc = "compensating" /\ k.mem.status = "compensating"
                 /\ worker[w].pc = "compensating" => k.id = worker[w].id /\ k.pc = "unbind" /\ k.mem.status = "compensating"
                 /\ worker[w].pc \in {"giveUp", "conclude", "settle"} => k = NoRun
      BY <1>0, PersistMoves
<1>4. /\ saga' \in [Sagas -> Row \union {NULL}] /\ (\A s \in Created \ {r} : saga'[s] = saga[s])
      /\ \/ /\ UNCHANGED saga
            /\ abandoned' = IF worker[w].pc \in {"giveUp", "conclude", "settle"} THEN abandoned \union {r} ELSE abandoned
         \/ /\ saga'[r].done = worker[w].mem.done /\ saga'[r].tenant = worker[w].mem.tenant /\ UNCHANGED abandoned
            /\ worker[w].pc # "conclude" => saga'[r].status = worker[w].mem.status
            /\ worker[w].pc = "conclude" => saga'[r].status = IF worker[w].errors THEN "compensation_failed" ELSE "compensated"
  <2>1. saga \in [Sagas -> Row \union {NULL}] /\ Created \subseteq Sagas
        BY <1>0 DEF ShapeInv, SagaTypeOK, Created
  <2>2. CASE UNCHANGED saga /\ abandoned' = IF worker[w].pc \in {"giveUp", "conclude", "settle"}
                                            THEN abandoned \union {worker[w].id} ELSE abandoned
        BY <1>1, <2>1, <2>2
  <2>3. ASSUME NEW q \in Row, saga' = [saga EXCEPT ![worker[w].id] = q],
               q.done = worker[w].mem.done /\ q.tenant = worker[w].mem.tenant /\ UNCHANGED abandoned,
               worker[w].pc # "conclude" => q.status = worker[w].mem.status,
               worker[w].pc = "conclude" => q.status = IF worker[w].errors THEN "compensation_failed" ELSE "compensated"
        PROVE  /\ saga' \in [Sagas -> Row \union {NULL}] /\ (\A s \in Created \ {r} : saga'[s] = saga[s]) /\ saga'[r] = q
        BY <1>1, <1>2, <2>1, <2>3
  <2>q. QED BY <1>0, <2>2, <2>3, PersistMoves, SMT, SMTT(30)
<1>5. ShapeInv'
  <2>1. RowIsSound(worker[w].mem) /\ RowIsSound(saga[r])
        BY <1>0, <1>2, RunFields DEF RunIsSound
  <2>2. RowIsSound(saga[r])'
        BY <1>2, <1>4, <2>1 DEF RowIsSound
  <2>3. RowIsSound(k.mem)'
        BY <1>2, <1>3, <2>1, StepNumbers DEF RowIsSound
  <2>4. RunIsSound(k)'
    <3>1. CASE k = NoRun
          BY <2>3, <3>1, StepNumbers DEF RunIsSound, Undoing
    <3>2. CASE worker[w].pc = "save"
          BY <1>1, <1>2, <1>3, <2>3, <3>2 DEF RunIsSound, Undoing
    <3>3. CASE worker[w].pc \in {"fail", "compensating"}
      <4>1. k.mem.done >= 1
            BY <1>2, <1>3, <3>3, StepNumbers DEF RunIsSound, Undoing
      <4>q. QED BY <1>1, <1>2, <1>3, <2>3, <3>3, <4>1 DEF RunIsSound, Undoing
    <3>q. QED BY <1>3, <3>1, <3>2, <3>3
  <2>5. minted <= minted' /\ minted' \in 0 .. MaxTenants /\ provision' \in [Tenants -> SUBSET (1 .. LastCritical)]
        BY <1>0, <1>2, SMT, SMTT(30) DEF ShapeInv, SagaTypeOK
  <2>6. /\ undone' \subseteq Created' /\ overlapped' \subseteq Created' /\ (\E n \in 0 .. MaxSagas : Created' = 1 .. n)
        BY <1>0, <1>2 DEF ShapeInv
  <2>7. abandoned' \subseteq Sagas
        BY <1>0, <1>2, <1>4 DEF ShapeInv, SagaTypeOK
  <2>8. \A s \in Created' : (s \in Created /\ saga'[s] = saga[s]) \/ RowIsSound(saga[s])'
        BY <1>2, <1>4, <2>2
  <2>q. QED BY <1>0, <1>2, <1>3, <1>4, <2>4, <2>5, <2>6, <2>7, <2>8, ShapeKept
<1>6. TenantsInv'
      BY <1>0, <1>2 DEF TenantsInv
<1>7. ClaimsInv'
  <2>1. Claim(r, worker[w].mem.tenant, worker[w].mem.done)
        BY <1>0, <1>1, ClaimsOfRuns
  <2>2. k.mem.tenant = NULL \/ Claim(k.id, k.mem.tenant, k.mem.done)
        BY <1>1, <1>3, <2>1, StepNumbers
  <2>3. \A s \in Created' : (s \in Created /\ saga'[s] = saga[s]) \/ Claim(s, saga'[s].tenant, saga'[s].done)
        BY <1>2, <1>4, <2>1
  <2>q. QED BY <1>0, <1>2, <1>3, <2>2, <2>3, ClaimsKept
<1>8. ASSUME NEW s \in Created \ overlapped PROVE SagaIsExclusive(s)'
  <2>0. SagaIsExclusive(s) /\ s \in Sagas
        BY <1>0, RunFields DEF ExclusiveInv
  <2>1. CASE s # r
    <3>1. k.id # s
          BY <1>1, <1>2, <1>3, <2>0, <2>1, StepNumbers
    <3>q. QED BY <1>0, <1>1, <1>2, <1>3, <1>4, <2>0, <2>1, <3>1, OtherSagaKept
  <2>2. CASE s = r
    <3>0. /\ worker'[w] = k /\ (\A v \in Workers \ {w} : worker'[v] = worker[v]) /\ Running(w)
          /\ \A v \in Workers : worker[v].id = s /\ Running(v) => v = w
          BY <1>0, <1>1, <1>3, <2>0, <2>2, OneRunMoves DEF SagaIsExclusive, Running
    <3>1. \A v \in Workers : worker'[v].id = s /\ Running(v)' => v = w
          BY <3>0 DEF Running
    <3>2. CASE worker[w].pc \in {"save", "settle", "giveUp"}
      <4>1. s \notin undone /\ saga[s].status = "in_progress" /\ \A v \in Workers : worker[v].id = s => v = w
            BY <1>1, <2>0, <2>2, <3>0, <3>2 DEF SagaIsExclusive, Undoing
      <4>2. \A v \in Workers : worker'[v].id = s => v = w
            BY <3>0, <4>1
      <4>3. CASE worker[w].pc = "save"
        <5>1. saga'[s].status = "in_progress" /\ k.pc \notin Undoing /\ k.pc # "conclude"
          <6>1. worker[w].mem.status = "in_progress"
                BY <1>2, <4>3 DEF RunIsSound
          <6>2. saga'[s].status = "in_progress"
                BY <1>4, <2>2, <4>1, <4>3, <6>1
          <6>q. QED BY <1>3, <4>3, <6>2 DEF Undoing
        <5>q. QED BY <1>2, <3>0, <4>1, <4>2, <5>1 DEF SagaIsExclusive
      <4>4. CASE worker[w].pc \in {"settle", "giveUp"}
        <5>1. \A v \in Workers : worker'[v].id # s
              BY ZenonT(40), <1>2, <1>3, <2>0, <3>0, <4>2, <4>4, StepNumbers
        <5>2. saga'[s].status # "compensated" /\ (saga'[s].status = "completed" => saga'[s].done = LastStep)
          <6>1. /\ worker[w].pc = "settle" => worker[w].mem.status = "completed" /\ worker[w].mem.done = LastStep
                /\ worker[w].pc = "giveUp" => worker[w].mem.status = "failed"
                BY <1>2 DEF RunIsSound
          <6>q. QED BY <1>4, <2>2, <4>1, <4>4, <6>1
        <5>q. QED BY <1>2, <4>1, <5>1, <5>2 DEF SagaIsExclusive
      <4>q. QED BY <3>2, <4>3, <4>4
    <3>3. CASE worker[w].pc \in {"fail", "compensating"}
      <4>1. saga'[s].status \in {"in_progress", "failed", "compensating"}
        <5>1. saga[s].status \in {"in_progress", "failed", "compensating"}
              BY <1>1, <2>0, <2>2, <3>0, <3>3 DEF SagaIsExclusive, Undoing
        <5>2. worker[w].mem.status \in {"failed", "compensating"}
              BY <1>2, <3>3 DEF RunIsSound, Undoing
        <5>q. QED BY <1>4, <2>2, <3>3, <5>1, <5>2
      <4>2. k.pc \in {"compensating", "unbind"}
            BY <1>3, <3>3
      <4>3. \A v \in Workers : worker'[v].id = s /\ v # w => worker[v].id = s /\ ~Running(v) /\ worker'[v].pc \notin Undoing /\ worker'[v].pc # "conclude"
            BY <3>0 DEF Running, Undoing
      <4>4. k.pc \in Undoing /\ k.pc # "conclude"
            BY <4>2 DEF Undoing
      <4>q. QED BY <1>2, <3>0, <3>1, <4>1, <4>3, <4>4 DEF SagaIsExclusive
    <3>4. CASE worker[w].pc = "conclude"
      <4>1. /\ s \in undone /\ (~worker[w].errors => provision[worker[w].mem.tenant] = {})
            /\ saga[s].status \in {"in_progress", "failed", "compensating"}
            BY <1>1, <2>0, <2>2, <3>4 DEF SagaIsExclusive, Undoing
      <4>2. worker[w].mem.tenant # NULL
            BY <1>2, <3>4, SMT, SMTT(30) DEF RunIsSound, RowIsSound, Undoing
      <4>3. \A v \in Workers : worker'[v].id = s => ~Running(v)'
            BY <1>2, <1>3, <2>0, <3>1, <3>0, <3>4, StepNumbers DEF Running
      <4>4. \A v \in Workers : worker'[v].id = s => worker'[v].pc \notin Undoing /\ worker'[v].pc # "conclude"
            BY <4>3 DEF Running, Undoing
      <4>5. saga'[s].status = "compensated" => saga'[s].tenant = worker[w].mem.tenant /\ ~worker[w].errors
            BY <1>2, <1>4, <2>2, <3>4, <4>1
      <4>6. saga'[s].status # "completed"
            BY <1>4, <2>2, <3>4, <4>1
      <4>q. QED BY <1>2, <4>1, <4>2, <4>3, <4>4, <4>5, <4>6 DEF SagaIsExclusive
    <3>q. QED BY <1>3, <3>2, <3>3, <3>4
  <2>q. QED BY <2>1, <2>2
<1>9. AttendedInv'
  <2>1. CASE worker[w].pc \in {"save", "fail", "compensating"}
    <3>1. k.id = r /\ k.pc \notin {"idle", "create", "resume"} /\ abandoned' = abandoned
          BY <1>1, <1>3, <1>4, <2>1
    <3>2. \A s \in Created' \ (abandoned' \union overlapped') :
             \/ s \in Created \ (abandoned \union overlapped) /\ saga'[s] = saga[s] /\ (worker[w].id = s => ~Running(w))
             \/ k.id = s /\ k.pc \notin {"idle", "create", "resume"}
          BY <1>1, <1>2, <1>4, <3>1
    <3>q. QED BY <1>0, <1>3, <3>2, AttendedKept
  <2>2. CASE worker[w].pc \in {"giveUp", "conclude", "settle"}
    <3>1. r \in abandoned' \/ saga'[r].status \in {"completed", "failed", "compensated", "compensation_failed"}
      <4>1. /\ worker[w].pc = "settle" => worker[w].mem.status = "completed"
            /\ worker[w].pc = "giveUp" => worker[w].mem.status = "failed"
            BY <1>2 DEF RunIsSound
      <4>q. QED BY <1>2, <1>4, <2>2, <4>1
    <3>2. abandoned \subseteq abandoned'
          BY <1>4
    <3>q. QED BY <1>0, <1>1, <1>2, <1>3, <1>4, <3>1, <3>2, AttendedKept
  <2>q. QED BY <1>3, <2>1, <2>2
<1>q. QED BY <1>2, <1>5, <1>6, <1>7, <1>8, <1>9 DEF SagaInv, ExclusiveInv

\* failAndCompensate's calls: only the tenant of the saga whose undoing they begin loses anything.
LEMMA UndoKeeps ==
    ASSUME SagaInv, NEW w \in Workers, UnbindVertical(w) \/ DeleteUser(w) \/ DeleteTenant(w)
    PROVE  SagaInv'
<1>0. ShapeInv /\ TenantsInv /\ ClaimsInv /\ ExclusiveInv /\ AttendedInv
      BY DEF SagaInv
<1>1. PICK r \in Created : r = worker[w].id
      BY <1>0, UndoMoves
<1>2. PICK x \in Tenants : x = worker[w].mem.tenant
      BY <1>0, UndoMoves
<1>3. PICK k \in RunState :
                 /\ worker' = [worker EXCEPT ![w] = k] /\ k.id = worker[w].id /\ k.mem = worker[w].mem
                 /\ worker[w].pc \in {"unbind", "deleteUser", "deleteTenant"}
                 /\ k.pc \in {"deleteUser", "deleteTenant", "conclude"}
                 /\ k.pc = "conclude" => worker[w].id \in undone' /\ (~k.errors => provision'[k.mem.tenant] = {})
      BY <1>0, UndoMoves
<1>4. /\ provision' \in [Tenants -> SUBSET (1 .. LastCritical)] /\ UNCHANGED <<saga, minted, overlapped, abandoned>>
      /\ \A t \in Tenants : provision'[t] \subseteq provision[t]
      /\ \A t \in Tenants : provision'[t] # provision[t] => t = x /\ r \in undone'
      /\ undone \subseteq undone' /\ undone' \subseteq undone \union {r}
      BY <1>0, <1>1, <1>2, UndoMoves
<1>5. /\ Created' = Created /\ r \in Sagas /\ RunIsSound(worker[w]) /\ minted \in Nat /\ worker[w].mem.done \in 0 .. LastStep
      BY <1>0, <1>4, RunFields, StepNumbers DEF Created
<1>6. \A s \in Sagas, d \in 0 .. LastStep : Claim(s, x, d) => s = r
  <2>1. Claim(r, x, worker[w].mem.done)
        BY <1>0, <1>1, <1>2, ClaimsOfRuns
  <2>q. QED BY <1>0, <1>5, <2>1 DEF ClaimsInv
<1>7. ShapeInv'
  <2>1. RowIsSound(k.mem)'
        BY <1>3, <1>4, <1>5 DEF RunIsSound, RowIsSound
  <2>2. k.mem.done >= 1 /\ k.mem.status = "compensating"
        BY <1>3, <1>5 DEF RunIsSound, Undoing
  <2>3. RunIsSound(k)'
        BY <1>1, <1>3, <1>5, <2>1, <2>2 DEF RunIsSound, Undoing
  <2>4. /\ saga' \in [Sagas -> Row \union {NULL}] /\ undone' \subseteq Created' /\ overlapped' \subseteq Created'
        /\ abandoned' \subseteq Sagas /\ (\E n \in 0 .. MaxSagas : Created' = 1 .. n)
        /\ minted' \in 0 .. MaxTenants /\ minted <= minted'
        BY <1>0, <1>4, <1>5, SMT, SMTT(30) DEF ShapeInv, SagaTypeOK
  <2>q. QED BY <1>0, <1>3, <1>4, <1>5, <2>3, <2>4, ShapeKept
<1>8. TenantsInv'
      BY <1>0, <1>4 DEF TenantsInv
<1>9. ClaimsInv'
  <2>1. ASSUME NEW s \in Sagas, NEW t \in Tenants, NEW d \in 0 .. LastStep, Claim(s, t, d)' PROVE Claim(s, t, d)
    <3>1. \A v \in Workers : worker'[v].id = worker[v].id /\ worker'[v].mem = worker[v].mem
          BY <1>0, <1>3, OneRunMoves
    <3>q. QED BY <1>4, <1>5, <2>1, <3>1 DEF Claim
  <2>2. ASSUME NEW s \in Sagas \ undone', NEW t \in Tenants, NEW d \in 0 .. LastStep, Claim(s, t, d)',
               NEW n \in 1 .. LastCritical, n <= d
        PROVE  n \in provision'[t]
    <3>1. Claim(s, t, d) /\ s \notin undone
          BY <1>4, <2>1, <2>2
    <3>2. n \in provision[t]
          BY <1>0, <2>2, <3>1 DEF ClaimsInv
    <3>3. provision'[t] = provision[t]
          BY <1>4, <1>6, <2>2, <3>1
    <3>q. QED BY <3>2, <3>3
  <2>3. \A s, q \in Sagas, t \in Tenants, d, e \in 0 .. LastStep : Claim(s, t, d)' /\ Claim(q, t, e)' => s = q
        BY ZenonT(40), <1>0, <2>1 DEF ClaimsInv
  <2>q. QED BY <2>2, <2>3 DEF ClaimsInv
<1>10. ASSUME NEW s \in Created \ overlapped PROVE SagaIsExclusive(s)'
  <2>0. SagaIsExclusive(s) /\ s \in Sagas
        BY <1>0, RunFields DEF ExclusiveInv
  <2>1. CASE s # r
    <3>1. \A t \in Tenants, d \in 0 .. LastStep : Claim(s, t, d) => provision'[t] = provision[t]
          BY <1>4, <1>6, <2>0, <2>1
    <3>q. QED BY <1>0, <1>1, <1>3, <1>4, <2>0, <2>1, <3>1, OtherSagaKept
  <2>2. CASE s = r
    <3>0. /\ worker'[w] = k /\ (\A v \in Workers \ {w} : worker'[v] = worker[v]) /\ Running(w)
          /\ \A v \in Workers : worker[v].id = s /\ Running(v) => v = w
          BY <1>0, <1>1, <1>3, <2>0, <2>2, OneRunMoves DEF SagaIsExclusive, Running
    <3>1. \A v \in Workers : worker'[v].id = s /\ Running(v)' => v = w
          BY <3>0 DEF Running
    <3>2. saga'[s].status \in {"in_progress", "failed", "compensating"}
          BY <1>1, <1>3, <1>4, <2>0, <2>2 DEF SagaIsExclusive, Undoing
    <3>3. \A v \in Workers : worker'[v].id = s /\ v # w => worker'[v].pc \notin Undoing /\ ~Running(v)'
          BY <3>1 DEF Running, Undoing
    <3>4. k.pc \in Undoing
          BY <1>3 DEF Undoing
    <3>5. \A v \in Workers : worker'[v].id = s /\ worker'[v].pc = "conclude" =>
             s \in undone' /\ (~worker'[v].errors => provision'[worker'[v].mem.tenant] = {})
      <4>1. \A v \in Workers : worker'[v].id = s /\ worker'[v].pc = "conclude" => v = w
            BY <3>1 DEF Running
      <4>q. QED BY <1>1, <1>3, <2>2, <3>0, <4>1
    <3>q. QED BY <3>0, <3>1, <3>2, <3>3, <3>4, <3>5 DEF SagaIsExclusive, Running
  <2>q. QED BY <2>1, <2>2
<1>11. AttendedInv'
  <2>1. \A s \in Created' \ (abandoned' \union overlapped') :
             \/ s \in Created \ (abandoned \union overlapped) /\ saga'[s] = saga[s] /\ (worker[w].id = s => ~Running(w))
             \/ k.id = s /\ k.pc \notin {"idle", "create", "resume"}
        BY <1>1, <1>3, <1>4, <1>5
  <2>q. QED BY <1>0, <1>3, <2>1, AttendedKept
<1>q. QED BY <1>4, <1>5, <1>7, <1>8, <1>9, <1>10, <1>11 DEF SagaInv, ExclusiveInv

\* Whatever the runs of the sagas of one email do, crash or repeat, the rows, the memory of the runs
\* and the databases agree as SagaInv says.
THEOREM SagaInvariant == SagaSpec => []SagaInv
<1>1. SagaInit => SagaInv
  <2> SUFFICES ASSUME SagaInit PROVE SagaInv
      OBVIOUS
  <2>1. Created = {} /\ Created = 1 .. 0 /\ 0 \in 0 .. MaxSagas /\ 0 \in 0 .. MaxTenants
        BY StepNumbers, SagaAssumption, SMT, SMTT(30) DEF SagaInit, Created
  <2>2. NoRun \in RunState /\ NoRun.pc = "idle" /\ NoRun.id = NULL /\ NoRun.mem = NewRow /\ NewRow.done = 0 /\ NewRow.tenant = NULL
        BY StepNumbers
  <2>3. RunIsSound(NoRun)
        BY <2>2 DEF RunIsSound, RowIsSound, Undoing
  <2>4. SagaTypeOK
        BY <2>1, <2>2 DEF SagaInit, SagaTypeOK
  <2>5. ShapeInv
        BY <2>1, <2>3, <2>4 DEF ShapeInv, SagaInit
  <2>6. \A s \in Sagas, t \in Tenants, d \in 0 .. LastStep : ~Claim(s, t, d)
        BY <2>1, <2>2, StepNumbers DEF Claim, SagaInit
  <2>7. TenantsInv
        BY DEF TenantsInv, SagaInit
  <2>q. QED BY <2>1, <2>5, <2>6, <2>7 DEF SagaInv, ClaimsInv, ExclusiveInv, AttendedInv
<1>2. SagaInv /\ [SagaNext]_sagaVars => SagaInv'
  <2> SUFFICES ASSUME SagaInv, [SagaNext]_sagaVars PROVE SagaInv'
      BY ZenonT(40)
  <2>1. CASE UNCHANGED sagaVars
        BY <2>1, SMT, SMTT(30) DEF sagaVars, SagaInv, ShapeInv, SagaTypeOK, TenantsInv, ClaimsInv, ExclusiveInv, AttendedInv, SagaIsExclusive,
                    Claim, Created, RunIsSound, RowIsSound, Running
  <2>2. ASSUME NEW w \in Workers, Start(w) \/ Crash(w) PROVE SagaInv'
        BY <2>2, StartAndCrashKeep
  <2>3. ASSUME NEW w \in Workers, NEW s \in Sagas, ResumeRead(w, s) PROVE SagaInv'
        BY <2>3, ResumeReadKeeps
  <2>4. ASSUME NEW w \in Workers, RunStep(w) PROVE SagaInv'
        BY <2>4, CreateKeeps, ResumeKeeps, StepKeeps, PersistKeeps, UndoKeeps DEF RunStep
  <2>q. QED BY <2>1, <2>2, <2>3, <2>4 DEF SagaNext
<1>q. QED BY <1>1, <1>2, PTL DEF SagaSpec

\* A completed registration has all that its critical steps create, for every number of racing runs,
\* unless the saga was resumed under another run or after its undoing.
THEOREM CompletedIsProvisionedHolds == SagaSpec => []CompletedIsProvisioned
<1>1. SagaInv => CompletedIsProvisioned
  <2> SUFFICES ASSUME SagaInv, NEW s \in Created \ overlapped, saga[s].status = "completed"
               PROVE  provision[saga[s].tenant] = 1 .. LastCritical
      BY DEF CompletedIsProvisioned
  <2>1. ShapeInv /\ ClaimsInv /\ SagaIsExclusive(s)
        BY DEF SagaInv, ExclusiveInv
  <2>2. s \notin undone /\ saga[s].done = LastStep
        BY <2>1 DEF SagaIsExclusive
  <2>3. /\ s \in Sagas /\ LastStep \in Nat /\ LastCritical \in Nat /\ 3 <= LastCritical /\ LastCritical <= LastStep
        /\ saga[s] \in Row /\ RowIsSound(saga[s])
        BY <2>1, RunFields, StepNumbers
  <2>4. PICK t \in Tenants : t = saga[s].tenant
        BY <2>2, <2>3, SMT, SMTT(30) DEF RowIsSound, Row
  <2>5. Claim(s, t, LastStep)
        BY <2>1, <2>2, <2>4, ClaimsOfRuns
  <2>6. \A n \in 1 .. LastCritical : n \in provision[t]
        BY <2>1, <2>2, <2>3, <2>5, SMT, SMTT(30) DEF ClaimsInv
  <2>7. provision[t] \subseteq 1 .. LastCritical
        BY <2>1 DEF ShapeInv, SagaTypeOK
  <2>q. QED BY <2>4, <2>6, <2>7
<1>q. QED BY <1>1, SagaInvariant, PTL

\* A saga saved as compensated has left nothing in the databases, with the same exception.
THEOREM CompensatedLeavesNothingHolds == SagaSpec => []CompensatedLeavesNothing
<1>1. SagaInv => CompensatedLeavesNothing
      BY DEF SagaInv, ExclusiveInv, SagaIsExclusive, CompensatedLeavesNothing
<1>q. QED BY <1>1, SagaInvariant, PTL

\* A saga nobody runs has a status that Start or Resume can go on from, unless its process died or
\* its last save was lost.
THEOREM UnattendedIsSettledHolds == SagaSpec => []UnattendedIsSettled
<1>1. SagaInv => UnattendedIsSettled
  <2> SUFFICES ASSUME SagaInv, NEW s \in Created \ (abandoned \union overlapped), \A w \in Workers : worker[w].id # s
               PROVE  saga[s].status \notin {"in_progress", "compensating"}
      BY DEF UnattendedIsSettled
  <2>q. QED BY DEF SagaInv, AttendedInv
<1>q. QED BY <1>1, SagaInvariant, PTL

\* However many sagas racing Starts create for an email, at most one completes: the unique company
\* name stops the others at CreateTenant.
THEOREM OneCompletedHolds == SagaSpec => []OneCompleted
<1>1. SagaInv /\ CompletedIsProvisioned => OneCompleted
  <2> SUFFICES ASSUME SagaInv, CompletedIsProvisioned PROVE OneCompleted
      OBVIOUS
  <2>0. ShapeInv /\ ClaimsInv /\ TenantsInv /\ ExclusiveInv
        BY DEF SagaInv
  <2>1. PICK S : S = {s \in Created \ overlapped : saga[s].status = "completed"}
        OBVIOUS
  <2>2. ASSUME NEW s \in S PROVE \E t \in Tenants : Claim(s, t, LastStep) /\ provision[t] # {}
    <3>1. s \in Created \ overlapped /\ saga[s].status = "completed"
          BY <2>1
    <3>2. saga[s].done = LastStep
          BY <2>0, <3>1 DEF ExclusiveInv, SagaIsExclusive
    <3>3. saga[s] \in Row /\ RowIsSound(saga[s]) /\ 1 <= LastCritical /\ LastCritical \in Nat /\ LastStep # 0
          BY <2>0, <3>1, RunFields, StepNumbers, SMT, SMTT(30)
    <3>4. PICK t \in Tenants : t = saga[s].tenant
          BY <3>2, <3>3 DEF RowIsSound, Row
    <3>5. provision[t] = 1 .. LastCritical
          BY <3>1, <3>4 DEF CompletedIsProvisioned
    <3>6. 1 \in provision[t]
          BY <3>3, <3>5, SMT, SMTT(30)
    <3>q. QED BY <2>0, <3>1, <3>2, <3>4, <3>6, ClaimsOfRuns
  <2>3. \A s, r \in S : s = r
    <3>1. S \subseteq Sagas /\ LastStep \in 0 .. LastStep
          BY <2>1, StepNumbers, SMT, SMTT(30) DEF Created
    <3>q. QED BY <2>0, <2>2, <3>1, SMT, SMTT(30) DEF TenantsInv, ClaimsInv
  <2>4. CASE S = {}
    <3>1. Cardinality(S) = 0
          BY <2>4, FS_EmptySet
    <3>q. QED BY <2>1, <3>1, SMT, SMTT(30) DEF OneCompleted
  <2>5. CASE S # {}
    <3>1. PICK x : x \in S
          BY <2>5
    <3>2. S = {x}
          BY <2>3, <3>1
    <3>3. Cardinality(S) = 1
          BY <3>2, FS_Singleton
    <3>q. QED BY <2>1, <3>3, SMT, SMTT(30) DEF OneCompleted
  <2>q. QED BY <2>4, <2>5
<1>q. QED BY <1>1, SagaInvariant, CompletedIsProvisionedHolds, PTL
=============================================================================
