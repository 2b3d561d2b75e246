--------------------------- MODULE PlatformProofs ---------------------------
(***************************************************************************)
(* Proofs about the parts every service shares: the rate limiter, the      *)
(* shutdown of a server, the parallel migrator and the audit logger.  Each *)
(* has its own inductive invariant; they hold for any number of requests,  *)
(* calls, workers and events and for all sizes of the audit buffer and its *)
(* batches.                                                                *)
(***************************************************************************)
EXTENDS RateLimiter, ServerShutdown, ParallelMigrator, AuditLogger,
        FiniteSetTheorems, SequenceTheorems, TLAPS

\* Most leaves are first-order: Zenon proves them.  Those that need arithmetic cite SMT, with
\* SMTT(30) as a second and longer try; ZenonT(40) gives a leaf more time.
USE Zenon

-----------------------------------------------------------------------------
(* The rate limiter                                                        *)

\* The requests that hold a count of the present key that will let them through.
Passing == {q \in Inbound : inbound[q].at # "absent" /\ inbound[q].current /\ inbound[q].count <= Limit}

\* Every request let through, or about to be, took a count of its own.
RateInv ==
    /\ hits \in Nat /\ expires \in Nat /\ admitted \in Nat /\ unarmed \in BOOLEAN
    /\ inbound \in [Inbound -> [at : {"absent", "arm", "compare"}, count : Nat, current : BOOLEAN]]
    /\ IsFiniteSet(Passing)
    /\ admitted + Cardinality(Passing) <= hits
    /\ admitted + Cardinality(Passing) <= Limit
    /\ CountersExpire

\* A count that is not passed on, or is taken back, leaves the sum in its bounds.
LEMMA FewerPassing ==
    ASSUME NEW S, NEW T, IsFiniteSet(S), T \subseteq S
    PROVE  IsFiniteSet(T) /\ Cardinality(T) \in Nat /\ Cardinality(S) \in Nat /\ Cardinality(T) <= Cardinality(S)
BY FS_Subset, FS_CardinalityType

\* Every step keeps the invariant of the rate limiter.
LEMMA RateStep == ASSUME RateInv, [RateNext]_rateVars PROVE RateInv'
<1> USE RateAssumption
<1>0. IsFiniteSet(Passing) /\ Cardinality(Passing) \in Nat
      BY FS_CardinalityType DEF RateInv
<1>1. CASE UNCHANGED rateVars
      BY <1>1 DEF rateVars, RateInv, Passing, CountersExpire
<1>2. CASE WindowPasses /\ expires = 1
      <2>1. /\ hits' = 0 /\ admitted' = 0 /\ unarmed' = FALSE /\ expires' = 0
            /\ inbound' = [q \in Inbound |-> [inbound[q] EXCEPT !.current = FALSE]]
            BY <1>2, SMT, SMTT(30) DEF WindowPasses
      <2>2. inbound' \in [Inbound -> [at : {"absent", "arm", "compare"}, count : Nat, current : BOOLEAN]]
            BY <2>1 DEF RateInv
      <2>3. Passing' = {}
            BY <2>1 DEF RateInv, Passing
      <2>4. IsFiniteSet(Passing') /\ Cardinality(Passing') = 0
            BY <2>3, FS_EmptySet
      <2>5. unarmed' \in BOOLEAN /\ CountersExpire'
            <3>1. ~(hits' > 0)
                  BY <2>1, SMT, SMTT(30)
            <3>2. QED
                  BY <2>1, <3>1, Zenon DEF CountersExpire
      <2>6. /\ hits' \in Nat /\ expires' \in Nat /\ admitted' \in Nat
            /\ admitted' + Cardinality(Passing') <= hits' /\ admitted' + Cardinality(Passing') <= Limit
            BY <2>1, <2>4, SMT, SMTT(30)
      <2>7. QED
            BY <2>2, <2>4, <2>5, <2>6 DEF RateInv
<1>3. CASE WindowPasses /\ expires # 1
      <2>1. /\ expires > 0 /\ expires' = expires - 1 /\ UNCHANGED <<hits, admitted, unarmed, inbound>>
            BY <1>3 DEF WindowPasses
      <2>2. Passing' = Passing
            BY <2>1 DEF Passing
      <2>3. expires' \in Nat /\ expires' # 0
            BY <1>3, <2>1, SMT, SMTT(30) DEF RateInv
      <2>4. QED
            BY <2>1, <2>2, <2>3 DEF RateInv, CountersExpire
<1>4. ASSUME NEW q \in Inbound, Incr(q) PROVE RateInv'
      <2> DEFINE k == [at |-> IF hits = 0 THEN "arm" ELSE "compare", count |-> hits + 1, current |-> TRUE]
      <2>1. /\ inbound[q] = Absent /\ hits' = hits + 1 /\ inbound' = [inbound EXCEPT ![q] = k]
            /\ UNCHANGED <<expires, admitted, unarmed>>
            BY <1>4 DEF Incr
      <2>2. k \in [at : {"absent", "arm", "compare"}, count : Nat, current : BOOLEAN] /\ k.at # "absent" /\ k.current /\ k.count = hits + 1
            BY SMT, SMTT(30) DEF RateInv
      <2>3. hits = 0 => k.at = "arm"
            OBVIOUS
      <2> HIDE DEF k
      <2>4. inbound' \in [Inbound -> [at : {"absent", "arm", "compare"}, count : Nat, current : BOOLEAN]]
            BY <2>1, <2>2 DEF RateInv
      <2>5. inbound'[q] = k /\ \A p \in Inbound \ {q} : inbound'[p] = inbound[p]
            BY <2>1 DEF RateInv
      <2>6. q \notin Passing
            BY <2>1, SMT, SMTT(30) DEF Passing, Absent
      <2>7. CountersExpire'
            <3>1. CASE hits = 0
                  BY <2>2, <2>3, <2>5, <3>1 DEF CountersExpire
            <3>2. CASE hits # 0
                  <4>1. hits > 0 /\ inbound[q].at # "arm"
                        BY <2>1, <3>2, SMT, SMTT(30) DEF RateInv, Absent
                  <4>2. QED
                        BY <2>1, <2>5, <4>1 DEF RateInv, CountersExpire
            <3>3. QED
                  BY <3>1, <3>2
      <2>8. CASE hits + 1 <= Limit
            <3>1. Passing' = Passing \union {q}
                  BY <2>2, <2>5, <2>6, <2>8 DEF Passing
            <3>2. IsFiniteSet(Passing') /\ Cardinality(Passing') = Cardinality(Passing) + 1
                  BY <1>0, <2>6, <3>1, FS_AddElement
            <3>3. QED
                  BY <1>0, <2>1, <2>4, <2>7, <2>8, <3>2, SMT, SMTT(30) DEF RateInv
      <2>9. CASE ~(hits + 1 <= Limit)
            <3>1. Passing' = Passing
                  BY <2>2, <2>5, <2>6, <2>9 DEF Passing
            <3>2. QED
                  BY <1>0, <2>1, <2>4, <2>7, <3>1, SMT, SMTT(30) DEF RateInv
      <2>10. QED
            BY <2>8, <2>9
<1>5. ASSUME NEW q \in Inbound, Expire(q) \/ RequestEnds(q) PROVE RateInv'
      <2>1. inbound[q].at = "arm" /\ UNCHANGED <<hits, admitted>> /\ inbound[q].current \in BOOLEAN
            BY <1>5 DEF Expire, RequestEnds, RateInv
      <2>2. /\ inbound' \in [Inbound -> [at : {"absent", "arm", "compare"}, count : Nat, current : BOOLEAN]]
            /\ inbound'[q].at # "arm" /\ \A p \in Inbound \ {q} : inbound'[p] = inbound[p]
            /\ inbound'[q] = Absent \/ (inbound'[q].count = inbound[q].count /\ inbound'[q].current = inbound[q].current)
            <3>1. CASE Expire(q)
                  BY <3>1 DEF Expire, RateInv
            <3>2. CASE RequestEnds(q)
                  <4>1. Absent \in [at : {"absent", "arm", "compare"}, count : Nat, current : BOOLEAN] /\ Absent.at = "absent"
                        BY DEF Absent
                  <4>2. inbound' = [inbound EXCEPT ![q] = Absent]
                        BY <3>2 DEF RequestEnds
                  <4>3. inbound'[q] = Absent
                        BY <4>2 DEF RateInv
                  <4>4. inbound' \in [Inbound -> [at : {"absent", "arm", "compare"}, count : Nat, current : BOOLEAN]]
                        BY <4>1, <4>2 DEF RateInv
                  <4>5. \A p \in Inbound \ {q} : inbound'[p] = inbound[p]
                        BY <4>2 DEF RateInv
                  <4>6. inbound'[q].at # "arm"
                        BY <4>1, <4>3
                  <4>7. QED
                        BY <4>3, <4>4, <4>5, <4>6, Zenon
            <3>3. QED
                  BY <1>5, <3>1, <3>2
      <2>3. Passing' \subseteq Passing
            BY <2>1, <2>2, SMT, SMTT(30) DEF Passing, Absent
      <2>4. IsFiniteSet(Passing') /\ Cardinality(Passing') \in Nat /\ Cardinality(Passing') <= Cardinality(Passing)
            BY <1>0, <2>3, FewerPassing
      <2>5. expires' \in Nat /\ unarmed' \in BOOLEAN
            BY <1>5, <2>1 DEF Expire, RequestEnds, RateInv
      <2>6. CountersExpire'
            <3>1. CASE expires' = (IF hits = 0 THEN 0 ELSE Window) /\ Expire(q)
                  BY <2>1, <3>1, SMT, SMTT(30) DEF RateInv, CountersExpire
            <3>2. CASE expires' = expires /\ (unarmed' <=> unarmed \/ inbound[q].current)
                  BY <2>1, <2>2, <3>2 DEF RateInv, CountersExpire
            <3>3. \/ expires' = (IF hits = 0 THEN 0 ELSE Window) /\ Expire(q)
                  \/ expires' = expires /\ (unarmed' <=> unarmed \/ inbound[q].current)
                  <4>1. CASE Expire(q) /\ expires' = (IF hits = 0 THEN 0 ELSE Window)
                        BY <4>1, Zenon
                  <4>2. CASE expires' = expires /\ unarmed' = (inbound[q].current \/ unarmed)
                        BY <4>2, <2>1, <2>5, Zenon DEF RateInv
                  <4>3. CASE expires' = expires /\ unarmed' = (unarmed \/ inbound[q].current)
                        BY <4>3, <2>1, <2>5, Zenon DEF RateInv
                  <4>4. QED
                        BY <1>5, <4>1, <4>2, <4>3, Zenon DEF Expire, RequestEnds
            <3>4. QED
                  BY <3>1, <3>2, <3>3
      <2>7. QED
            BY <1>0, <2>1, <2>2, <2>4, <2>5, <2>6, SMT, SMTT(30) DEF RateInv
<1>6. ASSUME NEW q \in Inbound, Admit(q) PROVE RateInv'
      <2>1. /\ inbound[q].at = "compare" /\ inbound' = [inbound EXCEPT ![q] = Absent]
            /\ UNCHANGED <<hits, expires, unarmed>>
            /\ admitted' = IF inbound[q].count <= Limit /\ inbound[q].current THEN admitted + 1 ELSE admitted
            BY <1>6 DEF Admit, Admits
      <2>2. inbound' \in [Inbound -> [at : {"absent", "arm", "compare"}, count : Nat, current : BOOLEAN]]
            BY <2>1 DEF RateInv, Absent
      <2>3. inbound'[q] = Absent /\ \A p \in Inbound \ {q} : inbound'[p] = inbound[p]
            BY <2>1 DEF RateInv
      <2>4. CountersExpire'
            BY <2>1, <2>3 DEF RateInv, CountersExpire
      <2>5. CASE q \in Passing
            <3>1. Passing' = Passing \ {q} /\ admitted' = admitted + 1
                  BY <2>1, <2>3, <2>5, SMT, SMTT(30) DEF Passing, Absent
            <3>2. IsFiniteSet(Passing') /\ Cardinality(Passing') = Cardinality(Passing) - 1
                  BY <1>0, <2>5, <3>1, FS_RemoveElement
            <3>3. QED
                  BY <1>0, <2>1, <2>2, <2>4, <3>1, <3>2, SMT, SMTT(30) DEF RateInv
      <2>6. CASE q \notin Passing
            <3>1. Passing' = Passing /\ admitted' = admitted
                  BY <2>1, <2>3, <2>6, SMT, SMTT(30) DEF Passing, Absent
            <3>2. QED
                  BY <2>1, <2>2, <2>4, <3>1 DEF RateInv
      <2>7. QED
            BY <2>5, <2>6
<1>7. QED
      BY <1>1, <1>2, <1>3, <1>4, <1>5, <1>6 DEF RateNext

\* The invariant of the rate limiter.
THEOREM RateInvariant == RateSpec => []RateInv
<1>1. RateInit => RateInv
      <2> SUFFICES ASSUME RateInit PROVE RateInv
          OBVIOUS
      <2>1. Passing = {}
            BY DEF RateInit, Passing, Absent
      <2>2. IsFiniteSet(Passing) /\ Cardinality(Passing) = 0
            BY <2>1, FS_EmptySet
      <2>3. /\ hits \in Nat /\ expires \in Nat /\ admitted \in Nat
            /\ admitted + Cardinality(Passing) <= hits /\ admitted + Cardinality(Passing) <= Limit
            BY <2>2, RateAssumption, SMT, SMTT(30) DEF RateInit
      <2>4. unarmed \in BOOLEAN /\ CountersExpire
            <3>1. ~(hits > 0)
                  BY SMT, SMTT(30) DEF RateInit
            <3>2. QED
                  BY <3>1, Zenon DEF RateInit, CountersExpire
      <2>5. inbound \in [Inbound -> [at : {"absent", "arm", "compare"}, count : Nat, current : BOOLEAN]]
            BY DEF RateInit, Absent
      <2>6. QED
            BY <2>2, <2>3, <2>4, <2>5 DEF RateInv
<1>2. RateInv /\ [RateNext]_rateVars => RateInv'
      BY RateStep
<1>3. QED
      BY <1>1, <1>2, PTL DEF RateSpec

\* The types of the counter and of what the requests hold.
THEOREM RateTypeCorrect == RateSpec => []RateTypeOK
<1>1. RateInv => RateTypeOK
      BY DEF RateInv, RateTypeOK
<1>2. QED
      BY <1>1, RateInvariant, PTL

\* On one counter no more than Limit requests pass, however INCR, EXPIRE and the
\* comparisons of the requests interleave.
THEOREM LimitHoldsAlways == RateSpec => []LimitHolds
<1>1. RateInv => LimitHolds
      BY FS_CardinalityType, RateAssumption, SMT, SMTT(30) DEF RateInv, LimitHolds
<1>2. QED
      BY <1>1, RateInvariant, PTL

\* A counter has an expiry unless its maker is about to set it or that call was lost.
THEOREM CountersExpireHolds == RateSpec => []CountersExpire
<1>1. RateInv => CountersExpire
      BY DEF RateInv
<1>2. QED
      BY <1>1, RateInvariant, PTL

-----------------------------------------------------------------------------
(* The shutdown of a server                                                *)

\* Nothing is cut without force; what stops the server leaves no call running; and
\* the goroutine drains only after it has looked for probes to stop.
ShutdownInv ==
    /\ proc \in {"listening", "starting", "serving", "returned", "exited", "fatal"}
    /\ quitter \in {"waiting", "signalled", "draining", "over"}
    /\ drain \in {"none", "draining", "done"} /\ probe \in {"unstarted", "up", "down"}
    /\ rpc \in [Rpcs -> {"unsent", "running", "answered", "cut"}]
    /\ forced \in BOOLEAN /\ hasty \in BOOLEAN
    /\ ~forced => \A r \in Rpcs : rpc[r] # "cut"
    /\ drain = "done" /\ ~forced => \A r \in Rpcs : rpc[r] # "running"
    /\ proc \in {"returned", "exited"} => drain = "done"
    /\ proc \in {"listening", "starting", "fatal"} => \A r \in Rpcs : rpc[r] # "running"
    /\ probe = "unstarted" <=> proc = "listening"
    /\ drain # "none" => quitter \in {"draining", "over"}
    /\ quitter # "waiting" /\ probe = "unstarted" => hasty
    /\ quitter \in {"draining", "over"} /\ probe = "up" => hasty

\* Every step keeps the invariant of the shutdown.
LEMMA ShutdownStep == ASSUME ShutdownInv, [ShutdownNext]_shutdownVars PROVE ShutdownInv'
<1> USE DEF ShutdownInv, Alive, CutOff
<1>1. CASE UNCHANGED shutdownVars
      BY <1>1 DEF shutdownVars
<1>2. CASE Signal
      BY <1>2 DEF Signal
<1>3. CASE ShutDown
      BY <1>3 DEF ShutDown, StopHealth
<1>4. CASE GracefulStop \/ Drained \/ CleanDrain
      BY <1>4 DEF GracefulStop, Drained, CleanDrain
<1>5. CASE ForceStop
      BY <1>5 DEF ForceStop
<1>6. CASE StartHealth \/ Serve
      BY <1>6 DEF StartHealth, Serve
<1>7. CASE ServeReturns \/ MainReturns
      BY <1>7 DEF ServeReturns, MainReturns
<1>8. ASSUME NEW r \in Rpcs, RpcBegins(r) \/ RpcEnds(r) PROVE ShutdownInv'
      BY <1>8 DEF RpcBegins, RpcEnds
<1>9. QED
      BY <1>1, <1>2, <1>3, <1>4, <1>5, <1>6, <1>7, <1>8 DEF ShutdownNext, ShutdownProgress

\* The invariant of the shutdown.
THEOREM ShutdownInvariant == ShutdownSpec => []ShutdownInv
<1>1. ShutdownInit => ShutdownInv
      BY DEF ShutdownInit, ShutdownInv
<1>2. ShutdownInv /\ [ShutdownNext]_shutdownVars => ShutdownInv'
      BY ShutdownStep
<1>3. QED
      BY <1>1, <1>2, PTL DEF ShutdownSpec

\* The states of the process, of its goroutine and of the calls it serves.
THEOREM ShutdownTypeCorrect == ShutdownSpec => []ShutdownTypeOK
<1>1. ShutdownInv => ShutdownTypeOK
      BY DEF ShutdownInv, ShutdownTypeOK
<1>2. QED
      BY <1>1, ShutdownInvariant, PTL

\* A call that reached its handler is answered before the process ends, unless the
\* drain ran out of its thirty seconds.
THEOREM AnsweredUnlessLateHolds == ShutdownSpec => []AnsweredUnlessLate
<1>1. ShutdownInv => AnsweredUnlessLate
      BY DEF ShutdownInv, AnsweredUnlessLate, Alive
<1>2. QED
      BY <1>1, ShutdownInvariant, PTL

\* The probes are down when the drain begins, unless the signal came before the health
\* server was started.
THEOREM ProbesDownFirstHolds == ShutdownSpec => []ProbesDownFirst
<1>1. ShutdownInv => ProbesDownFirst
      BY DEF ShutdownInv, ProbesDownFirst
<1>2. QED
      BY <1>1, ShutdownInvariant, PTL

-----------------------------------------------------------------------------
(* The parallel migrator                                                   *)

\* What worker w is doing with tenant t.
Has(w, d, t) == worker[w].doing = d /\ worker[w].result.tenant = t
Runs(w, t) == worker[w].doing = "run" /\ worker[w].tenant = t

\* A tenant is with one worker at most while its migration runs, its result says what
\* happened, and it is always somewhere on its way from the jobs to the report.
MigratorInv ==
    /\ MigratorTypeOK
    /\ \A t \in jobs : t \notin migrated /\ t \notin report.failures
    /\ \A w \in Pool, t \in Schemas : Runs(w, t) =>
          /\ t \notin jobs /\ t \notin migrated /\ t \notin report.failures
          /\ \A r \in results : r.tenant # t
          /\ \A v \in Pool : ~Has(v, "send", t) /\ (Runs(v, t) => v = w)
    /\ \A w \in Pool : worker[w].doing = "send" =>
          /\ worker[w].result.tenant \notin jobs
          /\ worker[w].result.ok <=> worker[w].result.tenant \in migrated
    /\ \A r \in results : r.tenant \notin jobs /\ (r.ok <=> r.tenant \in migrated)
    /\ report.passed \subseteq migrated /\ report.failures \intersect migrated = {}
    /\ \A t \in Schemas :
          \/ t \in jobs \union report.passed \union report.failures
          \/ \E r \in results : r.tenant = t
          \/ \E w \in Pool : Runs(w, t) \/ Has(w, "send", t)
    /\ (\E w \in Pool : worker[w].doing = "done") => jobs = {}
    /\ main = "returned" => results = {} /\ \A w \in Pool : worker[w].doing = "done"
    /\ \A t \in migrated : t \in progressed \/ \E w \in Pool : Has(w, "send", t) \/ Has(w, "progress", t)
    /\ \A w \in Pool : worker[w].doing = "send" /\ ~worker[w].result.ran => cancelled /\ ~worker[w].result.ok
    /\ ~cancelled => \A t \in Schemas :
          t \in jobs \union progressed \/ \E w \in Pool : Runs(w, t) \/ Has(w, "send", t) \/ Has(w, "progress", t)

\* A worker takes a tenant and runs its migration, or reports it as failed once the
\* context is done.
LEMMA TakeStep ==
    ASSUME MigratorInv, NEW w \in Pool, NEW t \in Schemas, Take(w, t)
    PROVE  MigratorInv'
<1>1. /\ worker[w].doing = "idle" /\ t \in jobs /\ jobs' = jobs \ {t}
      /\ UNCHANGED <<results, report, main, cancelled, migrated, progressed>>
      BY SMT, SMTT(30) DEF Take, Idling
<1>2. PICK k : k = IF cancelled THEN [doing |-> "send", result |-> [tenant |-> t, ok |-> FALSE, ran |-> FALSE]]
                                ELSE [doing |-> "run", tenant |-> t]
      OBVIOUS
<1>3. worker' = [worker EXCEPT ![w] = k]
      BY <1>2 DEF Take
<1>4. worker'[w] = k /\ \A v \in Pool \ {w} : worker'[v] = worker[v]
      BY <1>3, SMT, SMTT(30) DEF MigratorInv, MigratorTypeOK
<1>5. CASE cancelled
      <2>1. /\ k \in [doing : {"send", "progress"}, result : Result] /\ k.doing = "send" /\ k.result.tenant = t
            /\ ~k.result.ok /\ ~k.result.ran
            BY <1>2, <1>5 DEF Result
      <2>2. MigratorTypeOK'
            BY <1>1, <1>3, <2>1 DEF MigratorInv, MigratorTypeOK
      <2> QED
            BY <1>1, <1>4, <1>5, <2>1, <2>2, SMT, SMTT(30) DEF MigratorInv, Has, Runs
<1>6. CASE ~cancelled
      <2>1. k \in [doing : {"run"}, tenant : Schemas] /\ k.doing = "run" /\ k.tenant = t
            BY <1>2, <1>6
      <2>2. MigratorTypeOK'
            BY <1>1, <1>3, <2>1 DEF MigratorInv, MigratorTypeOK
      <2> QED
            BY <1>1, <1>4, <1>6, <2>1, <2>2, SMT, SMTT(30) DEF MigratorInv, Has, Runs
<1>7. QED
      BY <1>5, <1>6

\* The migration of a tenant nobody else has succeeds or fails.
LEMMA RunMigrationStep ==
    ASSUME MigratorInv, NEW w \in Pool, RunMigration(w)
    PROVE  MigratorInv'
<1>1. worker[w].doing = "run" /\ worker[w].tenant \in Schemas
      <2>1. worker[w].doing = "run"
            BY DEF RunMigration
      <2>2. worker[w] \in {Idling, [doing |-> "done"]} \union [doing : {"run"}, tenant : Schemas]
                           \union [doing : {"send", "progress"}, result : Result]
            BY DEF MigratorInv, MigratorTypeOK
      <2>3. QED
            BY <2>1, <2>2, SMT, SMTT(30) DEF Idling
<1>2. PICK t \in Schemas : t = worker[w].tenant
      BY <1>1
<1>3. PICK ok \in BOOLEAN :
          /\ worker' = [worker EXCEPT ![w] = [doing |-> "send", result |-> [tenant |-> t, ok |-> ok, ran |-> TRUE]]]
          /\ migrated' = IF ok THEN migrated \union {t} ELSE migrated
      BY <1>2 DEF RunMigration
<1>4. UNCHANGED <<jobs, results, report, main, cancelled, progressed>>
      BY DEF RunMigration
<1>5. PICK k : k = [doing |-> "send", result |-> [tenant |-> t, ok |-> ok, ran |-> TRUE]]
      OBVIOUS
<1>6. /\ k \in [doing : {"send", "progress"}, result : Result] /\ k.doing = "send" /\ k.result.tenant = t
      /\ (k.result.ok <=> ok) /\ k.result.ran
      BY <1>5 DEF Result
<1>7. worker'[w] = k /\ \A v \in Pool \ {w} : worker'[v] = worker[v]
      BY <1>3, <1>5, SMT, SMTT(30) DEF MigratorInv, MigratorTypeOK
<1>8. MigratorTypeOK'
      BY <1>3, <1>4, <1>5, <1>6 DEF MigratorInv, MigratorTypeOK
<1>9. Runs(w, t)
      BY <1>1, <1>2 DEF Runs
<1>10. t \in migrated' <=> ok
      BY <1>3, <1>9 DEF MigratorInv
<1>11. \A s \in Schemas \ {t} : s \in migrated' <=> s \in migrated
      BY <1>3
<1>12. \A v \in Pool \ {w} : ~Runs(v, t) /\ ~Has(v, "send", t)
      BY <1>9 DEF MigratorInv
<1>13. t \notin jobs /\ t \notin report.failures /\ \A r \in results : r.tenant # t
      BY <1>9 DEF MigratorInv
<1>14. QED
      BY <1>1, <1>2, <1>3, <1>4, <1>6, <1>7, <1>8, <1>10, <1>11, <1>12, <1>13, SMT, SMTT(30) DEF MigratorInv, Has, Runs

\* The result is on its way to MigrateAll; a tenant whose migration ran is yet to be
\* announced.
LEMMA SendResultStep ==
    ASSUME MigratorInv, NEW w \in Pool, SendResult(w)
    PROVE  MigratorInv'
<1>1. worker[w].doing = "send" /\ worker[w].result \in Result
      <2>1. worker[w].doing = "send"
            BY DEF SendResult
      <2>2. worker[w] \in {Idling, [doing |-> "done"]} \union [doing : {"run"}, tenant : Schemas]
                           \union [doing : {"send", "progress"}, result : Result]
            BY DEF MigratorInv, MigratorTypeOK
      <2>3. QED
            BY <2>1, <2>2, SMT, SMTT(30) DEF Idling
<1>2. PICK res \in Result : res = worker[w].result
      BY <1>1
<1>3. results' = results \union {res} /\ UNCHANGED <<jobs, report, main, cancelled, migrated, progressed>>
      BY <1>2 DEF SendResult
<1>4. PICK k : k = IF res.ran THEN [doing |-> "progress", result |-> res] ELSE Idling
      OBVIOUS
<1>5. worker' = [worker EXCEPT ![w] = k]
      BY <1>2, <1>4 DEF SendResult
<1>6. worker'[w] = k /\ \A v \in Pool \ {w} : worker'[v] = worker[v]
      BY <1>5, SMT, SMTT(30) DEF MigratorInv, MigratorTypeOK
<1>7. /\ res.tenant \notin jobs /\ (res.ok <=> res.tenant \in migrated) /\ (~res.ran => cancelled /\ ~res.ok)
      /\ \A v \in Pool : ~Runs(v, res.tenant)
      BY <1>1, <1>2 DEF MigratorInv, Has, Result
<1>8. main = "reading"
      BY <1>1 DEF MigratorInv, MigratorTypeOK
<1>9. CASE res.ran
      <2>1. k \in [doing : {"send", "progress"}, result : Result] /\ k.doing = "progress" /\ k.result.tenant = res.tenant
            BY <1>4, <1>9
      <2>2. MigratorTypeOK'
            BY <1>3, <1>5, <2>1 DEF MigratorInv, MigratorTypeOK
      <2>3. QED
            BY <1>1, <1>2, <1>3, <1>6, <1>7, <1>8, <1>9, <2>1, <2>2, SMT, SMTT(30) DEF MigratorInv, Has, Runs
<1>10. CASE ~res.ran
      <2>1. k = Idling /\ k.doing = "idle"
            BY <1>4, <1>10 DEF Idling
      <2>2. MigratorTypeOK'
            BY <1>3, <1>5, <2>1 DEF MigratorInv, MigratorTypeOK
      <2>3. QED
            BY <1>1, <1>2, <1>3, <1>6, <1>7, <1>8, <1>10, <2>1, <2>2, SMT, SMTT(30) DEF MigratorInv, Has, Runs
<1>11. QED
      BY <1>9, <1>10

\* OnProgress is called for a tenant whose result was sent; a worker without jobs ends.
LEMMA WorkerRestStep ==
    ASSUME MigratorInv, NEW w \in Pool, OnProgress(w) \/ WorkerDone(w)
    PROVE  MigratorInv'
<1>1. CASE OnProgress(w)
      <2>1. worker[w].doing = "progress" /\ worker[w].result.tenant \in Schemas
            <3>1. worker[w].doing = "progress"
                  BY <1>1 DEF OnProgress
            <3>2. worker[w] \in {Idling, [doing |-> "done"]} \union [doing : {"run"}, tenant : Schemas]
                           \union [doing : {"send", "progress"}, result : Result]
                  BY DEF MigratorInv, MigratorTypeOK
            <3>3. QED
                  BY <3>1, <3>2, SMT, SMTT(30) DEF Idling, Result
      <2>2. /\ progressed' = progressed \union {worker[w].result.tenant} /\ worker' = [worker EXCEPT ![w] = Idling]
            /\ UNCHANGED <<jobs, results, report, main, cancelled, migrated>>
            BY <1>1 DEF OnProgress
      <2>3. worker'[w].doing = "idle" /\ \A v \in Pool \ {w} : worker'[v] = worker[v]
            BY <2>2, SMT, SMTT(30) DEF MigratorInv, MigratorTypeOK, Idling
      <2>4. MigratorTypeOK'
            BY <2>1, <2>2 DEF MigratorInv, MigratorTypeOK
      <2>5. main = "reading"
            BY <2>1 DEF MigratorInv, MigratorTypeOK
      <2>6. QED
            BY <2>1, <2>2, <2>3, <2>4, <2>5, SMT, SMTT(30) DEF MigratorInv, Has, Runs
<1>2. CASE WorkerDone(w)
      <2>1. /\ worker[w].doing = "idle" /\ jobs = {} /\ worker' = [worker EXCEPT ![w] = [doing |-> "done"]]
            /\ UNCHANGED <<jobs, results, report, main, cancelled, migrated, progressed>>
            BY <1>2, SMT, SMTT(30) DEF WorkerDone, Idling
      <2>2. worker'[w].doing = "done" /\ \A v \in Pool \ {w} : worker'[v] = worker[v]
            BY <2>1, SMT, SMTT(30) DEF MigratorInv, MigratorTypeOK
      <2>3. MigratorTypeOK'
            BY <2>1 DEF MigratorInv, MigratorTypeOK
      <2>4. main = "reading"
            BY <2>1 DEF MigratorInv, MigratorTypeOK
      <2>5. QED
            BY <2>1, <2>2, <2>3, <2>4, SMT, SMTT(30) DEF MigratorInv, Has, Runs
<1>3. QED
      BY <1>1, <1>2

\* A result is read into the report, MigrateAll returns, or the context ends.
LEMMA MainStep ==
    ASSUME MigratorInv, (\E r \in Result : ReadResult(r)) \/ ReturnReport \/ CancelContext
    PROVE  MigratorInv'
<1>1. ASSUME NEW r \in Result, ReadResult(r) PROVE MigratorInv'
      <2>1. /\ main = "reading" /\ r \in results /\ results' = results \ {r}
            /\ UNCHANGED <<jobs, worker, main, cancelled, migrated, progressed>>
            BY <1>1 DEF ReadResult
      <2>2. /\ report' \in [passed : SUBSET Schemas, failures : SUBSET Schemas]
            /\ report'.passed = IF r.ok THEN report.passed \union {r.tenant} ELSE report.passed
            /\ report'.failures = IF r.ok THEN report.failures ELSE report.failures \union {r.tenant}
            BY <1>1 DEF ReadResult, MigratorInv, MigratorTypeOK, Result
      <2>3. MigratorTypeOK'
            BY <2>1, <2>2 DEF MigratorInv, MigratorTypeOK
      <2>4. r.tenant \in Schemas /\ r.tenant \notin jobs /\ (r.ok <=> r.tenant \in migrated)
            BY <2>1 DEF MigratorInv, Result
      <2>5. \A t \in Schemas : (\E s \in results : s.tenant = t) => t = r.tenant \/ \E s \in results' : s.tenant = t
            BY <2>1
      <2>6. QED
            BY <2>1, <2>2, <2>3, <2>4, <2>5, SMT, SMTT(30) DEF MigratorInv, Has, Runs
<1>2. CASE ReturnReport
      BY <1>2 DEF ReturnReport, MigratorInv, MigratorTypeOK, Has, Runs
<1>3. CASE CancelContext
      BY <1>3, SMT, SMTT(30) DEF CancelContext, MigratorInv, MigratorTypeOK, Has, Runs
<1>4. QED
      BY <1>1, <1>2, <1>3

\* The invariant of the parallel migrator.
THEOREM MigratorInvariant == MigratorSpec => []MigratorInv
<1>1. MigratorInit => MigratorInv
      <2> SUFFICES ASSUME MigratorInit PROVE MigratorInv
          OBVIOUS
      <2>1. MigratorTypeOK
            BY DEF MigratorInit, MigratorTypeOK
      <2>2. \A w \in Pool : worker[w].doing = "idle"
            BY DEF MigratorInit, Idling
      <2>3. QED
            BY <2>1, <2>2 DEF MigratorInit, MigratorInv, Has, Runs
<1>2. MigratorInv /\ [MigratorNext]_migratorVars => MigratorInv'
      <2> SUFFICES ASSUME MigratorInv, [MigratorNext]_migratorVars PROVE MigratorInv'
          OBVIOUS
      <2>1. CASE UNCHANGED migratorVars
            BY <2>1, SMT, SMTT(30) DEF migratorVars, MigratorInv, MigratorTypeOK, Has, Runs
      <2>2. QED
            BY <2>1, TakeStep, RunMigrationStep, SendResultStep, WorkerRestStep, MainStep DEF MigratorNext, MigratorProgress
<1>3. QED
      BY <1>1, <1>2, PTL DEF MigratorSpec

\* When MigrateAll returns, its report has every tenant once, as passed exactly if its
\* migration ran to its end.
THEOREM ReportIsExactHolds == MigratorSpec => []ReportIsExact
<1>1. MigratorInv => ReportIsExact
      <2> SUFFICES ASSUME MigratorInv, main = "returned" PROVE report.passed = migrated /\ report.failures = Schemas \ migrated
          BY DEF ReportIsExact
      <2>1. results = {} /\ \A w \in Pool : worker[w].doing = "done"
            BY DEF MigratorInv
      <2>2. jobs = {}
            BY <2>1, MigratorAssumption, SMT, SMTT(30) DEF MigratorInv
      <2>3. \A t \in Schemas : t \in report.passed \union report.failures
            BY <2>1, <2>2 DEF MigratorInv, Has, Runs
      <2>4. QED
            BY <2>3 DEF MigratorInv, MigratorTypeOK
<1>2. QED
      BY <1>1, MigratorInvariant, PTL

\* When MigrateAll returns, OnProgress has been called for every migration that ran, and
\* no call of it is still to come.
THEOREM ProgressIsOverHolds == MigratorSpec => []ProgressIsOver
<1>1. MigratorInv => ProgressIsOver
      <2> SUFFICES ASSUME MigratorInv, main = "returned"
                   PROVE  /\ \A w \in Pool : worker[w].doing = "done"
                          /\ migrated \subseteq progressed /\ (~cancelled => progressed = Schemas)
          BY DEF ProgressIsOver
      <2>1. \A w \in Pool : worker[w].doing = "done"
            BY DEF MigratorInv
      <2>2. jobs = {}
            BY <2>1, MigratorAssumption, SMT, SMTT(30) DEF MigratorInv
      <2>3. \A w \in Pool, t \in Schemas : ~Runs(w, t) /\ ~Has(w, "send", t) /\ ~Has(w, "progress", t)
            BY <2>1 DEF Runs, Has
      <2>4. migrated \subseteq Schemas /\ progressed \subseteq Schemas
            BY DEF MigratorInv, MigratorTypeOK
      <2>5. migrated \subseteq progressed
            BY <2>3, <2>4 DEF MigratorInv
      <2>6. ASSUME ~cancelled PROVE progressed = Schemas
            <3>1. \A t \in Schemas :
                    t \in jobs \union progressed \/ \E w \in Pool : Runs(w, t) \/ Has(w, "send", t) \/ Has(w, "progress", t)
                  BY <2>6, Zenon DEF MigratorInv
            <3>2. QED
                  BY <2>2, <2>3, <2>4, <3>1
      <2>7. QED
            BY <2>1, <2>5, <2>6
<1>2. QED
      BY <1>1, MigratorInvariant, PTL

-----------------------------------------------------------------------------
(* The audit logger                                                        *)

\* A sequence of events in the order of the calls of Log, each at most once.
Rising(s) == \A i, j \in 1 .. Len(s) : i < j => s[i] < s[j]

\* Every event so far is in the channel, in the batch, committed, or known to be lost; once
\* Close has drained the channel, only late events are in it.
AuditInv ==
    /\ logged \in Nat /\ ch \in Seq(Nat) /\ batch \in Seq(Nat) /\ stored \in Seq(Nat)
    /\ 1 .. logged \subseteq Range(ch) \union Range(batch) \union Range(stored) \union dropped \union failed
    /\ loop # "exited" => closer \in {"none", "wait"}
    /\ closer \in {"insert", "done"} => Range(ch) \subseteq late
    /\ closer = "done" => batch = <<>>

\* What is committed comes before the batch, and the batch before the channel.
OrderInv ==
    /\ logged \in Nat /\ ch \in Seq(Nat) /\ batch \in Seq(Nat) /\ stored \in Seq(Nat)
    /\ Rising(ch) /\ Rising(batch) /\ Rising(stored)
    /\ \A x \in Range(stored), y \in Range(batch) \union Range(ch) : x < y
    /\ \A x \in Range(batch), y \in Range(ch) : x < y
    /\ \A x \in Range(stored) \union Range(batch) \union Range(ch) : x <= logged

\* An event at the end of a sequence.
LEMMA EventAppended ==
    ASSUME NEW s \in Seq(Nat), NEW x \in Nat
    PROVE  /\ Append(s, x) \in Seq(Nat) /\ Range(Append(s, x)) = Range(s) \union {x}
           /\ Rising(s) /\ (\A y \in Range(s) : y < x) => Rising(Append(s, x))
<1>1. /\ Append(s, x) \in Seq(Nat) /\ Len(Append(s, x)) = Len(s) + 1 /\ Len(s) \in Nat
      /\ \A i \in 1 .. Len(s) : Append(s, x)[i] = s[i] /\ s[i] \in Nat
      /\ Append(s, x)[Len(s) + 1] = x
      BY SMT, SMTT(30)
<1>2. PICK a \in Seq(Nat) : a = Append(s, x)
      BY <1>1
<1>3. DOMAIN a = 1 .. Len(s) + 1 /\ DOMAIN s = 1 .. Len(s)
      BY <1>1, <1>2, SMT, SMTT(30)
<1>4. Range(a) = Range(s) \union {x}
      BY <1>1, <1>2, <1>3, SMT, SMTT(30) DEF Range
<1>5. ASSUME Rising(s), \A y \in Range(s) : y < x PROVE Rising(a)
      <2> SUFFICES ASSUME NEW i \in 1 .. Len(a), NEW j \in 1 .. Len(a), i < j PROVE a[i] < a[j]
          BY DEF Rising
      <2>1. i \in 1 .. Len(s)
            BY <1>1, <1>2, SMT, SMTT(30)
      <2>2. CASE j = Len(s) + 1
            BY <1>1, <1>2, <1>3, <1>5, <2>1, <2>2 DEF Range
      <2>3. CASE j \in 1 .. Len(s)
            BY <1>1, <1>2, <1>5, <2>1, <2>3 DEF Rising
      <2>4. j = Len(s) + 1 \/ j \in 1 .. Len(s)
            BY <1>1, <1>2, SMT, SMTT(30)
      <2>5. QED
            BY <2>2, <2>3, <2>4
<1>6. QED
      BY <1>1, <1>2, <1>4, <1>5

\* The first event of a sequence is taken.
LEMMA EventTaken ==
    ASSUME NEW s \in Seq(Nat), s # <<>>
    PROVE  /\ Tail(s) \in Seq(Nat) /\ Head(s) \in Nat /\ Range(s) = Range(Tail(s)) \union {Head(s)}
           /\ Rising(s) => Rising(Tail(s)) /\ \A y \in Range(Tail(s)) : Head(s) < y
<1>1. /\ Len(s) \in Nat \ {0} /\ Tail(s) \in Seq(Nat) /\ Len(Tail(s)) = Len(s) - 1 /\ Head(s) = s[1]
      /\ \A i \in 1 .. Len(s) - 1 : Tail(s)[i] = s[i + 1]
      /\ \A i \in 1 .. Len(s) : s[i] \in Nat
      BY EmptySeq, SMT, SMTT(30)
<1>2. PICK a \in Seq(Nat) : a = Tail(s)
      BY <1>1
<1>3. DOMAIN a = 1 .. Len(s) - 1 /\ DOMAIN s = 1 .. Len(s) /\ Len(a) = Len(s) - 1
      BY <1>1, <1>2, SMT, SMTT(30)
<1>4. Range(s) = Range(a) \union {s[1]}
      <2>1. ASSUME NEW y \in Range(s), y # s[1] PROVE y \in Range(a)
            <3>1. PICK i \in 1 .. Len(s) : y = s[i]
                  BY <1>3 DEF Range
            <3>2. i - 1 \in 1 .. Len(s) - 1 /\ a[i - 1] = s[i]
                  BY <1>1, <1>2, <2>1, <3>1, SMT, SMTT(30)
            <3>3. QED
                  BY <1>3, <3>1, <3>2 DEF Range
      <2>2. ASSUME NEW y \in Range(a) PROVE y \in Range(s)
            <3>1. PICK i \in 1 .. Len(s) - 1 : y = a[i]
                  BY <1>3 DEF Range
            <3>2. i + 1 \in 1 .. Len(s) /\ y = s[i + 1]
                  BY <1>1, <1>2, <3>1, SMT, SMTT(30)
            <3>3. QED
                  BY <1>3, <3>2 DEF Range
      <2>3. s[1] \in Range(s)
            BY <1>1, <1>3, SMT, SMTT(30) DEF Range
      <2>4. QED
            BY <2>1, <2>2, <2>3
<1>5. ASSUME Rising(s) PROVE Rising(a) /\ \A y \in Range(a) : s[1] < y
      <2>1. ASSUME NEW i \in 1 .. Len(a), NEW j \in 1 .. Len(a), i < j PROVE a[i] < a[j]
            <3>1. i + 1 \in 1 .. Len(s) /\ j + 1 \in 1 .. Len(s) /\ i + 1 < j + 1 /\ a[i] = s[i + 1] /\ a[j] = s[j + 1]
                  BY <1>1, <1>2, <1>3, <2>1, SMT, SMTT(30)
            <3>2. QED
                  BY <1>5, <3>1 DEF Rising
      <2>2. ASSUME NEW y \in Range(a) PROVE s[1] < y
            <3>1. PICK i \in 1 .. Len(s) - 1 : y = a[i]
                  BY <1>3 DEF Range
            <3>2. i + 1 \in 1 .. Len(s) /\ y = s[i + 1] /\ 1 < i + 1 /\ 1 \in 1 .. Len(s)
                  BY <1>1, <1>2, <3>1, SMT, SMTT(30)
            <3>3. QED
                  BY <1>5, <3>2 DEF Rising
      <2>3. QED
            BY <2>1, <2>2 DEF Rising
<1>6. QED
      BY <1>1, <1>2, <1>4, <1>5, SMT, SMTT(30)

\* A batch committed after what was committed before.
LEMMA EventsConcatenated ==
    ASSUME NEW s \in Seq(Nat), NEW t \in Seq(Nat)
    PROVE  /\ s \o t \in Seq(Nat) /\ Range(s \o t) = Range(s) \union Range(t)
           /\ Rising(s) /\ Rising(t) /\ (\A x \in Range(s), y \in Range(t) : x < y) => Rising(s \o t)
<1>1. /\ s \o t \in Seq(Nat) /\ Len(s \o t) = Len(s) + Len(t) /\ Len(s) \in Nat /\ Len(t) \in Nat
      /\ \A i \in 1 .. Len(s) + Len(t) : (s \o t)[i] = IF i <= Len(s) THEN s[i] ELSE t[i - Len(s)]
      BY ConcatProperties, SMT, SMTT(30)
<1>2. PICK a \in Seq(Nat) : a = s \o t
      BY <1>1
<1>3. DOMAIN a = 1 .. Len(s) + Len(t) /\ DOMAIN s = 1 .. Len(s) /\ DOMAIN t = 1 .. Len(t) /\ Len(a) = Len(s) + Len(t)
      BY <1>1, <1>2, SMT, SMTT(30)
<1>4. \A i \in 1 .. Len(a) : \/ i \in 1 .. Len(s) /\ a[i] = s[i] /\ a[i] \in Range(s)
                             \/ i - Len(s) \in 1 .. Len(t) /\ a[i] = t[i - Len(s)] /\ a[i] \in Range(t)
      <2> SUFFICES ASSUME NEW i \in 1 .. Len(a)
                   PROVE  \/ i \in 1 .. Len(s) /\ a[i] = s[i] /\ a[i] \in Range(s)
                          \/ i - Len(s) \in 1 .. Len(t) /\ a[i] = t[i - Len(s)] /\ a[i] \in Range(t)
          OBVIOUS
      <2>1. CASE i <= Len(s)
            <3>1. i \in 1 .. Len(s) /\ a[i] = s[i]
                  BY <1>1, <1>2, <1>3, <2>1, SMT, SMTT(30)
            <3>2. QED
                  BY <1>3, <3>1 DEF Range
      <2>2. CASE ~(i <= Len(s))
            <3>1. i - Len(s) \in 1 .. Len(t) /\ a[i] = t[i - Len(s)]
                  BY <1>1, <1>2, <1>3, <2>2, SMT, SMTT(30)
            <3>2. QED
                  BY <1>3, <3>1 DEF Range
      <2>3. QED
            BY <2>1, <2>2
<1>5. \A i \in 1 .. Len(s) : i \in 1 .. Len(a) /\ a[i] = s[i]
      BY <1>1, <1>2, <1>3, SMT, SMTT(30)
<1>6. \A i \in 1 .. Len(t) : i + Len(s) \in 1 .. Len(a) /\ a[i + Len(s)] = t[i]
      BY <1>1, <1>2, <1>3, SMT, SMTT(30)
<1>7. Range(a) = Range(s) \union Range(t)
      <2>1. Range(a) \subseteq Range(s) \union Range(t)
            BY <1>3, <1>4 DEF Range
      <2>2. Range(s) \subseteq Range(a)
            BY <1>3, <1>5 DEF Range
      <2>3. Range(t) \subseteq Range(a)
            BY <1>3, <1>6 DEF Range
      <2>4. QED
            BY <2>1, <2>2, <2>3
<1>8. ASSUME Rising(s), Rising(t), \A x \in Range(s), y \in Range(t) : x < y PROVE Rising(a)
      <2> SUFFICES ASSUME NEW i \in 1 .. Len(a), NEW j \in 1 .. Len(a), i < j PROVE a[i] < a[j]
          BY DEF Rising
      <2>1. CASE i \in 1 .. Len(s) /\ a[i] = s[i] /\ a[i] \in Range(s) /\ j \in 1 .. Len(s) /\ a[j] = s[j]
            BY <1>8, <2>1 DEF Rising
      <2>2. CASE a[i] \in Range(s) /\ a[j] \in Range(t)
            BY <1>8, <2>2
      <2>3. CASE i - Len(s) \in 1 .. Len(t) /\ a[i] = t[i - Len(s)] /\ j - Len(s) \in 1 .. Len(t) /\ a[j] = t[j - Len(s)]
            <3>1. i - Len(s) < j - Len(s)
                  BY <1>1, SMT, SMTT(30)
            <3>2. QED
                  BY <1>8, <2>3, <3>1 DEF Rising
      <2>4. ~(i - Len(s) \in 1 .. Len(t) /\ j \in 1 .. Len(s))
            BY <1>1, SMT, SMTT(30)
      <2>5. QED
            BY <1>4, <2>1, <2>2, <2>3, <2>4
<1>9. QED
      BY <1>1, <1>2, <1>7, <1>8

\* Log puts an event behind the others, or drops it.
LEMMA LogStep == ASSUME AuditInv, Log PROVE AuditInv'
<1>1. /\ logged' = logged + 1 /\ late' = IF closer = "none" THEN late ELSE late \union {logged + 1}
      /\ UNCHANGED <<batch, loop, closer, stored, failed>>
      BY DEF Log
<1>2. 1 .. logged' = (1 .. logged) \union {logged + 1} /\ logged + 1 \in Nat
      BY <1>1, SMT, SMTT(30) DEF AuditInv
<1>3. CASE ch' = Append(ch, logged + 1) /\ UNCHANGED dropped
      <2>1. ch' \in Seq(Nat) /\ Range(ch') = Range(ch) \union {logged + 1}
            BY <1>2, <1>3, EventAppended DEF AuditInv
      <2>2. QED
            BY <1>1, <1>2, <1>3, <2>1 DEF AuditInv
<1>4. CASE dropped' = dropped \union {logged + 1} /\ UNCHANGED ch
      BY <1>1, <1>2, <1>4 DEF AuditInv
<1>5. QED
      BY <1>3, <1>4 DEF Log

\* flushLoop and drainChannel move the first event of the channel to the batch.
LEMMA EventReceived ==
    ASSUME AuditInv, ch # <<>>, closer \notin {"insert", "done"}, ch' = Tail(ch), batch' = Append(batch, Head(ch)),
           UNCHANGED <<logged, closer, stored, late, dropped, failed>>,
           loop' = "exited" <=> loop = "exited"
    PROVE  AuditInv'
<1>1. ch' \in Seq(Nat) /\ Head(ch) \in Nat /\ Range(ch) = Range(ch') \union {Head(ch)}
      BY EventTaken DEF AuditInv
<1>2. batch' \in Seq(Nat) /\ Range(batch') = Range(batch) \union {Head(ch)}
      BY <1>1, EventAppended DEF AuditInv
<1>3. QED
      BY <1>1, <1>2 DEF AuditInv

\* A batch is committed or fails as a whole.
LEMMA BatchInserted ==
    ASSUME AuditInv, InsertBatch(batch), batch' = <<>>, UNCHANGED <<logged, ch, late, dropped>>,
           loop' # "exited" => closer' \in {"none", "wait"},
           closer' \in {"insert", "done"} => Range(ch) \subseteq late
    PROVE  AuditInv'
<1>1. batch' \in Seq(Nat) /\ Range(batch') = {}
      BY EmptySeq, SMT, SMTT(30) DEF Range
<1>2. /\ stored' \in Seq(Nat) /\ Range(stored) \subseteq Range(stored') /\ failed \subseteq failed'
      /\ Range(batch) \subseteq Range(stored') \union failed'
      BY ZenonT(40), EventsConcatenated DEF AuditInv, InsertBatch
<1>3. QED
      BY <1>1, <1>2 DEF AuditInv

\* Every step keeps the invariant of the audit logger.
LEMMA AuditStep == ASSUME AuditInv, [AuditNext]_auditVars PROVE AuditInv'
<1>1. CASE UNCHANGED auditVars
      BY <1>1 DEF auditVars, AuditInv
<1>2. CASE Log
      BY <1>2, LogStep
<1>3. CASE Receive
      <2>1. loop = "select" /\ loop' # "exited" /\ closer \notin {"insert", "done"}
            BY <1>3 DEF Receive, AuditInv
      <2>2. QED
            BY <1>3, <2>1, EventReceived DEF Receive
<1>4. CASE TickerFires
      BY <1>4 DEF TickerFires, AuditInv
<1>5. CASE Done
      BY <1>5 DEF Done, AuditInv
<1>6. CASE flushBatch
      <2>1. closer \in {"none", "wait"} /\ UNCHANGED closer
            BY <1>6 DEF flushBatch, AuditInv
      <2>2. QED
            BY <1>6, <2>1, BatchInserted DEF flushBatch
<1>7. CASE Close
      BY <1>7 DEF Close, AuditInv
<1>8. CASE Wait
      BY <1>8 DEF Wait, AuditInv
<1>9. CASE Drain
      <2>1. CASE ch # <<>>
            BY <1>9, <2>1, EventReceived DEF Drain
      <2>2. CASE ch = <<>>
            <3>1. Range(ch) = {}
                  BY <2>2, EmptySeq, SMT, SMTT(30) DEF Range
            <3>2. QED
                  BY <1>9, <2>2, <3>1 DEF Drain, AuditInv
      <2>3. QED
            BY <2>1, <2>2
<1>10. CASE DrainInsert
      <2>1. loop = "exited" /\ UNCHANGED loop /\ Range(ch) \subseteq late
            BY <1>10 DEF DrainInsert, AuditInv
      <2>2. QED
            BY <1>10, <2>1, BatchInserted DEF DrainInsert
<1>11. QED
      BY <1>1, <1>2, <1>3, <1>4, <1>5, <1>6, <1>7, <1>8, <1>9, <1>10 DEF AuditNext

\* The invariant of the audit logger.
THEOREM AuditInvariant == AuditSpec => []AuditInv
<1>1. AuditInit => AuditInv
      BY EmptySeq, SMT, SMTT(30) DEF AuditInit, AuditInv
<1>2. AuditInv /\ [AuditNext]_auditVars => AuditInv'
      BY AuditStep
<1>3. QED
      BY <1>1, <1>2, PTL DEF AuditSpec

\* One more event of the channel in the batch.
LEMMA OneMoved ==
    ASSUME NEW c \in Seq(Nat), NEW b \in Seq(Nat), c # <<>>
    PROVE  /\ Tail(c) \in Seq(Nat) /\ Len(Tail(c)) <= Len(c)
           /\ Append(b, Head(c)) \in Seq(Nat) /\ Len(Append(b, Head(c))) = Len(b) + 1
<1>1. Head(c) \in Nat /\ Tail(c) \in Seq(Nat) /\ Len(Tail(c)) = Len(c) - 1 /\ Len(c) \in Nat
      BY HeadTailProperties, LenProperties
<1>2. Append(b, Head(c)) \in Seq(Nat) /\ Len(Append(b, Head(c))) = Len(b) + 1
      BY <1>1, AppendProperties
<1>3. QED
      BY <1>1, <1>2, SMT, SMTT(30)

\* A step keeps the channel within its buffer and the batch below the size that makes the
\* goroutine flush.
LEMMA AuditTypeStep == ASSUME AuditInv, AuditTypeOK, [AuditNext]_auditVars PROVE AuditTypeOK'
<1> USE AuditAssumption DEF AuditTypeOK
<1>1. CASE UNCHANGED auditVars
      BY <1>1 DEF auditVars
<1>2. CASE Log
      <2>1. logged + 1 \in Nat
            BY SMT, SMTT(30)
      <2>2. logged' \in Nat /\ late' \subseteq Nat
            BY <1>2, <2>1 DEF Log
      <2>3. CASE Len(ch) < BufferSize
            <3>1. ch' = Append(ch, logged + 1) /\ dropped' = dropped
                  BY <1>2, <2>3 DEF Log
            <3>2. ch' \in Seq(Nat) /\ Len(ch') = Len(ch) + 1
                  BY <2>1, <3>1, AppendProperties
            <3>3. Len(ch') <= BufferSize
                  BY <2>3, <3>2, LenProperties, SMT, SMTT(30)
            <3>4. QED
                  BY <1>2, <2>2, <3>1, <3>2, <3>3 DEF Log
      <2>4. CASE ~(Len(ch) < BufferSize)
            BY <1>2, <2>1, <2>2, <2>4 DEF Log
      <2>5. QED
            BY <2>3, <2>4
<1>3. CASE Receive
      <2>1. /\ ch' \in Seq(Nat) /\ Len(ch') <= Len(ch)
            /\ batch' \in Seq(Nat) /\ Len(batch') = Len(batch) + 1
            BY <1>3, OneMoved DEF Receive
      <2>2. Len(ch) \in Nat /\ Len(batch) \in Nat /\ Len(ch') \in Nat
            BY <2>1, LenProperties
      <2>3. Len(ch') <= BufferSize
            BY <2>1, <2>2, SMT, SMTT(30)
      <2>4. loop' = "select" => Len(batch') < BatchSize
            <3>1. ~(Len(batch) + 1 >= BatchSize) => Len(batch') < BatchSize
                  BY <2>1, <2>2, SMT, SMTT(30)
            <3>2. loop' = "select" => ~(Len(batch) + 1 >= BatchSize)
                  BY <1>3 DEF Receive
            <3>3. QED
                  BY <3>1, <3>2
      <2>5. loop' \in {"select", "flush"} /\ UNCHANGED <<logged, closer, stored, late, dropped, failed>>
            BY <1>3 DEF Receive
      <2>6. QED
            BY <2>1, <2>3, <2>4, <2>5
<1>4. CASE TickerFires
      BY <1>4 DEF TickerFires
<1>5. CASE Done
      BY <1>5 DEF Done
<1>6. Len(<<>>) < BatchSize /\ <<>> \in Seq(Nat)
      BY EmptySeq, SMT, SMTT(30)
<1>7. ASSUME InsertBatch(batch) PROVE stored' \in Seq(Nat) /\ failed' \subseteq Nat
      <2>1. stored \o batch \in Seq(Nat)
            BY ConcatProperties
      <2>2. Range(batch) \subseteq Nat
            BY SMT, SMTT(30) DEF Range
      <2>3. QED
            BY <1>7, <2>1, <2>2 DEF InsertBatch
<1>8. CASE flushBatch
      <2>1. /\ batch' = <<>> /\ loop' \in {"select", "exited"} /\ UNCHANGED <<logged, ch, closer, late, dropped>>
            /\ InsertBatch(batch)
            BY <1>8 DEF flushBatch
      <2>2. QED
            BY <1>6, <1>7, <2>1
<1>9. CASE Close
      BY <1>9 DEF Close
<1>10. CASE Wait
      BY <1>10 DEF Wait
<1>11. CASE Drain
      <2>1. loop' = "exited" /\ UNCHANGED <<logged, loop, stored, late, dropped, failed>>
            BY <1>11 DEF Drain, AuditInv
      <2>2. CASE ch # <<>>
            <3>1. /\ ch' \in Seq(Nat) /\ Len(ch') <= Len(ch) /\ batch' \in Seq(Nat) /\ closer' = closer
                  BY <1>11, <2>2, OneMoved DEF Drain
            <3>2. Len(ch') <= BufferSize
                  BY <3>1, LenProperties, SMT, SMTT(30)
            <3>3. QED
                  BY <2>1, <3>1, <3>2
      <2>3. CASE ch = <<>>
            BY <1>11, <2>1, <2>3 DEF Drain
      <2>4. QED
            BY <2>2, <2>3
<1>12. CASE DrainInsert
      <2>1. /\ batch' = <<>> /\ closer' = "done" /\ UNCHANGED <<logged, ch, loop, late, dropped>>
            /\ InsertBatch(batch)
            BY <1>12 DEF DrainInsert
      <2>2. QED
            BY <1>6, <1>7, <2>1
<1>13. QED
      BY <1>1, <1>2, <1>3, <1>4, <1>5, <1>8, <1>9, <1>10, <1>11, <1>12 DEF AuditNext

\* The channel never holds more than its buffer, and the goroutine never waits for more
\* events with a batch that is full.
THEOREM AuditTypeCorrect == AuditSpec => []AuditTypeOK
<1>1. AuditInit => AuditTypeOK
      BY EmptySeq, AuditAssumption, SMT, SMTT(30) DEF AuditInit, AuditTypeOK
<1>2. AuditInv /\ AuditTypeOK /\ [AuditNext]_auditVars => AuditTypeOK'
      BY AuditTypeStep
<1>3. QED
      BY <1>1, <1>2, AuditInvariant, PTL DEF AuditSpec

\* Once Close has returned, every event Log took before Close began is committed, unless
\* the channel was full or the batch that held the event failed.
THEOREM ClosedIsFlushedHolds == AuditSpec => []ClosedIsFlushed
<1>1. AuditInv => ClosedIsFlushed
      <2> SUFFICES ASSUME AuditInv, closer = "done"
                   PROVE  (1 .. logged) \ (late \union dropped \union failed) \subseteq Range(stored)
          BY DEF ClosedIsFlushed
      <2>1. Range(batch) = {}
            BY EmptySeq, SMT, SMTT(30) DEF AuditInv, Range
      <2>2. QED
            BY <2>1 DEF AuditInv
<1>2. QED
      BY <1>1, AuditInvariant, PTL

\* The first event of the channel moves behind the batch.
LEMMA ReceivedInOrder ==
    ASSUME OrderInv, ch # <<>>, ch' = Tail(ch), batch' = Append(batch, Head(ch)), UNCHANGED <<logged, stored>>
    PROVE  OrderInv'
<1>1. PICK h : h = Head(ch)
      OBVIOUS
<1>2. ch' \in Seq(Nat) /\ h \in Nat /\ Range(ch) = Range(ch') \union {h} /\ Rising(ch') /\ \A y \in Range(ch') : h < y
      BY <1>1, EventTaken DEF OrderInv
<1>3. \A y \in Range(batch) : y < h
      BY <1>2 DEF OrderInv
<1>4. batch' \in Seq(Nat) /\ Range(batch') = Range(batch) \union {h} /\ Rising(batch')
      BY <1>1, <1>2, <1>3, EventAppended DEF OrderInv
<1>5. QED
      BY <1>2, <1>3, <1>4 DEF OrderInv

\* A batch goes behind what is committed, or away.
LEMMA InsertedInOrder ==
    ASSUME OrderInv, InsertBatch(batch), batch' = <<>>, UNCHANGED <<logged, ch>>
    PROVE  OrderInv'
<1>1. batch' \in Seq(Nat) /\ Range(batch') = {} /\ Rising(batch')
      BY EmptySeq, SMT, SMTT(30) DEF Range, Rising
<1>2. stored' = stored \/ stored' = stored \o batch
      BY DEF InsertBatch
<1>3. stored' \in Seq(Nat) /\ Rising(stored') /\ Range(stored') \subseteq Range(stored) \union Range(batch)
      BY <1>2, EventsConcatenated DEF OrderInv
<1>4. QED
      BY <1>1, <1>3 DEF OrderInv

\* Every step keeps the order of the events.
LEMMA OrderStep == ASSUME OrderInv, [AuditNext]_auditVars PROVE OrderInv'
<1>1. CASE Log
      <2>1. logged' = logged + 1 /\ UNCHANGED <<batch, stored>> /\ logged \in Nat /\ logged + 1 \in Nat
            BY <1>1, SMT, SMTT(30) DEF Log, OrderInv
      <2>2. \A x \in Range(stored) \union Range(batch) \union Range(ch) : x <= logged /\ x \in Nat
            BY RangeOfSeq DEF OrderInv
      <2>3. CASE ch' = Append(ch, logged + 1)
            <3>1. \A y \in Range(ch) : y < logged + 1
                  BY <2>1, <2>2, SMT, SMTT(30)
            <3>2. ch' \in Seq(Nat) /\ Range(ch') = Range(ch) \union {logged + 1} /\ Rising(ch')
                  BY <2>1, <2>3, <3>1, EventAppended DEF OrderInv
            <3>3. QED
                  BY <2>1, <2>2, <3>2, SMT, SMTT(30) DEF OrderInv
      <2>4. CASE UNCHANGED ch
            BY <2>1, <2>2, <2>4, SMT, SMTT(30) DEF OrderInv
      <2>5. QED
            BY <1>1, <2>3, <2>4 DEF Log
<1>2. CASE Receive \/ (Drain /\ ch # <<>>)
      BY <1>2, ReceivedInOrder DEF Receive, Drain
<1>3. CASE flushBatch \/ DrainInsert
      BY <1>3, InsertedInOrder DEF flushBatch, DrainInsert
<1>4. CASE UNCHANGED <<logged, ch, batch, stored>>
      BY <1>4 DEF OrderInv
<1>5. QED
      BY <1>1, <1>2, <1>3, <1>4 DEF AuditNext, auditVars, TickerFires, Done, Close, Wait, Drain

\* The trail is written in the order of the calls and without repetition.
THEOREM StoredInOrderHolds == AuditSpec => []StoredInOrder
<1>1. AuditInit => OrderInv
      BY EmptySeq, SMT, SMTT(30) DEF AuditInit, OrderInv, Rising, Range
<1>2. OrderInv /\ [AuditNext]_auditVars => OrderInv'
      BY OrderStep
<1>3. OrderInv => StoredInOrder
      <2> SUFFICES ASSUME OrderInv, NEW i \in 1 .. Len(stored) - 1 PROVE stored[i] < stored[i + 1]
          BY DEF StoredInOrder
      <2>1. i \in 1 .. Len(stored) /\ i + 1 \in 1 .. Len(stored) /\ i < i + 1
            BY SMT, SMTT(30) DEF OrderInv
      <2>2. QED
            BY <2>1 DEF OrderInv, Rising
<1>4. QED
      BY <1>1, <1>2, <1>3, PTL DEF AuditSpec
=============================================================================
