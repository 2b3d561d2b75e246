-------------------------- MODULE ParallelMigrator --------------------------
(***************************************************************************)
(* MigrateAll of pkg/migrate/migrate.go: a pool of workers takes tenants   *)
(* from a closed channel of jobs, runs the migration of each and sends its *)
(* result to a channel that MigrateAll reads into a Report.  The context   *)
(* may be cancelled at any time.                                           *)
(***************************************************************************)
EXTENDS Integers, FiniteSets

CONSTANTS
    Schemas,        \* the tenants to migrate
    Pool            \* the workers (Options.Parallelism)

ASSUME MigratorAssumption == IsFiniteSet(Schemas) /\ Pool # {}

VARIABLES
    jobs,           \* the channel of jobs: tenants no worker has taken
    worker,         \* what each worker is doing, and with which tenant
    results,        \* the channel of results
    report,         \* the Report so far: tenants that passed and that failed
    main,           \* "reading" results, or "returned"
    cancelled,      \* the context is done
    migrated,       \* history: tenants whose migration ran to its end
    progressed      \* history: tenants OnProgress was called for

migratorVars == <<jobs, worker, results, report, main, cancelled, migrated, progressed>>

Result == [tenant : Schemas, ok : BOOLEAN, ran : BOOLEAN]
Idling == [doing |-> "idle"]

MigratorTypeOK ==
    /\ jobs \subseteq Schemas
    /\ worker \in [Pool -> {Idling, [doing |-> "done"]} \union [doing : {"run"}, tenant : Schemas]
                           \union [doing : {"send", "progress"}, result : Result]]
    /\ results \subseteq Result
    /\ report \in [passed : SUBSET Schemas, failures : SUBSET Schemas]
    /\ main \in {"reading", "returned"}
    /\ cancelled \in BOOLEAN /\ migrated \subseteq Schemas /\ progressed \subseteq Schemas

MigratorInit ==
    /\ jobs = Schemas /\ worker = [w \in Pool |-> Idling] /\ results = {}
    /\ report = [passed |-> {}, failures |-> {}] /\ main = "reading"
    /\ cancelled = FALSE /\ migrated = {} /\ progressed = {}

\* Mutant: a worker that finds the context done goes on to the next tenant.
TakeOrSkip(w, t) ==
    /\ worker[w] = Idling /\ t \in jobs /\ jobs' = jobs \ {t}
    /\ worker' = [worker EXCEPT ![w] = IF cancelled THEN Idling ELSE [doing |-> "run", tenant |-> t]]
    /\ UNCHANGED <<results, report, main, cancelled, migrated, progressed>>

\* A worker takes a tenant.  Once the context is done it is reported as failed and
\* not migrated.  The channel is ordered, but which tenant comes next decides nothing.
Take(w, t) ==
    /\ worker[w] = Idling /\ t \in jobs /\ jobs' = jobs \ {t}
    /\ worker' = [worker EXCEPT ![w] =
          IF cancelled THEN [doing |-> "send", result |-> [tenant |-> t, ok |-> FALSE, ran |-> FALSE]]
                       ELSE [doing |-> "run", tenant |-> t]]
    /\ UNCHANGED <<results, report, main, cancelled, migrated, progressed>>

\* Runner.Run: the migration succeeds or fails.
RunMigration(w) ==
    /\ worker[w].doing = "run"
    /\ \E ok \in BOOLEAN :
          /\ worker' = [worker EXCEPT ![w] =
                [doing |-> "send", result |-> [tenant |-> worker[w].tenant, ok |-> ok, ran |-> TRUE]]]
          /\ migrated' = IF ok THEN migrated \union {worker[w].tenant} ELSE migrated
    /\ UNCHANGED <<jobs, results, report, main, cancelled, progressed>>

\* The result is sent; the channel has room for all.
SendResult(w) ==
    /\ worker[w].doing = "send"
    /\ results' = results \union {worker[w].result}
    /\ worker' = [worker EXCEPT ![w] = IF worker[w].result.ran
                                       THEN [doing |-> "progress", result |-> worker[w].result] ELSE Idling]
    /\ UNCHANGED <<jobs, report, main, cancelled, migrated, progressed>>

\* OnProgress, after the result was sent.
OnProgress(w) ==
    /\ worker[w].doing = "progress"
    /\ progressed' = progressed \union {worker[w].result.tenant}
    /\ worker' = [worker EXCEPT ![w] = Idling]
    /\ UNCHANGED <<jobs, results, report, main, cancelled, migrated>>

\* The channel of jobs is closed and empty: the worker ends.
WorkerDone(w) ==
    /\ worker[w] = Idling /\ jobs = {}
    /\ worker' = [worker EXCEPT ![w] = [doing |-> "done"]]
    /\ UNCHANGED <<jobs, results, report, main, cancelled, migrated, progressed>>

\* MigrateAll reads a result.
ReadResult(r) ==
    /\ main = "reading" /\ r \in results /\ results' = results \ {r}
    /\ report' = IF r.ok THEN [report EXCEPT !.passed = @ \union {r.tenant}]
                         ELSE [report EXCEPT !.failures = @ \union {r.tenant}]
    /\ UNCHANGED <<jobs, worker, main, cancelled, migrated, progressed>>

\* All workers have ended, the results are closed and read: MigrateAll returns.
ReturnReport ==
    /\ main = "reading" /\ results = {} /\ \A w \in Pool : worker[w].doing = "done"
    /\ main' = "returned"
    /\ UNCHANGED <<jobs, worker, results, report, cancelled, migrated, progressed>>

CancelContext ==
    /\ ~cancelled /\ main = "reading" /\ cancelled' = TRUE
    /\ UNCHANGED <<jobs, worker, results, report, main, migrated, progressed>>

MigratorProgress ==
    \/ \E w \in Pool :
          \/ \E t \in Schemas : Take(w, t)
          \/ RunMigration(w) \/ SendResult(w) \/ OnProgress(w) \/ WorkerDone(w)
    \/ \E r \in Result : ReadResult(r)
    \/ ReturnReport

MigratorNext == MigratorProgress \/ CancelContext

MigratorSpec == MigratorInit /\ [][MigratorNext]_migratorVars

-----------------------------------------------------------------------------
(* Properties                                                              *)

\* "Partial failures are expressed via Report.Failures": when MigrateAll returns,
\* every tenant is in the report once, as passed exactly if its migration ran to
\* its end, whichever worker had it and whenever the context was cancelled.
ReportIsExact ==
    main = "returned" =>
        report.passed = migrated /\ report.failures = Schemas \ migrated

\* "OnProgress is called after each tenant migration completes": all its calls are
\* over when MigrateAll returns, and there was one for every migration that ran.
ProgressIsOver ==
    main = "returned" =>
        /\ \A w \in Pool : worker[w].doing = "done"
        /\ migrated \subseteq progressed /\ (~cancelled => progressed = Schemas)

=============================================================================
