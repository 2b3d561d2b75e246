----------------------------- MODULE MCPlatform -----------------------------
(***************************************************************************)
(* Small instances of eight parts that share no state: the audit logger,   *)
(* the configuration cache, the phase graph, the merge of overrides, the   *)
(* parallel migrator, the rate limiter, the shutdown of a server and the   *)
(* creation of tenants.  A behaviour takes the steps of one of them, the   *)
(* one in focus, so that the states to explore add up and do not multiply. *)
(***************************************************************************)
EXTENDS AuditLogger, VerticalConfig, PhaseGraph, ConfigMerge, ParallelMigrator, RateLimiter,
        ServerShutdown, TenantProvisioning, TLC

CONSTANTS a, b, c, n1, n2, n3

VARIABLE focus

SmallSection == <<a, b, c>>

\* Two of the three names have one slug.
SmallSlugs == n1 :> 1 @@ n2 :> 1 @@ n3 :> 2

\* The first two migration directories, of which the second goes further.
SmallNewest == <<1, 2>>

\* What is not in focus starts in one state, not in each of its initial states.
MCInit ==
    /\ focus \in {"audit", "vertical", "phases", "merge", "migrate", "rate", "shutdown", "tenants"}
    /\ focus = "phases" \/ adj = [p \in Phases |-> {}]
    /\ focus = "merge" \/ op = [remove |-> {}, override |-> <<>>, append |-> <<>>]
    /\ AuditInit /\ VerticalInit /\ PhaseInit /\ MergeInit /\ MigratorInit /\ RateInit
    /\ ShutdownInit /\ ProvisioningInit

\* Only the part in focus takes steps.
Only(part) ==
    /\ focus = part /\ UNCHANGED focus
    /\ IF part = "audit" THEN TRUE ELSE UNCHANGED auditVars
    /\ IF part = "vertical" THEN TRUE ELSE UNCHANGED verticalVars
    /\ IF part = "phases" THEN TRUE ELSE UNCHANGED phaseVars
    /\ IF part = "merge" THEN TRUE ELSE UNCHANGED mergeVars
    /\ IF part = "migrate" THEN TRUE ELSE UNCHANGED migratorVars
    /\ IF part = "rate" THEN TRUE ELSE UNCHANGED rateVars
    /\ IF part = "shutdown" THEN TRUE ELSE UNCHANGED shutdownVars
    /\ IF part = "tenants" THEN TRUE ELSE UNCHANGED provisioningVars

MCNext ==
    \/ AuditNext /\ Only("audit")
    \/ VerticalNext /\ Only("vertical")
    \/ PhaseNext /\ Only("phases")
    \/ MergeNext /\ Only("merge")
    \/ MigratorNext /\ Only("migrate")
    \/ RateNext /\ Only("rate")
    \/ ShutdownNext /\ Only("shutdown")
    \/ ProvisioningNext /\ Only("tenants")

mcVars ==
    <<focus, auditVars, verticalVars, phaseVars, mergeVars, migratorVars, rateVars,
      shutdownVars, provisioningVars>>

MCSpec == MCInit /\ [][MCNext]_mcVars

\* The goroutines of a server that shuts down run while they can, every call they wait for
\* returns, and the timer of the drain fires.
MCFairSpec ==
    /\ MCSpec
    /\ WF_mcVars(ShutdownProgress /\ Only("shutdown"))

=============================================================================
