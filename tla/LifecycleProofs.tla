--------------------------- MODULE LifecycleProofs --------------------------
(***************************************************************************)
(* Proofs about the life of a tenant: calls of CreateTenant leave one tenant *)
(* per name, complete in the order of its statements; the retention sweep  *)
(* keeps its order and its stamps; and data is dropped exactly with an     *)
(* executed request, decided by two people, and only after the retention   *)
(* window.  They hold for every set of tenants, calls, sweepers, requests, *)
(* administrators and worker runs and for all lengths of the periods.      *)
(***************************************************************************)
EXTENDS TenantProvisioning, TenantPurge, TLAPS

\* Most leaves are first-order: Zenon proves them.  Those that need arithmetic cite SMT, with
\* SMTT(30) as a second and longer try; ZenonT(40) gives a leaf more time.
USE Zenon

-----------------------------------------------------------------------------
(* The creation of tenants                                                 *)

\* Where a call stands, its tenant has as much as the statements before gave it, and no
\* two calls under way have drawn one id.
ProvisioningInv ==
    /\ tenants \in [TenantIds -> Names \union {NoTenant}]
    /\ seeded \in [TenantIds -> Nat] /\ version \in [TenantIds -> Nat]
    /\ creating \in [Callers -> [at: Underway \union {"idle", "created", "taken", "failed"},
                                 id: TenantIds \union {NoTenant}, name: Names \union {NoTenant}, dir: Nat \ {0}]]
    /\ OnePerName
    /\ \A c \in Callers : creating[c].at \in Underway \union {"created"} =>
          creating[c].id \in TenantIds /\ creating[c].name \in Names
    /\ \A c, d \in Callers :
          c # d /\ creating[c].at \in Underway /\ creating[d].at \in Underway => creating[c].id # creating[d].id
    /\ \A c \in Callers : creating[c].at = "insert" => tenants[creating[c].id] = NoTenant
    /\ \A c \in Callers : creating[c].at \in {"seed", "migrate", "created"} => tenants[creating[c].id] = creating[c].name
    /\ \A c \in Callers : creating[c].at = "seed" => seeded[creating[c].id] < SystemRoles
    /\ \A c \in Callers : creating[c].at \in {"migrate", "created"} => seeded[creating[c].id] = SystemRoles
    /\ \A i \in TenantIds : seeded[i] > 0 => tenants[i] # NoTenant
    /\ \A i \in TenantIds : version[i] > 0 => seeded[i] = SystemRoles

\* What a call may be.
CallRecord ==
    [at: Underway \union {"idle", "created", "taken", "failed"},
     id: TenantIds \union {NoTenant}, name: Names \union {NoTenant}, dir: Nat \ {0}]

\* A call before it begins is one.
LEMMA FreshIsCall == Fresh \in CallRecord
<1>1. 1 \in Nat \ {0}
      BY SMT, SMTT(30)
<1>2. QED
      BY <1>1 DEF Fresh, CallRecord

\* A call that ends without a tenant takes nothing from the invariant.
LEMMA CallEnds ==
    ASSUME ProvisioningInv, NEW c \in Callers, NEW k \in CallRecord, k.at \in {"taken", "failed"},
           creating' = [creating EXCEPT ![c] = k], UNCHANGED <<tenants, seeded, version>>
    PROVE  ProvisioningInv'
<1>1. creating'[c] = k /\ \A d \in Callers \ {c} : creating'[d] = creating[d]
      BY DEF ProvisioningInv
<1>2. creating' \in [Callers -> CallRecord]
      BY DEF ProvisioningInv, CallRecord
<1>3. k.at \notin Underway \union {"created", "insert", "seed", "migrate"}
      BY DEF Underway
<1> HIDE DEF Underway
<1>4. QED
      BY <1>1, <1>2, <1>3, SMT, SMTT(30) DEF ProvisioningInv, CallRecord, OnePerName

\* The pre-flight refuses, or draws an id nobody has.
LEMMA CreateTenantStep ==
    ASSUME ProvisioningInv, NEW c \in Callers, NEW n \in Names, CreateTenant(c, n)
    PROVE  ProvisioningInv'
<1> USE ProvisioningAssumption
<1>1. ASSUME NEW i \in Holders(n), creating' = [creating EXCEPT ![c] = [Fresh EXCEPT !.at = "taken", !.id = i, !.name = n]]
      PROVE  ProvisioningInv'
      <2>1. PICK k : k = [Fresh EXCEPT !.at = "taken", !.id = i, !.name = n]
            OBVIOUS
      <2>2. k \in CallRecord /\ k.at \in {"taken", "failed"}
            BY <2>1, FreshIsCall DEF CallRecord, Holders
      <2>3. UNCHANGED <<tenants, seeded, version>> /\ creating' = [creating EXCEPT ![c] = k]
            BY <1>1, <2>1 DEF CreateTenant
      <2>4. QED
            BY <2>2, <2>3, CallEnds
<1>2. ASSUME NEW i \in TenantIds, ~Drawn(i), Holders(n) = {},
             creating' = [creating EXCEPT ![c] = [Fresh EXCEPT !.at = "insert", !.id = i, !.name = n]]
      PROVE  ProvisioningInv'
      <2>1. PICK k : k = [Fresh EXCEPT !.at = "insert", !.id = i, !.name = n]
            OBVIOUS
      <2>2. k \in CallRecord /\ k.at = "insert" /\ k.id = i /\ k.name = n
            BY <2>1, FreshIsCall DEF CallRecord, Underway
      <2>3. UNCHANGED <<tenants, seeded, version>> /\ creating' = [creating EXCEPT ![c] = k]
            BY <1>2, <2>1 DEF CreateTenant
      <2>4. creating'[c] = k /\ \A d \in Callers \ {c} : creating'[d] = creating[d]
            BY <2>3 DEF ProvisioningInv
      <2>5. creating' \in [Callers -> CallRecord]
            BY <2>2, <2>3 DEF ProvisioningInv, CallRecord
      <2>6. tenants[i] = NoTenant /\ \A d \in Callers : creating[d].at \in Underway => creating[d].id # i
            BY <1>2 DEF Drawn
      <2>7. QED
            BY <2>2, <2>3, <2>4, <2>5, <2>6, SMT, SMTT(30) DEF ProvisioningInv, CallRecord, OnePerName
<1>3. QED
      BY <1>1, <1>2 DEF CreateTenant

\* A call under way moves on with its id and its name.
LEMMA CallMoves ==
    ASSUME ProvisioningInv, NEW c \in Callers, NEW a \in Underway \union {"created", "failed"}, Goes(c, a)
    PROVE  /\ creating' \in [Callers -> CallRecord]
           /\ creating'[c].at = a /\ creating'[c].id = creating[c].id /\ creating'[c].name = creating[c].name
           /\ \A d \in Callers \ {c} : creating'[d] = creating[d]
BY SMT, SMTT(30) DEF ProvisioningInv, CallRecord, Goes

\* A call that fails leaves what it wrote.
LEMMA CallIsGivenUp ==
    ASSUME ProvisioningInv, NEW c \in Callers, Goes(c, "failed"), UNCHANGED <<tenants, seeded, version>>
    PROVE  ProvisioningInv'
<1>1. PICK k : k = [creating[c] EXCEPT !.at = "failed"]
      OBVIOUS
<1>2. k \in CallRecord /\ k.at = "failed"
      BY <1>1, SMT, SMTT(30) DEF ProvisioningInv, CallRecord
<1>3. creating' = [creating EXCEPT ![c] = k]
      BY <1>1 DEF Goes
<1>4. QED
      BY <1>2, <1>3, CallEnds

\* The INSERT gives a name and a slug to one tenant.
LEMMA InsertTenantStep ==
    ASSUME ProvisioningInv, NEW c \in Callers, InsertTenant(c)
    PROVE  ProvisioningInv'
<1> USE ProvisioningAssumption
<1>1. ASSUME NEW i \in Holders(creating[c].name), creating' = [creating EXCEPT ![c].at = "taken", ![c].id = i],
             UNCHANGED <<tenants, seeded, version>>
      PROVE  ProvisioningInv'
      <2>1. PICK k : k = [creating[c] EXCEPT !.at = "taken", !.id = i]
            OBVIOUS
      <2>2. k \in CallRecord /\ k.at \in {"taken", "failed"}
            <3>1. creating[c] \in CallRecord
                  BY DEF ProvisioningInv, CallRecord
            <3>2. QED
                  BY <2>1, <3>1 DEF CallRecord, Holders
      <2>3. creating' = [creating EXCEPT ![c] = k]
            BY <1>1, <2>1 DEF ProvisioningInv
      <2>4. QED
            BY <1>1, <2>2, <2>3, CallEnds
<1>2. CASE Goes(c, "failed") /\ UNCHANGED <<tenants, seeded, version>>
      BY <1>2, CallIsGivenUp
<1>3. CASE /\ Holders(creating[c].name) = {} /\ ~SlugTaken(creating[c].name)
           /\ tenants' = [tenants EXCEPT ![creating[c].id] = creating[c].name]
           /\ Goes(c, "seed") /\ UNCHANGED <<seeded, version>>
      <2>1. PICK i \in TenantIds, n \in Names : i = creating[c].id /\ n = creating[c].name
            BY DEF InsertTenant, ProvisioningInv, Underway
      <2>2. /\ creating' \in [Callers -> CallRecord]
            /\ creating'[c].at = "seed" /\ creating'[c].id = i /\ creating'[c].name = n
            /\ \A d \in Callers \ {c} : creating'[d] = creating[d]
            BY <1>3, <2>1, CallMoves DEF Underway
      <2>3. /\ tenants' \in [TenantIds -> Names \union {NoTenant}]
            /\ tenants'[i] = n /\ \A j \in TenantIds \ {i} : tenants'[j] = tenants[j]
            BY <1>3, <2>1 DEF ProvisioningInv
      <2>4. tenants[i] = NoTenant /\ seeded[i] = 0 /\ version[i] = 0
            BY <2>1, SMT, SMTT(30) DEF InsertTenant, ProvisioningInv
      <2>5. \A j \in TenantIds : tenants[j] # NoTenant => tenants[j] # n /\ SlugOf[tenants[j]] # SlugOf[n]
            BY <1>3, <2>1 DEF Holders, SlugTaken
      <2>6. OnePerName'
            <3> SUFFICES ASSUME NEW h \in TenantIds, NEW j \in TenantIds, h # j, tenants'[h] # NoTenant, tenants'[j] # NoTenant
                         PROVE  tenants'[h] # tenants'[j] /\ SlugOf[tenants'[h]] # SlugOf[tenants'[j]]
                BY DEF OnePerName
            <3>1. CASE h = i
                  BY <2>3, <2>5, <3>1
            <3>2. CASE j = i
                  BY <2>3, <2>5, <3>2
            <3>3. CASE h # i /\ j # i
                  BY <2>3, <3>3, SMT, SMTT(30) DEF ProvisioningInv, OnePerName
            <3>4. QED
                  BY <3>1, <3>2, <3>3
      <2>7. \A d \in Callers \ {c} : creating[d].at \in {"insert", "seed", "migrate", "created"} => creating[d].id # i
            BY <2>1, <2>4, SMT, SMTT(30) DEF InsertTenant, ProvisioningInv, Underway
      <2>8. creating[c].at = "insert"
            BY DEF InsertTenant
      <2>9. n # NoTenant
            BY <2>1
      <2>10. \A d \in Callers : creating'[d].at \in Underway \union {"created"} =>
                creating'[d].id \in TenantIds /\ creating'[d].name \in Names
            BY <2>2 DEF ProvisioningInv
      <2>11. \A d, e \in Callers :
                d # e /\ creating'[d].at \in Underway /\ creating'[e].at \in Underway => creating'[d].id # creating'[e].id
            <3>1. \A d \in Callers : creating'[d].id = creating[d].id /\ (creating'[d].at \in Underway => creating[d].at \in Underway)
                  BY <2>1, <2>2, <2>8 DEF Underway
            <3>2. QED
                  BY ZenonT(40), <3>1 DEF ProvisioningInv
      <2>12. ASSUME NEW d \in Callers
             PROVE  /\ creating'[d].at = "insert" => tenants'[creating'[d].id] = NoTenant
                    /\ creating'[d].at \in {"seed", "migrate", "created"} => tenants'[creating'[d].id] = creating'[d].name
                    /\ creating'[d].at = "seed" => seeded[creating'[d].id] < SystemRoles
                    /\ creating'[d].at \in {"migrate", "created"} => seeded[creating'[d].id] = SystemRoles
            <3>1. CASE d = c
                  BY <2>2, <2>3, <2>4, <3>1, SMT, SMTT(30)
            <3>2. CASE d # c
                  <4>1. creating'[d] = creating[d]
                        BY <2>2, <3>2
                  <4>2. creating[d].at \in {"insert", "seed", "migrate", "created"} => creating[d].id \in TenantIds \ {i}
                        BY <2>7, <3>2 DEF ProvisioningInv, Underway
                  <4>3. QED
                        BY <2>3, <4>1, <4>2, SMT, SMTT(30) DEF ProvisioningInv
            <3>3. QED
                  BY <3>1, <3>2
      <2>13. \A j \in TenantIds : (seeded[j] > 0 => tenants'[j] # NoTenant) /\ (version[j] > 0 => seeded[j] = SystemRoles)
            BY <2>3, <2>4, SMT, SMTT(30) DEF ProvisioningInv
      <2>14. QED
            BY <1>3, <2>2, <2>3, <2>6, <2>10, <2>11, <2>12, <2>13 DEF ProvisioningInv, CallRecord
<1>4. QED
      BY <1>1, <1>2, <1>3 DEF InsertTenant

\* A role is written for a tenant that has its row and not yet all its roles.
LEMMA SeedRoleStep ==
    ASSUME ProvisioningInv, NEW c \in Callers, SeedRole(c)
    PROVE  ProvisioningInv'
<1> USE ProvisioningAssumption
<1>1. PICK i \in TenantIds : i = creating[c].id
      BY DEF SeedRole, Seeds, ProvisioningInv, Underway
<1>2. PICK a : a = IF seeded[i] + 1 = SystemRoles THEN "migrate" ELSE "seed"
      OBVIOUS
<1>3. /\ creating[c].at = "seed" /\ Goes(c, a) /\ UNCHANGED <<tenants, version>>
      /\ seeded' = [seeded EXCEPT ![i] = seeded[i] + 1] /\ a \in Underway
      BY <1>1, <1>2 DEF SeedRole, Seeds, Underway
<1>4. /\ creating' \in [Callers -> CallRecord]
      /\ creating'[c].at = a /\ creating'[c].id = i /\ creating'[c].name = creating[c].name
      /\ \A d \in Callers \ {c} : creating'[d] = creating[d]
      BY <1>1, <1>3, CallMoves
<1>5. seeded[i] < SystemRoles /\ seeded[i] \in Nat /\ tenants[i] = creating[c].name /\ tenants[i] # NoTenant /\ version[i] = 0
      <2>1. tenants[i] = creating[c].name /\ creating[c].name \in Names
            BY <1>1, <1>3 DEF ProvisioningInv, Underway
      <2>2. seeded[i] < SystemRoles /\ seeded[i] \in Nat /\ version[i] \in Nat /\ (version[i] > 0 => seeded[i] = SystemRoles)
            BY <1>1, <1>3 DEF ProvisioningInv
      <2>3. QED
            BY <2>1, <2>2, SMT, SMTT(30)
<1>6. /\ seeded' \in [TenantIds -> Nat] /\ seeded'[i] = seeded[i] + 1
      /\ \A j \in TenantIds \ {i} : seeded'[j] = seeded[j]
      BY <1>3, <1>5, SMT, SMTT(30) DEF ProvisioningInv
<1>7. \A d \in Callers : creating'[d].id = creating[d].id /\ creating'[d].name = creating[d].name
                            /\ (creating'[d].at \in Underway => creating[d].at \in Underway)
                            /\ (creating'[d].at \in Underway \union {"created"} => creating[d].at \in Underway \union {"created"})
      BY <1>1, <1>3, <1>4 DEF Underway
<1>8. /\ \A d \in Callers : creating'[d].at \in Underway \union {"created"} =>
             creating'[d].id \in TenantIds /\ creating'[d].name \in Names
      /\ \A d, e \in Callers :
             d # e /\ creating'[d].at \in Underway /\ creating'[e].at \in Underway => creating'[d].id # creating'[e].id
      BY <1>7, SMT, SMTT(30) DEF ProvisioningInv
<1>9. \A d \in Callers \ {c} : creating[d].at \in {"insert", "seed", "migrate", "created"} => creating[d].id \in TenantIds \ {i}
      BY <1>1, <1>3, <1>5, SMT, SMTT(30) DEF ProvisioningInv, Underway
<1>10. ASSUME NEW d \in Callers
       PROVE  /\ creating'[d].at = "insert" => tenants[creating'[d].id] = NoTenant
              /\ creating'[d].at \in {"seed", "migrate", "created"} => tenants[creating'[d].id] = creating'[d].name
              /\ creating'[d].at = "seed" => seeded'[creating'[d].id] < SystemRoles
              /\ creating'[d].at \in {"migrate", "created"} => seeded'[creating'[d].id] = SystemRoles
      <2>1. CASE d = c
            BY <1>2, <1>4, <1>5, <1>6, <2>1, SMT, SMTT(30)
      <2>2. CASE d # c
            <3>1. creating'[d] = creating[d]
                  BY <1>4, <2>2
            <3>2. QED
                  BY <1>6, <1>9, <2>2, <3>1, SMT, SMTT(30) DEF ProvisioningInv
      <2>3. QED
            BY <2>1, <2>2
<1>11. \A j \in TenantIds : (seeded'[j] > 0 => tenants[j] # NoTenant) /\ (version[j] > 0 => seeded'[j] = SystemRoles)
      BY <1>5, <1>6, SMT, SMTT(30) DEF ProvisioningInv
<1>12. QED
      BY <1>3, <1>4, <1>6, <1>8, <1>10, <1>11, SMT, SMTT(30) DEF ProvisioningInv, OnePerName, CallRecord

\* The schema is migrated for a tenant that has all its roles.
LEMMA MigratePathStep ==
    ASSUME ProvisioningInv, NEW c \in Callers, MigratePath(c)
    PROVE  ProvisioningInv'
<1> USE ProvisioningAssumption
<1>1. PICK i \in TenantIds, d \in Nat \ {0} : i = creating[c].id /\ d = creating[c].dir
      BY DEF MigratePath, ProvisioningInv, Underway
<1>2. creating[c].at = "migrate" /\ seeded[i] = SystemRoles /\ UNCHANGED <<tenants, seeded>> /\ version[i] \in Nat /\ Newest[d] \in Nat
      BY <1>1, SMT, SMTT(30) DEF MigratePath, ProvisioningInv
<1>3. ASSUME NEW w \in Nat, version' = [version EXCEPT ![i] = w]
      PROVE  /\ version' \in [TenantIds -> Nat]
             /\ \A j \in TenantIds : version'[j] > 0 => seeded[j] = SystemRoles
      BY <1>2, <1>3 DEF ProvisioningInv
<1>4. CASE version' = [version EXCEPT ![i] = Newest[d]] /\ creating' = [creating EXCEPT ![c].dir = d + 1]
      <2>1. /\ version' \in [TenantIds -> Nat]
            /\ \A j \in TenantIds : version'[j] > 0 => seeded[j] = SystemRoles
            BY <1>2, <1>3, <1>4
      <2>2. d + 1 \in Nat \ {0}
            BY <1>1, SMT, SMTT(30)
      <2>3. creating' \in [Callers -> CallRecord]
            <3>1. creating \in [Callers -> CallRecord]
                  BY DEF ProvisioningInv, CallRecord
            <3>2. [creating[c] EXCEPT !.dir = d + 1] \in CallRecord
                  BY <2>2, <3>1 DEF CallRecord
            <3>3. creating' = [creating EXCEPT ![c] = [creating[c] EXCEPT !.dir = d + 1]]
                  BY <1>4
            <3>4. QED
                  BY <3>1, <3>2, <3>3
      <2>4. \A e \in Callers : creating'[e].at = creating[e].at /\ creating'[e].id = creating[e].id /\ creating'[e].name = creating[e].name
            BY <1>4, SMT, SMTT(30) DEF ProvisioningInv
      <2>5. QED
            BY <1>2, <2>1, <2>3, <2>4, SMT, SMTT(30) DEF ProvisioningInv, OnePerName, CallRecord
<1>5. ASSUME NEW w \in Nat, version' = [version EXCEPT ![i] = w], Goes(c, "failed")
      PROVE  ProvisioningInv'
      <2>1. /\ version' \in [TenantIds -> Nat]
            /\ \A j \in TenantIds : version'[j] > 0 => seeded[j] = SystemRoles
            BY <1>3, <1>5
      <2>2. /\ creating' \in [Callers -> CallRecord] /\ creating'[c].at = "failed"
            /\ \A e \in Callers \ {c} : creating'[e] = creating[e]
            BY <1>5, CallMoves
      <2>3. "failed" \notin Underway \union {"created", "insert", "seed", "migrate"}
            BY DEF Underway
      <2>4. \A e \in Callers : creating'[e].at \in Underway \union {"created", "insert", "seed", "migrate"} =>
                creating'[e] = creating[e]
            BY <2>2, <2>3
      <2>5. \A e \in Callers : creating'[e].at \in Underway \union {"created"} =>
                creating'[e].id \in TenantIds /\ creating'[e].name \in Names
            BY <2>4 DEF ProvisioningInv
      <2>6. \A e, f \in Callers :
                e # f /\ creating'[e].at \in Underway /\ creating'[f].at \in Underway => creating'[e].id # creating'[f].id
            BY ZenonT(40), <2>4 DEF ProvisioningInv
      <2>7. \A e \in Callers :
                /\ creating'[e].at = "insert" => tenants[creating'[e].id] = NoTenant
                /\ creating'[e].at \in {"seed", "migrate", "created"} => tenants[creating'[e].id] = creating'[e].name
                /\ creating'[e].at = "seed" => seeded[creating'[e].id] < SystemRoles
                /\ creating'[e].at \in {"migrate", "created"} => seeded[creating'[e].id] = SystemRoles
            BY <2>4 DEF ProvisioningInv
      <2>8. QED
            BY <1>2, <2>1, <2>2, <2>5, <2>6, <2>7, SMT, SMTT(30) DEF ProvisioningInv, OnePerName, CallRecord
<1>6. CASE Goes(c, "failed") /\ UNCHANGED version
      BY <1>2, <1>6, CallIsGivenUp
<1>7. \A w \in version[i] .. Newest[d] : w \in Nat
      BY <1>2, SMT, SMTT(30)
<1>8. QED
      BY <1>1, <1>2, <1>4, <1>5, <1>6, <1>7 DEF MigratePath, MigrateUp

\* Every step keeps the invariant of the creation of tenants.
LEMMA ProvisioningStep == ASSUME ProvisioningInv, [ProvisioningNext]_provisioningVars PROVE ProvisioningInv'
<1>1. CASE UNCHANGED provisioningVars
      BY <1>1 DEF provisioningVars, ProvisioningInv, OnePerName
<1>2. ASSUME NEW c \in Callers, ReturnTenant(c) PROVE ProvisioningInv'
      <2>1. /\ creating' \in [Callers -> CallRecord] /\ creating'[c].at = "created"
            /\ creating'[c].id = creating[c].id /\ creating'[c].name = creating[c].name
            /\ \A e \in Callers \ {c} : creating'[e] = creating[e]
            BY <1>2, CallMoves DEF ReturnTenant
      <2>2. creating[c].at = "migrate" /\ UNCHANGED <<tenants, seeded, version>> /\ creating[c].at \in Underway
            BY <1>2 DEF ReturnTenant, Underway
      <2>3. "created" \notin Underway
            BY DEF Underway
      <2>4. \A e \in Callers :
                /\ creating'[e].id = creating[e].id /\ creating'[e].name = creating[e].name
                /\ creating'[e].at \in Underway => creating'[e].at = creating[e].at
                /\ creating'[e].at \in Underway \union {"created"} => creating[e].at \in Underway \union {"created"}
                /\ creating'[e].at = "created" => creating[e].at \in {"migrate", "created"}
            BY <2>1, <2>2, <2>3
      <2>5. \A e \in Callers : creating'[e].at \in Underway \union {"created"} =>
                creating'[e].id \in TenantIds /\ creating'[e].name \in Names
            BY <2>4 DEF ProvisioningInv
      <2>6. \A e, f \in Callers :
                e # f /\ creating'[e].at \in Underway /\ creating'[f].at \in Underway => creating'[e].id # creating'[f].id
            BY <2>4, SMT, SMTT(30) DEF ProvisioningInv
      <2>7. \A e \in Callers :
                /\ creating'[e].at = "insert" => tenants[creating'[e].id] = NoTenant
                /\ creating'[e].at \in {"seed", "migrate", "created"} => tenants[creating'[e].id] = creating'[e].name
                /\ creating'[e].at = "seed" => seeded[creating'[e].id] < SystemRoles
                /\ creating'[e].at \in {"migrate", "created"} => seeded[creating'[e].id] = SystemRoles
            BY ZenonT(40), <2>4 DEF ProvisioningInv, Underway
      <2>8. QED
            BY ZenonT(40), <2>1, <2>2, <2>5, <2>6, <2>7 DEF ProvisioningInv, OnePerName, CallRecord
<1>3. ASSUME NEW c \in Callers, ProvisioningStops(c) PROVE ProvisioningInv'
      BY <1>3, CallIsGivenUp DEF ProvisioningStops
<1>4. QED
      BY <1>1, <1>2, <1>3, CreateTenantStep, InsertTenantStep, SeedRoleStep, MigratePathStep DEF ProvisioningNext

\* The invariant of the creation of tenants.
THEOREM ProvisioningInvariant == ProvisioningSpec => []ProvisioningInv
<1>1. ProvisioningInit => ProvisioningInv
      <2> SUFFICES ASSUME ProvisioningInit PROVE ProvisioningInv
          OBVIOUS
      <2>1. creating \in [Callers -> CallRecord] /\ \A c \in Callers : creating[c].at = "idle"
            BY FreshIsCall DEF ProvisioningInit, Fresh
      <2>2. tenants \in [TenantIds -> Names \union {NoTenant}] /\ seeded \in [TenantIds -> Nat] /\ version \in [TenantIds -> Nat]
            BY DEF ProvisioningInit
      <2>3. QED
            BY <2>1, <2>2, SMT, SMTT(30) DEF ProvisioningInit, ProvisioningInv, CallRecord, OnePerName, Underway
<1>2. ProvisioningInv /\ [ProvisioningNext]_provisioningVars => ProvisioningInv'
      BY ProvisioningStep
<1>3. QED
      BY <1>1, <1>2, PTL DEF ProvisioningSpec

\* The types of the tables and of the calls of CreateTenant.
THEOREM ProvisioningTypeCorrect == ProvisioningSpec => []ProvisioningTypeOK
<1>1. ProvisioningInv => ProvisioningTypeOK
      BY DEF ProvisioningInv, ProvisioningTypeOK
<1>2. QED
      BY <1>1, ProvisioningInvariant, PTL

\* Calls that all passed the pre-flight leave one tenant with a name and with a slug.
THEOREM OnePerNameHolds == ProvisioningSpec => []OnePerName
<1>1. ProvisioningInv => OnePerName
      BY DEF ProvisioningInv
<1>2. QED
      BY <1>1, ProvisioningInvariant, PTL

\* Roles are written for a tenant with a row, its schema is begun with all its roles,
\* and a call that returns a tenant returns the one it asked for, complete.
THEOREM ProvisionedInOrderHolds == ProvisioningSpec => []ProvisionedInOrder
<1>1. ProvisioningInv => ProvisionedInOrder
      BY DEF ProvisioningInv, ProvisionedInOrder
<1>2. QED
      BY <1>1, ProvisioningInvariant, PTL

-----------------------------------------------------------------------------
(***************************************************************************)
(* The row functions.                                                      *)
(***************************************************************************)

\* SuspendTenant's UPDATE keeps the row typed and stamps suspended_at once.
LEMMA SuspendRow ==
    ASSUME clock \in Nat, NEW row \in TenantRow, NEW until \in Stamp,
           NEW reason \in FreezeReason
    PROVE  LET new == UpdateTenantStatus(row, "suspended", until, reason)
           IN  /\ new \in TenantRow
               /\ new.status = "suspended"
               /\ new.suspended_at = IF row.suspended_at = NULL THEN clock ELSE row.suspended_at
               /\ new.deactivated_at = row.deactivated_at
  BY DEF UpdateTenantStatus, TenantRow, StampOnEntry, Coalesce, Stamp, Status

\* The guarded UPDATE of a sweeper keeps the row typed and stamps
\* deactivated_at once.
LEMMA TransitionRow ==
    ASSUME clock \in Nat, NEW row \in TenantRow, NEW from \in Status, NEW to \in Status,
           to # "suspended"
    PROVE  LET new == TransitionTenantStatus(row, from, to)
           IN  /\ new \in TenantRow
               /\ row.status # from => new = row
               /\ row.status = from => new.status = to
               /\ new.suspended_at = row.suspended_at
               /\ new.deactivated_at =
                     IF row.status = from /\ to = "deactivated" /\ row.deactivated_at = NULL
                     THEN clock ELSE row.deactivated_at
  BY ZenonT(40) DEF TransitionTenantStatus, TenantRow, StampOnEntry, Coalesce, Stamp, Status

\* Placing and lifting a hold leave status and stamps alone.
LEMMA HoldRow ==
    ASSUME NEW row \in TenantRow, NEW until \in Stamp, NEW reason \in FreezeReason
    PROVE  LET new == SetTenantLegalHold(row, until, reason)
           IN  /\ new \in TenantRow /\ new.status = row.status
               /\ new.suspended_at = row.suspended_at /\ new.deactivated_at = row.deactivated_at
  BY DEF SetTenantLegalHold, TenantRow

\* So does ClearTenantLegalHold's statement.
LEMMA ClearRow ==
    ASSUME NEW row \in TenantRow
    PROVE  LET new == ClearLegalHold(row)
           IN  /\ new \in TenantRow /\ new.status = row.status
               /\ new.suspended_at = row.suspended_at /\ new.deactivated_at = row.deactivated_at
  BY DEF ClearLegalHold, TenantRow, Stamp, FreezeReason

-----------------------------------------------------------------------------
(***************************************************************************)
(* The steps.  A step that only changes tenants by such functions keeps    *)
(* the invariant; each action is an instance.                              *)
(***************************************************************************)

\* A suspension keeps RowInv: the new row is suspended, its first suspension
\* at or before now.
LEMMA SuspendRowInv ==
    ASSUME clock \in Nat, NEW row \in TenantRow, RowInv(row), NEW until \in Stamp,
           NEW reason \in FreezeReason
    PROVE  RowInv(UpdateTenantStatus(row, "suspended", until, reason))
<1> DEFINE new == UpdateTenantStatus(row, "suspended", until, reason)
<1> SUFFICES RowInv(new)
  OBVIOUS
<1>1. /\ new.status = "suspended"
      /\ new.suspended_at = IF row.suspended_at = NULL THEN clock ELSE row.suspended_at
      /\ new.deactivated_at = row.deactivated_at
  BY SuspendRow
<1>2. row.suspended_at \in Stamp /\ row.deactivated_at \in Stamp
  BY DEF TenantRow
<1> HIDE DEF new
<1>3. CASE row.suspended_at = NULL
  <2>1. clock # NULL
    BY RetentionAssumption, SMT, SMTT(30)
  <2>2. new.suspended_at = clock /\ new.deactivated_at = NULL
    BY <1>1, <1>3 DEF RowInv, Elapsed
  <2> QED
    BY <1>1, <2>1, <2>2, SMT, SMTT(30) DEF RowInv, Elapsed
<1>4. CASE row.suspended_at # NULL
  BY <1>1, <1>2, <1>4, RetentionAssumption DEF RowInv, Elapsed, Stamp
<1> QED
  BY <1>3, <1>4

\* The sweeper's write keeps RowInv: the period it judged elapsed at an
\* earlier time is elapsed now.
LEMMA TransitionRowInv ==
    ASSUME clock \in Nat, NEW row \in TenantRow, RowInv(row), NEW run \in SweepRun,
           run.now <= clock, SweepDue(row, run)
    PROVE  RowInv(TransitionTenantStatus(row, run.from, run.to))
<1> DEFINE new == TransitionTenantStatus(row, run.from, run.to)
<1> SUFFICES RowInv(new)
  OBVIOUS
<1>1. run.from \in Status /\ run.to \in Status /\ run.to # "suspended" /\ run.now \in Nat
  BY DEF SweepRun, SweepDue
<1>2. /\ row.status # run.from => new = row
      /\ row.status = run.from => new.status = run.to
      /\ new.suspended_at = row.suspended_at
      /\ new.deactivated_at =
            IF row.status = run.from /\ run.to = "deactivated" /\ row.deactivated_at = NULL
            THEN clock ELSE row.deactivated_at
  BY ZenonT(40), <1>1, TransitionRow
<1>3. row.suspended_at \in Stamp /\ row.deactivated_at \in Stamp
  BY DEF TenantRow
<1> HIDE DEF new
<1>4. CASE row.status # run.from
  BY <1>2, <1>4
<1>5. CASE row.status = run.from
  BY <1>1, <1>2, <1>3, <1>5, RetentionAssumption, SMT, SMTT(30) DEF RowInv, SweepDue, Elapsed, Stamp
<1> QED
  BY <1>4, <1>5

\* The old row's stamps are the new row's.
StampsKept(old, new) ==
    /\ old.suspended_at \in {NULL, new.suspended_at}
    /\ old.deactivated_at \in {NULL, new.deactivated_at}

\* The judgement of a sweeper outlives any change that keeps the stamps.
LEMMA SweepDueKept ==
    ASSUME NEW old, NEW new, NEW run, StampsKept(old, new), SweepDue(old, run)
    PROVE  SweepDue(new, run)
<1>1. CASE run.from = "suspended" /\ run.to = "grace"
           /\ Elapsed(old.suspended_at, SuspensionGracePeriod, run.now)
  BY <1>1 DEF StampsKept, SweepDue, Elapsed
<1>2. CASE run.from = "grace" /\ run.to = "deactivated"
           /\ Elapsed(old.suspended_at, GraceToDeactivatedDuration, run.now)
  BY <1>2 DEF StampsKept, SweepDue, Elapsed
<1>3. CASE run.from = "deactivated" /\ run.to = "purge_eligible"
           /\ Elapsed(old.deactivated_at, DeactivatedToPurgeDuration, run.now)
  BY <1>3 DEF StampsKept, SweepDue, Elapsed
<1> QED
  BY <1>1, <1>2, <1>3 DEF SweepDue

\* A sweeper that does not move keeps its invariant through such a change.
LEMMA SweepKept ==
    ASSUME RetentionInv, clock' \in Nat, clock <= clock',
           \A t \in Tenants : StampsKept(tenant[t], tenant'[t]),
           NEW w \in Sweepers, sweep'[w] = sweep[w]
    PROVE  SweepInv(sweep[w])'
<1> DEFINE run == sweep[w]
<1>1. run \in SweepRun /\ run.now \in Nat /\ clock \in Nat
  BY DEF RetentionInv, RetentionTypeOK, SweepRun
<1>2. run.now <= clock /\ (run.pc = "write" => run.id \in Tenants /\ SweepDue(tenant[run.id], run))
  BY DEF RetentionInv, SweepInv
<1>3. run.pc = "write" => SweepDue(tenant'[run.id], run)
  BY <1>2, SweepDueKept
<1>4. run.now <= clock'
  BY <1>1, <1>2, SMT, SMTT(30)
<1>5. SweepDue(tenant'[run.id], sweep'[w]) = SweepDue(tenant'[run.id], run)
  OBVIOUS
<1> QED
  BY <1>2, <1>3, <1>4, <1>5 DEF SweepInv, SweepDue, Elapsed

\* Writing a row that satisfies RowInv keeps the table's invariant.
LEMMA RowWritten ==
    ASSUME RetentionInv, NEW t \in Tenants, NEW new \in TenantRow, RowInv(new),
           tenant' = [tenant EXCEPT ![t] = new], clock' = clock
    PROVE  /\ tenant' \in [Tenants -> TenantRow]
           /\ \A u \in Tenants : RowInv(tenant[u])'
           /\ tenant'[t] = new
           /\ \A u \in Tenants : u # t => tenant'[u] = tenant[u]
<1>1. tenant \in [Tenants -> TenantRow] /\ \A u \in Tenants : RowInv(tenant[u])
  BY DEF RetentionInv, RetentionTypeOK
<1>2. /\ tenant' \in [Tenants -> TenantRow]
      /\ tenant'[t] = new
      /\ \A u \in Tenants : u # t => tenant'[u] = tenant[u]
  BY <1>1
<1>3. ASSUME NEW u \in Tenants PROVE RowInv(tenant[u])'
  <2>1. CASE u = t
    BY <1>2, <2>1 DEF RowInv, Elapsed
  <2>2. CASE u # t
    BY <1>1, <1>2, <2>2 DEF RowInv, Elapsed
  <2> QED BY <2>1, <2>2
<1> QED
  BY <1>2, <1>3

\* The new row is as suspended as the old one, or was suspended just now.
SuspensionKept(old, new) ==
    \/ new.status = old.status /\ new.suspended_at = old.suspended_at
    \/ /\ new.status = "suspended"
       /\ new.suspended_at = IF old.suspended_at = NULL THEN clock ELSE old.suspended_at

\* A call in flight keeps its invariant when its tenant is suspended, or
\* does not move.
LEMMA CallKept ==
    ASSUME RetentionInv, clock' = clock, NEW s \in Sessions, rpc'[s] = rpc[s],
           rpc[s].op = "billing" => SuspensionKept(tenant[rpc[s].id], tenant'[rpc[s].id])
    PROVE  CallInv(rpc[s])'
<1> DEFINE call == rpc[s]  old == tenant[call.id]  new == tenant'[call.id]
<1>1. call \in Call /\ clock \in Nat /\ call.at \in Nat
  BY DEF RetentionInv, RetentionTypeOK, Call
<1>2. call.op # "idle" => call.id \in Tenants
  BY DEF RetentionInv, CallInv
<1>3. ASSUME call.op = "billing"
      PROVE  /\ call.at <= clock /\ clock <= call.at + CallSpan
             /\ new.status \in {"active", "suspended"}
             /\ new.status = "suspended" => call.at <= new.suspended_at
  <2>1. /\ call.at <= clock /\ clock <= call.at + CallSpan
        /\ old.status \in {"active", "suspended"}
        /\ old.status = "suspended" => call.at <= old.suspended_at
    BY <1>3 DEF RetentionInv, CallInv
  <2>2. RowInv(old)
    BY <1>2, <1>3 DEF RetentionInv
  <2>3. SuspensionKept(old, new)
    BY <1>3
  <2> QED
    BY <1>1, <2>1, <2>2, <2>3 DEF SuspensionKept, RowInv
<1> QED
  BY <1>2, <1>3 DEF CallInv

\* A suspension keeps the invariant, whoever asks for it.
LEMMA SuspendKeeps ==
    ASSUME RetentionInv, NEW t \in Tenants, NEW until \in Stamp, NEW reason \in FreezeReason,
           tenant' = [tenant EXCEPT ![t] = UpdateTenantStatus(@, "suspended", until, reason)],
           UNCHANGED <<clock, sweep>>
    PROVE  /\ tenant' \in [Tenants -> TenantRow]
           /\ \A u \in Tenants : RowInv(tenant[u])'
           /\ \A u \in Tenants : StampsKept(tenant[u], tenant'[u])
           /\ \A w \in Sweepers : SweepInv(sweep[w])'
           /\ \A s \in Sessions : rpc'[s] = rpc[s] => CallInv(rpc[s])'
<1> DEFINE new == UpdateTenantStatus(tenant[t], "suspended", until, reason)
<1>1. clock \in Nat /\ tenant[t] \in TenantRow /\ RowInv(tenant[t])
  BY DEF RetentionInv, RetentionTypeOK
<1>2. /\ new \in TenantRow
      /\ new.status = "suspended"
      /\ new.suspended_at = IF tenant[t].suspended_at = NULL THEN clock ELSE tenant[t].suspended_at
      /\ new.deactivated_at = tenant[t].deactivated_at
  BY <1>1, SuspendRow
<1>3. RowInv(new)
  BY <1>1, SuspendRowInv
<1>4. tenant' = [tenant EXCEPT ![t] = new]
  OBVIOUS
<1> HIDE DEF new
<1>5. /\ tenant' \in [Tenants -> TenantRow]
      /\ \A u \in Tenants : RowInv(tenant[u])'
      /\ tenant'[t] = new
      /\ \A u \in Tenants : u # t => tenant'[u] = tenant[u]
  BY <1>2, <1>3, <1>4, RowWritten
<1>6. \A u \in Tenants : StampsKept(tenant[u], tenant'[u])
  BY <1>2, <1>5 DEF StampsKept
<1>7. \A u \in Tenants : SuspensionKept(tenant[u], tenant'[u])
  BY <1>2, <1>5 DEF SuspensionKept
<1>8. \A w \in Sweepers : SweepInv(sweep[w])'
  BY <1>1, <1>6, SweepKept, SMT, SMTT(30)
<1>9. \A s \in Sessions : rpc[s].op = "billing" => rpc[s].id \in Tenants
  BY DEF RetentionInv, CallInv
<1>10. \A s \in Sessions : rpc'[s] = rpc[s] => CallInv(rpc[s])'
  BY <1>7, <1>9, CallKept
<1> QED
  BY <1>5, <1>6, <1>8, <1>10

\* A step that only moves one sweeper keeps the invariant if the sweeper's
\* new state satisfies it.
LEMMA RunWritten ==
    ASSUME RetentionInv, UNCHANGED <<clock, tenant, rpc>>,
           NEW w \in Sweepers, NEW run \in SweepRun, sweep' = [sweep EXCEPT ![w] = run],
           run.now <= clock,
           run.pc = "write" => run.id \in Tenants /\ SweepDue(tenant[run.id], run)
    PROVE  RetentionInv'
<1>1. RetentionTypeOK /\ RetentionTypeOK'
  BY DEF RetentionInv, RetentionTypeOK
<1>2. \A t \in Tenants : RowInv(tenant[t])'
  BY DEF RetentionInv, RowInv, Elapsed
<1>3. \A s \in Sessions : CallInv(rpc[s])'
  BY DEF RetentionInv, CallInv
<1>4. ASSUME NEW v \in Sweepers PROVE SweepInv(sweep[v])'
  <2>1. CASE v = w
    <3>1. sweep'[v] = run
      BY <1>1, <2>1 DEF RetentionTypeOK
    <3> QED
      BY <3>1 DEF SweepInv, SweepDue, Elapsed
  <2>2. CASE v # w
    <3>1. sweep'[v] = sweep[v]
      BY <1>1, <2>2 DEF RetentionTypeOK
    <3> QED
      BY <3>1 DEF RetentionInv, SweepInv, SweepDue, Elapsed
  <2> QED BY <2>1, <2>2
<1> QED
  BY <1>1, <1>2, <1>3, <1>4 DEF RetentionInv

\* Wherever the run goes after a tenant, it holds no pending write.
LEMMA AfterTenantType ==
    ASSUME NEW run \in SweepRun, NEW t, run.now <= clock, clock \in Nat
    PROVE  /\ AfterTenant(run, t) \in SweepRun
           /\ AfterTenant(run, t).pc # "write"
           /\ AfterTenant(run, t).now <= clock
<1> DEFINE rest == [run EXCEPT !.due = @ \ {t}, !.pc = "read", !.id = NULL]
           again == [rest EXCEPT !.pc = "list"]
<1>1. /\ rest \in SweepRun /\ rest.pc = "read" /\ rest.now = run.now
      /\ again \in SweepRun /\ again.pc = "list" /\ again.now = run.now
  BY DEF SweepRun
<1>2. NoSweep \in SweepRun /\ NoSweep.pc = "idle" /\ NoSweep.now = 0
  BY DEF NoSweep, SweepRun, Status
<1>3. AfterTenant(run, t) \in {rest, again, NoSweep}
  BY DEF AfterTenant
<1> HIDE DEF rest, again
<1> QED
  BY <1>1, <1>2, <1>3, SMT, SMTT(30)

\* Every step of a sweeper but its write.
LEMMA SweeperReads ==
    ASSUME RetentionInv, NEW w \in Sweepers,
           \/ SweepStart(w) \/ SweepList(w) \/ SweepAbort(w)
           \/ \E t \in Tenants : SweepRead(w, t) \/ SweepTenantFails(w, t)
    PROVE  RetentionInv'
<1>1. clock \in Nat /\ sweep[w] \in SweepRun /\ sweep[w].now <= clock /\ tenant \in [Tenants -> TenantRow]
  BY DEF RetentionInv, RetentionTypeOK, SweepInv
<1>2. NoSweep \in SweepRun /\ NoSweep.pc = "idle" /\ NoSweep.now <= clock
  BY <1>1, SMT, SMTT(30) DEF NoSweep, SweepRun, Status
<1>3. CASE SweepStart(w)
  <2> DEFINE run == [NoSweep EXCEPT !.pc = "list", !.now = clock]
  <2>1. run \in SweepRun
    BY <1>1 DEF SweepRun, NoSweep, Status
  <2>4. run.pc = "list" /\ run.now = clock
    BY DEF NoSweep
  <2>2. sweep' = [sweep EXCEPT ![w] = run] /\ UNCHANGED <<clock, tenant, rpc>>
    BY <1>3 DEF SweepStart
  <2> HIDE DEF run
  <2>3. run.now <= clock
    BY <1>1, <2>4, SMT, SMTT(30)
  <2> QED
    BY <2>1, <2>4, <2>2, <2>3, RunWritten
<1>4. CASE SweepList(w)
  <2>1. PICK due \in DueBatches(sweep[w].now), listed \in 0 .. BatchSize :
          \/ /\ due = {}
             /\ sweep' = [sweep EXCEPT ![w] = NoSweep]
          \/ /\ due # {}
             /\ sweep' = [sweep EXCEPT ![w].pc = "read", ![w].due = due,
                                       ![w].listed = listed, ![w].batch = @ + 1]
    BY <1>4 DEF SweepList
  <2>2. due \subseteq Tenants
    BY DEF DueBatches
  <2>3. UNCHANGED <<clock, tenant, rpc>>
    BY <1>4 DEF SweepList
  <2>4. CASE due = {}
    BY <1>2, <2>1, <2>3, <2>4, RunWritten
  <2>5. CASE due # {}
    <3> DEFINE batch == sweep[w].batch + 1
               run == [sweep[w] EXCEPT !.pc = "read", !.due = due, !.listed = listed, !.batch = batch]
    <3>1. sweep' = [sweep EXCEPT ![w] = run]
      BY <2>1, <2>5
    <3>2. batch \in Nat /\ listed \in Nat
      BY <1>1, RetentionAssumption, SMT, SMTT(30) DEF SweepRun
    <3> HIDE DEF batch
    <3>3. run \in SweepRun
      BY <1>1, <2>2, <3>2 DEF SweepRun
    <3>4. run.pc = "read" /\ run.now <= clock
      BY <1>1 DEF SweepRun
    <3> HIDE DEF run
    <3> QED
      BY <2>3, <3>1, <3>3, <3>4, RunWritten
  <2> QED BY <2>4, <2>5
<1>5. CASE SweepAbort(w)
  BY <1>2, <1>5, RunWritten DEF SweepAbort
<1>6. ASSUME NEW t \in Tenants, SweepRead(w, t) PROVE RetentionInv'
  <2> DEFINE next == nextLifecycleStatus(tenant[t], sweep[w].now)
             run == IF next = NULL THEN AfterTenant(sweep[w], t)
                    ELSE [sweep[w] EXCEPT !.pc = "write", !.id = t,
                                          !.from = tenant[t].status, !.to = next]
  <2>1. sweep' = [sweep EXCEPT ![w] = run] /\ UNCHANGED <<clock, tenant, rpc>>
    BY <1>6 DEF SweepRead
  <2>2. CASE next = NULL
    <3>1. run = AfterTenant(sweep[w], t)
      BY <2>2
    <3> HIDE DEF run
    <3> QED
      BY <1>1, <2>1, <3>1, AfterTenantType, RunWritten
  <2>3. CASE next # NULL
    <3>1. run = [sweep[w] EXCEPT !.pc = "write", !.id = t,
                                 !.from = tenant[t].status, !.to = next]
      BY <2>3
    <3>2. /\ tenant[t].status \in Status
          /\ \/ /\ tenant[t].status = "suspended" /\ next = "grace"
                /\ Elapsed(tenant[t].suspended_at, SuspensionGracePeriod, sweep[w].now)
             \/ /\ tenant[t].status = "grace" /\ next = "deactivated"
                /\ Elapsed(tenant[t].suspended_at, GraceToDeactivatedDuration, sweep[w].now)
             \/ /\ tenant[t].status = "deactivated" /\ next = "purge_eligible"
                /\ Elapsed(tenant[t].deactivated_at, DeactivatedToPurgeDuration, sweep[w].now)
      BY <1>1, <2>3 DEF nextLifecycleStatus, TenantRow
    <3> HIDE DEF next
    <3>3. /\ run \in SweepRun /\ run.pc = "write" /\ run.id = t /\ run.now = sweep[w].now
          /\ run.from = tenant[t].status /\ run.to = next
      BY <1>1, <3>1, <3>2 DEF SweepRun, Status
    <3> HIDE DEF run
    <3>4. SweepDue(tenant[t], run)
      BY <3>2, <3>3 DEF SweepDue
    <3> QED
      BY <1>1, <2>1, <3>3, <3>4, RunWritten
  <2> QED BY <2>2, <2>3
<1>7. ASSUME NEW t \in Tenants, SweepTenantFails(w, t) PROVE RetentionInv'
  BY <1>1, <1>7, AfterTenantType, RunWritten DEF SweepTenantFails
<1> QED
  BY <1>3, <1>4, <1>5, <1>6, <1>7

\* The sweeper's write, which races with every call and every other sweeper.
LEMMA SweeperWrites ==
    ASSUME RetentionInv, NEW w \in Sweepers, NEW t \in Tenants, SweepWrite(w, t)
    PROVE  /\ RetentionInv'
           /\ \A u \in Tenants : StampsKept(tenant[u], tenant'[u])
<1> DEFINE run == sweep[w]
           row == tenant[t]
           new == TransitionTenantStatus(row, run.from, run.to)
<1>1. /\ clock \in Nat /\ run \in SweepRun /\ run.now \in Nat /\ run.now <= clock
      /\ row \in TenantRow /\ RowInv(row)
      /\ rpc \in [Sessions -> Call] /\ sweep \in [Sweepers -> SweepRun]
  BY DEF RetentionInv, RetentionTypeOK, SweepInv, SweepRun
<1>2. SweepDue(row, run)
  BY DEF RetentionInv, SweepInv, SweepWrite
<1>3. run.from \in Status /\ run.to \in Status /\ run.to # "suspended"
  BY <1>1, <1>2 DEF SweepRun, SweepDue
<1>4. /\ new \in TenantRow
      /\ row.status # run.from => new = row
      /\ row.status = run.from => new.status = run.to
      /\ new.suspended_at = row.suspended_at
      /\ new.deactivated_at =
            IF row.status = run.from /\ run.to = "deactivated" /\ row.deactivated_at = NULL
            THEN clock ELSE row.deactivated_at
  BY ZenonT(40), <1>1, <1>3, TransitionRow
<1>5. RowInv(new)
  BY <1>1, <1>2, TransitionRowInv
<1>6. tenant' = [tenant EXCEPT ![t] = new] /\ UNCHANGED <<clock, rpc>>
  BY DEF SweepWrite
<1>7. sweep' = [sweep EXCEPT ![w] = AfterTenant(run, t)]
  BY DEF SweepWrite
<1> HIDE DEF new
<1>8. /\ tenant' \in [Tenants -> TenantRow]
      /\ \A u \in Tenants : RowInv(tenant[u])'
      /\ tenant'[t] = new
      /\ \A u \in Tenants : u # t => tenant'[u] = tenant[u]
  BY <1>4, <1>5, <1>6, RowWritten
<1>9. \A u \in Tenants : StampsKept(tenant[u], tenant'[u])
  BY <1>4, <1>8 DEF StampsKept
<1>10. /\ AfterTenant(run, t) \in SweepRun
       /\ AfterTenant(run, t).pc # "write"
       /\ AfterTenant(run, t).now <= clock
  BY <1>1, AfterTenantType
<1>11. ASSUME NEW v \in Sweepers PROVE SweepInv(sweep[v])'
  <2>1. CASE v = w
    <3>1. sweep'[v] = AfterTenant(run, t)
      BY <1>1, <1>7, <2>1
    <3> QED
      BY <1>6, <1>10, <3>1 DEF SweepInv
  <2>2. CASE v # w
    <3>1. sweep'[v] = sweep[v]
      BY <1>1, <1>7, <2>2
    <3> QED
      BY <1>1, <1>6, <1>9, <3>1, SweepKept, SMT, SMTT(30)
  <2> QED BY <2>1, <2>2
<1>12. ASSUME NEW s \in Sessions PROVE CallInv(rpc[s])'
  <2> DEFINE call == rpc[s]
  <2>1. ASSUME call.op = "billing" PROVE SuspensionKept(tenant[call.id], tenant'[call.id])
    <3>1. /\ call.id \in Tenants /\ call.at \in Nat
          /\ call.at <= clock /\ clock <= call.at + CallSpan
          /\ tenant[call.id].status \in {"active", "suspended"}
          /\ tenant[call.id].status = "suspended" => call.at <= tenant[call.id].suspended_at
      BY <1>1, <2>1 DEF RetentionInv, CallInv, Call
    <3>2. CASE call.id # t
      BY <1>8, <3>1, <3>2 DEF SuspensionKept
    <3>3. CASE call.id = t /\ row.status # run.from
      BY <1>4, <1>8, <3>3 DEF SuspensionKept
    <3>4. ASSUME call.id = t, row.status = run.from PROVE FALSE
      <4>1. run.from = "suspended"
        BY <1>2, <3>1, <3>4 DEF SweepDue
      <4>2. row.suspended_at + SuspensionGracePeriod <= run.now /\ row.suspended_at # NULL
        BY <1>2, <4>1 DEF SweepDue, Elapsed
      <4>3. call.at <= row.suspended_at /\ row.suspended_at \in Nat
        BY <1>1, <3>1, <3>4, <4>1, <4>2 DEF TenantRow, Stamp
      <4> QED
        BY <1>1, <3>1, <4>2, <4>3, RetentionAssumption, CallSpanAssumption, SMT, SMTT(30)
    <3> QED BY <3>2, <3>3, <3>4
  <2>2. rpc'[s] = rpc[s]
    BY <1>6
  <2> QED
    BY <1>6, <2>1, <2>2, CallKept
<1>13. RetentionTypeOK'
  BY <1>1, <1>6, <1>7, <1>8, <1>10 DEF RetentionTypeOK
<1> QED
  BY <1>8, <1>9, <1>11, <1>12, <1>13 DEF RetentionInv

\* Time passing only makes more periods elapse.
LEMMA TickKeeps ==
    ASSUME RetentionInv, Tick
    PROVE  RetentionInv'
<1>1. /\ clock \in Nat /\ clock' = clock + 1 /\ UNCHANGED <<tenant, sweep, rpc>>
      /\ RetentionTypeOK
  BY DEF RetentionInv, RetentionTypeOK, Tick
<1>2. RetentionTypeOK'
  BY <1>1, SMT, SMTT(30) DEF RetentionTypeOK
<1>3. ASSUME NEW t \in Tenants PROVE RowInv(tenant[t])'
  <2>1. RowInv(tenant[t]) /\ tenant[t] \in TenantRow
    BY <1>1 DEF RetentionInv, RetentionTypeOK
  <2>2. tenant[t].suspended_at \in Stamp /\ tenant[t].deactivated_at \in Stamp
    BY <2>1 DEF TenantRow
  <2> QED
    BY <1>1, <2>1, <2>2, RetentionAssumption, SMT, SMTT(30) DEF RowInv, Elapsed, Stamp
<1>4. ASSUME NEW w \in Sweepers PROVE SweepInv(sweep[w])'
  <2>1. \A t \in Tenants : StampsKept(tenant[t], tenant'[t])
    BY <1>1 DEF StampsKept
  <2> QED
    BY <1>1, <2>1, SweepKept, SMT, SMTT(30)
<1>5. ASSUME NEW s \in Sessions PROVE CallInv(rpc[s])'
  <2>1. CallInv(rpc[s]) /\ rpc[s].at \in Nat
    BY <1>1 DEF RetentionInv, RetentionTypeOK, Call
  <2>2. rpc[s].op # "idle" => clock < rpc[s].at + CallSpan
    BY DEF Tick
  <2> QED
    BY <1>1, <2>1, <2>2, RetentionAssumption, SMT, SMTT(30) DEF CallInv
<1> QED
  BY <1>2, <1>3, <1>4, <1>5 DEF RetentionInv

\* A hold placed or lifted is invisible to the lifecycle.
LEMMA HoldKeeps ==
    ASSUME RetentionInv, NEW t \in Tenants, NEW new \in TenantRow,
           new.status = tenant[t].status, new.suspended_at = tenant[t].suspended_at,
           new.deactivated_at = tenant[t].deactivated_at,
           tenant' = [tenant EXCEPT ![t] = new], UNCHANGED <<clock, sweep>>
    PROVE  /\ tenant' \in [Tenants -> TenantRow]
           /\ \A u \in Tenants : RowInv(tenant[u])'
           /\ \A u \in Tenants : StampsKept(tenant[u], tenant'[u])
           /\ \A w \in Sweepers : SweepInv(sweep[w])'
           /\ \A s \in Sessions : rpc'[s] = rpc[s] => CallInv(rpc[s])'
<1>1. clock \in Nat /\ tenant[t] \in TenantRow /\ RowInv(tenant[t])
  BY DEF RetentionInv, RetentionTypeOK
<1>2. RowInv(new)
  BY <1>1 DEF RowInv
<1>3. /\ tenant' \in [Tenants -> TenantRow]
      /\ \A u \in Tenants : RowInv(tenant[u])'
      /\ tenant'[t] = new
      /\ \A u \in Tenants : u # t => tenant'[u] = tenant[u]
  BY <1>2, RowWritten
<1>4. \A u \in Tenants : StampsKept(tenant[u], tenant'[u])
  BY <1>3 DEF StampsKept
<1>5. \A u \in Tenants : SuspensionKept(tenant[u], tenant'[u])
  BY <1>3 DEF SuspensionKept
<1>6. \A w \in Sweepers : SweepInv(sweep[w])'
  BY <1>1, <1>4, SweepKept, SMT, SMTT(30)
<1>7. \A s \in Sessions : rpc[s].op = "billing" => rpc[s].id \in Tenants
  BY DEF RetentionInv, CallInv
<1>8. \A s \in Sessions : rpc'[s] = rpc[s] => CallInv(rpc[s])'
  BY <1>5, <1>7, CallKept
<1> QED
  BY <1>3, <1>4, <1>6, <1>8

\* The admin calls that are one statement each.
LEMMA AdminKeeps ==
    ASSUME RetentionInv, NEW t \in Tenants, AdminCall(t)
    PROVE  /\ RetentionInv'
           /\ \A u \in Tenants : StampsKept(tenant[u], tenant'[u])
<1>1. RetentionTypeOK
  BY DEF RetentionInv
<1>2. ASSUME NEW until \in HoldUntils \union {NULL}, NEW reason \in FreezeReason,
             SuspendTenant(t, until, reason)
      PROVE  /\ RetentionInv'
             /\ \A u \in Tenants : StampsKept(tenant[u], tenant'[u])
  <2>1. until \in Stamp
    BY RetentionAssumption DEF Stamp
  <2>2. /\ tenant' = [tenant EXCEPT ![t] = UpdateTenantStatus(@, "suspended", until, reason)]
        /\ UNCHANGED <<clock, sweep>> /\ rpc' = rpc
    BY <1>2 DEF SuspendTenant
  <2>3. /\ tenant' \in [Tenants -> TenantRow]
        /\ \A u \in Tenants : RowInv(tenant[u])'
        /\ \A u \in Tenants : StampsKept(tenant[u], tenant'[u])
        /\ \A w \in Sweepers : SweepInv(sweep[w])'
        /\ \A s \in Sessions : CallInv(rpc[s])'
    BY <2>1, <2>2, SuspendKeeps
  <2>4. RetentionTypeOK'
    BY <1>1, <2>2, <2>3 DEF RetentionTypeOK
  <2> QED
    BY <2>3, <2>4 DEF RetentionInv
<1>3. ASSUME ClearTenantLegalHold(t)
      PROVE  /\ RetentionInv'
             /\ \A u \in Tenants : StampsKept(tenant[u], tenant'[u])
  <2> DEFINE new == ClearLegalHold(tenant[t])
  <2>1. /\ new \in TenantRow /\ new.status = tenant[t].status
        /\ new.suspended_at = tenant[t].suspended_at /\ new.deactivated_at = tenant[t].deactivated_at
    BY <1>1, ClearRow DEF RetentionTypeOK
  <2>2. /\ tenant' = [tenant EXCEPT ![t] = new]
        /\ UNCHANGED <<clock, sweep>> /\ rpc' = rpc
    BY <1>3 DEF ClearTenantLegalHold
  <2> HIDE DEF new
  <2>3. /\ tenant' \in [Tenants -> TenantRow]
        /\ \A u \in Tenants : RowInv(tenant[u])'
        /\ \A u \in Tenants : StampsKept(tenant[u], tenant'[u])
        /\ \A w \in Sweepers : SweepInv(sweep[w])'
        /\ \A s \in Sessions : CallInv(rpc[s])'
    BY <2>1, <2>2, HoldKeeps
  <2>4. RetentionTypeOK'
    BY <1>1, <2>2, <2>3 DEF RetentionTypeOK
  <2> QED
    BY <2>3, <2>4 DEF RetentionInv
<1> QED
  BY <1>2, <1>3 DEF AdminCall

\* A step that changes one call and no table keeps the invariant if the
\* call's new state satisfies it.
LEMMA CallWritten ==
    ASSUME RetentionInv, UNCHANGED <<clock, tenant, sweep>>,
           NEW s \in Sessions, NEW call \in Call, rpc' = [rpc EXCEPT ![s] = call], CallInv(call)
    PROVE  RetentionInv'
<1>1. rpc \in [Sessions -> Call] /\ rpc' \in [Sessions -> Call]
  BY DEF RetentionInv, RetentionTypeOK
<1>2. RetentionTypeOK'
  BY <1>1 DEF RetentionInv, RetentionTypeOK
<1>3. ASSUME NEW t \in Tenants PROVE RowInv(tenant[t])'
  BY DEF RetentionInv, RowInv, Elapsed
<1>4. ASSUME NEW w \in Sweepers PROVE SweepInv(sweep[w])'
  BY DEF RetentionInv, SweepInv, SweepDue, Elapsed
<1>5. ASSUME NEW z \in Sessions PROVE CallInv(rpc[z])'
  <2>1. rpc'[z] = IF z = s THEN call ELSE rpc[z]
    BY <1>1
  <2> QED
    BY <2>1 DEF RetentionInv, CallInv
<1> QED
  BY <1>2, <1>3, <1>4, <1>5 DEF RetentionInv

\* A finished call leaves nothing behind.
LEMMA NoCallInv == NoCall \in Call /\ CallInv(NoCall)
  BY RetentionAssumption DEF NoCall, Call, CallInv, Stamp, FreezeReason

\* Every step of a call or a billing delivery.
LEMMA SessionKeeps ==
    ASSUME RetentionInv, NEW s \in Sessions, SessionStep(s)
    PROVE  /\ RetentionInv'
           /\ \A u \in Tenants : StampsKept(tenant[u], tenant'[u])
<1>1. /\ RetentionTypeOK /\ clock \in Nat /\ rpc[s] \in Call /\ rpc \in [Sessions -> Call]
      /\ rpc[s].op # "idle" => rpc[s].id \in Tenants
  BY DEF RetentionInv, RetentionTypeOK, CallInv
<1>2. UNCHANGED tenant => \A u \in Tenants : StampsKept(tenant[u], tenant'[u])
  BY DEF StampsKept
<1>3. ASSUME NEW t \in Tenants, NEW until \in HoldUntils \union {NULL}, NEW reason \in Reasons,
             NEW overwrite \in BOOLEAN, SetTenantRetentionRead(s, t, until, reason, overwrite)
      PROVE  RetentionInv' /\ UNCHANGED tenant
  <2> DEFINE call == [op |-> "retention", id |-> t, until |-> until, reason |-> reason, at |-> clock]
  <2>1. until \in Stamp /\ reason \in FreezeReason
    BY RetentionAssumption DEF Stamp, FreezeReason
  <2>2. call \in Call
    BY <1>1, <2>1 DEF Call
  <2>3. CallInv(call)
    BY DEF CallInv
  <2>4. rpc' = [rpc EXCEPT ![s] = call] /\ UNCHANGED <<clock, tenant, sweep>>
    BY <1>3 DEF SetTenantRetentionRead
  <2> QED
    BY <2>2, <2>3, <2>4, CallWritten
<1>4. ASSUME NEW t \in Tenants, BillingHandleRead(s, t)
      PROVE  RetentionInv' /\ UNCHANGED tenant
  <2> DEFINE call == [op |-> "billing", id |-> t, until |-> NULL, reason |-> NULL, at |-> clock]
  <2>1. call \in Call
    BY <1>1 DEF Call, Stamp, FreezeReason
  <2>2. rpc' = [rpc EXCEPT ![s] = call] /\ UNCHANGED <<clock, tenant, sweep>>
        /\ tenant[t].status = "active"
    BY <1>4 DEF BillingHandleRead
  <2>3. CallInv(call)
    BY <1>1, <2>2, RetentionAssumption, SMT, SMTT(30) DEF CallInv
  <2> QED
    BY <2>1, <2>2, <2>3, CallWritten
<1>5. ASSUME CallFails(s) PROVE RetentionInv' /\ UNCHANGED tenant
  BY <1>5, NoCallInv, CallWritten DEF CallFails
<1>6. ASSUME tenant' \in [Tenants -> TenantRow], rpc' = [rpc EXCEPT ![s] = NoCall],
             UNCHANGED <<clock, sweep>>,
             \A u \in Tenants : RowInv(tenant[u])',
             \A w \in Sweepers : SweepInv(sweep[w])',
             \A z \in Sessions : rpc'[z] = rpc[z] => CallInv(rpc[z])'
      PROVE  RetentionInv'
  <2>1. RetentionTypeOK'
    BY <1>1, <1>6, NoCallInv DEF RetentionTypeOK
  <2>2. ASSUME NEW z \in Sessions PROVE CallInv(rpc[z])'
    <3>1. rpc'[z] = IF z = s THEN NoCall ELSE rpc[z]
      BY <1>1, <1>6
    <3> QED
      BY <1>6, <3>1, SMT, SMTT(30) DEF CallInv, NoCall
  <2> QED
    BY <1>6, <2>1, <2>2 DEF RetentionInv
<1>7. ASSUME SetTenantRetentionWrite(s)
      PROVE  RetentionInv' /\ \A u \in Tenants : StampsKept(tenant[u], tenant'[u])
  <2> DEFINE t == rpc[s].id
             new == SetTenantLegalHold(tenant[t], rpc[s].until, rpc[s].reason)
  <2>1. t \in Tenants /\ rpc[s].until \in Stamp /\ rpc[s].reason \in FreezeReason
        /\ tenant[t] \in TenantRow
    BY <1>1, <1>7 DEF SetTenantRetentionWrite, Call, RetentionTypeOK
  <2>2. /\ new \in TenantRow /\ new.status = tenant[t].status
        /\ new.suspended_at = tenant[t].suspended_at /\ new.deactivated_at = tenant[t].deactivated_at
    BY <2>1, HoldRow
  <2>3. /\ tenant' = [tenant EXCEPT ![t] = new]
        /\ UNCHANGED <<clock, sweep>> /\ rpc' = [rpc EXCEPT ![s] = NoCall]
    BY <1>7 DEF SetTenantRetentionWrite
  <2> HIDE DEF new
  <2> QED
    BY <1>6, <2>1, <2>2, <2>3, HoldKeeps
<1>8. ASSUME BillingHandleWrite(s)
      PROVE  RetentionInv' /\ \A u \in Tenants : StampsKept(tenant[u], tenant'[u])
  <2> DEFINE t == rpc[s].id
  <2>1. t \in Tenants
    BY <1>1, <1>8 DEF BillingHandleWrite
  <2>2. NULL \in Stamp /\ NULL \in FreezeReason
    BY DEF Stamp, FreezeReason
  <2>3. /\ tenant' = [tenant EXCEPT ![t] = UpdateTenantStatus(@, "suspended", NULL, NULL)]
        /\ UNCHANGED <<clock, sweep>> /\ rpc' = [rpc EXCEPT ![s] = NoCall]
    BY <1>8 DEF BillingHandleWrite
  <2>4. /\ tenant' \in [Tenants -> TenantRow]
        /\ \A u \in Tenants : RowInv(tenant[u])'
        /\ \A u \in Tenants : StampsKept(tenant[u], tenant'[u])
        /\ \A w \in Sweepers : SweepInv(sweep[w])'
        /\ \A z \in Sessions : rpc'[z] = rpc[z] => CallInv(rpc[z])'
    BY <2>1, <2>2, <2>3, SuspendKeeps
  <2> QED
    BY <1>6, <2>3, <2>4
<1> QED
  BY <1>2, <1>3, <1>4, <1>5, <1>7, <1>8 DEF SessionStep

-----------------------------------------------------------------------------
(***************************************************************************)
(* The theorems.                                                           *)
(***************************************************************************)

\* The initial tables satisfy the invariant.
LEMMA RetentionInitInv == RetentionInit => RetentionInv
<1> SUFFICES ASSUME RetentionInit PROVE RetentionInv
  OBVIOUS
<1>1. NewTenant \in TenantRow /\ RowInv(NewTenant)
  BY RetentionAssumption
  DEF NewTenant, TenantRow, Status, Stamp, FreezeReason, RowInv
<1>2. NoSweep \in SweepRun /\ NoSweep.now = 0 /\ NoSweep.pc = "idle"
  BY DEF NoSweep, SweepRun, Status
<1>3. RetentionTypeOK
  BY <1>1, <1>2, NoCallInv DEF RetentionInit, RetentionTypeOK
<1>4. \A w \in Sweepers : SweepInv(sweep[w])
  BY <1>2, SMT, SMTT(30) DEF RetentionInit, SweepInv
<1> QED
  BY <1>1, <1>3, <1>4, NoCallInv DEF RetentionInit, RetentionInv

\* Every step keeps the invariant and the stamps.
LEMMA RetentionStep ==
    ASSUME RetentionInv, [RetentionNext]_retentionVars
    PROVE  /\ RetentionInv'
           /\ \A t \in Tenants : StampsKept(tenant[t], tenant'[t])
<1>1. UNCHANGED tenant => \A t \in Tenants : StampsKept(tenant[t], tenant'[t])
  BY DEF StampsKept
<1>2. CASE Tick
  BY <1>1, <1>2, TickKeeps DEF Tick
<1>3. ASSUME NEW w \in Sweepers, SweeperStep(w)
      PROVE  RetentionInv' /\ \A t \in Tenants : StampsKept(tenant[t], tenant'[t])
  <2>1. CASE \/ SweepStart(w) \/ SweepList(w) \/ SweepAbort(w)
             \/ \E t \in Tenants : SweepRead(w, t) \/ SweepTenantFails(w, t)
    <3>1. UNCHANGED tenant
      BY <2>1 DEF SweepStart, SweepList, SweepAbort, SweepRead, SweepTenantFails
    <3> QED
      BY <1>1, <2>1, <3>1, SweeperReads
  <2>2. CASE \E t \in Tenants : SweepWrite(w, t)
    BY <2>2, SweeperWrites
  <2> QED
    BY <1>3, <2>1, <2>2 DEF SweeperStep
<1>4. CASE \E t \in Tenants : AdminCall(t)
  BY <1>4, AdminKeeps
<1>5. CASE \E s \in Sessions : SessionStep(s)
  BY <1>5, SessionKeeps
<1>6. CASE UNCHANGED retentionVars
  <2>1. UNCHANGED <<clock, tenant, sweep, rpc>>
    BY <1>6 DEF retentionVars
  <2> QED
    BY ZenonT(40), <1>1, <2>1
    DEF RetentionInv, RetentionTypeOK, RowInv, SweepInv, SweepDue, CallInv, Elapsed
<1> QED
  BY <1>2, <1>3, <1>4, <1>5, <1>6 DEF RetentionNext

\* The inductive invariant holds in every reachable state, for every number
\* of tenants, sweepers and calls and every length of the periods.
THEOREM RetentionInvariant == RetentionSpec => []RetentionInv
<1>1. RetentionInit => RetentionInv
  BY RetentionInitInv
<1>2. RetentionInv /\ [RetentionNext]_retentionVars => RetentionInv'
  BY RetentionStep
<1> QED
  BY <1>1, <1>2, PTL DEF RetentionSpec

\* Type correctness of the tables and of what the processes hold.
THEOREM RetentionTypeCorrect == RetentionSpec => []RetentionTypeOK
<1>1. RetentionInv => RetentionTypeOK
  BY DEF RetentionInv
<1> QED
  BY <1>1, RetentionInvariant, PTL

\* No interleaving of sweepers, admin calls and billing deliveries advances a
\* tenant before its retention periods are over.
THEOREM RetentionElapsedHolds == RetentionSpec => []RetentionElapsed
<1>1. RetentionInv => RetentionElapsed
  BY DEF RetentionInv, RetentionElapsed, RowInv
<1> QED
  BY <1>1, RetentionInvariant, PTL

\* The billing consumer's check of the status, made before its write, is
\* enough as long as a call is shorter than the suspension grace period.
THEOREM BillingNeverRegressesHolds == RetentionSpec => []BillingNeverRegresses
<1>1. RetentionInv => BillingNeverRegresses
  BY DEF RetentionInv, BillingNeverRegresses, CallInv
<1> QED
  BY <1>1, RetentionInvariant, PTL

\* A lifecycle stamp, once set, never changes.
THEOREM StampsAreFinalHolds == RetentionSpec => StampsAreFinal
<1>1. RetentionInv /\ [RetentionNext]_retentionVars =>
        [\A t \in Tenants :
          /\ tenant[t].suspended_at \in {NULL, tenant'[t].suspended_at}
          /\ tenant[t].deactivated_at \in {NULL, tenant'[t].deactivated_at}]_retentionVars
  BY RetentionStep DEF StampsKept
<1> QED
  BY <1>1, RetentionInvariant, PTL DEF RetentionSpec, StampsAreFinal

\* The guard of SetTenantRetention: a call that begins while an indefinite hold
\* stands does not narrow it, and no write of another call makes it dated.
LEMMA SessionNarrowsNothing ==
  ASSUME RetentionTypeOK, NEW s \in Sessions, SessionStep(s), NEW t \in Tenants,
         HasHold(tenant[t]), tenant[t].hold_until = NULL, Narrowing(t) = {}
  PROVE  tenant'[t].hold_until = NULL /\ Narrowing(t)' = {}
<1> USE DEF RetentionTypeOK
<1>1. ASSUME NEW i \in Tenants, NEW until \in HoldUntils \union {NULL}, NEW reason \in Reasons,
             NEW overwrite \in BOOLEAN, SetTenantRetentionRead(s, i, until, reason, overwrite)
      PROVE  tenant'[t].hold_until = NULL /\ Narrowing(t)' = {}
  <2>1. tenant' = tenant /\ rpc'[s].id = i /\ rpc'[s].until = until
    BY <1>1 DEF SetTenantRetentionRead
  <2>2. i = t => until = NULL
    BY <1>1 DEF SetTenantRetentionRead
  <2>3. \A u \in Sessions \ {s} : rpc'[u] = rpc[u]
    BY <1>1 DEF SetTenantRetentionRead
  <2> QED BY ZenonT(40), <2>1, <2>2, <2>3 DEF Narrowing
<1>2. CASE SetTenantRetentionWrite(s)
  <2>1. tenant'[t].hold_until = NULL
    <3>1. CASE rpc[s].id = t
      <4>1. rpc[s].until = NULL BY <1>2, <3>1 DEF Narrowing, SetTenantRetentionWrite
      <4> QED BY <1>2, <3>1, <4>1 DEF SetTenantRetentionWrite, SetTenantLegalHold, TenantRow
    <3>2. CASE rpc[s].id # t
      BY <1>2, <3>2 DEF SetTenantRetentionWrite
    <3> QED BY <3>1, <3>2
  <2>2. rpc'[s].op = "idle" /\ \A u \in Sessions \ {s} : rpc'[u] = rpc[u]
    BY <1>2 DEF SetTenantRetentionWrite, NoCall
  <2> QED BY <2>1, <2>2 DEF Narrowing
<1>3. ASSUME NEW i \in Tenants, BillingHandleRead(s, i)
      PROVE  tenant'[t].hold_until = NULL /\ Narrowing(t)' = {}
  <2>1. tenant' = tenant /\ rpc'[s].op = "billing" BY <1>3 DEF BillingHandleRead
  <2>2. \A u \in Sessions \ {s} : rpc'[u] = rpc[u] BY <1>3 DEF BillingHandleRead
  <2> QED BY <2>1, <2>2 DEF Narrowing
<1>4. CASE BillingHandleWrite(s)
  <2>1. tenant'[t].hold_until = NULL
    BY <1>4 DEF BillingHandleWrite, UpdateTenantStatus, Coalesce, TenantRow
  <2>2. rpc'[s].op = "idle" /\ \A u \in Sessions \ {s} : rpc'[u] = rpc[u]
    BY <1>4 DEF BillingHandleWrite, NoCall
  <2> QED BY <2>1, <2>2 DEF Narrowing
<1>5. CASE CallFails(s)
  <2>1. tenant' = tenant /\ rpc'[s].op = "idle" BY <1>5 DEF CallFails, NoCall
  <2>2. \A u \in Sessions \ {s} : rpc'[u] = rpc[u] BY <1>5 DEF CallFails
  <2> QED BY <2>1, <2>2 DEF Narrowing
<1> QED BY <1>1, <1>2, <1>3, <1>4, <1>5 DEF SessionStep

\* No step of the sweeper, of the clock or of the other admin calls is a step
\* of a call in flight.
LEMMA OnlySessionsMoveCalls ==
  ASSUME RetentionNext, rpc' # rpc
  PROVE  \E s \in Sessions : SessionStep(s)
<1>1. Tick => rpc' = rpc BY DEF Tick
<1>2. ASSUME NEW t \in Tenants, AdminCall(t) PROVE rpc' = rpc
  BY <1>2 DEF AdminCall, SuspendTenant, ClearTenantLegalHold
<1>3. ASSUME NEW w \in Sweepers, SweeperStep(w) PROVE rpc' = rpc
  BY <1>3 DEF SweeperStep, SweepStart, SweepList, SweepRead, SweepWrite, SweepTenantFails, SweepAbort
<1> QED BY <1>1, <1>2, <1>3 DEF RetentionNext

\* An indefinite hold that no call in flight is about to narrow stays
\* indefinite under every step of such calls, for any number of them: the guard
\* of SetTenantRetention, though evaluated on a row read earlier, protects the
\* hold against every call that begins after it.
THEOREM HoldIsNotNarrowedHolds == RetentionSpec => HoldIsNotNarrowed
<1>1. ASSUME RetentionInv, [RetentionNext]_retentionVars
      PROVE  [\A t \in Tenants :
               /\ HasHold(tenant[t]) /\ tenant[t].hold_until = NULL
               /\ Narrowing(t) = {} /\ rpc' # rpc
               => tenant'[t].hold_until = NULL /\ Narrowing(t)' = {}]_retentionVars
  <2>1. SUFFICES ASSUME RetentionNext, NEW t \in Tenants, HasHold(tenant[t]),
                        tenant[t].hold_until = NULL, Narrowing(t) = {}, rpc' # rpc
                 PROVE  tenant'[t].hold_until = NULL /\ Narrowing(t)' = {}
    BY <1>1
  <2>2. RetentionTypeOK BY <1>1 DEF RetentionInv
  <2> QED BY <2>1, <2>2, OnlySessionsMoveCalls, SessionNarrowsNothing
<1> QED
  BY <1>1, RetentionInvariant, PTL DEF RetentionSpec, HoldIsNotNarrowed

-----------------------------------------------------------------------------
(* What a sweeper may do to a row                                          *)

\* Whoever moves a tenant leaves its status alone or suspends it, unless it is
\* a sweeper that writes the transition it read the tenant for.
LEMMA StatusSteps ==
  ASSUME RetentionInv, RetentionNext, NEW t \in Tenants
  PROVE  \/ tenant'[t].status \in {tenant[t].status, "suspended"}
         \/ \E w \in Sweepers : /\ SweepWrite(w, t)
                                /\ tenant[t].status = sweep[w].from
                                /\ tenant'[t].status = sweep[w].to
<1> DEFINE Kept == tenant'[t].status \in {tenant[t].status, "suspended"}
           Swept == \E w \in Sweepers : /\ SweepWrite(w, t)
                                        /\ tenant[t].status = sweep[w].from
                                        /\ tenant'[t].status = sweep[w].to
<1>1. /\ clock \in Nat /\ tenant \in [Tenants -> TenantRow]
      /\ \A w \in Sweepers : sweep[w] \in SweepRun
      /\ \A s \in Sessions : rpc[s] \in Call
  BY DEF RetentionInv, RetentionTypeOK
<1>2. UNCHANGED tenant => Kept
  OBVIOUS
<1>3. ASSUME NEW i \in Tenants, NEW row, tenant' = [tenant EXCEPT ![i] = row],
             row.status \in {tenant[i].status, "suspended"}
      PROVE  Kept
  BY <1>1, <1>3
<1>4. CASE Tick
  BY <1>2, <1>4 DEF Tick
<1>5. ASSUME NEW i \in Tenants, AdminCall(i) PROVE Kept
  <2>1. ASSUME NEW until \in HoldUntils \union {NULL}, NEW reason \in FreezeReason,
               SuspendTenant(i, until, reason)
        PROVE  Kept
    <3>1. until \in Stamp
      BY RetentionAssumption DEF Stamp
    <3>2. UpdateTenantStatus(tenant[i], "suspended", until, reason).status = "suspended"
      BY <1>1, <3>1, SuspendRow
    <3>3. tenant' = [tenant EXCEPT ![i] = UpdateTenantStatus(tenant[i], "suspended", until, reason)]
      BY <2>1 DEF SuspendTenant
    <3> QED BY <1>3, <3>2, <3>3
  <2>2. ASSUME ClearTenantLegalHold(i) PROVE Kept
    <3>1. ClearLegalHold(tenant[i]).status = tenant[i].status
      BY <1>1, ClearRow
    <3>2. tenant' = [tenant EXCEPT ![i] = ClearLegalHold(tenant[i])]
      BY <2>2 DEF ClearTenantLegalHold
    <3> QED BY <1>3, <3>1, <3>2
  <2> QED BY <1>5, <2>1, <2>2 DEF AdminCall
<1>6. ASSUME NEW s \in Sessions, SessionStep(s) PROVE Kept
  <2>1. rpc[s].op # "idle" => /\ rpc[s].id \in Tenants /\ rpc[s].until \in Stamp
                              /\ rpc[s].reason \in FreezeReason
    BY <1>1 DEF RetentionInv, CallInv, Call
  <2>2. ASSUME SetTenantRetentionWrite(s) PROVE Kept
    <3> DEFINE i == rpc[s].id
               new == SetTenantLegalHold(tenant[i], rpc[s].until, rpc[s].reason)
    <3>1. i \in Tenants /\ new.status = tenant[i].status
      BY <1>1, <2>1, <2>2, HoldRow DEF SetTenantRetentionWrite
    <3>2. tenant' = [tenant EXCEPT ![i] = new]
      BY <2>2 DEF SetTenantRetentionWrite
    <3> QED BY <1>3, <3>1, <3>2
  <2>3. ASSUME BillingHandleWrite(s) PROVE Kept
    <3> DEFINE i == rpc[s].id
               new == UpdateTenantStatus(tenant[i], "suspended", NULL, NULL)
    <3>1. i \in Tenants /\ tenant[i] \in TenantRow /\ NULL \in Stamp /\ NULL \in FreezeReason
      BY <1>1, <2>1, <2>3 DEF BillingHandleWrite, Stamp, FreezeReason
    <3>2. new.status = "suspended"
      BY <1>1, <3>1, SuspendRow
    <3>3. tenant' = [tenant EXCEPT ![i] = new]
      BY <2>3 DEF BillingHandleWrite
    <3> QED BY <1>3, <3>1, <3>2, <3>3
  <2>4. CASE UNCHANGED tenant
    BY <1>2, <2>4
  <2> QED
    BY <1>6, <2>2, <2>3, <2>4
    DEF SessionStep, SetTenantRetentionRead, BillingHandleRead, CallFails
<1>7. ASSUME NEW w \in Sweepers, SweeperStep(w) PROVE Kept \/ Swept
  <2>1. ASSUME NEW i \in Tenants, SweepWrite(w, i) PROVE Kept \/ Swept
    <3> DEFINE new == TransitionTenantStatus(tenant[i], sweep[w].from, sweep[w].to)
    <3>1. tenant' = [tenant EXCEPT ![i] = new]
      BY <2>1 DEF SweepWrite
    <3>2. /\ sweep[w].from \in Status /\ sweep[w].to \in Status /\ sweep[w].to # "suspended"
          /\ tenant[i] \in TenantRow
      BY <1>1, <2>1 DEF SweepWrite, RetentionInv, SweepInv, SweepDue, SweepRun
    <3>3. /\ tenant[i].status # sweep[w].from => new = tenant[i]
          /\ tenant[i].status = sweep[w].from => new.status = sweep[w].to
      BY <1>1, <3>2, TransitionRow
    <3> HIDE DEF new
    <3>4. CASE tenant[i].status # sweep[w].from
      BY <1>3, <3>1, <3>3, <3>4
    <3>5. CASE tenant[i].status = sweep[w].from /\ i # t
      BY <1>1, <3>1, <3>5
    <3>6. CASE tenant[i].status = sweep[w].from /\ i = t
      <4>1. tenant'[t] = new
        BY <1>1, <3>1, <3>6
      <4> QED BY <2>1, <3>3, <3>6, <4>1
    <3> QED BY <3>4, <3>5, <3>6
  <2>2. CASE UNCHANGED tenant
    BY <1>2, <2>2
  <2> QED
    BY <1>7, <2>1, <2>2
    DEF SweeperStep, SweepStart, SweepList, SweepAbort, SweepRead, SweepTenantFails
<1> QED
  BY <1>4, <1>5, <1>6, <1>7 DEF RetentionNext

\* A tenant is only suspended or moved one rung down the ladder, by however
\* many sweepers acting on whatever they read earlier (TransitionTenantStatus).
THEOREM LadderOnlyHolds == RetentionSpec => LadderOnly
<1>1. ASSUME RetentionInv, [RetentionNext]_retentionVars
      PROVE  [\A t \in Tenants :
               LET from == tenant[t].status  to == tenant'[t].status
               IN  \/ to \in {from, "suspended"}
                   \/ <<from, to>> \in {<<"suspended", "grace">>, <<"grace", "deactivated">>,
                                        <<"deactivated", "purge_eligible">>}]_retentionVars
  <2>1. SUFFICES ASSUME RetentionNext, NEW t \in Tenants
                 PROVE  \/ tenant'[t].status \in {tenant[t].status, "suspended"}
                        \/ <<tenant[t].status, tenant'[t].status>> \in
                             {<<"suspended", "grace">>, <<"grace", "deactivated">>,
                              <<"deactivated", "purge_eligible">>}
    BY <1>1
  <2>2. ASSUME NEW w \in Sweepers, SweepWrite(w, t), tenant[t].status = sweep[w].from,
               tenant'[t].status = sweep[w].to
        PROVE  <<tenant[t].status, tenant'[t].status>> \in
                 {<<"suspended", "grace">>, <<"grace", "deactivated">>,
                  <<"deactivated", "purge_eligible">>}
    BY <1>1, <2>2 DEF RetentionInv, SweepInv, SweepDue, SweepWrite
  <2> QED BY <1>1, <2>1, <2>2, StatusSteps
<1> QED
  BY <1>1, RetentionInvariant, PTL DEF RetentionSpec, LadderOnly
\* A write in hand is of a tenant in the batch.
PendingIsListed == \A w \in Sweepers : sweep[w].pc = "write" => sweep[w].id \in sweep[w].due

\* A run only grows its batch by listing, and never with a tenant on hold, even
\* though it compares the hold with the time it started at
\* (queries.sql, ListTenantsDueForLifecycle).
LEMMA BatchSteps ==
  ASSUME RetentionInv, PendingIsListed, RetentionNext
  PROVE  /\ PendingIsListed'
         /\ \A w \in Sweepers : \A t \in sweep'[w].due :
               t \in sweep[w].due \/ ~OnHold(tenant[t], clock)
<1> DEFINE Held == \A w \in Sweepers : \A t \in sweep'[w].due :
                      t \in sweep[w].due \/ ~OnHold(tenant[t], clock)
<1>1. /\ clock \in Nat /\ tenant \in [Tenants -> TenantRow]
      /\ sweep \in [Sweepers -> SweepRun]
      /\ \A w \in Sweepers : sweep[w].now \in Nat /\ sweep[w].now <= clock
  BY DEF RetentionInv, RetentionTypeOK, SweepInv, SweepRun
<1>2. UNCHANGED sweep => PendingIsListed' /\ Held
  BY DEF PendingIsListed
<1>3. ASSUME NEW w \in Sweepers, NEW run, sweep' = [sweep EXCEPT ![w] = run],
             run.pc = "write" => run.id \in run.due,
             \A t \in run.due : t \in sweep[w].due \/ ~OnHold(tenant[t], clock)
      PROVE  PendingIsListed' /\ Held
  <2>1. \A v \in Sweepers : sweep'[v] = IF v = w THEN run ELSE sweep[v]
    BY <1>1, <1>3
  <2> QED BY <1>3, <2>1 DEF PendingIsListed
<1>4. NoSweep.pc = "idle" /\ NoSweep.due = {}
  BY DEF NoSweep
<1>5. ASSUME NEW w \in Sweepers, NEW t
      PROVE  AfterTenant(sweep[w], t).pc # "write" /\ AfterTenant(sweep[w], t).due \subseteq sweep[w].due
  <2> DEFINE rest == [sweep[w] EXCEPT !.due = @ \ {t}, !.pc = "read", !.id = NULL]
             again == [rest EXCEPT !.pc = "list"]
  <2>1. /\ rest.pc = "read" /\ rest.due \subseteq sweep[w].due
        /\ again.pc = "list" /\ again.due \subseteq sweep[w].due
    BY <1>1 DEF SweepRun
  <2>2. AfterTenant(sweep[w], t) \in {rest, again, NoSweep}
    BY DEF AfterTenant
  <2> HIDE DEF rest, again
  <2> QED BY <1>4, <2>1, <2>2
<1>6. ASSUME NEW w \in Sweepers, SweeperStep(w) PROVE PendingIsListed' /\ Held
  <2>1. ASSUME SweepStart(w) PROVE PendingIsListed' /\ Held
    <3> DEFINE run == [NoSweep EXCEPT !.pc = "list", !.now = clock]
    <3>1. run.pc = "list" /\ run.due = {} BY DEF NoSweep
    <3>2. sweep' = [sweep EXCEPT ![w] = run] BY <2>1 DEF SweepStart
    <3> HIDE DEF run
    <3> QED BY <1>3, <3>1, <3>2
  <2>2. ASSUME SweepList(w) PROVE PendingIsListed' /\ Held
    <3>1. PICK due \in DueBatches(sweep[w].now), listed \in 0 .. BatchSize :
            \/ /\ due = {}
               /\ sweep' = [sweep EXCEPT ![w] = NoSweep]
            \/ /\ due # {}
               /\ sweep' = [sweep EXCEPT ![w].pc = "read", ![w].due = due,
                                         ![w].listed = listed, ![w].batch = @ + 1]
      BY <2>2 DEF SweepList
    <3>2. CASE sweep' = [sweep EXCEPT ![w] = NoSweep]
      BY <1>3, <1>4, <3>2
    <3>3. ASSUME sweep' = [sweep EXCEPT ![w].pc = "read", ![w].due = due,
                                        ![w].listed = listed, ![w].batch = @ + 1]
          PROVE  PendingIsListed' /\ Held
      <4> DEFINE batch == sweep[w].batch + 1
                 run == [sweep[w] EXCEPT !.pc = "read", !.due = due, !.listed = listed, !.batch = batch]
      <4>1. sweep' = [sweep EXCEPT ![w] = run]
        BY <3>3
      <4> HIDE DEF batch
      <4>2. run.pc = "read" /\ run.due = due
        BY <1>1 DEF SweepRun
      <4>3. ASSUME NEW t \in due PROVE ~OnHold(tenant[t], clock)
        <5>1. t \in Tenants /\ ~OnHold(tenant[t], sweep[w].now)
          BY DEF DueBatches, DueForLifecycle
        <5>2. tenant[t].hold_until \in Nat \union {NULL}
          BY <1>1, <5>1 DEF TenantRow, Stamp
        <5> QED BY <1>1, <5>1, <5>2, SMT, SMTT(30) DEF OnHold
      <4> HIDE DEF run
      <4> QED BY <1>3, <4>1, <4>2, <4>3
    <3> QED BY <3>1, <3>2, <3>3
  <2>3. ASSUME SweepAbort(w) PROVE PendingIsListed' /\ Held
    BY <1>3, <1>4, <2>3 DEF SweepAbort
  <2>4. ASSUME NEW t \in Tenants, SweepRead(w, t) PROVE PendingIsListed' /\ Held
    <3> DEFINE next == nextLifecycleStatus(tenant[t], sweep[w].now)
               read == [sweep[w] EXCEPT !.pc = "write", !.id = t,
                                        !.from = tenant[t].status, !.to = next]
               run == IF next = NULL THEN AfterTenant(sweep[w], t) ELSE read
    <3>1. sweep' = [sweep EXCEPT ![w] = run] /\ t \in sweep[w].due
      BY <2>4 DEF SweepRead
    <3> HIDE DEF next
    <3>2. read.id = t /\ read.due = sweep[w].due
      BY <1>1 DEF SweepRun
    <3> HIDE DEF read
    <3>3. /\ run.pc = "write" => run.id \in run.due
          /\ run.due \subseteq sweep[w].due
      BY <1>5, <3>1, <3>2
    <3> HIDE DEF run
    <3> QED BY <1>3, <3>1, <3>3
  <2>5. ASSUME NEW t \in Tenants, SweepWrite(w, t) \/ SweepTenantFails(w, t)
        PROVE  PendingIsListed' /\ Held
    <3>1. sweep' = [sweep EXCEPT ![w] = AfterTenant(sweep[w], t)]
      BY <2>5 DEF SweepWrite, SweepTenantFails
    <3> QED BY <1>3, <1>5, <3>1
  <2> QED BY <1>6, <2>1, <2>2, <2>3, <2>4, <2>5 DEF SweeperStep
<1>7. CASE UNCHANGED sweep
  BY <1>2, <1>7
<1> QED
  BY <1>6, <1>7
  DEF RetentionNext, Tick, AdminCall, SuspendTenant, ClearTenantLegalHold, SessionStep,
      SetTenantRetentionRead, SetTenantRetentionWrite, BillingHandleRead, BillingHandleWrite,
      CallFails

\* A hold works from the next batch on: no run that lists while it is in force
\* takes the tenant into its batch, and no run moves the tenant meanwhile, for
\* any number of runs however long ago they started.
THEOREM HoldPinsTenantHolds == RetentionSpec => HoldPinsTenant
<1>1. RetentionInit => PendingIsListed
  BY SMT, SMTT(30) DEF RetentionInit, PendingIsListed, NoSweep
<1>2. RetentionInv /\ PendingIsListed /\ [RetentionNext]_retentionVars => PendingIsListed'
  BY BatchSteps DEF PendingIsListed, retentionVars
<1>3. ASSUME RetentionInv, PendingIsListed, [RetentionNext]_retentionVars
      PROVE  [\A t \in Tenants : PinnedByHold(t) =>
               /\ \A w \in Sweepers : t \notin sweep'[w].due
               /\ tenant'[t].status \in {tenant[t].status, "suspended"}]_retentionVars
  <2>1. SUFFICES ASSUME RetentionNext, NEW t \in Tenants, PinnedByHold(t)
                 PROVE  /\ \A w \in Sweepers : t \notin sweep'[w].due
                        /\ tenant'[t].status \in {tenant[t].status, "suspended"}
    BY <1>3
  <2>2. \A w \in Sweepers : t \notin sweep'[w].due
    BY <1>3, <2>1, BatchSteps DEF PinnedByHold
  <2>3. ASSUME NEW w \in Sweepers, SweepWrite(w, t) PROVE FALSE
    BY <1>3, <2>1, <2>3 DEF PinnedByHold, PendingIsListed, SweepWrite
  <2> QED BY <1>3, <2>1, <2>2, <2>3, StatusSteps
<1> QED
  BY <1>1, <1>2, <1>3, RetentionInvariant, PTL DEF RetentionSpec, HoldPinsTenant

-----------------------------------------------------------------------------
(* The purge                                                               *)

\* The tables and processes of the purge, apart from the retention lifecycle.
RequestTypeOK ==
    /\ reqs \in [Requests -> Request]
    /\ schema \in [Tenants -> BOOLEAN]
    /\ desk \in [Desks -> DeskCall]
    /\ worker \in [Workers -> WorkerRun]
    /\ audited \subseteq Requests

\* A request names its tenant and who asked for it.
RequestIsNamed ==
    \A r \in Requests : reqs[r].status # "none" =>
        reqs[r].tenant_id \in Tenants /\ reqs[r].requested_by \in Admins

\* What a call holds between its read and its write: an approver is not the
\* requester, who never changes once the request is there.
DeskHolds ==
    \A d \in Desks :
        /\ desk[d].op = "request" => desk[d].id \in Tenants /\ desk[d].actor \in Admins
        /\ desk[d].op \in {"approve", "approving"} =>
              /\ desk[d].req \in Requests /\ desk[d].actor \in Admins
              /\ reqs[desk[d].req].status # "none"
              /\ desk[d].actor # reqs[desk[d].req].requested_by
        /\ desk[d].op = "cancel" => desk[d].req \in Requests

\* A worker that met an error knows for which request.
WorkerHolds == \A w \in Workers : worker[w].pc = "failed" => worker[w].req \in Requests

\* The inductive invariant of the requests.
RequestInv ==
    /\ RequestTypeOK /\ RequestIsNamed /\ DeskHolds /\ WorkerHolds
    /\ TwoPersonControl /\ OneOpenRequest /\ DroppedIffExecuted /\ AuditedIsExecuted

-----------------------------------------------------------------------------
(***************************************************************************)
(* The rows that the UPDATEs write.                                        *)
(***************************************************************************)

\* An UPDATE of the status alone.
LEMMA StatusRow ==
    ASSUME NEW row \in Request, NEW s \in {"executed", "failed", "cancelled"}
    PROVE  LET new == [row EXCEPT !.status = s]
           IN  /\ new \in Request /\ new.status = s /\ new.tenant_id = row.tenant_id
               /\ new.requested_by = row.requested_by /\ new.approved_by = row.approved_by
BY DEF Request

\* The UPDATE of ApproveTenantPurgeRequest.
LEMMA ApprovedRow ==
    ASSUME NEW row \in Request, NEW a \in Admins, clock \in Nat
    PROVE  LET new == [row EXCEPT !.status = "approved", !.approved_by = a, !.approved_at = clock]
           IN  /\ new \in Request /\ new.status = "approved" /\ new.tenant_id = row.tenant_id
               /\ new.requested_by = row.requested_by /\ new.approved_by = a
BY DEF Request, Stamp

-----------------------------------------------------------------------------
(***************************************************************************)
(* The steps.                                                              *)
(***************************************************************************)

\* A step that writes no table keeps the invariant if what the processes hold
\* afterwards satisfies it.
LEMMA TablesUntouched ==
    ASSUME RequestInv, UNCHANGED <<reqs, schema, audited>>,
           desk' \in [Desks -> DeskCall], worker' \in [Workers -> WorkerRun], DeskHolds', WorkerHolds'
    PROVE  RequestInv'
BY SMT, SMTT(30) DEF RequestInv, RequestTypeOK, RequestIsNamed, TwoPersonControl, OneOpenRequest, IsOpen,
       DroppedIffExecuted, AuditedIsExecuted

\* The reads of the three calls, the second read of an approval, and failures.
LEMMA DeskReads ==
    ASSUME RequestInv, NEW d \in Desks,
           \/ \E t \in Tenants, actor \in Admins :
                 RequestTenantPurgeRead(d, t, actor) \/ ApproveTenantPurgeRead(d, t, actor)
           \/ \E t \in Tenants : CancelTenantPurgeRead(d, t)
           \/ ApproveTenantPurgeCheck(d) \/ DeskFails(d)
    PROVE  RequestInv'
<1>1. /\ UNCHANGED <<reqs, schema, worker, audited>>
      /\ worker \in [Workers -> WorkerRun] /\ WorkerHolds'
      BY DEF RequestTenantPurgeRead, ApproveTenantPurgeRead, CancelTenantPurgeRead, ApproveTenantPurgeCheck,
             DeskFails, RequestInv, RequestTypeOK, WorkerHolds
<1>2. ASSUME NEW call \in DeskCall, desk' = [desk EXCEPT ![d] = call],
             call.op = "request" => call.id \in Tenants /\ call.actor \in Admins,
             call.op \in {"approve", "approving"} =>
                 /\ call.req \in Requests /\ call.actor \in Admins
                 /\ reqs[call.req].status # "none" /\ call.actor # reqs[call.req].requested_by,
             call.op = "cancel" => call.req \in Requests
      PROVE  RequestInv'
      <2>1. desk' \in [Desks -> DeskCall] /\ DeskHolds'
            BY <1>1, <1>2 DEF RequestInv, RequestTypeOK, DeskHolds
      <2> QED BY <1>1, <2>1, TablesUntouched
<1>3. ASSUME NEW t \in Tenants, NEW actor \in Admins, RequestTenantPurgeRead(d, t, actor)
      PROVE  RequestInv'
      <2> DEFINE call == [op |-> "request", id |-> t, req |-> NULL, actor |-> actor]
      <2>1. call \in DeskCall /\ desk' = [desk EXCEPT ![d] = call]
            BY <1>3 DEF RequestTenantPurgeRead, DeskCall
      <2> QED BY <1>2, <2>1
<1>4. ASSUME NEW t \in Tenants, NEW actor \in Admins, ApproveTenantPurgeRead(d, t, actor)
      PROVE  RequestInv'
      <2>1. PICK r \in Requests :
               /\ IsOpen(r, t) /\ reqs[r].status = "pending" /\ actor # reqs[r].requested_by
               /\ desk' = [desk EXCEPT ![d] = [op |-> "approve", id |-> t, req |-> r, actor |-> actor]]
            BY <1>4 DEF ApproveTenantPurgeRead
      <2> DEFINE call == [op |-> "approve", id |-> t, req |-> r, actor |-> actor]
      <2>2. call \in DeskCall
            BY DEF DeskCall
      <2> QED BY <1>2, <2>1, <2>2
<1>5. ASSUME NEW t \in Tenants, CancelTenantPurgeRead(d, t)
      PROVE  RequestInv'
      <2>1. PICK r \in Requests :
               desk' = [desk EXCEPT ![d] = [op |-> "cancel", id |-> t, req |-> r, actor |-> NULL]]
            BY <1>5 DEF CancelTenantPurgeRead
      <2> DEFINE call == [op |-> "cancel", id |-> t, req |-> r, actor |-> NULL]
      <2>2. call \in DeskCall
            BY DEF DeskCall
      <2> QED BY <1>2, <2>1, <2>2
<1>6. NoDesk \in DeskCall /\ NoDesk.op = "idle"
      BY DEF NoDesk, DeskCall
<1>7. ASSUME ApproveTenantPurgeCheck(d) PROVE RequestInv'
      <2> DEFINE call == [desk[d] EXCEPT !.op = "approving"]
      <2>1. /\ desk[d].op = "approve" /\ desk[d] \in DeskCall
            /\ desk' = [desk EXCEPT ![d] = call] \/ desk' = [desk EXCEPT ![d] = NoDesk]
            BY <1>7 DEF ApproveTenantPurgeCheck, RequestInv, RequestTypeOK
      <2>2. call \in DeskCall /\ call.op = "approving" /\ call.req = desk[d].req /\ call.actor = desk[d].actor
            BY <2>1 DEF DeskCall
      <2>3. /\ call.req \in Requests /\ call.actor \in Admins
            /\ reqs[call.req].status # "none" /\ call.actor # reqs[call.req].requested_by
            BY <2>1, <2>2 DEF RequestInv, DeskHolds
      <2> HIDE DEF call
      <2> QED BY <1>2, <1>6, <2>1, <2>2, <2>3
<1>8. ASSUME DeskFails(d) PROVE RequestInv'
      BY <1>2, <1>6, <1>8 DEF DeskFails
<1> QED BY <1>3, <1>4, <1>5, <1>7, <1>8

\* An UPDATE that moves a request on keeps the requests in order if it leaves tenant
\* and requester alone, opens nothing, and executes and audits nothing.
LEMMA RowMoved ==
    ASSUME RequestInv, NEW r \in Requests, NEW new \in Request, reqs' = [reqs EXCEPT ![r] = new],
           new.tenant_id = reqs[r].tenant_id, new.requested_by = reqs[r].requested_by,
           reqs[r].status \in {"pending", "approved"},
           new.status \in {"approved", "failed", "cancelled"},
           new.status \in {"approved", "failed"} =>
               new.approved_by \in Admins /\ new.approved_by # new.requested_by,
           UNCHANGED <<schema, audited>>
    PROVE  /\ reqs' \in [Requests -> Request] /\ RequestIsNamed' /\ TwoPersonControl'
           /\ OneOpenRequest' /\ DroppedIffExecuted' /\ AuditedIsExecuted'
           /\ \A q \in Requests : /\ reqs[q].status # "none" => reqs'[q].status # "none"
                                  /\ reqs'[q].requested_by = reqs[q].requested_by
<1>1. /\ reqs \in [Requests -> Request] /\ reqs' \in [Requests -> Request] /\ reqs'[r] = new
      /\ \A q \in Requests : q # r => reqs'[q] = reqs[q]
      BY DEF RequestInv, RequestTypeOK
<1>2. RequestIsNamed' /\ TwoPersonControl'
      BY <1>1 DEF RequestInv, RequestIsNamed, TwoPersonControl
<1>3. OneOpenRequest'
      BY <1>1, SMT, SMTT(30) DEF RequestInv, OneOpenRequest, IsOpen
<1>4. \A q \in Requests : /\ reqs'[q].status = "executed" <=> reqs[q].status = "executed"
                          /\ reqs'[q].tenant_id = reqs[q].tenant_id
      BY <1>1
<1>5. DroppedIffExecuted' /\ AuditedIsExecuted'
      BY <1>1, <1>4, SMT, SMTT(30) DEF RequestInv, RequestTypeOK, DroppedIffExecuted, AuditedIsExecuted
<1> QED BY <1>1, <1>2, <1>3, <1>5

\* A call that has written is over; the others hold what they held.
LEMMA DeskDone ==
    ASSUME RequestInv, NEW d \in Desks, desk' = [desk EXCEPT ![d] = NoDesk], worker' = worker,
           \A q \in Requests : /\ reqs[q].status # "none" => reqs'[q].status # "none"
                               /\ reqs[q].status # "none" => reqs'[q].requested_by = reqs[q].requested_by
    PROVE  desk' \in [Desks -> DeskCall] /\ DeskHolds' /\ worker' \in [Workers -> WorkerRun] /\ WorkerHolds'
<1>1. NoDesk \in DeskCall /\ NoDesk.op = "idle"
      BY DEF NoDesk, DeskCall
<1> QED BY <1>1 DEF RequestInv, RequestTypeOK, DeskHolds, WorkerHolds

\* CreateTenantPurgeRequest keeps the invariant: the index leaves room for it only
\* if no request of the tenant is open.
LEMMA CreateKeeps ==
    ASSUME RequestInv, NEW d \in Desks, CreateTenantPurgeRequest(d)
    PROVE  RequestInv'
<1> DEFINE t == desk[d].id
           new == [NoRequest EXCEPT !.status = "pending", !.tenant_id = t, !.requested_by = desk[d].actor]
<1>1. t \in Tenants /\ desk[d].actor \in Admins
      BY DEF CreateTenantPurgeRequest, RequestInv, DeskHolds
<1>2. PICK r \in Requests : reqs[r].status = "none" /\ reqs' = [reqs EXCEPT ![r] = new]
      BY DEF CreateTenantPurgeRequest
<1>3. /\ ~\E q \in Requests : IsOpen(q, t)
      /\ desk' = [desk EXCEPT ![d] = NoDesk] /\ UNCHANGED <<schema, worker, audited>>
      BY DEF CreateTenantPurgeRequest
<1>4. new \in Request /\ new.status = "pending" /\ new.tenant_id = t /\ new.requested_by = desk[d].actor
      BY <1>1 DEF NoRequest, Request, Stamp
<1> HIDE DEF new, t
<1>5. /\ reqs' \in [Requests -> Request] /\ reqs'[r] = new
      /\ \A q \in Requests : q # r => reqs'[q] = reqs[q]
      BY <1>2, <1>4 DEF RequestInv, RequestTypeOK
<1>6. desk' \in [Desks -> DeskCall] /\ DeskHolds' /\ worker' \in [Workers -> WorkerRun] /\ WorkerHolds'
      <2>1. \A q \in Requests : /\ reqs[q].status # "none" => reqs'[q].status # "none"
                                /\ reqs[q].status # "none" => reqs'[q].requested_by = reqs[q].requested_by
            BY <1>2, <1>4, <1>5
      <2> QED BY <1>3, <2>1, DeskDone
<1>7. RequestIsNamed' /\ TwoPersonControl'
      BY <1>1, <1>4, <1>5 DEF RequestInv, RequestIsNamed, TwoPersonControl
<1>8. OneOpenRequest'
      BY <1>3, <1>4, <1>5, SMT, SMTT(30) DEF RequestInv, OneOpenRequest, IsOpen
<1>9. \A q \in Requests : /\ reqs'[q].status = "executed" <=> reqs[q].status = "executed"
                          /\ reqs[q].status = "executed" => reqs'[q].tenant_id = reqs[q].tenant_id
      BY <1>2, <1>4, <1>5
<1>10. DroppedIffExecuted' /\ AuditedIsExecuted'
      BY <1>3, <1>9, SMT, SMTT(30) DEF RequestInv, RequestTypeOK, DroppedIffExecuted, AuditedIsExecuted
<1> QED BY <1>3, <1>5, <1>6, <1>7, <1>8, <1>10 DEF RequestInv, RequestTypeOK

\* ApproveTenantPurgeRequest and CancelTenantPurgeRequest keep the invariant: their
\* guards on the status let them move only an open request.
LEMMA DeskWrites ==
    ASSUME RequestInv, clock \in Nat, NEW d \in Desks,
           ApproveTenantPurgeRequest(d) \/ CancelTenantPurgeRequest(d)
    PROVE  RequestInv'
<1> DEFINE r == desk[d].req
<1>1. /\ r \in Requests /\ reqs[r] \in Request /\ reqs \in [Requests -> Request]
      /\ desk' = [desk EXCEPT ![d] = NoDesk] /\ UNCHANGED <<schema, worker, audited>>
      BY DEF ApproveTenantPurgeRequest, CancelTenantPurgeRequest, RequestInv, RequestTypeOK, DeskHolds
<1>2. CASE reqs' = reqs
      BY <1>1, <1>2, DeskDone, TablesUntouched
<1>3. ASSUME NEW new \in Request, reqs' = [reqs EXCEPT ![r] = new],
             new.tenant_id = reqs[r].tenant_id, new.requested_by = reqs[r].requested_by,
             reqs[r].status \in {"pending", "approved"}, new.status \in {"approved", "cancelled"},
             new.status = "approved" => new.approved_by \in Admins /\ new.approved_by # new.requested_by
      PROVE  RequestInv'
      <2>1. /\ reqs' \in [Requests -> Request] /\ RequestIsNamed' /\ TwoPersonControl'
            /\ OneOpenRequest' /\ DroppedIffExecuted' /\ AuditedIsExecuted'
            /\ \A q \in Requests : /\ reqs[q].status # "none" => reqs'[q].status # "none"
                                   /\ reqs'[q].requested_by = reqs[q].requested_by
            BY <1>1, <1>3, RowMoved
      <2>2. desk' \in [Desks -> DeskCall] /\ DeskHolds' /\ worker' \in [Workers -> WorkerRun] /\ WorkerHolds'
            BY <1>1, <2>1, DeskDone
      <2> QED BY <1>1, <2>1, <2>2 DEF RequestInv, RequestTypeOK
<1>4. CASE ApproveTenantPurgeRequest(d)
      <2> DEFINE new == [reqs[r] EXCEPT !.status = "approved", !.approved_by = desk[d].actor,
                                        !.approved_at = clock]
      <2>1. desk[d].actor \in Admins /\ desk[d].actor # reqs[r].requested_by
            BY <1>4 DEF ApproveTenantPurgeRequest, RequestInv, DeskHolds
      <2>2. /\ new \in Request /\ new.status = "approved" /\ new.tenant_id = reqs[r].tenant_id
            /\ new.requested_by = reqs[r].requested_by /\ new.approved_by = desk[d].actor
            BY <1>1, <2>1, ApprovedRow
      <2>3. reqs' = [reqs EXCEPT ![r] = IF reqs[r].status = "pending" THEN new ELSE reqs[r]]
            BY <1>4 DEF ApproveTenantPurgeRequest
      <2> HIDE DEF new
      <2>4. CASE reqs[r].status = "pending"
            BY <1>3, <2>1, <2>2, <2>3, <2>4
      <2>5. CASE reqs[r].status # "pending"
            BY <1>1, <1>2, <2>3, <2>5
      <2> QED BY <2>4, <2>5
<1>5. CASE CancelTenantPurgeRequest(d)
      <2> DEFINE new == [reqs[r] EXCEPT !.status = "cancelled"]
      <2>1. /\ new \in Request /\ new.status = "cancelled" /\ new.tenant_id = reqs[r].tenant_id
            /\ new.requested_by = reqs[r].requested_by
            BY <1>1, StatusRow
      <2>2. reqs' = [reqs EXCEPT ![r] = IF reqs[r].status \in {"pending", "approved"} THEN new ELSE reqs[r]]
            BY <1>5 DEF CancelTenantPurgeRequest
      <2> HIDE DEF new
      <2>3. CASE reqs[r].status \in {"pending", "approved"}
            BY <1>3, <2>1, <2>2, <2>3
      <2>4. CASE reqs[r].status \notin {"pending", "approved"}
            BY <1>1, <1>2, <2>2, <2>4
      <2> QED BY <2>3, <2>4
<1> QED BY <1>4, <1>5

-----------------------------------------------------------------------------
(***************************************************************************)
(* The worker.                                                             *)
(***************************************************************************)

\* What is left of a run after a request.
LEMMA AfterRequestType ==
    ASSUME NEW run \in WorkerRun, NEW r
    PROVE  AfterRequest(run, r) \in WorkerRun /\ AfterRequest(run, r).pc # "failed"
BY DEF AfterRequest, WorkerRun, NoWorker

\* Listing, a transaction rolled back, a mark that fails and a crash write no table.
LEMMA WorkerReads ==
    ASSUME RequestInv, NEW w \in Workers,
           \/ WorkerList(w) \/ MarkFails(w) \/ WorkerCrash(w)
           \/ \E r \in Requests : PurgeRolledBack(w, r)
    PROVE  RequestInv'
<1>1. UNCHANGED <<reqs, schema, desk, audited>>
      BY DEF WorkerList, MarkFails, WorkerCrash, PurgeRolledBack
<1>2. worker[w] \in WorkerRun
      BY DEF RequestInv, RequestTypeOK
<1>3. ASSUME NEW run \in WorkerRun, worker' = [worker EXCEPT ![w] = run],
             run.pc = "failed" => run.req \in Requests
      PROVE  RequestInv'
      <2>1. worker' \in [Workers -> WorkerRun] /\ WorkerHolds'
            BY <1>3 DEF RequestInv, RequestTypeOK, WorkerHolds
      <2>2. desk' \in [Desks -> DeskCall] /\ DeskHolds'
            BY <1>1 DEF RequestInv, RequestTypeOK, DeskHolds
      <2> QED BY <1>1, <2>1, <2>2, TablesUntouched
<1>4. ASSUME WorkerList(w) PROVE RequestInv'
      <2>1. PICK batch \in ApprovedBatches :
               worker' = [worker EXCEPT ![w] = [pc |-> "run", todo |-> batch, req |-> NULL]]
            BY <1>4 DEF WorkerList
      <2> DEFINE run == [pc |-> "run", todo |-> batch, req |-> NULL]
      <2>2. batch \subseteq Requests
            BY <2>1 DEF ApprovedBatches
      <2>3. run \in WorkerRun
            BY <2>2 DEF WorkerRun
      <2> QED BY <1>3, <2>1, <2>3
<1>5. ASSUME MarkFails(w) PROVE RequestInv'
      <2>1. worker' = [worker EXCEPT ![w] = AfterRequest(worker[w], worker[w].req)]
            BY <1>5 DEF MarkFails
      <2> QED BY <1>2, <1>3, <2>1, AfterRequestType
<1>6. ASSUME WorkerCrash(w) PROVE RequestInv'
      <2>1. NoWorker \in WorkerRun /\ NoWorker.pc = "idle"
            BY DEF NoWorker, WorkerRun
      <2> QED BY <1>3, <1>6, <2>1 DEF WorkerCrash
<1>7. ASSUME NEW r \in Requests, PurgeRolledBack(w, r) PROVE RequestInv'
      <2> DEFINE run == [worker[w] EXCEPT !.pc = "failed", !.req = r]
      <2>1. run \in WorkerRun /\ run.req = r
            BY <1>2 DEF WorkerRun
      <2>2. worker' = [worker EXCEPT ![w] = run]
            BY <1>7 DEF PurgeRolledBack
      <2> HIDE DEF run
      <2> QED BY <1>3, <2>1, <2>2
<1> QED BY <1>4, <1>5, <1>6, <1>7

\* MarkTenantPurgeRequestFailed keeps the invariant: it fails only an approved request,
\* so never one whose transaction has committed.
LEMMA MarkKeeps ==
    ASSUME RequestInv, NEW w \in Workers, MarkTenantPurgeRequestFailed(w)
    PROVE  RequestInv'
<1> DEFINE r == worker[w].req
           new == [reqs[r] EXCEPT !.status = "failed"]
<1>1. /\ r \in Requests /\ reqs[r] \in Request /\ worker[w] \in WorkerRun
      /\ reqs' = [reqs EXCEPT ![r] = IF reqs[r].status = "approved" THEN new ELSE reqs[r]]
      /\ worker' = [worker EXCEPT ![w] = AfterRequest(worker[w], r)]
      /\ UNCHANGED <<schema, desk, audited>>
      BY DEF MarkTenantPurgeRequestFailed, RequestInv, RequestTypeOK, WorkerHolds
<1>2. /\ new \in Request /\ new.status = "failed" /\ new.tenant_id = reqs[r].tenant_id
      /\ new.requested_by = reqs[r].requested_by /\ new.approved_by = reqs[r].approved_by
      BY <1>1, StatusRow
<1> HIDE DEF new
<1>3. worker' \in [Workers -> WorkerRun] /\ WorkerHolds'
      <2>1. AfterRequest(worker[w], r) \in WorkerRun /\ AfterRequest(worker[w], r).pc # "failed"
            BY <1>1, AfterRequestType
      <2> QED BY <1>1, <2>1 DEF RequestInv, RequestTypeOK, WorkerHolds
<1>4. CASE reqs[r].status = "approved"
      <2>1. new.approved_by \in Admins /\ new.approved_by # new.requested_by
            BY <1>1, <1>2, <1>4 DEF RequestInv, TwoPersonControl
      <2>2. /\ reqs' \in [Requests -> Request] /\ RequestIsNamed' /\ TwoPersonControl'
            /\ OneOpenRequest' /\ DroppedIffExecuted' /\ AuditedIsExecuted'
            /\ \A q \in Requests : /\ reqs[q].status # "none" => reqs'[q].status # "none"
                                   /\ reqs'[q].requested_by = reqs[q].requested_by
            BY <1>1, <1>2, <1>4, <2>1, RowMoved
      <2>3. DeskHolds'
            BY ZenonT(40), <1>1, <2>2 DEF RequestInv, DeskHolds
      <2> QED BY <1>1, <1>3, <2>2, <2>3 DEF RequestInv, RequestTypeOK
<1>5. CASE reqs[r].status # "approved"
      <2>1. reqs' = reqs
            BY <1>1, <1>5 DEF RequestInv, RequestTypeOK
      <2>2. desk' \in [Desks -> DeskCall] /\ DeskHolds'
            BY <1>1, <2>1 DEF RequestInv, RequestTypeOK, DeskHolds
      <2> QED BY <1>1, <1>3, <2>1, <2>2, TablesUntouched
<1> QED BY <1>4, <1>5

\* The transaction of PurgeTenantSchemaAndTombstone keeps the invariant of the requests:
\* an approved request becomes executed as its tenant's schema goes.
LEMMA PurgeKeepsRequests ==
    ASSUME RequestInv, NEW w \in Workers, NEW r \in Requests, NEW seen \in {"ok", "error"},
           PurgeApprovedTenant(w, r, seen)
    PROVE  RequestInv'
<1> DEFINE t == reqs[r].tenant_id
           new == [reqs[r] EXCEPT !.status = "executed"]
           failed == [worker[w] EXCEPT !.pc = "failed", !.req = r]
<1>1. /\ reqs[r].status = "approved" /\ reqs[r] \in Request /\ worker[w] \in WorkerRun
      /\ reqs' = [reqs EXCEPT ![r] = new] /\ schema' = [schema EXCEPT ![t] = FALSE]
      /\ desk' = desk
      /\ \/ worker' = [worker EXCEPT ![w] = AfterRequest(worker[w], r)] /\ audited' = audited \union {r}
         \/ worker' = [worker EXCEPT ![w] = failed] /\ audited' = audited
      BY DEF PurgeApprovedTenant, PurgeTransaction, RequestInv, RequestTypeOK
<1>2. /\ new \in Request /\ new.status = "executed" /\ new.tenant_id = t
      /\ new.requested_by = reqs[r].requested_by /\ new.approved_by = reqs[r].approved_by
      BY <1>1, StatusRow
<1>3. t \in Tenants
      BY <1>1 DEF RequestInv, RequestIsNamed
<1>4. failed \in WorkerRun /\ failed.req = r
      BY <1>1 DEF WorkerRun
<1>5. AfterRequest(worker[w], r) \in WorkerRun /\ AfterRequest(worker[w], r).pc # "failed"
      BY <1>1, AfterRequestType
<1> HIDE DEF new, t, failed
<1>6. worker' \in [Workers -> WorkerRun] /\ WorkerHolds' /\ audited' \subseteq Requests
      BY <1>1, <1>4, <1>5 DEF RequestInv, RequestTypeOK, WorkerHolds
<1>7. /\ reqs' \in [Requests -> Request] /\ reqs'[r] = new
      /\ \A q \in Requests : q # r => reqs'[q] = reqs[q]
      /\ schema' \in [Tenants -> BOOLEAN] /\ ~schema'[t]
      /\ \A u \in Tenants : u # t => schema'[u] = schema[u]
      BY <1>1, <1>2, <1>3 DEF RequestInv, RequestTypeOK
<1>8. RequestIsNamed' /\ TwoPersonControl'
      BY <1>1, <1>2, <1>3, <1>7 DEF RequestInv, RequestIsNamed, TwoPersonControl
<1>9. OneOpenRequest' /\ AuditedIsExecuted'
      BY <1>1, <1>2, <1>7, SMT, SMTT(30) DEF RequestInv, OneOpenRequest, IsOpen, AuditedIsExecuted
<1>10. DroppedIffExecuted'
      <2>1. ASSUME NEW u \in Tenants, u # t
            PROVE  ~schema'[u] <=> \E q \in Requests : reqs'[q].tenant_id = u /\ reqs'[q].status = "executed"
            <3>1. \A q \in Requests : (reqs'[q].tenant_id = u /\ reqs'[q].status = "executed")
                                      <=> (reqs[q].tenant_id = u /\ reqs[q].status = "executed")
                  BY <1>1, <1>2, <1>7, <2>1 DEF t
            <3> QED BY <1>7, <2>1, <3>1, SMT, SMTT(30) DEF RequestInv, DroppedIffExecuted
      <2> QED BY <1>2, <1>7, <2>1 DEF DroppedIffExecuted
<1>11. DeskHolds'
      BY ZenonT(40), <1>1, <1>2, <1>7 DEF RequestInv, DeskHolds
<1> QED BY <1>1, <1>6, <1>7, <1>8, <1>9, <1>10, <1>11 DEF RequestInv, RequestTypeOK

-----------------------------------------------------------------------------
(***************************************************************************)
(* Requests and retention together.                                        *)
(***************************************************************************)

\* Leaving a tombstone keeps the invariant of the lifecycle: the row stays as stamped,
\* and no billing delivery is about a tenant that had come so far.
LEMMA PurgeKeepsRetention ==
    ASSUME RetentionInv, RequestInv, NEW w \in Workers, NEW r \in Requests, NEW seen \in {"ok", "error"},
           PurgeApprovedTenant(w, r, seen)
    PROVE  /\ RetentionInv' /\ clock' = clock
           /\ \A u \in Tenants : StampsKept(tenant[u], tenant'[u])
<1> DEFINE t == reqs[r].tenant_id
           new == [tenant[t] EXCEPT !.status = "purged"]
<1>1. /\ reqs[r].status = "approved" /\ tenant[t].status = "purge_eligible"
      /\ tenant' = [tenant EXCEPT ![t] = new] /\ UNCHANGED <<clock, sweep, rpc>>
      BY DEF PurgeApprovedTenant, PurgeTransaction
<1>2. t \in Tenants
      BY <1>1 DEF RequestInv, RequestIsNamed
<1>3. tenant[t] \in TenantRow /\ RowInv(tenant[t]) /\ clock \in Nat
      BY <1>2 DEF RetentionInv, RetentionTypeOK
<1>4. /\ new \in TenantRow /\ new.status = "purged"
      /\ new.suspended_at = tenant[t].suspended_at /\ new.deactivated_at = tenant[t].deactivated_at
      BY <1>3 DEF TenantRow, Status
<1>5. RowInv(new)
      BY <1>1, <1>3, <1>4 DEF RowInv
<1> HIDE DEF new, t
<1>6. /\ tenant' \in [Tenants -> TenantRow]
      /\ \A u \in Tenants : RowInv(tenant[u])'
      /\ tenant'[t] = new
      /\ \A u \in Tenants : u # t => tenant'[u] = tenant[u]
      BY <1>1, <1>2, <1>4, <1>5, RowWritten
<1>7. \A u \in Tenants : StampsKept(tenant[u], tenant'[u])
      BY <1>4, <1>6 DEF StampsKept
<1>8. \A v \in Sweepers : SweepInv(sweep[v])'
      BY <1>1, <1>3, <1>7, SweepKept, SMT, SMTT(30)
<1>9. \A s \in Sessions : CallInv(rpc[s])'
      <2> SUFFICES ASSUME NEW s \in Sessions PROVE CallInv(rpc[s])'
          OBVIOUS
      <2>1. ASSUME rpc[s].op = "billing"
            PROVE  SuspensionKept(tenant[rpc[s].id], tenant'[rpc[s].id])
            <3>1. rpc[s].id \in Tenants /\ tenant[rpc[s].id].status \in {"active", "suspended"}
                  BY <2>1 DEF RetentionInv, CallInv
            <3>2. rpc[s].id # t
                  BY <1>1, <3>1
            <3> QED BY <1>6, <3>1, <3>2 DEF SuspensionKept
      <2> QED BY <1>1, <2>1, CallKept
<1>10. RetentionTypeOK'
      BY <1>1, <1>6 DEF RetentionInv, RetentionTypeOK
<1> QED BY <1>1, <1>6, <1>7, <1>8, <1>9, <1>10 DEF RetentionInv

\* The clock never goes back.
LEMMA ClockRises ==
    ASSUME RetentionInv, [RetentionNext]_retentionVars
    PROVE  clock' \in Nat /\ clock <= clock'
<1>1. clock \in Nat
      BY DEF RetentionInv, RetentionTypeOK
<1>2. CASE Tick
      BY <1>1, <1>2, SMT, SMTT(30) DEF Tick
<1>3. ASSUME NEW t \in Tenants, AdminCall(t) PROVE clock' = clock
      BY <1>3 DEF AdminCall, SuspendTenant, ClearTenantLegalHold
<1>4. ASSUME NEW w \in Sweepers, SweeperStep(w) PROVE clock' = clock
      BY <1>4 DEF SweeperStep, SweepStart, SweepList, SweepRead, SweepWrite, SweepTenantFails, SweepAbort
<1>5. ASSUME NEW s \in Sessions, SessionStep(s) PROVE clock' = clock
      BY <1>5 DEF SessionStep, SetTenantRetentionRead, SetTenantRetentionWrite, BillingHandleRead,
                  BillingHandleWrite, CallFails
<1>6. CASE UNCHANGED retentionVars
      BY <1>1, <1>6, SMT, SMTT(30) DEF retentionVars
<1> QED BY <1>1, <1>2, <1>3, <1>4, <1>5, <1>6, SMT, SMTT(30) DEF RetentionNext

\* What has elapsed stays elapsed as the clock rises and the stamps are kept.
LEMMA DroppedStaysElapsed ==
    ASSUME RetentionInv, DroppedAfterRetention, clock' \in Nat, clock <= clock',
           \A u \in Tenants : StampsKept(tenant[u], tenant'[u]), NEW t \in Tenants, ~schema[t]
    PROVE  /\ Elapsed(tenant'[t].deactivated_at, DeactivatedToPurgeDuration, clock')
           /\ Elapsed(tenant'[t].suspended_at, GraceToDeactivatedDuration, tenant'[t].deactivated_at)
<1>1. /\ Elapsed(tenant[t].deactivated_at, DeactivatedToPurgeDuration, clock)
      /\ Elapsed(tenant[t].suspended_at, GraceToDeactivatedDuration, tenant[t].deactivated_at)
      BY DEF DroppedAfterRetention
<1>2. tenant[t].deactivated_at \in Nat /\ tenant[t].suspended_at \in Nat /\ clock \in Nat
      BY <1>1 DEF RetentionInv, RetentionTypeOK, TenantRow, Stamp, Elapsed
<1>3. /\ tenant'[t].deactivated_at = tenant[t].deactivated_at
      /\ tenant'[t].suspended_at = tenant[t].suspended_at
      BY <1>1, <1>2, RetentionAssumption DEF StampsKept, Elapsed
<1> QED BY <1>1, <1>2, <1>3, RetentionAssumption, SMT, SMTT(30) DEF Elapsed

\* The inductive invariant of the composition.
PurgeInv == RetentionInv /\ RequestInv /\ DroppedAfterRetention

\* Nothing is requested or dropped at first.
LEMMA PurgeInvInit == PurgeInit => PurgeInv
<1> SUFFICES ASSUME PurgeInit PROVE PurgeInv
    OBVIOUS
<1>1. RetentionInv
      BY RetentionInitInv DEF PurgeInit
<1>2. /\ NoRequest \in Request /\ NoRequest.status = "none" /\ NoDesk \in DeskCall /\ NoDesk.op = "idle"
      /\ NoWorker \in WorkerRun /\ NoWorker.pc = "idle"
      BY DEF NoRequest, Request, Stamp, NoDesk, DeskCall, NoWorker, WorkerRun
<1>3. RequestInv
      BY <1>2 DEF PurgeInit, RequestInv, RequestTypeOK, RequestIsNamed, DeskHolds, WorkerHolds,
                  TwoPersonControl, OneOpenRequest, IsOpen, DroppedIffExecuted, AuditedIsExecuted
<1>4. DroppedAfterRetention
      BY DEF PurgeInit, DroppedAfterRetention
<1> QED BY <1>1, <1>3, <1>4 DEF PurgeInv

\* What the purge's own steps do: the requests stay in order, the lifecycle's
\* invariant and stamps survive, and a schema goes only of an eligible tenant.
LEMMA RequestStep ==
    ASSUME PurgeInv,
           (\E d \in Desks : DeskStep(d)) \/ (\E w \in Workers : WorkerStep(w))
    PROVE  PurgeInv'
<1>1. RetentionInv /\ RequestInv /\ DroppedAfterRetention /\ clock \in Nat
      BY DEF PurgeInv, RetentionInv, RetentionTypeOK
<1>2. ASSUME UNCHANGED <<retentionVars, schema>>, RequestInv'
      PROVE  PurgeInv'
      <2>1. UNCHANGED <<clock, tenant, sweep, rpc>>
            BY <1>2 DEF retentionVars
      <2>2. [RetentionNext]_retentionVars
            BY <1>2
      <2>3. RetentionInv'
            BY <1>1, <2>2, RetentionStep
      <2>4. DroppedAfterRetention'
            BY <1>1, <1>2, <2>1 DEF DroppedAfterRetention, Elapsed
      <2> QED BY <1>2, <2>3, <2>4 DEF PurgeInv
<1>3. ASSUME NEW d \in Desks, DeskStep(d) PROVE PurgeInv'
      <2>1. UNCHANGED <<retentionVars, schema>>
            BY <1>3 DEF DeskStep, RequestTenantPurgeRead, ApproveTenantPurgeRead, CancelTenantPurgeRead,
                        CreateTenantPurgeRequest, ApproveTenantPurgeCheck, ApproveTenantPurgeRequest,
                        CancelTenantPurgeRequest, DeskFails
      <2>2. RequestInv'
            BY <1>1, <1>3, DeskReads, CreateKeeps, DeskWrites DEF DeskStep
      <2> QED BY <1>2, <2>1, <2>2
<1>4. ASSUME NEW w \in Workers, NEW r \in Requests, NEW seen \in {"ok", "error"},
             PurgeApprovedTenant(w, r, seen)
      PROVE  PurgeInv'
      <2>1. /\ RetentionInv' /\ clock' = clock
            /\ \A u \in Tenants : StampsKept(tenant[u], tenant'[u])
            BY <1>1, <1>4, PurgeKeepsRetention
      <2>2. RequestInv'
            BY <1>1, <1>4, PurgeKeepsRequests
      <2> DEFINE t == reqs[r].tenant_id
      <2>3. t \in Tenants /\ tenant'[t].status = "purged" /\ schema' = [schema EXCEPT ![t] = FALSE]
            <3>1. /\ reqs[r].status = "approved" /\ schema' = [schema EXCEPT ![t] = FALSE]
                  /\ tenant' = [tenant EXCEPT ![t] = [tenant[t] EXCEPT !.status = "purged"]]
                  BY <1>4 DEF PurgeApprovedTenant, PurgeTransaction
            <3>2. t \in Tenants
                  BY <1>1, <3>1 DEF RequestInv, RequestIsNamed
            <3>3. tenant \in [Tenants -> TenantRow]
                  BY <1>1 DEF RetentionInv, RetentionTypeOK
            <3> QED BY <3>1, <3>2, <3>3 DEF TenantRow
      <2> HIDE DEF t
      <2>4. DroppedAfterRetention'
            <3> SUFFICES ASSUME NEW u \in Tenants, ~schema'[u]
                         PROVE  /\ Elapsed(tenant'[u].deactivated_at, DeactivatedToPurgeDuration, clock')
                                /\ Elapsed(tenant'[u].suspended_at, GraceToDeactivatedDuration,
                                           tenant'[u].deactivated_at)
                BY DEF DroppedAfterRetention, Elapsed
            <3>1. CASE u = t
                  <4>1. RowInv(tenant[u])'
                        BY <2>1 DEF RetentionInv
                  <4> QED BY <2>3, <3>1, <4>1 DEF RowInv, Elapsed
            <3>2. CASE u # t
                  <4>1. ~schema[u]
                        BY <1>1, <2>3, <3>2 DEF RequestInv, RequestTypeOK
                  <4> QED BY <1>1, <2>1, <4>1, DroppedStaysElapsed, SMT, SMTT(30)
            <3> QED BY <3>1, <3>2
      <2> QED BY <2>1, <2>2, <2>4 DEF PurgeInv
<1>5. ASSUME NEW w \in Workers,
             \/ WorkerList(w) \/ MarkFails(w) \/ WorkerCrash(w) \/ MarkTenantPurgeRequestFailed(w)
             \/ \E r \in Requests : PurgeRolledBack(w, r)
      PROVE  PurgeInv'
      <2>1. UNCHANGED <<retentionVars, schema>>
            BY <1>5 DEF WorkerList, MarkFails, WorkerCrash, MarkTenantPurgeRequestFailed, PurgeRolledBack
      <2>2. RequestInv'
            BY <1>1, <1>5, WorkerReads, MarkKeeps
      <2> QED BY <1>2, <2>1, <2>2
<1> QED BY <1>3, <1>4, <1>5 DEF WorkerStep

\* A step of the lifecycle leaves the requests alone.
LEMMA LifecycleStep ==
    ASSUME PurgeInv, [RetentionNext]_retentionVars, UNCHANGED requestVars
    PROVE  PurgeInv'
<1>1. RetentionInv /\ RequestInv /\ DroppedAfterRetention
      BY DEF PurgeInv
<1>2. UNCHANGED <<reqs, schema, desk, worker, audited>>
      BY DEF requestVars
<1>3. RequestInv'
      <2>1. desk' \in [Desks -> DeskCall] /\ worker' \in [Workers -> WorkerRun] /\ DeskHolds' /\ WorkerHolds'
            BY <1>1, <1>2 DEF RequestInv, RequestTypeOK, DeskHolds, WorkerHolds
      <2> QED BY <1>1, <1>2, <2>1, TablesUntouched
<1>4. RetentionInv' /\ \A t \in Tenants : StampsKept(tenant[t], tenant'[t])
      BY <1>1, RetentionStep
<1>5. DroppedAfterRetention'
      <2>1. \A t \in Tenants : ~schema'[t] =>
               /\ Elapsed(tenant'[t].deactivated_at, DeactivatedToPurgeDuration, clock')
               /\ Elapsed(tenant'[t].suspended_at, GraceToDeactivatedDuration, tenant'[t].deactivated_at)
            BY <1>1, <1>2, <1>4, ClockRises, DroppedStaysElapsed
      <2> QED BY <2>1 DEF DroppedAfterRetention, Elapsed
<1> QED BY <1>3, <1>4, <1>5 DEF PurgeInv

\* Every step of the composition keeps its invariant.
LEMMA PurgeInvNext == PurgeInv /\ [PurgeNext]_purgeVars => PurgeInv'
<1> SUFFICES ASSUME PurgeInv, [PurgeNext]_purgeVars PROVE PurgeInv'
    OBVIOUS
<1>1. CASE RetentionNext /\ UNCHANGED requestVars
      BY <1>1, LifecycleStep
<1>2. CASE (\E d \in Desks : DeskStep(d)) \/ (\E w \in Workers : WorkerStep(w))
      BY <1>2, RequestStep
<1>3. CASE UNCHANGED purgeVars
      <2>1. UNCHANGED retentionVars /\ UNCHANGED requestVars
            BY <1>3 DEF purgeVars
      <2> QED BY <2>1, LifecycleStep
<1> QED BY <1>1, <1>2, <1>3 DEF PurgeNext

\* The status guards of the four UPDATEs and of the INSERT leave a closed request alone.
LEMMA ClosedStays ==
    ASSUME PurgeInv, PurgeNext, NEW r \in Requests, reqs[r].status \in {"executed", "failed", "cancelled"}
    PROVE  reqs'[r] = reqs[r]
<1>1. reqs \in [Requests -> Request]
      BY DEF PurgeInv, RequestInv, RequestTypeOK
<1>2. CASE UNCHANGED requestVars
      BY <1>2 DEF requestVars
<1>3. ASSUME NEW d \in Desks, DeskStep(d) PROVE reqs'[r] = reqs[r]
      <2>1. CASE CreateTenantPurgeRequest(d)
            BY <1>1, <2>1 DEF CreateTenantPurgeRequest
      <2>2. CASE ApproveTenantPurgeRequest(d)
            BY <1>1, <2>2 DEF ApproveTenantPurgeRequest
      <2>3. CASE CancelTenantPurgeRequest(d)
            BY <1>1, <2>3 DEF CancelTenantPurgeRequest
      <2>4. CASE reqs' = reqs
            BY <2>4
      <2> QED BY <1>3, <2>1, <2>2, <2>3, <2>4
              DEF DeskStep, RequestTenantPurgeRead, ApproveTenantPurgeRead, CancelTenantPurgeRead,
                  ApproveTenantPurgeCheck, DeskFails
<1>4. ASSUME NEW w \in Workers, WorkerStep(w) PROVE reqs'[r] = reqs[r]
      <2>1. ASSUME NEW q \in Requests, NEW seen \in {"ok", "error"}, PurgeApprovedTenant(w, q, seen)
            PROVE  reqs'[r] = reqs[r]
            BY <1>1, <2>1 DEF PurgeApprovedTenant, PurgeTransaction
      <2>2. CASE MarkTenantPurgeRequestFailed(w)
            BY <1>1, <2>2 DEF MarkTenantPurgeRequestFailed
      <2>3. CASE reqs' = reqs
            BY <2>3
      <2> QED BY <1>4, <2>1, <2>2, <2>3 DEF WorkerStep, WorkerList, PurgeRolledBack, MarkFails, WorkerCrash
<1> QED BY <1>2, <1>3, <1>4 DEF PurgeNext

-----------------------------------------------------------------------------
(***************************************************************************)
(* The theorems.                                                           *)
(***************************************************************************)

\* The inductive invariant holds in every reachable state.
THEOREM PurgeInvariant == PurgeSpec => []PurgeInv
BY PurgeInvInit, PurgeInvNext, PTL DEF PurgeSpec

\* The types of the purge's tables and of what its processes hold.
THEOREM PurgeTypeCorrect == PurgeSpec => []PurgeTypeOK
<1>1. PurgeInv => PurgeTypeOK
  BY DEF PurgeInv, RetentionInv, RequestInv, RequestTypeOK, PurgeTypeOK
<1> QED
  BY <1>1, PurgeInvariant, PTL

\* A tenant has at most one request that is pending or approved, whatever desks insert at
\* the same time.
THEOREM OneOpenRequestHolds == PurgeSpec => []OneOpenRequest
<1>1. PurgeInv => OneOpenRequest
  BY DEF PurgeInv, RequestInv
<1> QED
  BY <1>1, PurgeInvariant, PTL

\* The audit trail records no purge that did not happen.
THEOREM AuditedIsExecutedHolds == PurgeSpec => []AuditedIsExecuted
<1>1. PurgeInv => AuditedIsExecuted
  BY DEF PurgeInv, RequestInv
<1> QED
  BY <1>1, PurgeInvariant, PTL

\* Nobody approves the purge they asked for, however their calls overlap with those
\* of other admins.
THEOREM TwoPersonControlHolds == PurgeSpec => []TwoPersonControl
<1>1. PurgeInv => TwoPersonControl  BY DEF PurgeInv, RequestInv
<1> QED BY <1>1, PurgeInvariant, PTL

\* A schema is gone exactly if a request of its tenant is executed, through ambiguous
\* commits, crashes and any number of workers.
THEOREM DroppedIffExecutedHolds == PurgeSpec => []DroppedIffExecuted
<1>1. PurgeInv => DroppedIffExecuted  BY DEF PurgeInv, RequestInv
<1> QED BY <1>1, PurgeInvariant, PTL

\* Data is destroyed only after the whole retention window.
THEOREM DroppedAfterRetentionHolds == PurgeSpec => []DroppedAfterRetention
<1>1. PurgeInv => DroppedAfterRetention  BY DEF PurgeInv
<1> QED BY <1>1, PurgeInvariant, PTL

\* A request that was executed, failed or cancelled is never revived or relabelled.
THEOREM ClosedIsFinalHolds == PurgeSpec => ClosedIsFinal
<1>1. ASSUME PurgeInv, [PurgeNext]_purgeVars
      PROVE  [\A r \in Requests : reqs[r].status \in {"executed", "failed", "cancelled"} =>
                reqs'[r] = reqs[r]]_purgeVars
      BY <1>1, ClosedStays
<1> QED BY <1>1, PurgeInvariant, PTL DEF PurgeSpec, ClosedIsFinal
=============================================================================
