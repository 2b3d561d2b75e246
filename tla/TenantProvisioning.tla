------------------------- MODULE TenantProvisioning -------------------------
(***************************************************************************)
(* CreateTenant of services/iam: the tenant's row, its system roles and    *)
(* the migrations of its schema, each in a statement or a process of its   *)
(* own, with nothing undone when one fails.  Calls overlap, and a caller   *)
(* whose call ended may call again with the same name.                     *)
(***************************************************************************)
EXTENDS Integers, FiniteSets, Sequences

CONSTANTS
    TenantIds,    \* tenant ids that may be drawn
    Names,        \* tenant names, normalised
    SlugOf,       \* Slugify, which may give two names one slug
    Callers,      \* calls of CreateTenant in progress
    SystemRoles,  \* length of systemRoles
    Newest,       \* the newest version in each migration directory, in their order
    NoTenant

ASSUME ProvisioningAssumption ==
    /\ SystemRoles \in Nat \ {0}
    /\ Newest \in Seq(Nat \ {0})
    /\ DOMAIN SlugOf = Names
    /\ NoTenant \notin TenantIds \union Names

VARIABLES
    tenants,   \* the row of each id: its name, or NoTenant where there is no row
    seeded,    \* how many system roles a tenant has
    version,   \* the version in the tenant's one migrations table
    creating   \* the calls: where each is, or how it ended

provisioningVars == <<tenants, seeded, version, creating>>

Fresh == [at |-> "idle", id |-> NoTenant, name |-> NoTenant, dir |-> 1]
Underway == {"insert", "seed", "migrate"}

\* A call is at one of its statements, or has ended.
ProvisioningTypeOK ==
    /\ tenants \in [TenantIds -> Names \union {NoTenant}]
    /\ seeded \in [TenantIds -> Nat]
    /\ version \in [TenantIds -> Nat]
    /\ creating \in [Callers -> [at: Underway \union {"idle", "created", "taken", "failed"},
                                 id: TenantIds \union {NoTenant}, name: Names \union {NoTenant},
                                 dir: Nat \ {0}]]

ProvisioningInit ==
    /\ tenants = [i \in TenantIds |-> NoTenant]
    /\ seeded = [i \in TenantIds |-> 0]
    /\ version = [i \in TenantIds |-> 0]
    /\ creating = [c \in Callers |-> Fresh]

Holders(n) == {i \in TenantIds : tenants[i] = n}
SlugTaken(n) == \E i \in TenantIds : tenants[i] # NoTenant /\ SlugOf[tenants[i]] = SlugOf[n]
Drawn(i) == tenants[i] # NoTenant \/ \E c \in Callers : creating[c].at \in Underway /\ creating[c].id = i

Goes(c, at) == creating' = [creating EXCEPT ![c].at = at]

\* The pre-flight: a name in use is refused with the id of the tenant that has it.
CreateTenant(c, n) ==
    /\ creating[c].at \notin Underway
    /\ \/ \E i \in Holders(n) :
             creating' = [creating EXCEPT ![c] = [Fresh EXCEPT !.at = "taken", !.id = i, !.name = n]]
       \/ /\ Holders(n) = {}
          /\ \E i \in TenantIds :
                /\ ~Drawn(i)
                /\ creating' = [creating EXCEPT ![c] = [Fresh EXCEPT !.at = "insert", !.id = i, !.name = n]]
    /\ UNCHANGED <<tenants, seeded, version>>

\* Mutant: the pre-flight is taken for enough, and no index guards the insert.
InsertUnguarded(c) ==
    /\ creating[c].at = "insert"
    /\ tenants' = [tenants EXCEPT ![creating[c].id] = creating[c].name]
    /\ Goes(c, "seed")
    /\ UNCHANGED <<seeded, version>>

\* The INSERT.  tenants_name_ci_unique makes the call that lost the race report the
\* winner; ON CONFLICT (slug) DO NOTHING returns no row, which is an error as well.
InsertTenant(c) ==
    LET n == creating[c].name
    IN  /\ creating[c].at = "insert"
        /\ \/ /\ \E i \in Holders(n) : creating' = [creating EXCEPT ![c].at = "taken", ![c].id = i]
              /\ UNCHANGED tenants
           \/ /\ Holders(n) = {} /\ SlugTaken(n)
              /\ Goes(c, "failed")
              /\ UNCHANGED tenants
           \/ /\ Holders(n) = {} /\ ~SlugTaken(n)
              /\ tenants' = [tenants EXCEPT ![creating[c].id] = n]
              /\ Goes(c, "seed")
        /\ UNCHANGED <<seeded, version>>

Seeds(c) ==
    /\ creating[c].at = "seed"
    /\ seeded' = [seeded EXCEPT ![creating[c].id] = @ + 1]

\* One role of seedSystemRoles; after the last comes the schema.
SeedRole(c) ==
    /\ Seeds(c)
    /\ Goes(c, IF seeded[creating[c].id] + 1 = SystemRoles THEN "migrate" ELSE "seed")
    /\ UNCHANGED <<tenants, version>>

\* External: "migrate up" brings the table's version to the directory's newest one.  It
\* ends with an error when the directory does not have the version the table is at,
\* and it may end with one after any of the versions in between.
MigrateUp(i, d, w) ==
    /\ version[i] <= Newest[d]
    /\ w \in version[i] .. Newest[d]
    /\ version' = [version EXCEPT ![i] = w]

\* One directory of MigrateTenantSchema.
MigratePath(c) ==
    LET i == creating[c].id  d == creating[c].dir
    IN  /\ creating[c].at = "migrate" /\ d <= Len(Newest)
        /\ \/ /\ MigrateUp(i, d, Newest[d])
              /\ creating' = [creating EXCEPT ![c].dir = d + 1]
           \/ /\ \E w \in version[i] .. Newest[d] : MigrateUp(i, d, w)
              /\ Goes(c, "failed")
           \/ /\ version[i] > Newest[d]
              /\ Goes(c, "failed")
              /\ UNCHANGED version
        /\ UNCHANGED <<tenants, seeded>>

\* The loop is over and the tenant is returned.
ReturnTenant(c) ==
    /\ creating[c].at = "migrate" /\ creating[c].dir > Len(Newest)
    /\ Goes(c, "created")
    /\ UNCHANGED <<tenants, seeded, version>>

\* A check, a statement or the process fails: the call ends, and what it wrote stays.
ProvisioningStops(c) ==
    /\ creating[c].at \in Underway
    /\ Goes(c, "failed")
    /\ UNCHANGED <<tenants, seeded, version>>

ProvisioningNext ==
    \E c \in Callers :
        \/ \E n \in Names : CreateTenant(c, n)
        \/ InsertTenant(c) \/ SeedRole(c) \/ MigratePath(c) \/ ReturnTenant(c) \/ ProvisioningStops(c)

ProvisioningSpec == ProvisioningInit /\ [][ProvisioningNext]_provisioningVars

\* Calls that all passed the pre-flight for one name, or for names with one slug,
\* leave one tenant with it.
OnePerName ==
    \A i, j \in TenantIds :
        i # j /\ tenants[i] # NoTenant /\ tenants[j] # NoTenant
            => tenants[i] # tenants[j] /\ SlugOf[tenants[i]] # SlugOf[tenants[j]]

\* Whatever fails and whoever overlaps, roles are only ever written for a tenant that has
\* its row, its schema is begun only once it has every role, and a call that returns a
\* tenant returns one with the name it asked for and all of its roles.
ProvisionedInOrder ==
    /\ \A i \in TenantIds :
          /\ seeded[i] > 0 => tenants[i] # NoTenant
          /\ version[i] > 0 => seeded[i] = SystemRoles
    /\ \A c \in Callers : creating[c].at = "created" =>
          /\ tenants[creating[c].id] = creating[c].name
          /\ seeded[creating[c].id] = SystemRoles
=============================================================================
