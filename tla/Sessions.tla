------------------------------ MODULE Sessions ------------------------------
(***************************************************************************)
(* The sessions of one tenant: refresh tokens in Redis (pkg/auth/jwt.go),  *)
(* the generation counters that revoke them in bulk, and the IAM           *)
(* operations that mint or revoke sessions (services/iam).  Every Redis or *)
(* Postgres round trip is a step of its own, so the steps of two calls may *)
(* interleave between any two of them.                                     *)
(*                                                                         *)
(* Time is kept the way Redis keeps it, as what is left of every TTL.      *)
(*                                                                         *)
(* A session carries three history flags no code reads: "revoked" (a       *)
(* counter it was issued under, in "bumped", was bumped and then given its *)
(* TTL), "lapsed" (such a counter has expired) and "raced" (the login      *)
(* behind it may not have seen the last write to the database).            *)
(***************************************************************************)
EXTENDS Integers, FiniteSets

CONSTANTS
    Users,
    Tenant,
    Tokens,         \* refresh:<token> keys
    Calls,          \* IAM requests in flight
    RefreshTTL,     \* JWTConfig.RefreshTTL
    CallSpan,       \* how long a request may take: seconds, where a token lives for days
    MaxDeliver,     \* MaxDeliver of the iam-billing consumer
    MaxGeneration,  \* bound on each generation counter
    MaxGrants,      \* bound on the changes of a user's password or roles
    NULL

VARIABLES
    counter,    \* usergen:<user>, tenantgen:<tenant>: value (0 = no key), TTL (0 = none)
    token,      \* the refresh tokens stored in Redis
    user,       \* users.status, and how often the password or the roles changed
    tenant,     \* tenants.status
    call,       \* the requests in flight
    deliveries, \* how often JetStream may still deliver subscription.suspended
    acked,      \* it has been acknowledged
    unrevoked   \* the bumps that failed after the database write, with their operation

iamVars == <<user, tenant>>
busVars == <<deliveries, acked>>
sessionVars == <<counter, token, iamVars, call, busVars, unrevoked>>

Keys == Users \union {Tenant}

Generations == UNION {0 .. MaxGeneration[k] : k \in Keys}

\* refreshPayload; grant stands for the roles and the credentials behind it.
Session == [user: Users \union {NULL}, ugen: Generations, tgen: Generations, grant: 0 .. MaxGrants,
            bumped: SUBSET Keys, revoked: BOOLEAN, lapsed: BOOLEAN, raced: BOOLEAN]

NoSession == [user |-> NULL, ugen |-> 0, tgen |-> 0, grant |-> 0,
              bumped |-> {}, revoked |-> FALSE, lapsed |-> FALSE, raced |-> FALSE]

Stored == [ttl: 1 .. RefreshTTL, s: Session]

ASSUME SessionsAssumption ==
    /\ {RefreshTTL, CallSpan, MaxDeliver, MaxGrants} \subseteq Nat
    /\ 0 < CallSpan /\ 2 * CallSpan <= RefreshTTL
    /\ MaxGeneration \in [Keys -> Nat]
    /\ Tenant \notin Users
    /\ NULL \notin Keys \union Tokens /\ NULL \notin Stored

\* key is the counter a revocation bumps, tok the token a refresh consumes,
\* late whether the session was revoked when the refresh presented it, left
\* the time the request may still take.
Idle == [pc |-> "idle", op |-> "none", key |-> NULL, tok |-> NULL, s |-> NoSession,
         late |-> FALSE, left |-> 0]

Request == [pc: {"idle", "user", "ugen", "tgen", "store", "del", "checkUser", "checkTenant",
                 "suspend", "incr", "expire", "reread"},
            op: {"none", "login", "refresh", "revoke", "suspend", "billing"},
            key: Keys \union {NULL}, tok: Tokens \union {NULL},
            s: Session, late: BOOLEAN, left: 0 .. CallSpan]

SessionsTypeOK ==
    /\ counter \in [Keys -> [value: Generations, ttl: 0 .. 2 * RefreshTTL]]
    /\ token \in [Tokens -> Stored \union {NULL}]
    /\ user \in [Users -> [status: {"none", "active", "deactivated"}, grant: 0 .. MaxGrants]]
    /\ tenant \in {"active", "suspended"}
    /\ call \in [Calls -> Request]
    /\ deliveries \in 0 .. MaxDeliver /\ acked \in BOOLEAN
    /\ unrevoked \subseteq [key: Keys, op: {"revoke", "suspend", "billing"}]

\* One tenant; a user is either registered or holds an invitation.
SessionsInit ==
    /\ counter = [k \in Keys |-> [value |-> 0, ttl |-> 0]]
    /\ token = [k \in Tokens |-> NULL]
    /\ user \in [Users -> [status: {"none", "active"}, grant: {0}]]
    /\ tenant = "active"
    /\ call = [c \in Calls |-> Idle]
    /\ deliveries = MaxDeliver /\ acked = FALSE
    /\ unrevoked = {}

-----------------------------------------------------------------------------
(* History.  A call holds a generation once it has read it, a refresh both *)
(* from the payload it consumed.                                           *)

HoldsGeneration(cl, k) ==
    /\ cl.s.user # NULL
    /\ IF k = Tenant THEN cl.pc \in {"store", "del", "checkUser", "checkTenant"}
       ELSE k = cl.s.user /\ cl.pc \in {"tgen", "store", "del", "checkUser", "checkTenant"}

Concerns(s, k) == k \in {s.user, Tenant}

MarkBumped(s, k) == IF Concerns(s, k) /\ ~s.lapsed /\ ~s.revoked
                    THEN [s EXCEPT !.bumped = s.bumped \union {k}] ELSE s

MarkRevoked(s, k) == IF k \in s.bumped THEN [s EXCEPT !.revoked = TRUE, !.bumped = {}] ELSE s

MarkLapsed(s, gone) == IF \E k \in gone : Concerns(s, k)
                       THEN [s EXCEPT !.lapsed = TRUE, !.bumped = {}] ELSE s

\* A write to the user (or, with k the tenant, to the tenant) that a login
\* in flight may not have seen.
MarkRaced(k) ==
    [d \in Calls |-> IF call[d].op = "login" /\ call[d].pc # "idle" /\ Concerns(call[d].s, k)
                     THEN [call[d] EXCEPT !.s.raced = TRUE] ELSE call[d]]

-----------------------------------------------------------------------------
(* Issuing: Login, AcceptInvitation, JWTIssuer.Issue                       *)

\* Authenticate reads the tenant's status first, and fails unless it is active.
LoginTenant(c, u) ==
    /\ call[c].pc = "idle"
    /\ tenant = "active"
    /\ call' = [call EXCEPT ![c] = [Idle EXCEPT !.pc = "user", !.op = "login", !.left = CallSpan,
                                                !.s = [NoSession EXCEPT !.user = u]]]
    /\ UNCHANGED <<counter, token, iamVars, busVars, unrevoked>>

\* Then the user row: status, password hash and roles.
LoginUser(c) ==
    LET u == call[c].s.user IN
    /\ call[c].pc = "user"
    /\ call' = [call EXCEPT ![c] = IF user[u].status = "active"
                                   THEN [call[c] EXCEPT !.pc = "ugen", !.s.grant = user[u].grant]
                                   ELSE Idle]
    /\ UNCHANGED <<counter, token, iamVars, busVars, unrevoked>>

\* The transaction creates the user and accepts the invitation; the unique
\* (tenant_id, email) rejects a second one.  The tenant's status is not read.
AcceptInvitation(c, u) ==
    /\ call[c].pc = "idle"
    /\ user[u].status = "none"
    /\ user' = [user EXCEPT ![u].status = "active"]
    /\ call' = [call EXCEPT ![c] = [Idle EXCEPT !.pc = "ugen", !.op = "login", !.left = CallSpan,
                                                !.s = [NoSession EXCEPT !.user = u,
                                                       !.grant = user[u].grant,
                                                       !.raced = (tenant # "active")]]]
    /\ UNCHANGED <<counter, token, tenant, busVars, unrevoked>>

\* currentGeneration, then currentTenantGeneration; a missing key reads as 0.
IssueReadUser(c) ==
    /\ call[c].pc = "ugen"
    /\ call' = [call EXCEPT ![c] = [call[c] EXCEPT !.pc = "tgen",
                                              !.s.ugen = counter[call[c].s.user].value]]
    /\ UNCHANGED <<counter, token, iamVars, busVars, unrevoked>>

IssueReadTenant(c) ==
    /\ call[c].pc = "tgen"
    /\ call' = [call EXCEPT ![c] = [call[c] EXCEPT !.pc = "store", !.s.tgen = counter[Tenant].value]]
    /\ UNCHANGED <<counter, token, iamVars, busVars, unrevoked>>

\* issueWithGeneration: SET refresh:<token> with the TTL.  A fresh random
\* token is never one that a refresh in flight is still to delete.
IssueStore(c, k) ==
    /\ call[c].pc = "store"
    /\ token[k] = NULL
    /\ \A d \in Calls : call[d].tok # k
    /\ token' = [token EXCEPT ![k] = [ttl |-> RefreshTTL, s |-> call[c].s]]
    /\ call' = [call EXCEPT ![c] = Idle]
    /\ UNCHANGED <<counter, iamVars, busVars, unrevoked>>

-----------------------------------------------------------------------------
(* Refresh and Logout                                                      *)

\* consumeRefreshToken is a pipeline, not a transaction: GET and DEL are two
\* commands, and another client's may come between them.
RefreshGet(c, k) ==
    /\ call[c].pc = "idle"
    /\ token[k] # NULL
    /\ call' = [call EXCEPT ![c] = [Idle EXCEPT !.pc = "del", !.op = "refresh", !.tok = k,
                                                !.left = CallSpan, !.s = token[k].s,
                                                !.late = token[k].s.revoked]]
    /\ UNCHANGED <<counter, token, iamVars, busVars, unrevoked>>

RefreshDel(c) ==
    /\ call[c].pc = "del"
    /\ token' = [token EXCEPT ![call[c].tok] = NULL]
    /\ call' = [call EXCEPT ![c] = [call[c] EXCEPT !.pc = "checkUser", !.tok = NULL]]
    /\ UNCHANGED <<counter, iamVars, busVars, unrevoked>>

\* Both generations must equal the payload's, which then go into the new
\* token as they are (issueWithGeneration, never Issue).
RefreshReadUser(c) ==
    /\ call[c].pc = "checkUser"
    /\ call' = [call EXCEPT ![c] = IF counter[call[c].s.user].value = call[c].s.ugen
                                   THEN [call[c] EXCEPT !.pc = "checkTenant"] ELSE Idle]
    /\ UNCHANGED <<counter, token, iamVars, busVars, unrevoked>>

\* Mutant: the refresh ends in Issue, which reads the generations again.
RefreshThenIssue(c) ==
    /\ call[c].pc = "checkTenant"
    /\ call' = [call EXCEPT ![c] = IF counter[Tenant].value = call[c].s.tgen
                                   THEN [call[c] EXCEPT !.pc = "ugen"] ELSE Idle]
    /\ UNCHANGED <<counter, token, iamVars, busVars, unrevoked>>

RefreshReadTenant(c) ==
    /\ call[c].pc = "checkTenant"
    /\ call' = [call EXCEPT ![c] = IF counter[Tenant].value = call[c].s.tgen
                                   THEN [call[c] EXCEPT !.pc = "store"] ELSE Idle]
    /\ UNCHANGED <<counter, token, iamVars, busVars, unrevoked>>

\* Logout: Revoke deletes the one token.
Logout(k) ==
    /\ token[k] # NULL
    /\ token' = [token EXCEPT ![k] = NULL]
    /\ UNCHANGED <<counter, iamVars, call, busVars, unrevoked>>

-----------------------------------------------------------------------------
(* Revoking in bulk: the database write, then INCR and EXPIRE              *)

Revoking(c, op, k, pc) == [Idle EXCEPT !.pc = pc, !.op = op, !.key = k, !.left = CallSpan]

DeactivateUser(c, u) ==
    /\ call[c].pc = "idle"
    /\ user[u].status # "none"
    /\ counter[u].value < MaxGeneration[u]
    /\ user' = [user EXCEPT ![u].status = "deactivated"]
    /\ call' = [MarkRaced(u) EXCEPT ![c] = Revoking(c, "revoke", u, "incr")]
    /\ UNCHANGED <<counter, token, tenant, busVars, unrevoked>>

\* No revocation: "a deactivated user has no live sessions".
ActivateUser(u) ==
    /\ user[u].status = "deactivated"
    /\ user' = [user EXCEPT ![u].status = "active"]
    /\ UNCHANGED <<counter, token, tenant, call, busVars, unrevoked>>

\* UpdatePasswordHash or the DELETE of the role, then RevokeAllForUser.
ChangeGrant(c, u) ==
    /\ call[c].pc = "idle"
    /\ user[u].status # "none"
    /\ user[u].grant < MaxGrants
    /\ counter[u].value < MaxGeneration[u]
    /\ user' = [user EXCEPT ![u].grant = @ + 1]
    /\ call' = [MarkRaced(u) EXCEPT ![c] = Revoking(c, "revoke", u, "incr")]
    /\ UNCHANGED <<counter, token, tenant, busVars, unrevoked>>

ChangePassword(c, u) == ChangeGrant(c, u)

RevokeRole(c, u) == ChangeGrant(c, u)

\* The platform admin's SuspendTenant: an unconditional status write.
SuspendTenant(c) ==
    /\ call[c].pc = "idle"
    /\ counter[Tenant].value < MaxGeneration[Tenant]
    /\ tenant' = "suspended"
    /\ call' = [MarkRaced(Tenant) EXCEPT ![c] = Revoking(c, "suspend", Tenant, "incr")]
    /\ UNCHANGED <<counter, token, user, busVars, unrevoked>>

\* RevokeAllForUser, RevokeAllForTenant: INCR and EXPIRE, pipelined.
RevokeIncr(c) ==
    LET k == call[c].key IN
    /\ call[c].pc = "incr"
    /\ counter[k].value < MaxGeneration[k]
    /\ counter' = [counter EXCEPT ![k].value = @ + 1]
    /\ token' = [t \in Tokens |-> IF token[t] = NULL THEN NULL
                                  ELSE [token[t] EXCEPT !.s = MarkBumped(token[t].s, k)]]
    /\ call' = [d \in Calls |->
                  IF d = c THEN [call[c] EXCEPT !.pc = "expire"]
                  ELSE IF HoldsGeneration(call[d], k) THEN [call[d] EXCEPT !.s = MarkBumped(call[d].s, k)]
                  ELSE call[d]]
    /\ unrevoked' = {f \in unrevoked : f.key # k}
    /\ UNCHANGED <<iamVars, busVars>>

\* Mutant: the counter lives no longer than a token.
RevokeExpireShort(c) ==
    LET k == call[c].key IN
    /\ call[c].pc = "expire"
    /\ counter' = IF counter[k].value = 0 THEN counter ELSE [counter EXCEPT ![k].ttl = RefreshTTL]
    /\ token' = [t \in Tokens |-> IF token[t] = NULL THEN NULL
                                  ELSE [token[t] EXCEPT !.s = MarkRevoked(token[t].s, k)]]
    /\ call' = [d \in Calls |->
                  IF d # c THEN [call[d] EXCEPT !.s = MarkRevoked(call[d].s, k)]
                  ELSE IF call[c].op = "revoke" THEN Idle
                  ELSE [call[c] EXCEPT !.pc = "reread"]]
    /\ UNCHANGED <<iamVars, busVars, unrevoked>>

\* A suspension ends with a read of the tenant, the others return.
RevokeExpire(c) ==
    LET k == call[c].key IN
    /\ call[c].pc = "expire"
    /\ counter' = IF counter[k].value = 0 THEN counter
                  ELSE [counter EXCEPT ![k].ttl = 2 * RefreshTTL]
    /\ token' = [t \in Tokens |-> IF token[t] = NULL THEN NULL
                                  ELSE [token[t] EXCEPT !.s = MarkRevoked(token[t].s, k)]]
    /\ call' = [d \in Calls |->
                  IF d # c THEN [call[d] EXCEPT !.s = MarkRevoked(call[d].s, k)]
                  ELSE IF call[c].op = "revoke" THEN Idle
                  ELSE [call[c] EXCEPT !.pc = "reread"]]
    /\ UNCHANGED <<iamVars, busVars, unrevoked>>

\* The last GetTenant of SuspendTenant; Handle's nil return acknowledges.
SuspendReturns(c) ==
    /\ call[c].pc = "reread"
    /\ call' = [call EXCEPT ![c] = Idle]
    /\ acked' = (acked \/ call[c].op = "billing")
    /\ UNCHANGED <<counter, token, iamVars, deliveries, unrevoked>>

-----------------------------------------------------------------------------
(* The billing consumer of services/iam, under at-least-once delivery      *)

\* Deliver subscription.suspended, for the first time, after a Nak, or
\* after AckWait while an earlier delivery is still being handled.  Handle
\* reads the tenant and acknowledges at once when it is not active.
HandleRead(c) ==
    /\ call[c].pc = "idle"
    /\ ~acked /\ deliveries > 0
    /\ deliveries' = deliveries - 1
    /\ IF tenant = "active"
       THEN call' = [call EXCEPT ![c] = Revoking(c, "billing", Tenant, "suspend")] /\ UNCHANGED acked
       ELSE acked' \in {TRUE, FALSE} /\ UNCHANGED call    \* the Ack itself may be lost
    /\ UNCHANGED <<counter, token, iamVars, unrevoked>>

\* SuspendTenant called by Handle: the write does not repeat the check.
HandleSuspend(c) ==
    /\ call[c].pc = "suspend"
    /\ counter[Tenant].value < MaxGeneration[Tenant]
    /\ tenant' = "suspended"
    /\ call' = [MarkRaced(Tenant) EXCEPT ![c].pc = "incr"]
    /\ UNCHANGED <<counter, token, user, busVars, unrevoked>>

-----------------------------------------------------------------------------
(* Failures and time                                                       *)

\* A request ends with an error (Redis or Postgres unreachable, a crash, the
\* caller's deadline).  A Nak leaves the message to be delivered again.
CallFails(c) ==
    /\ call[c].pc # "idle"
    /\ call' = [call EXCEPT ![c] = Idle]
    /\ unrevoked' = IF call[c].pc # "incr" THEN unrevoked
                    ELSE unrevoked \union {[key |-> call[c].key, op |-> call[c].op]}
    /\ UNCHANGED <<counter, token, iamVars, busVars>>

\* Redis drops what has expired: tokens, and counters, which then read as 0.
Tick ==
    LET gone == {k \in Keys : counter[k].ttl = 1} IN
    /\ \A c \in Calls : call[c].pc # "idle" => call[c].left > 0
    /\ counter' = [k \in Keys |-> IF k \in gone THEN [value |-> 0, ttl |-> 0]
                                  ELSE IF counter[k].ttl = 0 THEN counter[k]
                                  ELSE [counter[k] EXCEPT !.ttl = counter[k].ttl - 1]]
    /\ token' = [t \in Tokens |-> IF token[t] = NULL \/ token[t].ttl = 1 THEN NULL
                                  ELSE [ttl |-> token[t].ttl - 1, s |-> MarkLapsed(token[t].s, gone)]]
    /\ call' = [d \in Calls |->
                  IF call[d].pc = "idle" THEN Idle
                  ELSE LET held == {k \in gone : HoldsGeneration(call[d], k)} IN
                       [call[d] EXCEPT !.left = call[d].left - 1, !.s = MarkLapsed(call[d].s, held)]]
    /\ UNCHANGED <<iamVars, busVars, unrevoked>>

SessionsNext ==
    \/ \E c \in Calls, u \in Users :
          LoginTenant(c, u) \/ AcceptInvitation(c, u) \/ DeactivateUser(c, u)
          \/ ChangePassword(c, u) \/ RevokeRole(c, u)
    \/ \E c \in Calls : LoginUser(c) \/ IssueReadUser(c) \/ IssueReadTenant(c)
    \/ \E c \in Calls, k \in Tokens : IssueStore(c, k) \/ RefreshGet(c, k)
    \/ \E c \in Calls : RefreshDel(c) \/ RefreshReadUser(c) \/ RefreshReadTenant(c)
    \/ \E k \in Tokens : Logout(k)
    \/ \E u \in Users : ActivateUser(u)
    \/ \E c \in Calls : SuspendTenant(c) \/ RevokeIncr(c) \/ RevokeExpire(c) \/ SuspendReturns(c)
    \/ \E c \in Calls : HandleRead(c) \/ HandleSuspend(c) \/ CallFails(c)
    \/ Tick

SessionsSpec == SessionsInit /\ [][SessionsNext]_sessionVars

-----------------------------------------------------------------------------
(* Properties                                                              *)

\* A bulk revocation is final: a refresh of a session that RevokeAllForUser
\* or RevokeAllForTenant revoked before the refresh presented it never gets
\* as far as a new token, even after the counter that revoked it has expired
\* (jwt.go: the counter lives twice as long as a token).
RevokedNotRefreshed ==
    \A c \in Calls : call[c].op = "refresh" /\ call[c].pc = "store" => ~call[c].late

\* A token the next Refresh would accept.
Acceptable(k) ==
    /\ token[k] # NULL
    /\ counter[token[k].s.user].value = token[k].s.ugen
    /\ counter[Tenant].value = token[k].s.tgen

\* The counters that ought to have been bumped for session s.
Owed(s) ==
    (IF user[s.user].status = "deactivated" \/ user[s.user].grant # s.grant THEN {s.user} ELSE {})
    \union (IF tenant = "suspended" THEN {Tenant} ELSE {})

Bumping(k) == \E c \in Calls : call[c].key = k /\ call[c].pc = "incr"

\* A session the database no longer supports (user deactivated, password or
\* role changed, tenant suspended) can only still be refreshed while the bump
\* is on its way or has failed, if its login overlapped the change, or if
\* the counter it was issued under has since expired.
SupersededSessionsEnd ==
    \A k \in Tokens : Acceptable(k) =>
        \A key \in Owed(token[k].s) :
            \/ Bumping(key) \/ \E f \in unrevoked : f.key = key
            \/ token[k].s.raced \/ token[k].s.lapsed

\* Handle is "idempotent and safe under NATS's at-least-once delivery": once
\* the event is acknowledged, no suspension it made is still without the
\* revocation of the tenant's sessions.
AckedIsRevoked == acked => \A f \in unrevoked : f.op # "billing"
=============================================================================
