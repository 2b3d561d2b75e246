--------------------------- MODULE SessionsProofs ---------------------------
(***************************************************************************)
(* Proofs about sessions, on the server and in the browser: no revoked or  *)
(* superseded session is refreshed, and a tab shows the user its token was *)
(* issued to, for any number of users, tokens, requests, tabs and calls in *)
(* flight and for all lifetimes that leave a request time to finish.       *)
(***************************************************************************)
EXTENDS Sessions, WebSession, TLAPS

\* Most leaves are first-order: Zenon proves them.  Those that need arithmetic cite SMT, with
\* SMTT(30) as a second and longer try; ZenonT(40) gives a leaf more time.
USE Zenon

-----------------------------------------------------------------------------
(* Sessions on the server                                                  *)

\* The generation session s carries for counter k.
Gen(s, k) == IF k = Tenant THEN s.tgen ELSE s.ugen

\* A bump of the counter is under way, or one failed.
Excused(k) == Bumping(k) \/ \E f \in unrevoked : f.key = k

\* The counters a session was bumped under are ahead of it, and none it holds is behind it unless
\* one has expired.
SessionIsSound(s, held) ==
    /\ s.bumped \subseteq held
    /\ \A k \in s.bumped : counter[k].value > Gen(s, k)
    /\ ~s.lapsed => \A k \in held : counter[k].value >= Gen(s, k)

\* Some counter is ahead of the session and stays so for n units of time.
Barred(s, held, n) == \E k \in held : counter[k].value > Gen(s, k) /\ counter[k].ttl >= n

\* Every counter the database owes the session is ahead of it, about to be bumped or failed to be.
Superseded(s) == ~s.raced /\ ~s.lapsed => \A k \in Owed(s) : counter[k].value > Gen(s, k) \/ Excused(k)

\* What holds of a refresh token in Redis: a revoked one is barred for longer than it lives.
TokenIsSound(x) ==
    /\ x.s.user \in Users
    /\ SessionIsSound(x.s, {x.s.user, Tenant})
    /\ x.s.revoked => Barred(x.s, {x.s.user, Tenant}, x.ttl + RefreshTTL - CallSpan)
    /\ Superseded(x.s)

\* The counters whose generation the call has read into its session.
Held(q) == {k \in Keys : HoldsGeneration(q, k)}

\* Which call is where.
OpIsSound(q) ==
    /\ q.pc \in {"user", "ugen", "tgen"} => q.op = "login"
    /\ q.pc = "store" => q.op \in {"login", "refresh"}
    /\ q.pc \in {"del", "checkUser", "checkTenant"} => q.op = "refresh"
    /\ q.pc \in {"suspend", "incr", "expire", "reread"} => q.op \in {"revoke", "suspend", "billing"} /\ q.key \in Keys
    /\ q.pc = "suspend" => q.key = Tenant
    /\ q.pc = "del" => q.tok \in Tokens
    /\ q.pc \in {"user", "ugen", "tgen", "store", "del", "checkUser", "checkTenant"} => q.s.user \in Users

\* What holds of the session in a call: once it is revoked, some counter bars it for longer than
\* the call and the token it may store can last.
RevocationIsSound(q) ==
    /\ SessionIsSound(q.s, Held(q))
    /\ q.s.revoked /\ ~q.late => Barred(q.s, Held(q), 2 * RefreshTTL - CallSpan + q.left)
    /\ q.late => /\ q.pc \in {"del", "checkUser", "checkTenant"}
                 /\ Barred(q.s, IF q.pc = "checkTenant" THEN {Tenant} ELSE Held(q), q.left + 1)

\* What a login owes the counters, and what a refresh was given.
SupportIsSound(q) ==
    /\ q.pc = "user" /\ ~q.s.raced => tenant = "active"
    /\ q.op = "login" /\ q.pc \in {"ugen", "tgen", "store"} /\ ~q.s.raced => Owed(q.s) = {}
    /\ q.op = "refresh" /\ q.pc \in {"store", "del", "checkUser", "checkTenant"} => Superseded(q.s)

\* All that holds of a call.
CallIsSound(q) == OpIsSound(q) /\ RevocationIsSound(q) /\ SupportIsSound(q)

\* The inductive invariant.
SessionsInv ==
    /\ SessionsTypeOK
    /\ \A t \in Tokens : token[t] # NULL => TokenIsSound(token[t])
    /\ \A c \in Calls : CallIsSound(call[c])

-----------------------------------------------------------------------------
\* What the constants are.
LEMMA SessionNumbers ==
    /\ RefreshTTL \in Nat /\ CallSpan \in Nat /\ MaxDeliver \in Nat /\ MaxGrants \in Nat
    /\ 0 < CallSpan /\ 2 * CallSpan <= RefreshTTL /\ 0 \in 0 .. CallSpan /\ CallSpan \in 0 .. CallSpan
    /\ RefreshTTL \in 1 .. RefreshTTL
    /\ Tenant \notin Users /\ NULL \notin Keys /\ NULL \notin Users /\ Tenant # NULL /\ NULL \notin Tokens /\ NULL \notin Stored
    /\ Users \subseteq Keys /\ Tenant \in Keys
    /\ Generations \subseteq Nat /\ 0 \in Generations
    /\ \A k \in Keys, n \in Nat : n <= MaxGeneration[k] => n \in Generations
    /\ \A k \in Keys : MaxGeneration[k] \in Nat
<1>1. /\ RefreshTTL \in Nat /\ CallSpan \in Nat /\ MaxDeliver \in Nat /\ MaxGrants \in Nat
      /\ 0 < CallSpan /\ 2 * CallSpan <= RefreshTTL /\ MaxGeneration \in [Keys -> Nat]
      BY SessionsAssumption
<1>2. /\ Tenant \notin Users /\ NULL \notin Keys /\ NULL \notin Users /\ Tenant # NULL /\ NULL \notin Tokens /\ NULL \notin Stored
      /\ Users \subseteq Keys /\ Tenant \in Keys
      BY SessionsAssumption DEF Keys
<1>3. \A k \in Keys : MaxGeneration[k] \in Nat
      BY <1>1
<1>4. ASSUME NEW k \in Keys, NEW n \in Nat, n <= MaxGeneration[k] PROVE n \in Generations
      BY <1>3, <1>4, SMT, SMTT(30) DEF Generations
<1>5. 0 \in Generations
      BY <1>2, <1>3, <1>4, SMT, SMTT(30)
<1>6. Generations \subseteq Nat
      BY <1>3, SMT, SMTT(30) DEF Generations
<1>q. QED BY <1>1, <1>2, <1>3, <1>4, <1>5, <1>6, SMT, SMTT(30)

\* No session and no request.
LEMMA Empties ==
    /\ NoSession \in Session /\ NoSession.user = NULL /\ NoSession.bumped = {}
    /\ NoSession.revoked = FALSE /\ NoSession.lapsed = FALSE /\ NoSession.raced = FALSE
    /\ Idle \in Request /\ Idle.pc = "idle" /\ Idle.op = "none" /\ Idle.s = NoSession /\ Idle.late = FALSE
    /\ Idle.left = 0 /\ Idle.key = NULL /\ Idle.tok = NULL
<1>1. 0 \in 0 .. MaxGrants
      BY SessionNumbers, SMT, SMTT(30)
<1>2. NoSession \in Session
      BY <1>1, SessionNumbers DEF NoSession, Session
<1>3. /\ NoSession.user = NULL /\ NoSession.bumped = {}
      /\ NoSession.revoked = FALSE /\ NoSession.lapsed = FALSE /\ NoSession.raced = FALSE
      BY DEF NoSession
<1>4. Idle \in Request
      BY <1>2, SessionNumbers DEF Idle, Request
<1>5. /\ Idle.pc = "idle" /\ Idle.op = "none" /\ Idle.s = NoSession /\ Idle.late = FALSE
      /\ Idle.left = 0 /\ Idle.key = NULL /\ Idle.tok = NULL
      BY DEF Idle
<1>q. QED BY <1>2, <1>3, <1>4, <1>5

\* The types of the parts of a session and of a request.
LEMMA SessionFields ==
    ASSUME NEW s \in Session
    PROVE  /\ s.ugen \in Nat /\ s.tgen \in Nat /\ s.bumped \subseteq Keys /\ s.revoked \in BOOLEAN
           /\ s.lapsed \in BOOLEAN /\ s.raced \in BOOLEAN /\ s.user \in Users \union {NULL}
           /\ \A k : Gen(s, k) \in Nat
BY SessionNumbers DEF Session, Gen

\* What Redis holds under a generation key.
LEMMA CounterFields ==
    ASSUME SessionsTypeOK, NEW k \in Keys
    PROVE  counter[k].value \in Nat /\ counter[k].value \in Generations /\ counter[k].ttl \in 0 .. 2 * RefreshTTL
BY SessionNumbers DEF SessionsTypeOK

\* Holding a generation, point by point of the request.
LEMMA HeldKeys ==
    ASSUME NEW q \in Request, q.s.user \in Users
    PROVE  /\ q.pc \in {"store", "del", "checkUser", "checkTenant"} => Held(q) = {q.s.user, Tenant}
           /\ q.pc = "tgen" => Held(q) = {q.s.user}
           /\ q.pc \notin {"store", "del", "checkUser", "checkTenant", "tgen"} => Held(q) = {}
BY SessionNumbers DEF Held, HoldsGeneration, Keys

\* A request with no session is sound whatever the counters are.
LEMMA BlankCall ==
    ASSUME NEW q \in Request, q.s.bumped = {}, q.s.revoked = FALSE, q.late = FALSE, q.pc \notin {"store", "del", "checkUser", "checkTenant", "tgen"}
    PROVE  RevocationIsSound(q)
<1>1. Held(q) = {}
      BY DEF Held, HoldsGeneration
<1>q. QED BY <1>1 DEF RevocationIsSound, SessionIsSound

\* A call that has not begun satisfies everything.
LEMMA IdleIsSound == CallIsSound(Idle)
<1>1. RevocationIsSound(Idle)
      BY Empties, BlankCall
<1>q. QED BY <1>1, Empties DEF CallIsSound, OpIsSound, SupportIsSound

-----------------------------------------------------------------------------
\* A request whose session, counters and rows stay, keeps what holds of it: only more may be excused.
LEMMA CallStays ==
    ASSUME NEW q \in Request, CallIsSound(q), UNCHANGED counter, tenant' = tenant,
           \A k \in Keys : Excused(k) => Excused(k)',
           q.s.user \in Users => Owed(q.s)' \subseteq Owed(q.s),
           q.s.user \in Users => Owed(q.s) \subseteq Keys
    PROVE  CallIsSound(q)'
<1>1. OpIsSound(q)'
      BY DEF CallIsSound, OpIsSound
<1>2. RevocationIsSound(q)'
  <2>1. SessionIsSound(q.s, Held(q))'
        BY DEF CallIsSound, RevocationIsSound, SessionIsSound, Held, HoldsGeneration, Gen
  <2>2. (q.s.revoked /\ ~q.late => Barred(q.s, Held(q), 2 * RefreshTTL - CallSpan + q.left))'
        BY DEF CallIsSound, RevocationIsSound, Barred, Held, HoldsGeneration, Gen
  <2>3. (q.late => /\ q.pc \in {"del", "checkUser", "checkTenant"}
                   /\ Barred(q.s, IF q.pc = "checkTenant" THEN {Tenant} ELSE Held(q), q.left + 1))'
        BY DEF CallIsSound, RevocationIsSound, Barred, Held, HoldsGeneration, Gen
  <2>q. QED BY <2>1, <2>2, <2>3 DEF RevocationIsSound
<1>3. SupportIsSound(q)'
  <2>1. q.pc \in {"user", "ugen", "tgen", "store", "del", "checkUser", "checkTenant"} => q.s.user \in Users
        BY DEF CallIsSound, OpIsSound
  <2>2. (q.op = "refresh" /\ q.pc \in {"store", "del", "checkUser", "checkTenant"} => Superseded(q.s))'
        BY <2>1 DEF CallIsSound, SupportIsSound, Superseded, Gen
  <2>3. (q.op = "login" /\ q.pc \in {"ugen", "tgen", "store"} /\ ~q.s.raced => Owed(q.s) = {})'
        BY <2>1 DEF CallIsSound, SupportIsSound
  <2>4. (q.pc = "user" /\ ~q.s.raced => tenant = "active")'
        BY DEF CallIsSound, SupportIsSound
  <2>q. QED BY <2>2, <2>3, <2>4 DEF SupportIsSound
<1>q. QED BY <1>1, <1>2, <1>3 DEF CallIsSound

\* The same of a stored token.
LEMMA TokenStays ==
    ASSUME NEW x \in Stored, TokenIsSound(x), UNCHANGED counter,
           \A k \in Keys : Excused(k) => Excused(k)',
           Owed(x.s)' \subseteq Owed(x.s), Owed(x.s) \subseteq Keys
    PROVE  TokenIsSound(x)'
<1>1. SessionIsSound(x.s, {x.s.user, Tenant})' /\ (x.s.user \in Users)'
      BY DEF TokenIsSound, SessionIsSound, Gen
<1>2. (x.s.revoked => Barred(x.s, {x.s.user, Tenant}, x.ttl + RefreshTTL - CallSpan))'
      BY DEF TokenIsSound, Barred, Gen
<1>3. Superseded(x.s)'
      BY DEF TokenIsSound, Superseded, Gen
<1>q. QED BY <1>1, <1>2, <1>3 DEF TokenIsSound

\* What a step has to show that leaves the counters and takes nothing back that a session was promised.
LEMMA AllKept ==
    ASSUME SessionsInv, call' \in [Calls -> Request],
           \A d \in Calls : \E p \in Request : call'[d] = p /\ CallIsSound(p),
           \A k \in Keys : Excused(k) => Excused(k)',
           token' \in [Tokens -> Stored \union {NULL}],
           \A t \in Tokens : token'[t] \in {NULL, token[t]} \/ \E x \in Stored : token'[t] = x /\ TokenIsSound(x),
           UNCHANGED counter, tenant' = tenant,
           \A u \in Users : \/ user'[u] = user[u]
                            \/ user'[u].status = "active" /\ user'[u].grant = user[u].grant,
           user' \in [Users -> [status: {"none", "active", "deactivated"}, grant: 0 .. MaxGrants]],
           deliveries' \in 0 .. MaxDeliver, acked' \in BOOLEAN,
           unrevoked' \subseteq [key: Keys, op: {"revoke", "suspend", "billing"}]
    PROVE  SessionsInv'
<1>0. SessionsTypeOK
      BY DEF SessionsInv
<1>1. SessionsTypeOK'
      BY <1>0 DEF SessionsTypeOK
<1>2. ASSUME NEW s \in Session, s.user \in Users PROVE Owed(s)' \subseteq Owed(s) /\ Owed(s) \subseteq Keys
      BY <1>2, SessionNumbers DEF Owed
<1>3. ASSUME NEW t \in Tokens, token'[t] # NULL PROVE TokenIsSound(token[t])'
  <2>1. PICK x \in Stored : token'[t] = x /\ TokenIsSound(x)
    <3>1. CASE token'[t] = token[t]
          BY <1>0, <1>3, <3>1 DEF SessionsTypeOK, SessionsInv
    <3>q. QED BY <1>3, <3>1
  <2>2. x.s \in Session /\ x.s.user \in Users
        BY <2>1 DEF TokenIsSound, Stored
  <2>3. TokenIsSound(x)'
        BY <1>2, <2>1, <2>2, TokenStays
  <2>q. QED BY <2>1, <2>3
<1>4. ASSUME NEW d \in Calls PROVE CallIsSound(call[d])'
  <2>1. PICK p \in Request : call'[d] = p /\ CallIsSound(p)
        OBVIOUS
  <2>2. p.s \in Session
        BY DEF Request
  <2>3. CallIsSound(p)'
        BY <1>2, <2>1, <2>2, CallStays
  <2>q. QED BY <2>1, <2>3
<1>q. QED BY <1>1, <1>3, <1>4 DEF SessionsInv

\* The same for a step of one request.
LEMMA OneCallKeeps ==
    ASSUME SessionsInv, NEW c \in Calls, NEW q \in Request, call' = [call EXCEPT ![c] = q], CallIsSound(q),
           token' \in [Tokens -> Stored \union {NULL}],
           \A t \in Tokens : token'[t] \in {NULL, token[t]} \/ \E x \in Stored : token'[t] = x /\ TokenIsSound(x),
           UNCHANGED counter, tenant' = tenant,
           \A u \in Users : \/ user'[u] = user[u]
                            \/ user'[u].status = "active" /\ user'[u].grant = user[u].grant,
           user' \in [Users -> [status: {"none", "active", "deactivated"}, grant: 0 .. MaxGrants]],
           deliveries' \in 0 .. MaxDeliver, acked' \in BOOLEAN,
           unrevoked' \subseteq [key: Keys, op: {"revoke", "suspend", "billing"}], unrevoked \subseteq unrevoked',
           call[c].pc = "incr" => \E f \in unrevoked' : f.key = call[c].key
    PROVE  SessionsInv'
<1>0. SessionsTypeOK
      BY DEF SessionsInv
<1>1. call'[c] = q /\ (\A d \in Calls \ {c} : call'[d] = call[d]) /\ call' \in [Calls -> Request]
      BY <1>0 DEF SessionsTypeOK
<1>2. ASSUME NEW k \in Keys, Excused(k) PROVE Excused(k)'
  <2>1. CASE \E f \in unrevoked : f.key = k
        BY <2>1 DEF Excused
  <2>2. CASE Bumping(k)
    <3>1. PICK d \in Calls : call[d].key = k /\ call[d].pc = "incr"
          BY <2>2 DEF Bumping
    <3>2. CASE d = c
          BY <3>1, <3>2 DEF Excused
    <3>3. CASE d # c
      <4>1. call'[d] = call[d]
            BY <1>1, <3>3
      <4>2. Bumping(k)'
            BY <3>1, <4>1 DEF Bumping
      <4>q. QED BY <4>2 DEF Excused
    <3>q. QED BY <3>2, <3>3
  <2>q. QED BY <1>2, <2>1, <2>2 DEF Excused
<1>3. \A d \in Calls : \E p \in Request : call'[d] = p /\ CallIsSound(p)
      BY <1>0, <1>1 DEF SessionsTypeOK, SessionsInv
<1>q. QED BY <1>1, <1>2, <1>3, AllKept

\* A request that ends, with or without an error: a bump that was still to come is remembered.
LEMMA CallEnds ==
    ASSUME SessionsInv, NEW c \in Calls, call' = [call EXCEPT ![c] = Idle],
           UNCHANGED <<counter, token, user, tenant, deliveries>>, acked' \in BOOLEAN,
           unrevoked' = IF call[c].pc # "incr" THEN unrevoked
                        ELSE unrevoked \union {[key |-> call[c].key, op |-> call[c].op]}
    PROVE  SessionsInv'
<1>0. SessionsTypeOK /\ CallIsSound(call[c])
      BY DEF SessionsInv
<1>1. Idle \in Request /\ CallIsSound(Idle)
      BY Empties, IdleIsSound
<1>2. CASE call[c].pc # "incr"
  <2>1. /\ unrevoked' \subseteq [key: Keys, op: {"revoke", "suspend", "billing"}] /\ unrevoked \subseteq unrevoked'
        /\ call[c].pc # "incr" /\ UNCHANGED counter /\ tenant' = tenant /\ user' = user
        /\ token' \in [Tokens -> Stored \union {NULL}] /\ (\A t \in Tokens : token'[t] = token[t])
        /\ user' \in [Users -> [status: {"none", "active", "deactivated"}, grant: 0 .. MaxGrants]]
        /\ deliveries' \in 0 .. MaxDeliver
        BY <1>0, <1>2 DEF SessionsTypeOK
  <2>q. QED BY <1>1, <2>1, OneCallKeeps
<1>3. CASE call[c].pc = "incr"
  <2>1. PICK f : f = [key |-> call[c].key, op |-> call[c].op]
        OBVIOUS
  <2>2. f \in [key: Keys, op: {"revoke", "suspend", "billing"}] /\ f.key = call[c].key
        BY <1>0, <1>3, <2>1 DEF CallIsSound, OpIsSound
  <2>3. /\ unrevoked' \subseteq [key: Keys, op: {"revoke", "suspend", "billing"}] /\ unrevoked \subseteq unrevoked'
        /\ (\E g \in unrevoked' : g.key = call[c].key) /\ UNCHANGED counter /\ tenant' = tenant /\ user' = user
        /\ token' \in [Tokens -> Stored \union {NULL}] /\ (\A t \in Tokens : token'[t] = token[t])
        /\ user' \in [Users -> [status: {"none", "active", "deactivated"}, grant: 0 .. MaxGrants]]
        /\ deliveries' \in 0 .. MaxDeliver
        BY <1>0, <1>3, <2>1, <2>2 DEF SessionsTypeOK
  <2>q. QED BY <1>1, <2>3, OneCallKeeps
<1>q. QED BY <1>2, <1>3

\* A request that is not about to bump moves, and nothing else changes.
LEMMA CallMoves ==
    ASSUME SessionsInv, NEW c \in Calls, call[c].pc # "incr", NEW q \in Request, call' = [call EXCEPT ![c] = q], CallIsSound(q),
           UNCHANGED <<counter, token, user, tenant, unrevoked>>, acked' \in BOOLEAN, deliveries' \in 0 .. MaxDeliver
    PROVE  SessionsInv'
<1>1. /\ unrevoked' \subseteq [key: Keys, op: {"revoke", "suspend", "billing"}] /\ unrevoked \subseteq unrevoked'
      /\ UNCHANGED counter /\ tenant' = tenant /\ user' = user
      /\ token' \in [Tokens -> Stored \union {NULL}] /\ (\A t \in Tokens : token'[t] = token[t])
      /\ user' \in [Users -> [status: {"none", "active", "deactivated"}, grant: 0 .. MaxGrants]]
      BY DEF SessionsTypeOK, SessionsInv
<1>q. QED BY <1>1, OneCallKeeps

\* Login reads the tenant, then the user: what the rows say is what the session stands for.
LEMMA LoginKeeps ==
    ASSUME SessionsInv, NEW c \in Calls, NEW u \in Users, LoginTenant(c, u) \/ LoginUser(c)
    PROVE  SessionsInv'
<1>0. SessionsTypeOK /\ CallIsSound(call[c]) /\ deliveries \in 0 .. MaxDeliver /\ acked \in BOOLEAN
      BY DEF SessionsInv, SessionsTypeOK
<1>1. CASE LoginTenant(c, u)
  <2>1. PICK s : s = [NoSession EXCEPT !.user = u]
        OBVIOUS
  <2>2. s \in Session /\ s.user = u /\ s.bumped = {} /\ s.revoked = FALSE /\ s.raced = FALSE
        BY <2>1, Empties DEF Session
  <2>3. PICK q : q = [Idle EXCEPT !.pc = "user", !.op = "login", !.left = CallSpan, !.s = s]
        OBVIOUS
  <2>4. q \in Request /\ q.pc = "user" /\ q.op = "login" /\ q.s = s /\ q.late = FALSE
        BY <2>2, <2>3, Empties, SessionNumbers DEF Request
  <2>5. RevocationIsSound(q)
        BY <2>2, <2>4, BlankCall
  <2>6. CallIsSound(q)
        BY <1>1, <2>2, <2>4, <2>5 DEF CallIsSound, OpIsSound, SupportIsSound, LoginTenant
  <2>7. call[c].pc # "incr" /\ call' = [call EXCEPT ![c] = q] /\ UNCHANGED <<counter, token, user, tenant, unrevoked, acked, deliveries>>
        BY <1>1, <2>1, <2>3 DEF LoginTenant, iamVars, busVars
  <2>q. QED BY <1>0, <2>4, <2>6, <2>7, CallMoves
<1>2. CASE LoginUser(c)
  <2>0. /\ call[c].pc = "user" /\ call[c] \in Request /\ call[c].s \in Session /\ call[c].s.user \in Users /\ call[c].op = "login"
        /\ UNCHANGED <<counter, token, user, tenant, unrevoked, acked, deliveries>>
        BY <1>0, <1>2 DEF LoginUser, CallIsSound, OpIsSound, SessionsTypeOK, Request, iamVars, busVars
  <2>1. CASE user[call[c].s.user].status # "active"
    <3>1. call' = [call EXCEPT ![c] = Idle]
          BY <1>2, <2>1 DEF LoginUser
    <3>q. QED BY <1>0, <2>0, <3>1, CallEnds
  <2>2. CASE user[call[c].s.user].status = "active"
    <3>1. PICK s : s = [call[c].s EXCEPT !.grant = user[call[c].s.user].grant]
          OBVIOUS
    <3>2. user[call[c].s.user].grant \in 0 .. MaxGrants
          BY <1>0, <2>0 DEF SessionsTypeOK
    <3>3. /\ s \in Session /\ s.user = call[c].s.user /\ s.bumped = call[c].s.bumped /\ s.revoked = call[c].s.revoked
          /\ s.raced = call[c].s.raced /\ s.grant = user[call[c].s.user].grant
          BY <2>0, <3>1, <3>2 DEF Session
    <3>4. PICK q : q = [call[c] EXCEPT !.pc = "ugen", !.s = s]
          OBVIOUS
    <3>5. q \in Request /\ q.pc = "ugen" /\ q.op = "login" /\ q.s = s /\ q.late = call[c].late
          BY <2>0, <3>3, <3>4 DEF Request
    <3>6. Held(call[c]) = {}
          BY <2>0, HeldKeys
    <3>7. s.bumped = {} /\ q.late = FALSE /\ s.revoked = FALSE
      <4>1. call[c].late \in BOOLEAN /\ call[c].s.revoked \in BOOLEAN /\ call[c].s.bumped = {} /\ ~call[c].late
            BY <1>0, <2>0, <3>6 DEF CallIsSound, RevocationIsSound, SessionIsSound, Request, Session
      <4>2. ~call[c].s.revoked
            BY <1>0, <3>6, <4>1 DEF CallIsSound, RevocationIsSound, Barred
      <4>q. QED BY <3>3, <3>5, <4>1, <4>2
    <3>8. RevocationIsSound(q)
          BY <3>5, <3>7, BlankCall
    <3>9. ~s.raced => Owed(s) = {}
      <4>1. ~s.raced => tenant = "active"
            BY <1>0, <2>0, <3>3 DEF CallIsSound, SupportIsSound
      <4>q. QED BY <2>2, <3>3, <4>1 DEF Owed
    <3>10. CallIsSound(q)
          BY <2>0, <3>3, <3>5, <3>8, <3>9 DEF CallIsSound, OpIsSound, SupportIsSound
    <3>11. call' = [call EXCEPT ![c] = q]
      <4>1. q = [call[c] EXCEPT !.pc = "ugen", !.s.grant = user[call[c].s.user].grant]
            BY <2>0, <3>1, <3>4 DEF Request
      <4>q. QED BY <1>2, <2>2, <4>1 DEF LoginUser
    <3>q. QED BY <1>0, <2>0, <3>5, <3>10, <3>11, CallMoves
  <2>q. QED BY <2>1, <2>2
<1>q. QED BY <1>1, <1>2

\* AcceptInvitation: the new user's session has the grant of the row, and did not see the tenant's status.
LEMMA AcceptKeeps ==
    ASSUME SessionsInv, NEW c \in Calls, NEW u \in Users, AcceptInvitation(c, u)
    PROVE  SessionsInv'
<1>0. SessionsTypeOK /\ user[u] \in [status: {"none", "active", "deactivated"}, grant: 0 .. MaxGrants]
      BY DEF SessionsInv, SessionsTypeOK
<1>1. PICK s : s = [NoSession EXCEPT !.user = u, !.grant = user[u].grant, !.raced = (tenant # "active")]
      OBVIOUS
<1>2. s \in Session /\ s.user = u /\ s.grant = user[u].grant /\ s.bumped = {} /\ s.revoked = FALSE /\ (s.raced <=> tenant # "active")
  <2>1. (tenant # "active") \in BOOLEAN
        OBVIOUS
  <2>q. QED BY <1>0, <1>1, <2>1, Empties DEF Session
<1>3. PICK q : q = [Idle EXCEPT !.pc = "ugen", !.op = "login", !.left = CallSpan, !.s = s]
      OBVIOUS
<1>4. q \in Request /\ q.pc = "ugen" /\ q.op = "login" /\ q.s = s /\ q.late = FALSE
      BY <1>2, <1>3, Empties, SessionNumbers DEF Request
<1>5. RevocationIsSound(q)
      BY <1>2, <1>4, BlankCall
<1>6. ~s.raced => Owed(s) = {}
      BY <1>2 DEF Owed, AcceptInvitation
<1>7. CallIsSound(q)
      BY <1>2, <1>4, <1>5, <1>6 DEF CallIsSound, OpIsSound, SupportIsSound
<1>8. call' = [call EXCEPT ![c] = q] /\ call[c].pc # "incr"
      BY <1>1, <1>3 DEF AcceptInvitation
<1>9. /\ UNCHANGED counter /\ tenant' = tenant /\ (\A t \in Tokens : token'[t] = token[t])
      /\ token' \in [Tokens -> Stored \union {NULL}] /\ deliveries' \in 0 .. MaxDeliver /\ acked' \in BOOLEAN
      /\ unrevoked' \subseteq [key: Keys, op: {"revoke", "suspend", "billing"}] /\ unrevoked \subseteq unrevoked'
      BY <1>0 DEF AcceptInvitation, SessionsTypeOK, busVars
<1>10. PICK row : row = [user[u] EXCEPT !.status = "active"]
      OBVIOUS
<1>11. row \in [status: {"none", "active", "deactivated"}, grant: 0 .. MaxGrants] /\ row.status = "active" /\ row.grant = user[u].grant
      BY <1>0, <1>10
<1>12. user' = [user EXCEPT ![u] = row]
      BY <1>10 DEF AcceptInvitation
<1>13. /\ user' \in [Users -> [status: {"none", "active", "deactivated"}, grant: 0 .. MaxGrants]]
       /\ \A v \in Users : user'[v] = user[v] \/ (user'[v].status = "active" /\ user'[v].grant = user[v].grant)
      BY <1>0, <1>11, <1>12 DEF SessionsTypeOK
<1>q. QED BY <1>4, <1>7, <1>8, <1>9, <1>13, OneCallKeeps

\* JWTIssuer.Issue reads the generations: a session is never ahead of a counter it has read.
LEMMA IssueReadKeeps ==
    ASSUME SessionsInv, NEW c \in Calls, IssueReadUser(c) \/ IssueReadTenant(c)
    PROVE  SessionsInv'
<1>0. /\ SessionsTypeOK /\ CallIsSound(call[c]) /\ deliveries \in 0 .. MaxDeliver /\ acked \in BOOLEAN
      /\ call[c] \in Request /\ call[c].s \in Session
      BY DEF SessionsInv, SessionsTypeOK, Request
<1>1. PICK p \in Request : p = call[c]
      BY <1>0
<1>2. /\ p.s.user \in Users /\ p.op = "login" /\ p.pc \in {"ugen", "tgen"} /\ ~p.late /\ CallIsSound(p) /\ p.s \in Session
      /\ UNCHANGED <<counter, token, user, tenant, unrevoked, acked, deliveries>>
      BY <1>0, <1>1 DEF IssueReadUser, IssueReadTenant, CallIsSound, OpIsSound, RevocationIsSound, iamVars, busVars
<1>3. PICK u \in Users : u = p.s.user
      BY <1>2
<1>4. u \in Keys /\ Tenant \in Keys /\ u # Tenant /\ counter[u].value \in Generations /\ counter[Tenant].value \in Generations
      BY <1>0, CounterFields, SessionNumbers
<1>5. counter[u].value \in Nat /\ counter[Tenant].value \in Nat
      BY <1>4, SessionNumbers
<1>6. p.late = FALSE
      BY <1>2 DEF Request
<1>7. CASE IssueReadUser(c)
  <2>0. p.pc = "ugen" /\ Held(p) = {}
        BY <1>1, <1>2, <1>7, HeldKeys DEF IssueReadUser
  <2>1. p.s.bumped = {} /\ ~p.s.revoked
        BY <1>2, <2>0 DEF CallIsSound, RevocationIsSound, SessionIsSound, Barred
  <2>2. PICK s : s = [p.s EXCEPT !.ugen = counter[u].value]
        OBVIOUS
  <2>3. /\ s \in Session /\ s.user = u /\ s.bumped = {} /\ s.revoked = p.s.revoked /\ s.raced = p.s.raced
        /\ s.grant = p.s.grant /\ s.ugen = counter[u].value
        BY <1>2, <1>3, <1>4, <2>1, <2>2 DEF Session
  <2>4. PICK q : q = [p EXCEPT !.pc = "tgen", !.s = s]
        OBVIOUS
  <2>5. q \in Request /\ q.pc = "tgen" /\ q.op = "login" /\ q.s = s /\ q.late = p.late
        BY <1>2, <2>3, <2>4 DEF Request
  <2>6. Held(q) = {u}
        BY <2>3, <2>5, HeldKeys
  <2>7. SessionIsSound(s, {u})
        BY <1>4, <1>5, <2>3, SMT, SMTT(30) DEF SessionIsSound, Gen
  <2>8. RevocationIsSound(q)
        BY <1>6, <2>1, <2>3, <2>5, <2>6, <2>7 DEF RevocationIsSound
  <2>9. ~s.raced => Owed(s) = {}
        BY <1>2, <1>3, <2>0, <2>3 DEF CallIsSound, SupportIsSound, Owed
  <2>10. CallIsSound(q)
        BY <2>3, <2>5, <2>8, <2>9 DEF CallIsSound, OpIsSound, SupportIsSound
  <2>11. call' = [call EXCEPT ![c] = q]
    <3>1. q = [p EXCEPT !.pc = "tgen", !.s.ugen = counter[u].value]
          BY <2>2, <2>4 DEF Request
    <3>q. QED BY <1>1, <1>3, <1>7, <3>1 DEF IssueReadUser
  <2>q. QED BY <1>0, <1>1, <1>2, <2>0, <2>5, <2>10, <2>11, CallMoves
<1>8. CASE IssueReadTenant(c)
  <2>0. p.pc = "tgen" /\ Held(p) = {u}
        BY <1>1, <1>2, <1>3, <1>8, HeldKeys DEF IssueReadTenant
  <2>2. PICK s : s = [p.s EXCEPT !.tgen = counter[Tenant].value]
        OBVIOUS
  <2>3. /\ s \in Session /\ s.user = u /\ s.bumped = p.s.bumped /\ s.revoked = p.s.revoked /\ s.raced = p.s.raced
        /\ s.grant = p.s.grant /\ s.ugen = p.s.ugen /\ s.tgen = counter[Tenant].value /\ s.lapsed = p.s.lapsed
        BY <1>2, <1>3, <1>4, <2>2 DEF Session
  <2>4. PICK q : q = [p EXCEPT !.pc = "store", !.s = s]
        OBVIOUS
  <2>5. q \in Request /\ q.pc = "store" /\ q.op = "login" /\ q.s = s /\ q.late = p.late /\ q.left = p.left
        BY <1>2, <2>3, <2>4 DEF Request
  <2>6. Held(q) = {u, Tenant}
        BY <2>3, <2>5, HeldKeys
  <2>6a. Gen(s, u) = Gen(p.s, u) /\ Gen(s, Tenant) = counter[Tenant].value
        BY <1>4, <2>3 DEF Gen
  <2>7. SessionIsSound(s, {u, Tenant})
    <3>1. SessionIsSound(p.s, {u})
          BY <1>2, <2>0 DEF CallIsSound, RevocationIsSound
    <3>q. QED BY <1>5, <2>3, <2>6a, <3>1, SMT, SMTT(30) DEF SessionIsSound
  <2>8. RevocationIsSound(q)
    <3>1. p.s.revoked => Barred(p.s, {u}, 2 * RefreshTTL - CallSpan + p.left)
          BY <1>2, <2>0 DEF CallIsSound, RevocationIsSound
    <3>2. s.revoked => Barred(s, {u, Tenant}, 2 * RefreshTTL - CallSpan + q.left)
          BY <2>3, <2>5, <2>6a, <3>1 DEF Barred
    <3>q. QED BY <1>6, <2>5, <2>6, <2>7, <3>2 DEF RevocationIsSound
  <2>9. ~s.raced => Owed(s) = {}
        BY <1>2, <1>3, <2>0, <2>3 DEF CallIsSound, SupportIsSound, Owed
  <2>10. CallIsSound(q)
        BY <2>3, <2>5, <2>8, <2>9 DEF CallIsSound, OpIsSound, SupportIsSound
  <2>11. call' = [call EXCEPT ![c] = q]
    <3>1. q = [p EXCEPT !.pc = "store", !.s.tgen = counter[Tenant].value]
          BY <2>2, <2>4 DEF Request
    <3>q. QED BY <1>1, <1>8, <3>1 DEF IssueReadTenant
  <2>q. QED BY <1>0, <1>1, <1>2, <2>0, <2>5, <2>10, <2>11, CallMoves
<1>q. QED BY <1>7, <1>8

\* issueWithGeneration: a counter that bars the session outlives the new token and the request that presents it.
LEMMA IssueStoreKeeps ==
    ASSUME SessionsInv, NEW c \in Calls, NEW k \in Tokens, IssueStore(c, k)
    PROVE  SessionsInv'
<1>0. SessionsTypeOK /\ call[c] \in Request
      BY DEF SessionsInv, SessionsTypeOK
<1>1. PICK p \in Request : p = call[c]
      BY <1>0
<1>2. p.pc = "store" /\ CallIsSound(p) /\ p.s \in Session /\ p.s.user \in Users /\ p.op \in {"login", "refresh"} /\ ~p.late /\ p.left \in Nat
      BY <1>1, SMT, SMTT(30) DEF IssueStore, SessionsInv, CallIsSound, OpIsSound, RevocationIsSound, Request
<1>3. Held(p) = {p.s.user, Tenant}
      BY <1>2, HeldKeys
<1>4. PICK x : x = [ttl |-> RefreshTTL, s |-> p.s]
      OBVIOUS
<1>5. x \in Stored /\ x.ttl = RefreshTTL /\ x.s = p.s
      BY <1>2, <1>4, SessionNumbers DEF Stored
<1>6. p.s.revoked => Barred(p.s, {p.s.user, Tenant}, RefreshTTL + RefreshTTL - CallSpan)
  <2>1. p.s.revoked => Barred(p.s, {p.s.user, Tenant}, 2 * RefreshTTL - CallSpan + p.left)
        BY <1>2, <1>3 DEF CallIsSound, RevocationIsSound
  <2>2. \A j \in {p.s.user, Tenant} : counter[j].ttl \in Nat
        BY <1>0, <1>2, CounterFields, SessionNumbers, SMT, SMTT(30)
  <2>3. \A n \in Nat : n >= 2 * RefreshTTL - CallSpan + p.left => n >= RefreshTTL + RefreshTTL - CallSpan
        BY <1>2, SessionNumbers, SMT, SMTT(30)
  <2>q. QED BY <2>1, <2>2, <2>3 DEF Barred
<1>7. Superseded(p.s)
      BY <1>2 DEF CallIsSound, SupportIsSound, Superseded
<1>8. TokenIsSound(x)
      BY <1>2, <1>3, <1>5, <1>6, <1>7 DEF TokenIsSound, CallIsSound, RevocationIsSound
<1>9. call' = [call EXCEPT ![c] = Idle] /\ token' = [token EXCEPT ![k] = x] /\ call[c].pc # "incr"
      BY <1>1, <1>2, <1>4 DEF IssueStore
<1>10. /\ token' \in [Tokens -> Stored \union {NULL}] /\ token'[k] = x /\ \A t \in Tokens \ {k} : token'[t] = token[t]
      BY <1>0, <1>5, <1>9 DEF SessionsTypeOK
<1>11. /\ unrevoked' \subseteq [key: Keys, op: {"revoke", "suspend", "billing"}] /\ unrevoked \subseteq unrevoked'
      /\ UNCHANGED counter /\ tenant' = tenant /\ user' = user
      /\ user' \in [Users -> [status: {"none", "active", "deactivated"}, grant: 0 .. MaxGrants]]
      /\ deliveries' \in 0 .. MaxDeliver /\ acked' \in BOOLEAN
      BY <1>0 DEF SessionsTypeOK, IssueStore, iamVars, busVars
<1>q. QED BY <1>5, <1>8, <1>9, <1>10, <1>11, Empties, IdleIsSound, OneCallKeeps

\* consumeRefreshToken: a session revoked by now is barred for as long as the refresh may take.
LEMMA RefreshGetKeeps ==
    ASSUME SessionsInv, NEW c \in Calls, NEW k \in Tokens, RefreshGet(c, k)
    PROVE  SessionsInv'
<1>0. /\ SessionsTypeOK /\ deliveries \in 0 .. MaxDeliver /\ acked \in BOOLEAN
      BY DEF SessionsInv, SessionsTypeOK
<1>1. PICK x \in Stored : x = token[k]
      BY <1>0 DEF SessionsTypeOK, RefreshGet
<1>2. TokenIsSound(x) /\ x.s \in Session /\ x.ttl \in 1 .. RefreshTTL /\ x.s.user \in Users
      BY <1>1, SessionNumbers DEF SessionsInv, TokenIsSound, Stored, RefreshGet
<1>3. PICK q : q = [Idle EXCEPT !.pc = "del", !.op = "refresh", !.tok = k, !.left = CallSpan, !.s = x.s, !.late = x.s.revoked]
      OBVIOUS
<1>4. q \in Request /\ q.pc = "del" /\ q.op = "refresh" /\ q.tok = k /\ q.left = CallSpan /\ q.s = x.s /\ q.late = x.s.revoked
      BY <1>2, <1>3, Empties, SessionNumbers, SessionFields DEF Request
<1>5. Held(q) = {x.s.user, Tenant}
      BY <1>2, <1>4, HeldKeys
<1>6. x.s.revoked => Barred(x.s, {x.s.user, Tenant}, CallSpan + 1)
  <2>1. x.s.revoked => Barred(x.s, {x.s.user, Tenant}, x.ttl + RefreshTTL - CallSpan)
        BY <1>2 DEF TokenIsSound
  <2>2. \A j \in {x.s.user, Tenant} : counter[j].ttl \in Nat
        BY <1>0, <1>2, CounterFields, SessionNumbers, SMT, SMTT(30)
  <2>3. \A n \in Nat : n >= x.ttl + RefreshTTL - CallSpan => n >= CallSpan + 1
        BY <1>2, SessionNumbers, SMT, SMTT(30)
  <2>q. QED BY <2>1, <2>2, <2>3 DEF Barred
<1>7. RevocationIsSound(q)
  <2>1. SessionIsSound(q.s, Held(q))
        BY <1>2, <1>4, <1>5 DEF TokenIsSound
  <2>q. QED BY <1>4, <1>5, <1>6, <2>1 DEF RevocationIsSound
<1>8. CallIsSound(q)
      BY <1>2, <1>4, <1>7 DEF CallIsSound, OpIsSound, SupportIsSound, TokenIsSound
<1>9. call' = [call EXCEPT ![c] = q] /\ call[c].pc # "incr" /\ UNCHANGED <<counter, token, user, tenant, unrevoked, acked, deliveries>>
      BY <1>1, <1>3 DEF RefreshGet, iamVars, busVars
<1>q. QED BY <1>0, <1>4, <1>8, <1>9, CallMoves

\* DEL: only the token goes.
LEMMA RefreshDelKeeps ==
    ASSUME SessionsInv, NEW c \in Calls, RefreshDel(c)
    PROVE  SessionsInv'
<1>0. /\ SessionsTypeOK /\ call[c] \in Request
      BY DEF SessionsInv, SessionsTypeOK
<1>1. PICK p \in Request : p = call[c]
      BY <1>0
<1>2. p.pc = "del" /\ CallIsSound(p) /\ p.s \in Session /\ p.s.user \in Users /\ p.op = "refresh" /\ p.tok \in Tokens
      BY <1>1 DEF RefreshDel, SessionsInv, CallIsSound, OpIsSound, Request
<1>3. PICK q : q = [p EXCEPT !.pc = "checkUser", !.tok = NULL]
      OBVIOUS
<1>4. q \in Request /\ q.pc = "checkUser" /\ q.op = "refresh" /\ q.left = p.left /\ q.s = p.s /\ q.late = p.late
      BY <1>2, <1>3 DEF Request
<1>5. Held(q) = Held(p)
      BY <1>2, <1>4, HeldKeys
<1>6. RevocationIsSound(q)
      BY <1>2, <1>4, <1>5 DEF RevocationIsSound, CallIsSound
<1>7. CallIsSound(q)
      BY <1>2, <1>4, <1>6 DEF CallIsSound, OpIsSound, SupportIsSound
<1>8. call' = [call EXCEPT ![c] = q] /\ call[c].pc # "incr" /\ token' = [token EXCEPT ![p.tok] = NULL]
      BY <1>1, <1>2, <1>3 DEF RefreshDel
<1>9. token' \in [Tokens -> Stored \union {NULL}] /\ \A t \in Tokens : token'[t] \in {NULL, token[t]}
      BY <1>0, <1>2, <1>8 DEF SessionsTypeOK
<1>10. /\ unrevoked' \subseteq [key: Keys, op: {"revoke", "suspend", "billing"}] /\ unrevoked \subseteq unrevoked'
      /\ UNCHANGED counter /\ tenant' = tenant /\ user' = user
      /\ user' \in [Users -> [status: {"none", "active", "deactivated"}, grant: 0 .. MaxGrants]]
      /\ deliveries' \in 0 .. MaxDeliver /\ acked' \in BOOLEAN
      BY <1>0 DEF SessionsTypeOK, RefreshDel, iamVars, busVars
<1>q. QED BY <1>4, <1>7, <1>8, <1>9, <1>10, OneCallKeeps

\* The two comparisons of Refresh: the counter that bars a session stops it at its own comparison.
LEMMA RefreshReadKeeps ==
    ASSUME SessionsInv, NEW c \in Calls, RefreshReadUser(c) \/ RefreshReadTenant(c)
    PROVE  SessionsInv'
<1>0. /\ SessionsTypeOK /\ call[c] \in Request /\ deliveries \in 0 .. MaxDeliver /\ acked \in BOOLEAN
      BY DEF SessionsInv, SessionsTypeOK
<1>1. PICK p \in Request : p = call[c]
      BY <1>0
<1>2. /\ p.pc \in {"checkUser", "checkTenant"} /\ CallIsSound(p) /\ p.s \in Session /\ p.s.user \in Users /\ p.op = "refresh"
      /\ UNCHANGED <<counter, token, user, tenant, unrevoked, acked, deliveries>> /\ p.late \in BOOLEAN /\ p.left \in Nat
      BY <1>1, SMT, SMTT(30) DEF RefreshReadUser, RefreshReadTenant, SessionsInv, CallIsSound, OpIsSound, Request, iamVars, busVars
<1>3. CASE call' = [call EXCEPT ![c] = Idle]
      BY <1>0, <1>1, <1>2, <1>3, CallEnds
<1>4. Held(p) = {p.s.user, Tenant} /\ p.s.user # Tenant
      BY <1>2, HeldKeys, SessionNumbers
<1>5. \A j \in {p.s.user, Tenant} : counter[j].value \in Nat /\ Gen(p.s, j) \in Nat
      BY <1>0, <1>2, CounterFields, SessionNumbers, SessionFields
<1>6. Gen(p.s, p.s.user) = p.s.ugen /\ Gen(p.s, Tenant) = p.s.tgen
      BY <1>4 DEF Gen
<1>7. CASE RefreshReadUser(c) /\ counter[p.s.user].value = p.s.ugen
  <2>1. PICK q : q = [p EXCEPT !.pc = "checkTenant"]
        OBVIOUS
  <2>2. q \in Request /\ q.pc = "checkTenant" /\ q.op = "refresh" /\ q.left = p.left /\ q.s = p.s /\ q.late = p.late
        BY <1>2, <2>1 DEF Request
  <2>3. Held(q) = Held(p)
        BY <1>2, <1>4, <2>2, HeldKeys
  <2>4. p.late => Barred(p.s, {Tenant}, p.left + 1)
    <3>1. p.pc = "checkUser"
          BY <1>1, <1>7 DEF RefreshReadUser
    <3>2. p.late => Barred(p.s, {p.s.user, Tenant}, p.left + 1)
          BY <1>2, <1>4, <3>1 DEF CallIsSound, RevocationIsSound
    <3>q. QED BY <1>5, <1>6, <1>7, <3>2, SMT, SMTT(30) DEF Barred
  <2>5. RevocationIsSound(q)
        BY <1>2, <2>2, <2>3, <2>4 DEF RevocationIsSound, CallIsSound
  <2>6. CallIsSound(q)
        BY <1>2, <2>2, <2>5 DEF CallIsSound, OpIsSound, SupportIsSound
  <2>7. call' = [call EXCEPT ![c] = q]
        BY <1>1, <1>7, <2>1 DEF RefreshReadUser
  <2>q. QED BY <1>0, <1>1, <1>2, <2>2, <2>6, <2>7, CallMoves
<1>8. CASE RefreshReadTenant(c) /\ counter[Tenant].value = p.s.tgen
  <2>1. PICK q : q = [p EXCEPT !.pc = "store"]
        OBVIOUS
  <2>2. q \in Request /\ q.pc = "store" /\ q.op = "refresh" /\ q.left = p.left /\ q.s = p.s /\ q.late = p.late
        BY <1>2, <2>1 DEF Request
  <2>3. Held(q) = Held(p)
        BY <1>2, <1>4, <2>2, HeldKeys
  <2>4. ~p.late
    <3>1. p.pc = "checkTenant"
          BY <1>1, <1>8 DEF RefreshReadTenant
    <3>2. p.late => Barred(p.s, {Tenant}, p.left + 1)
          BY <1>2, <3>1 DEF CallIsSound, RevocationIsSound
    <3>q. QED BY <1>5, <1>6, <1>8, <3>2, SMT, SMTT(30) DEF Barred
  <2>5. RevocationIsSound(q)
        BY <1>2, <2>2, <2>3, <2>4 DEF RevocationIsSound, CallIsSound
  <2>6. CallIsSound(q)
        BY <1>2, <2>2, <2>5 DEF CallIsSound, OpIsSound, SupportIsSound
  <2>7. call' = [call EXCEPT ![c] = q]
        BY <1>1, <1>8, <2>1 DEF RefreshReadTenant
  <2>q. QED BY <1>0, <1>1, <1>2, <2>2, <2>6, <2>7, CallMoves
<1>q. QED BY <1>1, <1>3, <1>7, <1>8 DEF RefreshReadUser, RefreshReadTenant

\* Logout takes a token away; ActivateUser makes a session more welcome, not less.
LEMMA LogoutAndActivateKeep ==
    ASSUME SessionsInv, (\E k \in Tokens : Logout(k)) \/ (\E u \in Users : ActivateUser(u))
    PROVE  SessionsInv'
<1>0. SessionsTypeOK
      BY DEF SessionsInv
<1>1. UNCHANGED <<counter, tenant, call, deliveries, acked, unrevoked>>
      BY DEF Logout, ActivateUser, iamVars, busVars
<1>2. \A k \in Keys : Excused(k) => Excused(k)'
      BY <1>1 DEF Excused, Bumping
<1>3. call' \in [Calls -> Request] /\ \A d \in Calls : \E p \in Request : call'[d] = p /\ CallIsSound(p)
      BY <1>0, <1>1 DEF SessionsTypeOK, SessionsInv
<1>4. /\ UNCHANGED counter /\ tenant' = tenant /\ deliveries' \in 0 .. MaxDeliver /\ acked' \in BOOLEAN
      /\ unrevoked' \subseteq [key: Keys, op: {"revoke", "suspend", "billing"}]
      BY <1>0, <1>1 DEF SessionsTypeOK
<1>5. /\ token' \in [Tokens -> Stored \union {NULL}] /\ (\A t \in Tokens : token'[t] \in {NULL, token[t]})
      /\ user' \in [Users -> [status: {"none", "active", "deactivated"}, grant: 0 .. MaxGrants]]
      /\ \A u \in Users : user'[u] = user[u] \/ (user'[u].status = "active" /\ user'[u].grant = user[u].grant)
  <2>1. ASSUME NEW k \in Tokens, Logout(k)
        PROVE  /\ token' \in [Tokens -> Stored \union {NULL}] /\ (\A t \in Tokens : token'[t] \in {NULL, token[t]}) /\ user' = user
        BY <1>0, <2>1 DEF Logout, SessionsTypeOK, iamVars
  <2>2. ASSUME NEW u \in Users, ActivateUser(u)
        PROVE  /\ user' \in [Users -> [status: {"none", "active", "deactivated"}, grant: 0 .. MaxGrants]]
               /\ (\A v \in Users : user'[v] = user[v] \/ (user'[v].status = "active" /\ user'[v].grant = user[v].grant))
               /\ token' = token
    <3>1. PICK row : row = [user[u] EXCEPT !.status = "active"]
          OBVIOUS
    <3>2. row \in [status: {"none", "active", "deactivated"}, grant: 0 .. MaxGrants] /\ row.status = "active" /\ row.grant = user[u].grant
          BY <1>0, <3>1 DEF SessionsTypeOK
    <3>3. user' = [user EXCEPT ![u] = row] /\ token' = token
          BY <2>2, <3>1 DEF ActivateUser
    <3>q. QED BY <1>0, <3>2, <3>3 DEF SessionsTypeOK
  <2>q. QED BY <1>0, <2>1, <2>2 DEF SessionsTypeOK
<1>q. QED BY <1>2, <1>3, <1>4, <1>5, AllKept

\* A revocation begins: the request that carries it has no session.
LEMMA RevokingIsSound ==
    ASSUME NEW c \in Calls, NEW op \in {"revoke", "suspend", "billing"}, NEW k \in Keys, NEW pc \in {"suspend", "incr"},
           pc = "suspend" => k = Tenant
    PROVE  /\ Revoking(c, op, k, pc) \in Request /\ Revoking(c, op, k, pc).pc = pc /\ Revoking(c, op, k, pc).key = k
           /\ CallIsSound(Revoking(c, op, k, pc))
<1>1. PICK q : q = Revoking(c, op, k, pc)
      OBVIOUS
<1>2. /\ q \in Request /\ q.pc = pc /\ q.op = op /\ q.key = k /\ q.s = NoSession /\ q.late = FALSE
      BY <1>1, Empties, SessionNumbers DEF Revoking, Request
<1>3. RevocationIsSound(q)
      BY <1>2, BlankCall, Empties
<1>4. CallIsSound(q)
      BY <1>2, <1>3 DEF CallIsSound, OpIsSound, SupportIsSound
<1>q. QED BY <1>1, <1>2, <1>4

\* The steps of the billing consumer and of SuspendTenant that change no row, and every failure.
LEMMA ConsumerKeeps ==
    ASSUME SessionsInv, NEW c \in Calls, SuspendReturns(c) \/ HandleRead(c) \/ CallFails(c)
    PROVE  SessionsInv'
<1>0. SessionsTypeOK
      BY DEF SessionsInv
<1>1. CASE SuspendReturns(c)
  <2>1. acked' \in BOOLEAN
    <3>1. acked' = (acked \/ call[c].op = "billing")
          BY <1>1 DEF SuspendReturns
    <3>q. QED BY <3>1
  <2>2. /\ call' = [call EXCEPT ![c] = Idle] /\ call[c].pc # "incr" /\ UNCHANGED <<counter, token, user, tenant, deliveries, unrevoked>>
        BY <1>1 DEF SuspendReturns, iamVars
  <2>q. QED BY <2>1, <2>2, CallEnds
<1>2. CASE CallFails(c)
  <2>1. /\ call' = [call EXCEPT ![c] = Idle] /\ UNCHANGED <<counter, token, user, tenant, deliveries, acked>>
        /\ unrevoked' = IF call[c].pc # "incr" THEN unrevoked
                        ELSE unrevoked \union {[key |-> call[c].key, op |-> call[c].op]}
        BY <1>2 DEF CallFails, iamVars, busVars
  <2>2. acked' \in BOOLEAN
        BY <1>0, <2>1 DEF SessionsTypeOK
  <2>q. QED BY <2>1, <2>2, CallEnds
<1>3. CASE HandleRead(c)
  <2>0. acked' \in BOOLEAN
    <3>1. UNCHANGED acked \/ acked' \in {TRUE, FALSE}
          BY <1>3 DEF HandleRead
    <3>q. QED BY <1>0, <3>1 DEF SessionsTypeOK
  <2>1. /\ deliveries' \in 0 .. MaxDeliver /\ acked' \in BOOLEAN /\ UNCHANGED <<counter, token, user, tenant, unrevoked>>
        /\ call[c].pc # "incr"
    <3>1. deliveries \in 0 .. MaxDeliver /\ deliveries > 0 /\ deliveries' = deliveries - 1
          BY <1>0, <1>3 DEF HandleRead, SessionsTypeOK
    <3>2. deliveries' \in 0 .. MaxDeliver
          BY <3>1, SessionNumbers, SMT, SMTT(30)
    <3>q. QED BY <1>3, <2>0, <3>2 DEF HandleRead, iamVars
  <2>2. CASE tenant = "active"
    <3>1. PICK q : q = Revoking(c, "billing", Tenant, "suspend")
          OBVIOUS
    <3>2. call' = [call EXCEPT ![c] = q]
          BY <1>3, <2>2, <3>1 DEF HandleRead
    <3>3. q \in Request /\ CallIsSound(q)
          BY <3>1, RevokingIsSound, SessionNumbers
    <3>q. QED BY <2>1, <3>2, <3>3, CallMoves
  <2>3. CASE tenant # "active"
    <3>1. call' = call
          BY <1>3, <2>3 DEF HandleRead
    <3>2. \A k \in Keys : Excused(k) => Excused(k)'
          BY <2>1, <3>1 DEF Excused, Bumping
    <3>3. call' \in [Calls -> Request] /\ \A d \in Calls : \E p \in Request : call'[d] = p /\ CallIsSound(p)
          BY <1>0, <3>1 DEF SessionsTypeOK, SessionsInv
    <3>4. /\ token' \in [Tokens -> Stored \union {NULL}] /\ (\A t \in Tokens : token'[t] \in {NULL, token[t]})
          /\ user' \in [Users -> [status: {"none", "active", "deactivated"}, grant: 0 .. MaxGrants]] /\ user' = user
          /\ UNCHANGED counter /\ tenant' = tenant
          /\ unrevoked' \subseteq [key: Keys, op: {"revoke", "suspend", "billing"}]
          BY <1>0, <2>1 DEF SessionsTypeOK
    <3>q. QED BY <2>1, <3>2, <3>3, <3>4, AllKept
  <2>q. QED BY <2>2, <2>3
<1>q. QED BY <1>1, <1>2, <1>3

-----------------------------------------------------------------------------
\* A write to row w: the bump it needs is on its way, and the logins it overtakes are marked.
LEMMA WriteKeeps ==
    ASSUME SessionsInv, NEW c \in Calls, NEW w \in Keys, NEW q \in Request,
           call' = [MarkRaced(w) EXCEPT ![c] = q], q.pc = "incr", q.key = w, OpIsSound(q), RevocationIsSound(q),
           call[c].pc # "incr", UNCHANGED <<counter, token, deliveries, acked, unrevoked>>,
           user' \in [Users -> [status: {"none", "active", "deactivated"}, grant: 0 .. MaxGrants]],
           \A u \in Users \ {w} : user'[u] = user[u],
           tenant' \in {"active", "suspended"}, w # Tenant => tenant' = tenant
    PROVE  SessionsInv'
<1>0. SessionsTypeOK
      BY DEF SessionsInv
<1>1. ASSUME NEW d \in Calls
      PROVE  \E p \in Request : /\ MarkRaced(w)[d] = p /\ p.pc = call[d].pc /\ p.op = call[d].op /\ p.key = call[d].key
                                /\ p.tok = call[d].tok /\ p.late = call[d].late /\ p.left = call[d].left
                                /\ p.s.user = call[d].s.user /\ p.s.grant = call[d].s.grant /\ p.s.bumped = call[d].s.bumped
                                /\ p.s.revoked = call[d].s.revoked /\ p.s.lapsed = call[d].s.lapsed
                                /\ p.s.ugen = call[d].s.ugen /\ p.s.tgen = call[d].s.tgen
                                /\ IF call[d].op = "login" /\ call[d].pc # "idle" /\ Concerns(call[d].s, w)
                                   THEN p.s.raced = TRUE ELSE p = call[d]
  <2>0. call[d] \in Request /\ call[d].s \in Session
        BY <1>0 DEF SessionsTypeOK, Request
  <2>1. CASE call[d].op = "login" /\ call[d].pc # "idle" /\ Concerns(call[d].s, w)
    <3>1. PICK s : s = [call[d].s EXCEPT !.raced = TRUE]
          OBVIOUS
    <3>2. /\ s \in Session /\ s.user = call[d].s.user /\ s.grant = call[d].s.grant /\ s.bumped = call[d].s.bumped
          /\ s.revoked = call[d].s.revoked /\ s.lapsed = call[d].s.lapsed /\ s.ugen = call[d].s.ugen /\ s.tgen = call[d].s.tgen
          /\ s.raced = TRUE
          BY <2>0, <3>1 DEF Session
    <3>3. PICK p : p = [call[d] EXCEPT !.s = s]
          OBVIOUS
    <3>4. /\ p \in Request /\ p.pc = call[d].pc /\ p.op = call[d].op /\ p.key = call[d].key
          /\ p.tok = call[d].tok /\ p.late = call[d].late /\ p.left = call[d].left /\ p.s = s
          BY <2>0, <3>2, <3>3 DEF Request
    <3>5. MarkRaced(w)[d] = p
      <4>1. p = [call[d] EXCEPT !.s.raced = TRUE]
            BY <2>0, <3>1, <3>3 DEF Request
      <4>q. QED BY <2>1, <4>1 DEF MarkRaced
    <3>q. QED BY <2>1, <3>2, <3>4, <3>5
  <2>2. CASE ~(call[d].op = "login" /\ call[d].pc # "idle" /\ Concerns(call[d].s, w))
    <3>1. MarkRaced(w)[d] = call[d]
          BY <2>2 DEF MarkRaced
    <3>q. QED BY <2>0, <2>2, <3>1
  <2>q. QED BY <2>1, <2>2
<1>2. call'[c] = q /\ \A d \in Calls \ {c} : call'[d] = MarkRaced(w)[d]
      BY DEF MarkRaced
<1>3. call' \in [Calls -> Request]
  <2>1. MarkRaced(w) \in [Calls -> Request]
        BY <1>1 DEF MarkRaced
  <2>q. QED BY <2>1
<1>4. SessionsTypeOK'
      BY <1>0, <1>3 DEF SessionsTypeOK
<1>5. Excused(w)'
  <2>1. Bumping(w)'
        BY <1>2 DEF Bumping
  <2>q. QED BY <2>1 DEF Excused
<1>6. ASSUME NEW k \in Keys, Excused(k) PROVE Excused(k)'
  <2>1. CASE \E f \in unrevoked : f.key = k
        BY <2>1 DEF Excused
  <2>2. CASE Bumping(k)
    <3>1. PICK d \in Calls : call[d].key = k /\ call[d].pc = "incr"
          BY <2>2 DEF Bumping
    <3>2. d # c
          BY <3>1
    <3>3. call'[d].key = k /\ call'[d].pc = "incr"
      <4>1. call'[d] = MarkRaced(w)[d]
            BY <1>2, <3>2
      <4>2. MarkRaced(w)[d].key = call[d].key /\ MarkRaced(w)[d].pc = call[d].pc
            BY <1>1
      <4>q. QED BY <3>1, <4>1, <4>2
    <3>4. Bumping(k)'
          BY <3>3 DEF Bumping
    <3>q. QED BY <3>4 DEF Excused
  <2>q. QED BY <1>6, <2>1, <2>2 DEF Excused
<1>7. ASSUME NEW s \in Session, s.user \in Users
      PROVE  Owed(s)' \subseteq Owed(s) \union {w} /\ Owed(s) \subseteq Keys /\ (~Concerns(s, w) => Owed(s)' = Owed(s))
      BY <1>7, SessionNumbers DEF Owed, Concerns
<1>8. ASSUME NEW s \in Session, s.user \in Users, Superseded(s) PROVE Superseded(s)'
      BY <1>5, <1>6, <1>7, <1>8 DEF Superseded, Gen
<1>9. ASSUME NEW t \in Tokens, token'[t] # NULL PROVE TokenIsSound(token[t])'
  <2>1. PICK x \in Stored : token'[t] = x /\ TokenIsSound(x)
        BY <1>0, <1>9 DEF SessionsTypeOK, SessionsInv
  <2>2. x.s \in Session /\ x.s.user \in Users
        BY <2>1 DEF TokenIsSound, Stored
  <2>3. Superseded(x.s)'
        BY <1>8, <2>1, <2>2 DEF TokenIsSound
  <2>4. SessionIsSound(x.s, {x.s.user, Tenant})'
        BY <2>1 DEF TokenIsSound, SessionIsSound, Gen
  <2>5. (x.s.revoked => Barred(x.s, {x.s.user, Tenant}, x.ttl + RefreshTTL - CallSpan))'
        BY <2>1 DEF TokenIsSound, Barred, Gen
  <2>6. TokenIsSound(x)'
        BY <2>2, <2>3, <2>4, <2>5 DEF TokenIsSound
  <2>q. QED BY <2>1, <2>6
<1>10. ASSUME NEW r \in Request, RevocationIsSound(r) PROVE RevocationIsSound(r)'
      BY <1>10 DEF RevocationIsSound, SessionIsSound, Barred, Gen, Held, HoldsGeneration
<1>11. ASSUME NEW d \in Calls PROVE CallIsSound(call[d])'
  <2>1. CASE d = c
    <3>1. RevocationIsSound(q)'
          BY <1>10
    <3>2. CallIsSound(q)'
          BY <3>1 DEF CallIsSound, OpIsSound, SupportIsSound
    <3>q. QED BY <1>2, <2>1, <3>2
  <2>2. CASE d # c
    <3>1. PICK p \in Request :  /\ MarkRaced(w)[d] = p /\ p.pc = call[d].pc /\ p.op = call[d].op /\ p.key = call[d].key
                                /\ p.tok = call[d].tok /\ p.late = call[d].late /\ p.left = call[d].left
                                /\ p.s.user = call[d].s.user /\ p.s.grant = call[d].s.grant /\ p.s.bumped = call[d].s.bumped
                                /\ p.s.revoked = call[d].s.revoked /\ p.s.lapsed = call[d].s.lapsed
                                /\ p.s.ugen = call[d].s.ugen /\ p.s.tgen = call[d].s.tgen
                                /\ IF call[d].op = "login" /\ call[d].pc # "idle" /\ Concerns(call[d].s, w)
                                   THEN p.s.raced = TRUE ELSE p = call[d]
          BY <1>1
    <3>2. CallIsSound(call[d]) /\ p.s \in Session
          BY DEF SessionsInv, Request
    <3>3. OpIsSound(p)
          BY <3>1, <3>2 DEF CallIsSound, OpIsSound
    <3>4. RevocationIsSound(p)
      <4>1. Held(p) = Held(call[d]) /\ \A k : Gen(p.s, k) = Gen(call[d].s, k)
            BY ZenonT(40), <3>1 DEF Held, HoldsGeneration, Gen
      <4>2. SessionIsSound(p.s, Held(p))
            BY ZenonT(40), <3>1, <3>2, <4>1 DEF CallIsSound, RevocationIsSound, SessionIsSound
      <4>3. p.s.revoked /\ ~p.late => Barred(p.s, Held(p), 2 * RefreshTTL - CallSpan + p.left)
            BY ZenonT(40), <3>1, <3>2, <4>1 DEF CallIsSound, RevocationIsSound, Barred
      <4>4. p.late => /\ p.pc \in {"del", "checkUser", "checkTenant"}
                      /\ Barred(p.s, IF p.pc = "checkTenant" THEN {Tenant} ELSE Held(p), p.left + 1)
            BY <3>1, <3>2, <4>1, SMT, SMTT(30) DEF CallIsSound, RevocationIsSound, Barred
      <4>q. QED BY <4>2, <4>3, <4>4 DEF RevocationIsSound
    <3>5. SupportIsSound(p)'
      <4>1. CASE p.op = "login"
        <5>1. CASE p.pc # "idle" /\ Concerns(p.s, w)
          <6>1. p.s.raced = TRUE
                BY <3>1, <4>1, <5>1 DEF Concerns
          <6>q. QED BY <4>1, <6>1 DEF SupportIsSound
        <5>2. CASE ~Concerns(p.s, w)
          <6>1. p = call[d] /\ tenant' = tenant
                BY <3>1, <5>2 DEF Concerns
          <6>2. p.pc \in {"ugen", "tgen", "store"} => Owed(p.s)' = Owed(p.s)
                BY <1>7, <3>2, <3>3, <5>2 DEF OpIsSound
          <6>3. SupportIsSound(p)
                BY <3>2, <6>1 DEF CallIsSound
          <6>q. QED BY <4>1, <6>1, <6>2, <6>3 DEF SupportIsSound
        <5>3. CASE p.pc = "idle"
              BY <5>3 DEF SupportIsSound
        <5>q. QED BY <5>1, <5>2, <5>3
      <4>2. CASE p.op # "login"
        <5>1. p = call[d]
              BY <3>1, <4>2
        <5>2. p.pc # "user"
              BY <3>3, <4>2 DEF OpIsSound
        <5>3. p.op = "refresh" /\ p.pc \in {"store", "del", "checkUser", "checkTenant"} => Superseded(p.s)'
              BY <1>8, <3>2, <3>3, <5>1 DEF CallIsSound, SupportIsSound, OpIsSound
        <5>q. QED BY <4>2, <5>2, <5>3 DEF SupportIsSound
      <4>q. QED BY <4>1, <4>2
    <3>6. CallIsSound(p)'
          BY <1>10, <3>3, <3>4, <3>5 DEF CallIsSound, OpIsSound
    <3>7. call'[d] = p
          BY <1>2, <2>2, <3>1
    <3>q. QED BY <3>6, <3>7
  <2>q. QED BY <2>1, <2>2
<1>q. QED BY <1>4, <1>9, <1>11 DEF SessionsInv

\* DeactivateUser, and what ChangePassword and RevokeRole have in common.
LEMMA RevocationBegins ==
    ASSUME SessionsInv, NEW c \in Calls, NEW u \in Users,
           DeactivateUser(c, u) \/ ChangeGrant(c, u)
    PROVE  SessionsInv'
<1>0. /\ SessionsTypeOK /\ CallIsSound(call[c]) /\ call[c] \in Request
      /\ user[u] \in [status: {"none", "active", "deactivated"}, grant: 0 .. MaxGrants]
      BY DEF SessionsInv, SessionsTypeOK
<1>1. CASE DeactivateUser(c, u) \/ ChangeGrant(c, u)
  <2>1. PICK q : q = Revoking(c, "revoke", u, "incr")
        OBVIOUS
  <2>2. q \in Request /\ q.pc = "incr" /\ q.key = u /\ OpIsSound(q) /\ RevocationIsSound(q) /\ u \in Keys /\ u # Tenant
        BY <2>1, RevokingIsSound, SessionNumbers, SMT, SMTT(30) DEF CallIsSound
  <2>3. PICK row \in [status: {"none", "active", "deactivated"}, grant: 0 .. MaxGrants] : user' = [user EXCEPT ![u] = row]
    <3>1. CASE DeactivateUser(c, u)
      <4>1. user' = [user EXCEPT ![u] = [user[u] EXCEPT !.status = "deactivated"]]
            BY <3>1 DEF DeactivateUser
      <4>2. [user[u] EXCEPT !.status = "deactivated"] \in [status: {"none", "active", "deactivated"}, grant: 0 .. MaxGrants]
            BY <1>0
      <4>q. QED BY <4>1, <4>2
    <3>2. CASE ChangeGrant(c, u)
      <4>1. user' = [user EXCEPT ![u] = [user[u] EXCEPT !.grant = user[u].grant + 1]] /\ user[u].grant < MaxGrants
            BY <1>0, <3>2 DEF ChangeGrant, SessionsTypeOK
      <4>2. user[u].grant + 1 \in 0 .. MaxGrants
            BY <1>0, <4>1, SessionNumbers, SMT, SMTT(30)
      <4>3. [user[u] EXCEPT !.grant = user[u].grant + 1] \in [status: {"none", "active", "deactivated"}, grant: 0 .. MaxGrants]
            BY <1>0, <4>2
      <4>q. QED BY <4>1, <4>3
    <3>q. QED BY <1>1, <3>1, <3>2
  <2>4. /\ user' \in [Users -> [status: {"none", "active", "deactivated"}, grant: 0 .. MaxGrants]]
        /\ \A v \in Users \ {u} : user'[v] = user[v]
        BY <1>0, <2>3 DEF SessionsTypeOK
  <2>5. /\ call' = [MarkRaced(u) EXCEPT ![c] = q] /\ call[c].pc # "incr" /\ UNCHANGED <<counter, token, deliveries, acked, unrevoked>>
        /\ tenant' = tenant /\ tenant' \in {"active", "suspended"}
        BY <1>0, <1>1, <2>1 DEF DeactivateUser, ChangeGrant, SessionsTypeOK, busVars
  <2>q. QED BY <2>2, <2>4, <2>5, WriteKeeps
<1>q. QED BY <1>1

\* SuspendTenant, and the suspension Handle makes.
LEMMA SuspensionBegins ==
    ASSUME SessionsInv, NEW c \in Calls, SuspendTenant(c) \/ HandleSuspend(c)
    PROVE  SessionsInv'
<1>0. SessionsTypeOK /\ CallIsSound(call[c]) /\ call[c] \in Request
      BY DEF SessionsInv, SessionsTypeOK
<1>2. CASE SuspendTenant(c)
  <2>1. PICK q : q = Revoking(c, "suspend", Tenant, "incr")
        OBVIOUS
  <2>2. q \in Request /\ q.pc = "incr" /\ q.key = Tenant /\ OpIsSound(q) /\ RevocationIsSound(q) /\ Tenant \in Keys
        BY <2>1, RevokingIsSound, SessionNumbers, SMT, SMTT(30) DEF CallIsSound
  <2>3. /\ call' = [MarkRaced(Tenant) EXCEPT ![c] = q] /\ call[c].pc # "incr" /\ UNCHANGED <<counter, token, deliveries, acked, unrevoked>>
        /\ tenant' \in {"active", "suspended"} /\ user' = user
        /\ user' \in [Users -> [status: {"none", "active", "deactivated"}, grant: 0 .. MaxGrants]]
        BY <1>0, <1>2, <2>1 DEF SuspendTenant, SessionsTypeOK, busVars
  <2>q. QED BY <2>2, <2>3, WriteKeeps
<1>3. CASE HandleSuspend(c)
  <2>0. call[c].pc = "suspend" /\ call[c].op # "login" /\ call[c].key = Tenant /\ Tenant \in Keys
        BY <1>0, <1>3, SessionNumbers DEF HandleSuspend, CallIsSound, OpIsSound
  <2>1. PICK q : q = [call[c] EXCEPT !.pc = "incr"]
        OBVIOUS
  <2>2. q \in Request /\ q.pc = "incr" /\ q.key = Tenant /\ q.op = call[c].op /\ q.s = call[c].s /\ q.late = call[c].late
        BY <1>0, <2>0, <2>1 DEF Request
  <2>3. RevocationIsSound(q)
    <3>1. Held(call[c]) = {} /\ Held(q) = {}
          BY <2>0, <2>2 DEF Held, HoldsGeneration
    <3>2. call[c].s.bumped = {} /\ ~call[c].late /\ (call[c].s.revoked => FALSE)
          BY <1>0, <2>0, <3>1 DEF CallIsSound, RevocationIsSound, SessionIsSound, Barred
    <3>q. QED BY <2>2, <3>1, <3>2 DEF RevocationIsSound, SessionIsSound
  <2>4. OpIsSound(q)
        BY <1>0, <2>0, <2>2 DEF CallIsSound, OpIsSound
  <2>5. call' = [MarkRaced(Tenant) EXCEPT ![c] = q]
    <3>1. MarkRaced(Tenant)[c] = call[c]
          BY <2>0 DEF MarkRaced
    <3>2. call' = [MarkRaced(Tenant) EXCEPT ![c].pc = "incr"]
          BY <1>3 DEF HandleSuspend
    <3>q. QED BY <2>1, <3>1, <3>2 DEF MarkRaced
  <2>6. /\ call[c].pc # "incr" /\ UNCHANGED <<counter, token, deliveries, acked, unrevoked>>
        /\ tenant' \in {"active", "suspended"} /\ user' = user
        /\ user' \in [Users -> [status: {"none", "active", "deactivated"}, grant: 0 .. MaxGrants]]
        BY <1>0, <1>3 DEF HandleSuspend, SessionsTypeOK, busVars
  <2>q. QED BY <2>0, <2>2, <2>3, <2>4, <2>5, <2>6, WriteKeeps
<1>q. QED BY <1>2, <1>3

-----------------------------------------------------------------------------
\* A request whose session was marked, and nothing else of it changed but the time it has left.
LEMMA CallMarked ==
    ASSUME NEW p \in Request, CallIsSound(p), NEW q \in Request, NEW z \in Session,
           q.pc = p.pc, q.op = p.op, q.key = p.key, q.tok = p.tok, q.late = p.late, q.s = z,
           z.user = p.s.user, z.grant = p.s.grant, z.raced = p.s.raced, UNCHANGED <<user, tenant>>,
           SessionIsSound(z, Held(p))',
           z.revoked /\ ~p.late => Barred(z, Held(p), 2 * RefreshTTL - CallSpan + q.left)',
           p.late => Barred(z, IF p.pc = "checkTenant" THEN {Tenant} ELSE Held(p), q.left + 1)',
           Held(p) = {p.s.user, Tenant} /\ p.s.user \in Users /\ Superseded(p.s) => Superseded(z)'
    PROVE  CallIsSound(q)'
<1>0. Held(q) = Held(p)
      BY DEF Held, HoldsGeneration
<1>1. OpIsSound(q)'
      BY DEF CallIsSound, OpIsSound
<1>2. RevocationIsSound(q)'
  <2>1. SessionIsSound(q.s, Held(q))'
        BY <1>0
  <2>2. (q.s.revoked /\ ~q.late => Barred(q.s, Held(q), 2 * RefreshTTL - CallSpan + q.left))'
        BY <1>0
  <2>3. (q.late => /\ q.pc \in {"del", "checkUser", "checkTenant"}
                   /\ Barred(q.s, IF q.pc = "checkTenant" THEN {Tenant} ELSE Held(q), q.left + 1))'
    <3>1. p.late => p.pc \in {"del", "checkUser", "checkTenant"}
          BY DEF CallIsSound, RevocationIsSound
    <3>q. QED BY <1>0, <3>1
  <2>q. QED BY <2>1, <2>2, <2>3 DEF RevocationIsSound
<1>3. SupportIsSound(q)'
  <2>1. Owed(z)' = Owed(p.s)
        BY DEF Owed
  <2>2. p.op = "refresh" /\ p.pc \in {"store", "del", "checkUser", "checkTenant"} => Superseded(z)'
    <3>1. p.pc \in {"store", "del", "checkUser", "checkTenant"} => p.s.user \in Users /\ Held(p) = {p.s.user, Tenant}
          BY HeldKeys DEF CallIsSound, OpIsSound
    <3>q. QED BY <3>1 DEF CallIsSound, SupportIsSound
  <2>3. p.op = "login" /\ p.pc \in {"ugen", "tgen", "store"} /\ ~p.s.raced => Owed(z)' = {}
        BY <2>1 DEF CallIsSound, SupportIsSound
  <2>4. p.pc = "user" /\ ~p.s.raced => tenant' = "active"
        BY DEF CallIsSound, SupportIsSound
  <2>q. QED BY <2>2, <2>3, <2>4 DEF SupportIsSound
<1>q. QED BY <1>1, <1>2, <1>3 DEF CallIsSound

\* What a request holds is among the two counters that concern its session.
LEMMA HeldConcerns ==
    ASSUME NEW q \in Request
    PROVE  Held(q) \subseteq Keys /\ \A k \in Held(q) : Concerns(q.s, k)
BY DEF Held, HoldsGeneration, Concerns

\* INCR: the counter gets ahead of the sessions that were not behind one that expired.
LEMMA BumpMarks ==
    ASSUME SessionsTypeOK, NEW s \in Session, NEW held \in SUBSET Keys, \A k \in held : Concerns(s, k),
           NEW j \in Keys, SessionIsSound(s, held),
           \A k \in Keys : /\ counter'[k].ttl = counter[k].ttl
                           /\ counter'[k].value = IF k = j THEN counter[k].value + 1 ELSE counter[k].value,
           NEW z, z = IF j \in held THEN MarkBumped(s, j) ELSE s
    PROVE  /\ z \in Session /\ z.user = s.user /\ z.grant = s.grant /\ z.raced = s.raced /\ z.revoked = s.revoked
           /\ z.lapsed = s.lapsed /\ (\A k : Gen(z, k) = Gen(s, k))
           /\ SessionIsSound(z, held)'
           /\ \A K \in SUBSET Keys, n \in Int : Barred(s, K, n) => Barred(z, K, n)'
<1>1. /\ z \in Session /\ z.user = s.user /\ z.grant = s.grant /\ z.raced = s.raced /\ z.revoked = s.revoked
      /\ z.lapsed = s.lapsed /\ z.ugen = s.ugen /\ z.tgen = s.tgen
      /\ z.bumped = IF j \in held /\ ~s.lapsed /\ ~s.revoked THEN s.bumped \union {j} ELSE s.bumped
  <2>1. CASE j \in held /\ ~s.lapsed /\ ~s.revoked
    <3>1. z = [s EXCEPT !.bumped = s.bumped \union {j}]
          BY <2>1 DEF MarkBumped
    <3>q. QED BY <2>1, <3>1, SMT, SMTT(30) DEF Session
  <2>2. CASE ~(j \in held /\ ~s.lapsed /\ ~s.revoked)
    <3>1. z = s
          BY <2>2 DEF MarkBumped
    <3>q. QED BY <2>2, <3>1
  <2>q. QED BY <2>1, <2>2
<1>2. \A k : Gen(z, k) = Gen(s, k) /\ Gen(s, k) \in Nat /\ Gen(z, k)' = Gen(z, k)
      BY <1>1, SessionFields DEF Gen
<1>3. \A k \in Keys : counter[k].value \in Nat /\ counter[k].ttl \in Nat
      BY CounterFields, SessionNumbers, SMT, SMTT(30)
<1>4. SessionIsSound(z, held)'
  <2>1. z.bumped \subseteq held
        BY <1>1 DEF SessionIsSound
  <2>2. ASSUME NEW k \in z.bumped PROVE counter'[k].value > Gen(z, k)
    <3>1. k \in held /\ k \in Keys
          BY <2>1
    <3>2. CASE k = j
      <4>1. counter[k].value >= Gen(s, k)
        <5>1. CASE k \in s.bumped
              BY <1>2, <1>3, <3>1, <5>1, SMT, SMTT(30) DEF SessionIsSound
        <5>2. CASE ~s.lapsed
              BY <3>1, <5>2 DEF SessionIsSound
        <5>q. QED BY <1>1, <5>1, <5>2
      <4>q. QED BY <1>2, <1>3, <3>1, <3>2, <4>1, SMT, SMTT(30)
    <3>3. CASE k # j
      <4>1. k \in s.bumped
            BY <1>1, <3>3
      <4>q. QED BY <1>2, <3>1, <3>3, <4>1 DEF SessionIsSound
    <3>q. QED BY <3>2, <3>3
  <2>3. ASSUME ~z.lapsed, NEW k \in held PROVE counter'[k].value >= Gen(z, k)
    <3>1. counter[k].value >= Gen(s, k) /\ k \in Keys
          BY <1>1, <2>3 DEF SessionIsSound
    <3>q. QED BY <1>2, <1>3, <3>1, SMT, SMTT(30)
  <2>q. QED BY <1>2, <2>1, <2>2, <2>3 DEF SessionIsSound
<1>5. ASSUME NEW K \in SUBSET Keys, NEW n \in Int, Barred(s, K, n) PROVE Barred(z, K, n)'
  <2>1. PICK k \in K : counter[k].value > Gen(s, k) /\ counter[k].ttl >= n
        BY <1>5 DEF Barred
  <2>2. counter'[k].value > Gen(z, k) /\ counter'[k].ttl >= n
        BY <1>2, <1>3, <2>1, SMT, SMTT(30)
  <2>q. QED BY <1>2, <2>2 DEF Barred
<1>q. QED BY <1>1, <1>2, <1>4, <1>5

\* EXPIRE: the sessions that were bumped are revoked, and the counter lives for two token lifetimes.
LEMMA ExpireMarks ==
    ASSUME SessionsTypeOK, NEW s \in Session, NEW held \in SUBSET Keys,
           NEW j \in Keys, SessionIsSound(s, held),
           \A k \in Keys : /\ counter'[k].value = counter[k].value
                           /\ counter'[k].ttl = IF k = j /\ counter[k].value # 0 THEN 2 * RefreshTTL ELSE counter[k].ttl,
           NEW z, z = MarkRevoked(s, j)
    PROVE  /\ z \in Session /\ z.user = s.user /\ z.grant = s.grant /\ z.raced = s.raced
           /\ z.lapsed = s.lapsed /\ (\A k : Gen(z, k) = Gen(s, k))
           /\ SessionIsSound(z, held)'
           /\ \A K \in SUBSET Keys, n \in Int : Barred(s, K, n) => Barred(z, K, n)'
           /\ \A n \in Int : z.revoked /\ n <= 2 * RefreshTTL => s.revoked \/ Barred(z, held, n)'
<1>1. /\ z \in Session /\ z.user = s.user /\ z.grant = s.grant /\ z.raced = s.raced
      /\ z.lapsed = s.lapsed /\ z.ugen = s.ugen /\ z.tgen = s.tgen
      /\ (z.bumped = s.bumped /\ z.revoked = s.revoked) \/ (z.bumped = {} /\ j \in s.bumped)
  <2>1. CASE j \in s.bumped
    <3>1. z = [s EXCEPT !.revoked = TRUE, !.bumped = {}]
          BY <2>1 DEF MarkRevoked
    <3>q. QED BY <2>1, <3>1 DEF Session
  <2>2. CASE j \notin s.bumped
    <3>1. z = s
          BY <2>2 DEF MarkRevoked
    <3>q. QED BY <2>2, <3>1
  <2>q. QED BY <2>1, <2>2
<1>2. \A k : Gen(z, k) = Gen(s, k) /\ Gen(s, k) \in Nat /\ Gen(z, k)' = Gen(z, k)
      BY <1>1, SessionFields DEF Gen
<1>3. \A k \in Keys : counter[k].value \in Nat /\ counter[k].ttl \in Nat /\ counter[k].ttl <= 2 * RefreshTTL
      BY CounterFields, SessionNumbers, SMT, SMTT(30)
<1>4. SessionIsSound(z, held)'
      BY <1>1, <1>2 DEF SessionIsSound
<1>5. ASSUME NEW K \in SUBSET Keys, NEW n \in Int, Barred(s, K, n) PROVE Barred(z, K, n)'
  <2>1. PICK k \in K : counter[k].value > Gen(s, k) /\ counter[k].ttl >= n
        BY <1>5 DEF Barred
  <2>2. counter'[k].value > Gen(z, k) /\ counter'[k].ttl >= n
        BY <1>2, <1>3, <2>1, SessionNumbers, SMT, SMTT(30)
  <2>q. QED BY <1>2, <2>2 DEF Barred
<1>6. ASSUME NEW n \in Int, z.revoked, n <= 2 * RefreshTTL, ~s.revoked PROVE Barred(z, held, n)'
  <2>1. j \in s.bumped
        BY <1>1, <1>6
  <2>2. j \in held /\ counter[j].value > Gen(s, j)
        BY <2>1 DEF SessionIsSound
  <2>3. counter'[j].value > Gen(z, j) /\ counter'[j].ttl >= n
        BY <1>2, <1>3, <1>6, <2>2, SessionNumbers, SMT, SMTT(30)
  <2>q. QED BY <1>2, <2>2, <2>3 DEF Barred
<1>q. QED BY <1>1, <1>2, <1>4, <1>5, <1>6

\* A unit of time passes in Redis: the keys in gone expire, the rest of the counters keep their value.
Passes(gone) ==
    \A k \in Keys :
       /\ (k \in gone <=> counter[k].ttl = 1)
       /\ (k \notin gone => counter'[k].value = counter[k].value)
       /\ (k \notin gone /\ counter[k].ttl # 0 => counter'[k].ttl = counter[k].ttl - 1)

\* A unit of time: a counter that goes takes its sessions' claims with it, one that bars a session
\* for longer than that unit stays.
LEMMA TickMarks ==
    ASSUME SessionsTypeOK, NEW s \in Session, NEW held \in SUBSET Keys, \A k \in held : Concerns(s, k),
           NEW gone \in SUBSET Keys, SessionIsSound(s, held),
           Passes(gone),
           NEW z, z = MarkLapsed(s, gone \intersect held)
    PROVE  /\ z \in Session /\ z.user = s.user /\ z.grant = s.grant /\ z.raced = s.raced /\ z.revoked = s.revoked
           /\ (\A k : Gen(z, k) = Gen(s, k)) /\ (~z.lapsed => ~s.lapsed /\ gone \intersect held = {})
           /\ SessionIsSound(z, held)'
           /\ \A K \in SUBSET Keys, n \in Int : Barred(s, K, n) /\ n >= 2 => Barred(z, K, n - 1)'
<1>1. /\ z \in Session /\ z.user = s.user /\ z.grant = s.grant /\ z.raced = s.raced /\ z.revoked = s.revoked
      /\ z.ugen = s.ugen /\ z.tgen = s.tgen
      /\ \/ z.lapsed = TRUE /\ z.bumped = {}
         \/ z.lapsed = s.lapsed /\ z.bumped = s.bumped /\ gone \intersect held = {}
  <2>1. CASE gone \intersect held # {}
    <3>1. z = [s EXCEPT !.lapsed = TRUE, !.bumped = {}]
          BY <2>1 DEF MarkLapsed
    <3>q. QED BY <2>1, <3>1 DEF Session
  <2>2. CASE gone \intersect held = {}
    <3>1. z = s
          BY <2>2 DEF MarkLapsed
    <3>q. QED BY <2>2, <3>1
  <2>q. QED BY <2>1, <2>2
<1>2. \A k : Gen(z, k) = Gen(s, k) /\ Gen(s, k) \in Nat /\ Gen(z, k)' = Gen(z, k)
      BY <1>1, SessionFields DEF Gen
<1>3. \A k \in Keys : counter[k].value \in Nat /\ counter[k].ttl \in Nat
      BY CounterFields, SessionNumbers, SMT, SMTT(30)
<1>4. SessionIsSound(z, held)'
  <2>1. CASE z.lapsed = TRUE /\ z.bumped = {}
        BY <2>1 DEF SessionIsSound
  <2>2. CASE z.lapsed = s.lapsed /\ z.bumped = s.bumped /\ gone \intersect held = {}
    <3>1. \A k \in held : counter'[k].value = counter[k].value
          BY <2>2 DEF Passes
    <3>2. s.bumped \subseteq held
          BY DEF SessionIsSound
    <3>q. QED BY <1>2, <2>2, <3>1, <3>2 DEF SessionIsSound
  <2>q. QED BY <1>1, <2>1, <2>2
<1>5. ASSUME NEW K \in SUBSET Keys, NEW n \in Int, Barred(s, K, n), n >= 2 PROVE Barred(z, K, n - 1)'
  <2>1. PICK k \in K : counter[k].value > Gen(s, k) /\ counter[k].ttl >= n
        BY <1>5 DEF Barred
  <2>2. k \in Keys /\ counter[k].ttl # 0 /\ counter[k].ttl # 1
        BY <1>3, <1>5, <2>1, SMT, SMTT(30)
  <2>2a. k \notin gone
        BY <2>2 DEF Passes
  <2>2b. counter'[k].value = counter[k].value /\ counter'[k].ttl = counter[k].ttl - 1
        BY <2>2, <2>2a DEF Passes
  <2>2c. Gen(z, k) = Gen(s, k)
        BY <1>2
  <2>2d. counter[k].ttl \in Nat /\ n \in Int
        BY <1>3, <2>2
  <2>3. counter'[k].value > Gen(z, k) /\ counter'[k].ttl >= n - 1
        BY <2>1, <2>2b, <2>2c, <2>2d, SMT, SMTT(30)
  <2>q. QED BY <1>2, <2>1, <2>3 DEF Barred
<1>q. QED BY <1>1, <1>2, <1>4, <1>5

-----------------------------------------------------------------------------
\* RevokeAllForUser and RevokeAllForTenant, first command: the bump they were to make is made.
LEMMA RevokeIncrKeeps ==
    ASSUME SessionsInv, NEW c \in Calls, RevokeIncr(c)
    PROVE  SessionsInv'
<1>0. SessionsTypeOK /\ CallIsSound(call[c]) /\ call[c] \in Request /\ call[c].pc = "incr"
      BY DEF SessionsInv, SessionsTypeOK, RevokeIncr
<1>1. PICK j \in Keys : j = call[c].key
      BY <1>0 DEF CallIsSound, OpIsSound
<1>2. /\ counter[j].value < MaxGeneration[j] /\ UNCHANGED <<user, tenant, deliveries, acked>>
      /\ unrevoked' = {f \in unrevoked : f.key # j}
      /\ counter' = [counter EXCEPT ![j].value = counter[j].value + 1]
      BY <1>0, <1>1 DEF RevokeIncr, SessionsTypeOK, iamVars, busVars
<1>3. PICK cell : cell = [counter[j] EXCEPT !.value = counter[j].value + 1]
      OBVIOUS
<1>4. /\ cell \in [value: Generations, ttl: 0 .. 2 * RefreshTTL] /\ cell.value = counter[j].value + 1 /\ cell.ttl = counter[j].ttl
  <2>1. counter[j].value + 1 \in Generations
        BY <1>0, <1>2, CounterFields, SessionNumbers, SMT, SMTT(30)
  <2>2. counter[j] \in [value: Generations, ttl: 0 .. 2 * RefreshTTL]
        BY <1>0 DEF SessionsTypeOK
  <2>q. QED BY <1>3, <2>1, <2>2
<1>5. /\ counter' \in [Keys -> [value: Generations, ttl: 0 .. 2 * RefreshTTL]]
      /\ \A k \in Keys : /\ counter'[k].ttl = counter[k].ttl
                         /\ counter'[k].value = IF k = j THEN counter[k].value + 1 ELSE counter[k].value
  <2>1. counter' = [counter EXCEPT ![j] = cell] /\ counter \in [Keys -> [value: Generations, ttl: 0 .. 2 * RefreshTTL]]
        BY <1>0, <1>2, <1>3 DEF SessionsTypeOK
  <2>q. QED BY <1>4, <2>1
<1>6. ASSUME NEW s \in Session, NEW z \in Session, s.user \in Users, SessionIsSound(s, {s.user, Tenant}), Superseded(s),
             z.user = s.user, z.grant = s.grant, z.raced = s.raced, z.lapsed = s.lapsed, \A k : Gen(z, k) = Gen(s, k),
             \A k \in Keys \ {j} : Excused(k) => Excused(k)'
      PROVE  Superseded(z)'
  <2>1. Owed(z)' = Owed(s) /\ Owed(s) \subseteq {s.user, Tenant} /\ {s.user, Tenant} \subseteq Keys
        BY <1>2, <1>6, SessionNumbers DEF Owed
  <2>2. ASSUME NEW k \in Owed(s), ~s.raced, ~s.lapsed PROVE counter'[k].value > Gen(z, k) \/ Excused(k)'
    <3>0. k \in Keys /\ counter[k].value \in Nat /\ Gen(s, k) \in Nat
          BY <1>0, <2>1, CounterFields, SessionFields
    <3>1. CASE k = j
      <4>1. counter[k].value >= Gen(s, k)
            BY <1>6, <2>1, <2>2 DEF SessionIsSound
      <4>q. QED BY <1>5, <1>6, <3>0, <3>1, <4>1, SMT, SMTT(30)
    <3>2. CASE k # j
      <4>1. counter[k].value > Gen(s, k) \/ Excused(k)
            BY <1>6, <2>2 DEF Superseded
      <4>q. QED BY <1>5, <1>6, <3>0, <3>2, <4>1
    <3>q. QED BY <3>1, <3>2
  <2>3. \A k : Gen(z, k)' = Gen(z, k)
        BY DEF Gen
  <2>q. QED BY <1>6, <2>1, <2>2, <2>3 DEF Superseded
<1>7. ASSUME NEW d \in Calls \ {c}
      PROVE  \E z : /\ z = IF j \in Held(call[d]) THEN MarkBumped(call[d].s, j) ELSE call[d].s
                    /\ z \in Session /\ call'[d] \in Request /\ call'[d].s = z /\ call'[d].pc = call[d].pc /\ call'[d].op = call[d].op
                    /\ call'[d].key = call[d].key /\ call'[d].tok = call[d].tok /\ call'[d].late = call[d].late /\ call'[d].left = call[d].left
  <2>0. call[d] \in Request /\ call[d].s \in Session /\ (j \in Held(call[d]) <=> HoldsGeneration(call[d], j))
        BY <1>0 DEF SessionsTypeOK, Request, Held
  <2>1. call'[d] = IF HoldsGeneration(call[d], j) THEN [call[d] EXCEPT !.s = MarkBumped(call[d].s, j)] ELSE call[d]
        BY <1>1 DEF RevokeIncr
  <2>2. MarkBumped(call[d].s, j) \in Session
    <3>1. [call[d].s EXCEPT !.bumped = call[d].s.bumped \union {j}] \in Session
          BY <2>0 DEF Session
    <3>q. QED BY <2>0, <3>1 DEF MarkBumped
  <2>3. CASE HoldsGeneration(call[d], j)
        BY <2>0, <2>1, <2>2, <2>3 DEF Request
  <2>4. CASE ~HoldsGeneration(call[d], j)
        BY <2>0, <2>1, <2>4
  <2>q. QED BY <2>3, <2>4
<1>8. PICK e : e = [call[c] EXCEPT !.pc = "expire"]
      OBVIOUS
<1>9. /\ call'[c] = e /\ e \in Request /\ e.pc = "expire" /\ e.op = call[c].op /\ e.key = call[c].key
      /\ e.s = call[c].s /\ e.late = call[c].late
      BY <1>0, <1>8 DEF RevokeIncr, Request
<1>10. call' \in [Calls -> Request]
  <2>1. \A d \in Calls : call'[d] \in Request
        BY <1>7, <1>9
  <2>2. DOMAIN call' = Calls /\ call' = [d \in Calls |-> call'[d]]
        BY DEF RevokeIncr
  <2>q. QED BY <2>1, <2>2
<1>11. ASSUME NEW k \in Keys \ {j}, Excused(k) PROVE Excused(k)'
  <2>1. CASE \E f \in unrevoked : f.key = k
        BY <1>2, <2>1 DEF Excused
  <2>2. CASE Bumping(k)
    <3>1. PICK d \in Calls : call[d].key = k /\ call[d].pc = "incr"
          BY <2>2 DEF Bumping
    <3>2. d # c
          BY <1>1, <3>1
    <3>3. call'[d].key = k /\ call'[d].pc = "incr"
          BY <1>7, <3>1, <3>2
    <3>4. Bumping(k)'
          BY <3>3 DEF Bumping
    <3>q. QED BY <3>4 DEF Excused
  <2>q. QED BY <1>11, <2>1, <2>2 DEF Excused
<1>12. ASSUME NEW t \in Tokens
       PROVE  \/ token'[t] = NULL
              \/ \E x \in Stored : token'[t] = x /\ TokenIsSound(x)'
  <2>1. CASE token[t] = NULL
        BY <2>1 DEF RevokeIncr
  <2>2. CASE token[t] # NULL
    <3>1. PICK y \in Stored : y = token[t]
          BY <1>0, <2>2 DEF SessionsTypeOK
    <3>2. TokenIsSound(y) /\ y.s \in Session /\ y.s.user \in Users /\ y.ttl \in Nat
          BY <2>2, <3>1, SMT, SMTT(30) DEF SessionsInv, TokenIsSound, Stored
    <3>3. PICK held \in SUBSET Keys : held = {y.s.user, Tenant}
          BY <3>2, SessionNumbers
    <3>4. PICK z : z = IF j \in held THEN MarkBumped(y.s, j) ELSE y.s
          OBVIOUS
    <3>5. /\ z \in Session /\ z.user = y.s.user /\ z.grant = y.s.grant /\ z.raced = y.s.raced /\ z.revoked = y.s.revoked
          /\ z.lapsed = y.s.lapsed /\ (\A k : Gen(z, k) = Gen(y.s, k))
          /\ SessionIsSound(z, held)'
          /\ \A K \in SUBSET Keys, n \in Int : Barred(y.s, K, n) => Barred(z, K, n)'
      <4>1. SessionIsSound(y.s, held) /\ \A k \in held : Concerns(y.s, k)
            BY <3>2, <3>3 DEF TokenIsSound, Concerns
      <4>q. QED BY <1>0, <1>5, <3>2, <3>4, <4>1, BumpMarks, SMT, SMTT(30)
    <3>6. PICK x : x = [y EXCEPT !.s = z]
          OBVIOUS
    <3>7. x \in Stored /\ x.s = z /\ x.ttl = y.ttl
          BY <3>5, <3>6 DEF Stored
    <3>8. token'[t] = x
      <4>1. z = MarkBumped(y.s, j)
            BY <3>3, <3>4 DEF MarkBumped, Concerns
      <4>2. token'[t] = [token[t] EXCEPT !.s = MarkBumped(token[t].s, j)]
            BY <1>1, <2>2 DEF RevokeIncr
      <4>q. QED BY <3>1, <3>6, <4>1, <4>2
    <3>9. z.revoked => Barred(z, held, x.ttl + RefreshTTL - CallSpan)'
      <4>1. x.ttl + RefreshTTL - CallSpan \in Int
            BY <3>2, <3>7, SessionNumbers, SMT, SMTT(30)
      <4>2. y.s.revoked => Barred(y.s, held, x.ttl + RefreshTTL - CallSpan)
            BY <3>2, <3>3, <3>7 DEF TokenIsSound
      <4>q. QED BY <3>5, <4>1, <4>2
    <3>10. Superseded(z)'
          BY <1>6, <1>11, <3>2, <3>3, <3>5 DEF TokenIsSound
    <3>11. TokenIsSound(x)'
          BY <3>2, <3>3, <3>5, <3>7, <3>9, <3>10 DEF TokenIsSound
    <3>q. QED BY <3>7, <3>8, <3>11
  <2>q. QED BY <2>1, <2>2
<1>13. SessionsTypeOK'
  <2>1. token' \in [Tokens -> Stored \union {NULL}]
    <3>1. \A t \in Tokens : token'[t] \in Stored \union {NULL}
          BY <1>12
    <3>2. DOMAIN token' = Tokens /\ token' = [t \in Tokens |-> token'[t]]
          BY DEF RevokeIncr
    <3>q. QED BY <3>1, <3>2
  <2>2. unrevoked' \subseteq [key: Keys, op: {"revoke", "suspend", "billing"}]
        BY <1>0, <1>2 DEF SessionsTypeOK
  <2>q. QED BY <1>0, <1>2, <1>5, <1>10, <2>1, <2>2 DEF SessionsTypeOK
<1>14. ASSUME NEW d \in Calls PROVE CallIsSound(call[d])'
  <2>1. CASE d = c
    <3>1. Held(call[c]) = {} /\ Held(e) = {}
          BY <1>0, <1>9 DEF Held, HoldsGeneration
    <3>2. e.s.bumped = {} /\ ~e.late /\ (e.s.revoked => FALSE)
          BY <1>0, <1>9, <3>1 DEF CallIsSound, RevocationIsSound, SessionIsSound, Barred
    <3>3. RevocationIsSound(e)'
          BY <1>9, <3>1, <3>2 DEF RevocationIsSound, SessionIsSound
    <3>4. OpIsSound(e)'
          BY <1>0, <1>9 DEF CallIsSound, OpIsSound
    <3>5. CallIsSound(e)'
          BY <1>9, <3>3, <3>4 DEF CallIsSound, SupportIsSound
    <3>q. QED BY <1>9, <2>1, <3>5
  <2>2. CASE d # c
    <3>1. PICK p \in Request : p = call[d]
          BY <1>0 DEF SessionsTypeOK
    <3>2. PICK q \in Request : q = call'[d]
          BY <1>10
    <3>3. CallIsSound(p) /\ p.s \in Session /\ p.left \in Nat /\ p.late \in BOOLEAN /\ Held(p) \in SUBSET Keys /\ \A k \in Held(p) : Concerns(p.s, k)
          BY <3>1, HeldConcerns, SMT, SMTT(30) DEF SessionsInv, Request
    <3>4. PICK z : z = IF j \in Held(p) THEN MarkBumped(p.s, j) ELSE p.s
          OBVIOUS
    <3>5. /\ q.pc = p.pc /\ q.op = p.op /\ q.key = p.key /\ q.tok = p.tok /\ q.late = p.late /\ q.s = z /\ q.left = p.left
          BY <1>7, <2>2, <3>1, <3>2, <3>4
    <3>6. /\ z \in Session /\ z.user = p.s.user /\ z.grant = p.s.grant /\ z.raced = p.s.raced /\ z.revoked = p.s.revoked
          /\ z.lapsed = p.s.lapsed /\ (\A k : Gen(z, k) = Gen(p.s, k))
          /\ SessionIsSound(z, Held(p))'
          /\ \A K \in SUBSET Keys, n \in Int : Barred(p.s, K, n) => Barred(z, K, n)'
      <4>1. SessionIsSound(p.s, Held(p))
            BY <3>3 DEF CallIsSound, RevocationIsSound
      <4>q. QED BY <1>0, <1>5, <3>3, <3>4, <4>1, BumpMarks, SMT, SMTT(30)
    <3>7. z.revoked /\ ~p.late => Barred(z, Held(p), 2 * RefreshTTL - CallSpan + q.left)'
      <4>1. 2 * RefreshTTL - CallSpan + p.left \in Int
            BY <3>3, SessionNumbers, SMT, SMTT(30)
      <4>2. p.s.revoked /\ ~p.late => Barred(p.s, Held(p), 2 * RefreshTTL - CallSpan + p.left)
            BY <3>3 DEF CallIsSound, RevocationIsSound
      <4>q. QED BY <3>3, <3>5, <3>6, <4>1, <4>2
    <3>8. p.late => Barred(z, IF p.pc = "checkTenant" THEN {Tenant} ELSE Held(p), q.left + 1)'
      <4>1. p.left + 1 \in Int
            BY <3>3, SMT, SMTT(30)
      <4>2. (IF p.pc = "checkTenant" THEN {Tenant} ELSE Held(p)) \in SUBSET Keys
            BY <3>3, SessionNumbers
      <4>3. p.late => Barred(p.s, IF p.pc = "checkTenant" THEN {Tenant} ELSE Held(p), p.left + 1)
            BY <3>3 DEF CallIsSound, RevocationIsSound
      <4>q. QED BY <3>5, <3>6, <4>1, <4>2, <4>3
    <3>9. Held(p) = {p.s.user, Tenant} /\ p.s.user \in Users /\ Superseded(p.s) => Superseded(z)'
      <4>1. SessionIsSound(p.s, Held(p))
            BY <3>3 DEF CallIsSound, RevocationIsSound
      <4>q. QED BY <1>6, <1>11, <3>3, <3>6, <4>1
    <3>10. CallIsSound(q)'
          BY <1>2, <3>3, <3>5, <3>6, <3>7, <3>8, <3>9, CallMarked
    <3>q. QED BY <3>2, <3>10
  <2>q. QED BY <2>1, <2>2
<1>15. ASSUME NEW t \in Tokens, token'[t] # NULL PROVE TokenIsSound(token[t])'
      BY <1>12, <1>15
<1>q. QED BY <1>13, <1>14, <1>15 DEF SessionsInv

\* The second command: whoever was bumped is revoked for good.
LEMMA RevokeExpireKeeps ==
    ASSUME SessionsInv, NEW c \in Calls, RevokeExpire(c)
    PROVE  SessionsInv'
<1>0. SessionsTypeOK /\ CallIsSound(call[c]) /\ call[c] \in Request /\ call[c].pc = "expire"
      BY DEF SessionsInv, SessionsTypeOK, RevokeExpire
<1>1. PICK j \in Keys : j = call[c].key
      BY <1>0 DEF CallIsSound, OpIsSound
<1>2. UNCHANGED <<user, tenant, deliveries, acked, unrevoked>>
      BY DEF RevokeExpire, iamVars, busVars
<1>3. PICK cell : cell = [counter[j] EXCEPT !.ttl = 2 * RefreshTTL]
      OBVIOUS
<1>4. /\ cell \in [value: Generations, ttl: 0 .. 2 * RefreshTTL] /\ cell.value = counter[j].value /\ cell.ttl = 2 * RefreshTTL
  <2>1. counter[j] \in [value: Generations, ttl: 0 .. 2 * RefreshTTL]
        BY <1>0 DEF SessionsTypeOK
  <2>2. 2 * RefreshTTL \in 0 .. 2 * RefreshTTL
        BY SessionNumbers, SMT, SMTT(30)
  <2>q. QED BY <1>3, <2>1, <2>2
<1>5. /\ counter' \in [Keys -> [value: Generations, ttl: 0 .. 2 * RefreshTTL]]
      /\ \A k \in Keys : /\ counter'[k].value = counter[k].value
                         /\ counter'[k].ttl = IF k = j /\ counter[k].value # 0 THEN 2 * RefreshTTL ELSE counter[k].ttl
  <2>1. counter' = (IF counter[j].value = 0 THEN counter ELSE [counter EXCEPT ![j] = cell])
        BY <1>1, <1>3 DEF RevokeExpire
  <2>2. counter \in [Keys -> [value: Generations, ttl: 0 .. 2 * RefreshTTL]]
        BY <1>0 DEF SessionsTypeOK
  <2>q. QED BY <1>4, <2>1, <2>2
<1>6. ASSUME NEW d \in Calls \ {c}
      PROVE  \E z : /\ z = MarkRevoked(call[d].s, j)
                    /\ z \in Session /\ call'[d] \in Request /\ call'[d].s = z /\ call'[d].pc = call[d].pc /\ call'[d].op = call[d].op
                    /\ call'[d].key = call[d].key /\ call'[d].tok = call[d].tok /\ call'[d].late = call[d].late /\ call'[d].left = call[d].left
  <2>0. call[d] \in Request /\ call[d].s \in Session
        BY <1>0 DEF SessionsTypeOK, Request
  <2>1. call'[d] = [call[d] EXCEPT !.s = MarkRevoked(call[d].s, j)]
        BY <1>1 DEF RevokeExpire
  <2>2. MarkRevoked(call[d].s, j) \in Session
    <3>1. [call[d].s EXCEPT !.revoked = TRUE, !.bumped = {}] \in Session
          BY <2>0 DEF Session
    <3>q. QED BY <2>0, <3>1 DEF MarkRevoked
  <2>q. QED BY <2>0, <2>1, <2>2 DEF Request
<1>7. PICK e : e = IF call[c].op = "revoke" THEN Idle ELSE [call[c] EXCEPT !.pc = "reread"]
      OBVIOUS
<1>8. call'[c] = e /\ e \in Request /\ CallIsSound(e)'
  <2>1. call'[c] = e
        BY <1>7 DEF RevokeExpire
  <2>2. CASE call[c].op = "revoke"
    <3>1. RevocationIsSound(Idle)'
      <4>1. Held(Idle) = {}
            BY Empties DEF Held, HoldsGeneration
      <4>q. QED BY <4>1, Empties DEF RevocationIsSound, SessionIsSound
    <3>2. CallIsSound(Idle)'
          BY <3>1, Empties DEF CallIsSound, OpIsSound, SupportIsSound
    <3>q. QED BY <1>7, <2>1, <2>2, <3>2, Empties
  <2>3. CASE call[c].op # "revoke"
    <3>0. /\ e \in Request /\ e.pc = "reread" /\ e.op = call[c].op /\ e.key = call[c].key
          /\ e.s = call[c].s /\ e.late = call[c].late
          BY <1>0, <1>7, <2>3 DEF Request
    <3>1. Held(call[c]) = {} /\ Held(e) = {}
          BY <1>0, <3>0 DEF Held, HoldsGeneration
    <3>2. e.s.bumped = {} /\ ~e.late /\ (e.s.revoked => FALSE)
          BY <1>0, <3>0, <3>1 DEF CallIsSound, RevocationIsSound, SessionIsSound, Barred
    <3>3. RevocationIsSound(e)'
          BY <3>0, <3>1, <3>2 DEF RevocationIsSound, SessionIsSound
    <3>4. OpIsSound(e)'
          BY <1>0, <3>0 DEF CallIsSound, OpIsSound
    <3>5. CallIsSound(e)'
          BY <3>0, <3>3, <3>4 DEF CallIsSound, SupportIsSound
    <3>q. QED BY <2>1, <3>0, <3>5
  <2>q. QED BY <2>2, <2>3
<1>9. call' \in [Calls -> Request]
  <2>1. \A d \in Calls : call'[d] \in Request
        BY <1>6, <1>8
  <2>2. DOMAIN call' = Calls /\ call' = [d \in Calls |-> call'[d]]
        BY DEF RevokeExpire
  <2>q. QED BY <2>1, <2>2
<1>10. ASSUME NEW k \in Keys, Excused(k) PROVE Excused(k)'
  <2>1. CASE \E f \in unrevoked : f.key = k
        BY <1>2, <2>1 DEF Excused
  <2>2. CASE Bumping(k)
    <3>1. PICK d \in Calls : call[d].key = k /\ call[d].pc = "incr"
          BY <2>2 DEF Bumping
    <3>2. d # c
          BY <1>0, <3>1
    <3>3. call'[d].key = k /\ call'[d].pc = "incr"
          BY <1>6, <3>1, <3>2
    <3>4. Bumping(k)'
          BY <3>3 DEF Bumping
    <3>q. QED BY <3>4 DEF Excused
  <2>q. QED BY <1>10, <2>1, <2>2 DEF Excused
<1>11. ASSUME NEW s \in Session, NEW z \in Session, s.user \in Users, Superseded(s),
             z.user = s.user, z.grant = s.grant, z.raced = s.raced, z.lapsed = s.lapsed, \A k : Gen(z, k) = Gen(s, k)
      PROVE  Superseded(z)'
  <2>1. Owed(z)' = Owed(s) /\ Owed(s) \subseteq Keys
        BY <1>2, <1>11, SessionNumbers DEF Owed
  <2>2. \A k : Gen(z, k)' = Gen(z, k)
        BY DEF Gen
  <2>q. QED BY <1>5, <1>10, <1>11, <2>1, <2>2 DEF Superseded
<1>12. ASSUME NEW t \in Tokens
       PROVE  \/ token'[t] = NULL
              \/ \E x \in Stored : token'[t] = x /\ TokenIsSound(x)'
  <2>1. CASE token[t] = NULL
        BY <2>1 DEF RevokeExpire
  <2>2. CASE token[t] # NULL
    <3>1. PICK y \in Stored : y = token[t]
          BY <1>0, <2>2 DEF SessionsTypeOK
    <3>2. TokenIsSound(y) /\ y.s \in Session /\ y.s.user \in Users /\ y.ttl \in 1 .. RefreshTTL
          BY <2>2, <3>1 DEF SessionsInv, TokenIsSound, Stored
    <3>3. PICK held \in SUBSET Keys : held = {y.s.user, Tenant}
          BY <3>2, SessionNumbers
    <3>4. PICK z : z = MarkRevoked(y.s, j)
          OBVIOUS
    <3>5. /\ z \in Session /\ z.user = y.s.user /\ z.grant = y.s.grant /\ z.raced = y.s.raced
          /\ z.lapsed = y.s.lapsed /\ (\A k : Gen(z, k) = Gen(y.s, k))
          /\ SessionIsSound(z, held)'
          /\ \A K \in SUBSET Keys, n \in Int : Barred(y.s, K, n) => Barred(z, K, n)'
          /\ \A n \in Int : z.revoked /\ n <= 2 * RefreshTTL => y.s.revoked \/ Barred(z, held, n)'
      <4>1. SessionIsSound(y.s, held)
            BY <3>2, <3>3 DEF TokenIsSound
      <4>q. QED BY <1>0, <1>5, <3>2, <3>4, <4>1, ExpireMarks, SMT, SMTT(30)
    <3>6. PICK x : x = [y EXCEPT !.s = z]
          OBVIOUS
    <3>7. x \in Stored /\ x.s = z /\ x.ttl = y.ttl
          BY <3>5, <3>6 DEF Stored
    <3>8. token'[t] = x
      <4>1. token'[t] = [token[t] EXCEPT !.s = MarkRevoked(token[t].s, j)]
            BY <1>1, <2>2 DEF RevokeExpire
      <4>q. QED BY <3>1, <3>4, <3>6, <4>1
    <3>9. z.revoked => Barred(z, held, x.ttl + RefreshTTL - CallSpan)'
      <4>1. x.ttl + RefreshTTL - CallSpan \in Int /\ x.ttl + RefreshTTL - CallSpan <= 2 * RefreshTTL
            BY <3>2, <3>7, SessionNumbers, SMT, SMTT(30)
      <4>2. y.s.revoked => Barred(y.s, held, x.ttl + RefreshTTL - CallSpan)
            BY <3>2, <3>3, <3>7 DEF TokenIsSound
      <4>q. QED BY <3>5, <4>1, <4>2
    <3>10. Superseded(z)'
          BY <1>11, <3>2, <3>5 DEF TokenIsSound
    <3>11. TokenIsSound(x)'
          BY <3>2, <3>3, <3>5, <3>7, <3>9, <3>10 DEF TokenIsSound
    <3>q. QED BY <3>7, <3>8, <3>11
  <2>q. QED BY <2>1, <2>2
<1>13. SessionsTypeOK'
  <2>1. token' \in [Tokens -> Stored \union {NULL}]
    <3>1. \A t \in Tokens : token'[t] \in Stored \union {NULL}
          BY <1>12
    <3>2. DOMAIN token' = Tokens /\ token' = [t \in Tokens |-> token'[t]]
          BY DEF RevokeExpire
    <3>q. QED BY <3>1, <3>2
  <2>q. QED BY <1>0, <1>2, <1>5, <1>9, <2>1 DEF SessionsTypeOK
<1>14. ASSUME NEW d \in Calls PROVE CallIsSound(call[d])'
  <2>1. CASE d = c
        BY <1>8, <2>1
  <2>2. CASE d # c
    <3>1. PICK p \in Request : p = call[d]
          BY <1>0 DEF SessionsTypeOK
    <3>2. PICK q \in Request : q = call'[d]
          BY <1>9
    <3>3. CallIsSound(p) /\ p.s \in Session /\ p.left \in 0 .. CallSpan /\ p.late \in BOOLEAN /\ Held(p) \in SUBSET Keys
          BY <3>1, HeldConcerns DEF SessionsInv, Request
    <3>4. PICK z : z = MarkRevoked(p.s, j)
          OBVIOUS
    <3>5. /\ q.pc = p.pc /\ q.op = p.op /\ q.key = p.key /\ q.tok = p.tok /\ q.late = p.late /\ q.s = z /\ q.left = p.left
          BY <1>6, <2>2, <3>1, <3>2, <3>4
    <3>6. /\ z \in Session /\ z.user = p.s.user /\ z.grant = p.s.grant /\ z.raced = p.s.raced
          /\ z.lapsed = p.s.lapsed /\ (\A k : Gen(z, k) = Gen(p.s, k))
          /\ SessionIsSound(z, Held(p))'
          /\ \A K \in SUBSET Keys, n \in Int : Barred(p.s, K, n) => Barred(z, K, n)'
          /\ \A n \in Int : z.revoked /\ n <= 2 * RefreshTTL => p.s.revoked \/ Barred(z, Held(p), n)'
      <4>1. SessionIsSound(p.s, Held(p))
            BY <3>3 DEF CallIsSound, RevocationIsSound
      <4>q. QED BY <1>0, <1>5, <3>3, <3>4, <4>1, ExpireMarks, SMT, SMTT(30)
    <3>7. z.revoked /\ ~p.late => Barred(z, Held(p), 2 * RefreshTTL - CallSpan + q.left)'
      <4>1. 2 * RefreshTTL - CallSpan + p.left \in Int /\ 2 * RefreshTTL - CallSpan + p.left <= 2 * RefreshTTL
            BY <3>3, SessionNumbers, SMT, SMTT(30)
      <4>2. p.s.revoked /\ ~p.late => Barred(p.s, Held(p), 2 * RefreshTTL - CallSpan + p.left)
            BY <3>3 DEF CallIsSound, RevocationIsSound
      <4>q. QED BY <3>3, <3>5, <3>6, <4>1, <4>2
    <3>8. p.late => Barred(z, IF p.pc = "checkTenant" THEN {Tenant} ELSE Held(p), q.left + 1)'
      <4>1. p.left + 1 \in Int
            BY <3>3, SMT, SMTT(30)
      <4>2. (IF p.pc = "checkTenant" THEN {Tenant} ELSE Held(p)) \in SUBSET Keys
            BY <3>3, SessionNumbers
      <4>3. p.late => Barred(p.s, IF p.pc = "checkTenant" THEN {Tenant} ELSE Held(p), p.left + 1)
            BY <3>3 DEF CallIsSound, RevocationIsSound
      <4>q. QED BY <3>5, <3>6, <4>1, <4>2, <4>3
    <3>9. Held(p) = {p.s.user, Tenant} /\ p.s.user \in Users /\ Superseded(p.s) => Superseded(z)'
          BY <1>11, <3>3, <3>6
    <3>10. CallIsSound(q)'
          BY <1>2, <3>3, <3>5, <3>6, <3>7, <3>8, <3>9, CallMarked
    <3>q. QED BY <3>2, <3>10
  <2>q. QED BY <2>1, <2>2
<1>15. ASSUME NEW t \in Tokens, token'[t] # NULL PROVE TokenIsSound(token[t])'
      BY <1>12, <1>15
<1>q. QED BY <1>13, <1>14, <1>15 DEF SessionsInv

\* Time passes: what bars a session outlives it.
LEMMA TickKeeps ==
    ASSUME SessionsInv, Tick
    PROVE  SessionsInv'
<1>0. SessionsTypeOK /\ UNCHANGED <<user, tenant, deliveries, acked, unrevoked>>
      BY DEF SessionsInv, Tick, iamVars, busVars
<1>1. PICK gone \in SUBSET Keys : gone = {k \in Keys : counter[k].ttl = 1}
      OBVIOUS
<1>2. ASSUME NEW k \in Keys
      PROVE  /\ counter'[k] \in [value: Generations, ttl: 0 .. 2 * RefreshTTL]
             /\ (k \notin gone => counter'[k].value = counter[k].value)
             /\ (k \notin gone /\ counter[k].ttl # 0 => counter'[k].ttl = counter[k].ttl - 1)
  <2>0. counter[k] \in [value: Generations, ttl: 0 .. 2 * RefreshTTL]
        BY <1>0 DEF SessionsTypeOK
  <2>1. counter'[k] = IF k \in gone THEN [value |-> 0, ttl |-> 0]
                      ELSE IF counter[k].ttl = 0 THEN counter[k]
                      ELSE [counter[k] EXCEPT !.ttl = counter[k].ttl - 1]
        BY <1>1 DEF Tick
  <2>2. CASE k \in gone
        BY <2>1, <2>2, SessionNumbers, SMT, SMTT(30)
  <2>3. CASE k \notin gone /\ counter[k].ttl = 0
        BY <2>0, <2>1, <2>3
  <2>4. CASE k \notin gone /\ counter[k].ttl # 0
    <3>1. counter[k].ttl - 1 \in 0 .. 2 * RefreshTTL
          BY <2>0, <2>4, SessionNumbers, SMT, SMTT(30)
    <3>2. counter'[k] = [counter[k] EXCEPT !.ttl = counter[k].ttl - 1]
          BY <2>1, <2>4
    <3>q. QED BY <2>0, <2>4, <3>1, <3>2
  <2>q. QED BY <2>2, <2>3, <2>4
<1>2a. Passes(gone)
      BY <1>1, <1>2 DEF Passes
<1>3. counter' \in [Keys -> [value: Generations, ttl: 0 .. 2 * RefreshTTL]]
  <2>1. DOMAIN counter' = Keys /\ counter' = [k \in Keys |-> counter'[k]]
        BY DEF Tick
  <2>q. QED BY <1>2, <2>1
<1>4. ASSUME NEW d \in Calls, call[d].pc # "idle"
      PROVE  \E z : /\ z = MarkLapsed(call[d].s, gone \intersect Held(call[d])) /\ call[d].left > 0
                    /\ z \in Session /\ call'[d] \in Request /\ call'[d].s = z /\ call'[d].pc = call[d].pc /\ call'[d].op = call[d].op
                    /\ call'[d].key = call[d].key /\ call'[d].tok = call[d].tok /\ call'[d].late = call[d].late
                    /\ call'[d].left = call[d].left - 1
  <2>0. call[d] \in Request /\ call[d].s \in Session /\ call[d].left \in 0 .. CallSpan
        BY <1>0 DEF SessionsTypeOK, Request
  <2>1. PICK z : z = MarkLapsed(call[d].s, gone \intersect Held(call[d]))
        OBVIOUS
  <2>2. call'[d] = [call[d] EXCEPT !.left = call[d].left - 1, !.s = z] /\ call[d].left > 0
    <3>1. {k \in gone : HoldsGeneration(call[d], k)} = gone \intersect Held(call[d])
          BY DEF Held
    <3>2. call'[d] = [call[d] EXCEPT !.left = call[d].left - 1,
                                     !.s = MarkLapsed(call[d].s, {k \in gone : HoldsGeneration(call[d], k)})]
          BY <1>1, <1>4 DEF Tick
    <3>q. QED BY <1>4, <2>1, <3>1, <3>2 DEF Tick
  <2>3. z \in Session
    <3>1. [call[d].s EXCEPT !.lapsed = TRUE, !.bumped = {}] \in Session
          BY <2>0 DEF Session
    <3>q. QED BY <2>0, <2>1, <3>1 DEF MarkLapsed
  <2>4. call[d].left - 1 \in 0 .. CallSpan
        BY <2>0, <2>2, SessionNumbers, SMT, SMTT(30)
  <2>q. QED BY <2>0, <2>1, <2>2, <2>3, <2>4 DEF Request
<1>5. \A d \in Calls : call[d].pc = "idle" => call'[d] = Idle
      BY DEF Tick
<1>6. call' \in [Calls -> Request]
  <2>1. \A d \in Calls : call'[d] \in Request
        BY <1>4, <1>5, Empties
  <2>2. DOMAIN call' = Calls /\ call' = [d \in Calls |-> call'[d]]
        BY DEF Tick
  <2>q. QED BY <2>1, <2>2
<1>7. ASSUME NEW k \in Keys, Excused(k) PROVE Excused(k)'
  <2>1. CASE \E f \in unrevoked : f.key = k
        BY <1>0, <2>1 DEF Excused
  <2>2. CASE Bumping(k)
    <3>1. PICK d \in Calls : call[d].key = k /\ call[d].pc = "incr"
          BY <2>2 DEF Bumping
    <3>2. call'[d].key = k /\ call'[d].pc = "incr"
          BY <1>4, <3>1
    <3>3. Bumping(k)'
          BY <3>2 DEF Bumping
    <3>q. QED BY <3>3 DEF Excused
  <2>q. QED BY <1>7, <2>1, <2>2 DEF Excused
<1>8. ASSUME NEW s \in Session, NEW z \in Session, s.user \in Users, Superseded(s),
             z.user = s.user, z.grant = s.grant, z.raced = s.raced, \A k : Gen(z, k) = Gen(s, k),
             ~z.lapsed => ~s.lapsed /\ gone \intersect {s.user, Tenant} = {}
      PROVE  Superseded(z)'
  <2>1. Owed(z)' = Owed(s) /\ Owed(s) \subseteq {s.user, Tenant} /\ {s.user, Tenant} \subseteq Keys
        BY <1>0, <1>8, SessionNumbers DEF Owed
  <2>2. \A k : Gen(z, k)' = Gen(z, k)
        BY DEF Gen
  <2>3. ASSUME ~z.raced, ~z.lapsed, NEW k \in Owed(s) PROVE counter'[k].value > Gen(z, k) \/ Excused(k)'
    <3>1. counter'[k].value = counter[k].value /\ k \in Keys
          BY <1>2, <1>8, <2>1, <2>3
    <3>2. counter[k].value > Gen(s, k) \/ Excused(k)
          BY <1>8, <2>3 DEF Superseded
    <3>q. QED BY <1>7, <1>8, <3>1, <3>2
  <2>q. QED BY <2>1, <2>2, <2>3 DEF Superseded
<1>9. ASSUME NEW t \in Tokens
       PROVE  \/ token'[t] = NULL
              \/ \E x \in Stored : token'[t] = x /\ TokenIsSound(x)'
  <2>1. CASE token[t] = NULL \/ token[t].ttl = 1
        BY <2>1 DEF Tick
  <2>2. CASE ~(token[t] = NULL \/ token[t].ttl = 1)
    <3>1. PICK y \in Stored : y = token[t]
          BY <1>0, <2>2 DEF SessionsTypeOK
    <3>2. TokenIsSound(y) /\ y.s \in Session /\ y.s.user \in Users /\ y.ttl \in 1 .. RefreshTTL /\ y.ttl # 1
          BY <2>2, <3>1 DEF SessionsInv, TokenIsSound, Stored
    <3>3. PICK held \in SUBSET Keys : held = {y.s.user, Tenant}
          BY <3>2, SessionNumbers
    <3>4. PICK z : z = MarkLapsed(y.s, gone \intersect held)
          OBVIOUS
    <3>5. /\ z \in Session /\ z.user = y.s.user /\ z.grant = y.s.grant /\ z.raced = y.s.raced /\ z.revoked = y.s.revoked
          /\ (\A k : Gen(z, k) = Gen(y.s, k)) /\ (~z.lapsed => ~y.s.lapsed /\ gone \intersect held = {})
          /\ SessionIsSound(z, held)'
          /\ \A K \in SUBSET Keys, n \in Int : Barred(y.s, K, n) /\ n >= 2 => Barred(z, K, n - 1)'
      <4>1. SessionIsSound(y.s, held) /\ \A k \in held : Concerns(y.s, k)
            BY <3>2, <3>3 DEF TokenIsSound, Concerns
      <4>q. QED BY <1>0, <1>2a, <3>2, <3>4, <4>1, TickMarks, SMT, SMTT(30)
    <3>6. PICK x : x = [ttl |-> y.ttl - 1, s |-> z]
          OBVIOUS
    <3>7. x \in Stored /\ x.s = z /\ x.ttl = y.ttl - 1
      <4>1. y.ttl - 1 \in 1 .. RefreshTTL
            BY <3>2, SessionNumbers, SMT, SMTT(30)
      <4>q. QED BY <3>5, <3>6, <4>1 DEF Stored
    <3>8. token'[t] = x
      <4>1. z = MarkLapsed(y.s, gone)
            BY <3>3, <3>4 DEF MarkLapsed, Concerns
      <4>2. token'[t] = [ttl |-> token[t].ttl - 1, s |-> MarkLapsed(token[t].s, gone)]
            BY <1>1, <2>2 DEF Tick
      <4>q. QED BY <3>1, <3>6, <4>1, <4>2
    <3>9. z.revoked => Barred(z, held, x.ttl + RefreshTTL - CallSpan)'
      <4>1. PICK n \in Int : n = y.ttl + RefreshTTL - CallSpan
            BY <3>2, SessionNumbers, SMT, SMTT(30)
      <4>2. n >= 2 /\ n - 1 = x.ttl + RefreshTTL - CallSpan
            BY <3>2, <3>7, <4>1, SessionNumbers, SMT, SMTT(30)
      <4>3. y.s.revoked => Barred(y.s, held, n)
            BY <3>2, <3>3, <4>1 DEF TokenIsSound
      <4>4. z.revoked => Barred(z, held, n - 1)'
            BY <3>5, <4>2, <4>3
      <4>q. QED BY <4>2, <4>4
    <3>10. Superseded(z)'
          BY <1>8, <3>2, <3>3, <3>5 DEF TokenIsSound
    <3>11. TokenIsSound(x)'
          BY <3>2, <3>3, <3>5, <3>7, <3>9, <3>10 DEF TokenIsSound
    <3>q. QED BY <3>7, <3>8, <3>11
  <2>q. QED BY <2>1, <2>2
<1>10. SessionsTypeOK'
  <2>1. token' \in [Tokens -> Stored \union {NULL}]
    <3>1. \A t \in Tokens : token'[t] \in Stored \union {NULL}
          BY <1>9
    <3>2. DOMAIN token' = Tokens /\ token' = [t \in Tokens |-> token'[t]]
          BY DEF Tick
    <3>q. QED BY <3>1, <3>2
  <2>q. QED BY <1>0, <1>3, <1>6, <2>1 DEF SessionsTypeOK
<1>11. ASSUME NEW d \in Calls PROVE CallIsSound(call[d])'
  <2>1. CASE call[d].pc = "idle"
    <3>1. RevocationIsSound(Idle)'
      <4>1. Held(Idle) = {}
            BY Empties DEF Held, HoldsGeneration
      <4>q. QED BY <4>1, Empties DEF RevocationIsSound, SessionIsSound
    <3>2. CallIsSound(Idle)'
          BY <3>1, Empties DEF CallIsSound, OpIsSound, SupportIsSound
    <3>q. QED BY <1>5, <2>1, <3>2
  <2>2. CASE call[d].pc # "idle"
    <3>1. PICK p \in Request : p = call[d]
          BY <1>0 DEF SessionsTypeOK
    <3>2. PICK q \in Request : q = call'[d]
          BY <1>6
    <3>3. /\ CallIsSound(p) /\ p.s \in Session /\ p.left \in 0 .. CallSpan /\ p.late \in BOOLEAN /\ Held(p) \in SUBSET Keys
          /\ \A k \in Held(p) : Concerns(p.s, k)
          BY <3>1, HeldConcerns DEF SessionsInv, Request
    <3>4. PICK z : z = MarkLapsed(p.s, gone \intersect Held(p))
          OBVIOUS
    <3>5. /\ q.pc = p.pc /\ q.op = p.op /\ q.key = p.key /\ q.tok = p.tok /\ q.late = p.late /\ q.s = z
          /\ q.left = p.left - 1 /\ p.left > 0
          BY <1>4, <2>2, <3>1, <3>2, <3>4
    <3>6. /\ z \in Session /\ z.user = p.s.user /\ z.grant = p.s.grant /\ z.raced = p.s.raced /\ z.revoked = p.s.revoked
          /\ (\A k : Gen(z, k) = Gen(p.s, k)) /\ (~z.lapsed => ~p.s.lapsed /\ gone \intersect Held(p) = {})
          /\ SessionIsSound(z, Held(p))'
          /\ \A K \in SUBSET Keys, n \in Int : Barred(p.s, K, n) /\ n >= 2 => Barred(z, K, n - 1)'
      <4>1. SessionIsSound(p.s, Held(p))
            BY <3>3 DEF CallIsSound, RevocationIsSound
      <4>q. QED BY <1>0, <1>2a, <3>3, <3>4, <4>1, TickMarks, SMT, SMTT(30)
    <3>7. z.revoked /\ ~p.late => Barred(z, Held(p), 2 * RefreshTTL - CallSpan + q.left)'
      <4>1. PICK n \in Int : n = 2 * RefreshTTL - CallSpan + p.left
            BY <3>3, SessionNumbers, SMT, SMTT(30)
      <4>2. n >= 2 /\ n - 1 = 2 * RefreshTTL - CallSpan + q.left
            BY <3>3, <3>5, <4>1, SessionNumbers, SMT, SMTT(30)
      <4>3. p.s.revoked /\ ~p.late => Barred(p.s, Held(p), n)
            BY <3>3, <4>1 DEF CallIsSound, RevocationIsSound
      <4>4. z.revoked /\ ~p.late => Barred(z, Held(p), n - 1)'
            BY <3>3, <3>6, <4>2, <4>3
      <4>q. QED BY <4>2, <4>4
    <3>8. p.late => Barred(z, IF p.pc = "checkTenant" THEN {Tenant} ELSE Held(p), q.left + 1)'
      <4>1. PICK n \in Int : n = p.left + 1
            BY <3>3, SMT, SMTT(30)
      <4>2. n >= 2 /\ n - 1 = q.left + 1
            BY <3>3, <3>5, <4>1, SMT, SMTT(30)
      <4>3. PICK K \in SUBSET Keys : K = (IF p.pc = "checkTenant" THEN {Tenant} ELSE Held(p))
            BY <3>3, SessionNumbers
      <4>4. p.late => Barred(p.s, K, n)
            BY <3>3, <4>1, <4>3 DEF CallIsSound, RevocationIsSound
      <4>5. p.late => Barred(z, K, n - 1)'
            BY <3>6, <4>2, <4>4
      <4>q. QED BY <4>2, <4>3, <4>5
    <3>9. Held(p) = {p.s.user, Tenant} /\ p.s.user \in Users /\ Superseded(p.s) => Superseded(z)'
          BY <1>8, <3>3, <3>6
    <3>10. CallIsSound(q)'
          BY <1>0, <3>3, <3>5, <3>6, <3>7, <3>8, <3>9, CallMarked
    <3>q. QED BY <3>2, <3>10
  <2>q. QED BY <2>1, <2>2
<1>12. ASSUME NEW t \in Tokens, token'[t] # NULL PROVE TokenIsSound(token[t])'
      BY <1>9, <1>12
<1>q. QED BY <1>10, <1>11, <1>12 DEF SessionsInv

-----------------------------------------------------------------------------
\* Whatever the requests of a tenant do, in whatever order their round trips fall, every stored token
\* and every request in flight is as SessionsInv says.
THEOREM SessionsInvariant == SessionsSpec => []SessionsInv
<1>1. SessionsInit => SessionsInv
  <2> SUFFICES ASSUME SessionsInit PROVE SessionsInv
      OBVIOUS
  <2>1. 0 \in 0 .. 2 * RefreshTTL /\ 0 \in 0 .. MaxGrants /\ MaxDeliver \in 0 .. MaxDeliver
        BY SessionNumbers, SMT, SMTT(30)
  <2>2. user \in [Users -> [status: {"none", "active", "deactivated"}, grant: 0 .. MaxGrants]]
        BY <2>1 DEF SessionsInit
  <2>3. counter \in [Keys -> [value: Generations, ttl: 0 .. 2 * RefreshTTL]]
        BY <2>1, SessionNumbers DEF SessionsInit
  <2>4. SessionsTypeOK
        BY <2>1, <2>2, <2>3, Empties DEF SessionsInit, SessionsTypeOK
  <2>q. QED BY <2>4, IdleIsSound DEF SessionsInv, SessionsInit
<1>2. SessionsInv /\ [SessionsNext]_sessionVars => SessionsInv'
  <2> SUFFICES ASSUME SessionsInv, [SessionsNext]_sessionVars PROVE SessionsInv'
      OBVIOUS
  <2>1. CASE UNCHANGED sessionVars
    <3>0. UNCHANGED <<counter, token, user, tenant, call, deliveries, acked, unrevoked>> /\ SessionsTypeOK
          BY <2>1 DEF sessionVars, iamVars, busVars, SessionsInv
    <3>1. \A k \in Keys : Excused(k) => Excused(k)'
          BY <3>0 DEF Excused, Bumping
    <3>2. call' \in [Calls -> Request] /\ \A d \in Calls : \E p \in Request : call'[d] = p /\ CallIsSound(p)
          BY <3>0 DEF SessionsTypeOK, SessionsInv
    <3>3. /\ UNCHANGED counter /\ tenant' = tenant /\ deliveries' \in 0 .. MaxDeliver /\ acked' \in BOOLEAN
          /\ unrevoked' \subseteq [key: Keys, op: {"revoke", "suspend", "billing"}]
          /\ token' \in [Tokens -> Stored \union {NULL}] /\ (\A t \in Tokens : token'[t] = token[t])
          /\ user' \in [Users -> [status: {"none", "active", "deactivated"}, grant: 0 .. MaxGrants]] /\ user' = user
          BY <3>0 DEF SessionsTypeOK
    <3>q. QED BY <3>1, <3>2, <3>3, AllKept
  <2>2. ASSUME NEW c \in Calls, NEW u \in Users,
               LoginTenant(c, u) \/ AcceptInvitation(c, u) \/ DeactivateUser(c, u) \/ ChangePassword(c, u) \/ RevokeRole(c, u)
        PROVE  SessionsInv'
        BY <2>2, LoginKeeps, AcceptKeeps, RevocationBegins DEF ChangePassword, RevokeRole
  <2>3. ASSUME NEW c \in Calls, LoginUser(c) PROVE SessionsInv'
    <3>1. call[c].s.user \in Users
          BY <2>3 DEF LoginUser, SessionsInv, CallIsSound, OpIsSound
    <3>q. QED BY <2>3, <3>1, LoginKeeps
  <2>4. ASSUME NEW c \in Calls, IssueReadUser(c) \/ IssueReadTenant(c) PROVE SessionsInv'
        BY <2>4, IssueReadKeeps
  <2>5. ASSUME NEW c \in Calls, NEW k \in Tokens, IssueStore(c, k) \/ RefreshGet(c, k) PROVE SessionsInv'
        BY <2>5, IssueStoreKeeps, RefreshGetKeeps
  <2>6. ASSUME NEW c \in Calls, RefreshDel(c) \/ RefreshReadUser(c) \/ RefreshReadTenant(c) PROVE SessionsInv'
        BY <2>6, RefreshDelKeeps, RefreshReadKeeps
  <2>7. ASSUME (\E k \in Tokens : Logout(k)) \/ (\E u \in Users : ActivateUser(u)) PROVE SessionsInv'
        BY <2>7, LogoutAndActivateKeep
  <2>8. ASSUME NEW c \in Calls, SuspendTenant(c) \/ HandleSuspend(c) PROVE SessionsInv'
        BY <2>8, SuspensionBegins
  <2>9. ASSUME NEW c \in Calls, RevokeIncr(c) \/ RevokeExpire(c) PROVE SessionsInv'
        BY <2>9, RevokeIncrKeeps, RevokeExpireKeeps
  <2>10. ASSUME NEW c \in Calls, SuspendReturns(c) \/ HandleRead(c) \/ CallFails(c) PROVE SessionsInv'
        BY <2>10, ConsumerKeeps
  <2>q. QED BY <2>1, <2>2, <2>3, <2>4, <2>5, <2>6, <2>7, <2>8, <2>9, <2>10, TickKeeps DEF SessionsNext
<1>q. QED BY <1>1, <1>2, PTL DEF SessionsSpec

\* A bulk revocation is final: no refresh that presents a revoked session gets as far as a new token,
\* for any number of users, tokens and requests and any lifetimes with twice a request's span within
\* a token's.
THEOREM RevokedNotRefreshedHolds == SessionsSpec => []RevokedNotRefreshed
<1>1. SessionsInv => RevokedNotRefreshed
      BY DEF SessionsInv, CallIsSound, RevocationIsSound, RevokedNotRefreshed
<1>q. QED BY <1>1, SessionsInvariant, PTL

\* A session the database no longer supports is refused, unless the bump is on its way or has failed,
\* the login overlapped the change, or a counter it was issued under has expired.
THEOREM SupersededSessionsEndHolds == SessionsSpec => []SupersededSessionsEnd
<1>1. SessionsInv => SupersededSessionsEnd
  <2> SUFFICES ASSUME SessionsInv, NEW k \in Tokens, Acceptable(k), NEW key \in Owed(token[k].s),
                      ~token[k].s.raced, ~token[k].s.lapsed
               PROVE  Bumping(key) \/ \E f \in unrevoked : f.key = key
      BY DEF SupersededSessionsEnd
  <2>1. SessionsTypeOK /\ TokenIsSound(token[k])
        BY DEF SessionsInv, Acceptable
  <2>2. token[k].s.user \in Users /\ key \in {token[k].s.user, Tenant} /\ token[k].s.user # Tenant
        BY <2>1, SessionNumbers DEF TokenIsSound, Owed
  <2>3. token[k].s \in Session /\ counter[key].value \in Nat
        BY <2>1, <2>2, CounterFields, SessionNumbers DEF SessionsTypeOK, Stored, Acceptable
  <2>4. counter[key].value = Gen(token[k].s, key)
        BY <2>2 DEF Acceptable, Gen
  <2>5. counter[key].value > Gen(token[k].s, key) \/ Excused(key)
        BY <2>1 DEF TokenIsSound, Superseded
  <2>q. QED BY <2>3, <2>4, <2>5, SMT, SMTT(30) DEF Excused
<1>q. QED BY <1>1, SessionsInvariant, PTL

-----------------------------------------------------------------------------
(* The web client's session                                                *)

\* A call in flight belongs to a tab, and has a pair unless it is still waiting for one.
FlowIsSound(k) ==
    \/ k = NoFlow
    \/ /\ k.tab \in Tabs /\ k.at # "none"
       /\ k.at # "login" => k.pair \in Issued
       /\ k.at = "login" => k.who \in People

\* A tab shows nobody, or the user its token was issued to.
Owns(t) == tab[t].user # Nobody => tab[t].token # 0 /\ owner[tab[t].token] = tab[t].user

\* A tab none of whose calls overlapped: the one in flight, if any, is the provider's own; while a
\* session is being restored nobody is shown; a request for the user carries the tab's own token.
TabIsSound(t) ==
    /\ \A f, g \in BusyIn(t) : f = g
    /\ \A f \in BusyIn(t) : flow[f].mine
    /\ (\A f \in BusyIn(t) : flow[f].at # "loginMe") => Owns(t)
    /\ \A f \in BusyIn(t) : flow[f].at \in {"me", "refresh", "granted", "refused", "me2"} => tab[t].user = Nobody
    /\ \A f \in BusyIn(t) : flow[f].at \in {"me", "me2", "loginMe"} => tab[t].token = flow[f].pair

\* The inductive invariant of the tabs.
TabsInv ==
    /\ WebTypeOK
    /\ \A f \in Flows : FlowIsSound(flow[f])
    /\ \A t \in Tabs \ muddled : TabIsSound(t)

\* A call's record, field by field.
LEMMA FlowFields ==
    ASSUME WebTypeOK, NEW f \in Flows
    PROVE  /\ flow[f] \in Flow /\ flow[f].mine \in BOOLEAN /\ flow[f].pair \in {0} \union Issued
           /\ NoFlow.at = "none" /\ NoFlow.tab = Nobody
           /\ (FlowIsSound(flow[f]) /\ flow[f].at # "none" => f \in Busy /\ flow[f].tab \in Tabs)
           /\ (FlowIsSound(flow[f]) /\ f \in Busy => flow[f].tab \in Tabs /\ flow[f].at # "none")
BY SMT, SMTT(30) DEF WebTypeOK, Flow, FlowIsSound, NoFlow, Busy

\* What is issued stays issued, to the same person.
LEMMA IssuedStays ==
    ASSUME WebTypeOK, NEW u \in People, NEW p, Issue(u, p)
    PROVE  /\ Issued' = Issued \union {p} /\ p \in Pairs /\ p \notin Issued /\ owner'[p] = u
           /\ owner' \in [Pairs -> People \union {Nobody}]
           /\ \A q \in Issued : owner'[q] = owner[q]
BY WebAssumption, SMT, SMTT(30) DEF WebTypeOK, Issue, Issued

\* A step of a call within its flow.
LEMMA FlowSteps ==
    ASSUME WebTypeOK, NEW f \in Flows, FlowIsSound(flow[f]), flow[f].at # "none",
           NEW at \in {"me", "refresh", "granted", "me2", "refused", "loggedIn", "loginMe", "logout", "loggedOut"},
           NEW p \in Issued', Step(f, at, p), Issued \subseteq Issued'
    PROVE  /\ flow' \in [Flows -> Flow'] /\ FlowIsSound(flow[f])' /\ flow'[f] # NoFlow
           /\ flow'[f].at = at /\ flow'[f].pair = p /\ flow'[f].tab = flow[f].tab /\ flow'[f].mine = flow[f].mine
           /\ \A g \in Flows \ {f} : flow'[g] = flow[g]
<1>1. flow[f] \in Flow /\ flow[f].tab \in Tabs
      BY FlowFields
<1>2. PICK k : k = [flow[f] EXCEPT !.at = at, !.pair = p]
      OBVIOUS
<1>3. /\ k.at = at /\ k.pair = p /\ k.tab = flow[f].tab /\ k.mine = flow[f].mine /\ k.who = flow[f].who
      BY <1>1, <1>2 DEF Flow
<1>4. k \in Flow'
      BY <1>1, <1>2 DEF Flow
<1>5. /\ flow' = [flow EXCEPT ![f] = k]
      BY <1>2 DEF Step
<1>6. flow \in [Flows -> Flow'] /\ flow \in [Flows -> Flow]
      BY DEF WebTypeOK, Flow
<1>7. flow'[f] = k /\ \A g \in Flows \ {f} : flow'[g] = flow[g]
      BY <1>5, <1>6
<1>8. k # NoFlow
      BY <1>3, SMT, SMTT(30) DEF NoFlow
<1>9. FlowIsSound(flow[f])'
      BY <1>1, <1>3, <1>7 DEF FlowIsSound
<1>10. flow' \in [Flows -> Flow']
      BY <1>4, <1>5, <1>6
<1>q. QED BY <1>3, <1>7, <1>8, <1>9, <1>10

\* A call ends.
LEMMA FlowEnds ==
    ASSUME WebTypeOK, NEW f \in Flows, Ends(f), Issued \subseteq Issued'
    PROVE  /\ flow' \in [Flows -> Flow'] /\ flow'[f] = NoFlow
           /\ \A g \in Flows \ {f} : flow'[g] = flow[g]
<1>1. NoFlow \in Flow'
      BY DEF NoFlow, Flow
<1>2. flow \in [Flows -> Flow'] /\ flow \in [Flows -> Flow]
      BY DEF WebTypeOK, Flow
<1>q. QED BY <1>1, <1>2 DEF Ends

\* A call begins.
LEMMA FlowBegins ==
    ASSUME WebTypeOK, UNCHANGED owner, NEW f \in Flows, NEW t \in Tabs, NEW k,
           \/ \E p \in Issued : k = [at |-> "me", tab |-> t, pair |-> p, who |-> Nobody, mine |-> TRUE]
           \/ \E u \in People : k = [at |-> "login", tab |-> t, pair |-> 0, who |-> u, mine |-> TRUE]
           \/ \E p \in Issued : k = [at |-> "logout", tab |-> t, pair |-> p, who |-> Nobody, mine |-> TRUE]
    PROVE  k \in Flow' /\ FlowIsSound(k)' /\ k # NoFlow /\ k.tab = t /\ k.mine
<1>0. Issued' = Issued
      BY DEF Issued
<1>1. k \in Flow'
  <2>1. ASSUME NEW p \in Issued, k = [at |-> "me", tab |-> t, pair |-> p, who |-> Nobody, mine |-> TRUE] PROVE k \in Flow'
        BY <1>0, <2>1 DEF Flow
  <2>2. ASSUME NEW u \in People, k = [at |-> "login", tab |-> t, pair |-> 0, who |-> u, mine |-> TRUE] PROVE k \in Flow'
        BY <1>0, <2>2 DEF Flow
  <2>3. ASSUME NEW p \in Issued, k = [at |-> "logout", tab |-> t, pair |-> p, who |-> Nobody, mine |-> TRUE] PROVE k \in Flow'
        BY <1>0, <2>3 DEF Flow
  <2>q. QED BY <2>1, <2>2, <2>3
<1>2. k.tab = t /\ k.at \in {"me", "login", "logout"} /\ k # NoFlow
      BY SMT, SMTT(30) DEF NoFlow
<1>3. k.mine
      BY SMT, SMTT(30)
<1>4. (k.at # "login" => k.pair \in Issued') /\ (k.at = "login" => k.who \in People)
      BY <1>0, SMT, SMTT(30)
<1>5. FlowIsSound(k)'
      BY <1>2, <1>4 DEF FlowIsSound
<1>q. QED BY <1>1, <1>2, <1>3, <1>5

\* A tab none of whose calls moves, and whose own state is left alone, stays sound.
LEMMA TabUntouched ==
    ASSUME WebTypeOK, NEW t \in Tabs, TabIsSound(t), tab'[t] = tab[t],
           \A p \in Issued : owner'[p] = owner[p],
           \A g \in Flows : flow[g].tab = t \/ flow'[g].tab = t => flow'[g] = flow[g]
    PROVE  TabIsSound(t)'
<1>1. BusyIn(t)' = BusyIn(t)
      BY DEF BusyIn, Busy
<1>2. \A g \in BusyIn(t) : g \in Flows /\ flow'[g] = flow[g]
      BY DEF BusyIn, Busy
<1>3. tab[t].token \in {0} \union Issued
      BY DEF WebTypeOK
<1>q. QED BY <1>1, <1>2, <1>3, SMT, SMTT(30) DEF TabIsSound, Owns

\* What a sound tab's one call in flight may rely on.
LEMMA AloneInTab ==
    ASSUME TabsInv, NEW f \in Flows, flow[f].at # "none", NEW t \in Tabs \ muddled, t = flow[f].tab
    PROVE  /\ BusyIn(t) = {f} /\ flow[f].mine
           /\ flow[f].at # "loginMe" => Owns(t)
           /\ flow[f].at \in {"me", "refresh", "granted", "refused", "me2"} => tab[t].user = Nobody
           /\ flow[f].at \in {"me", "me2", "loginMe"} => tab[t].token = flow[f].pair
<1>1. f \in BusyIn(t)
      BY FlowFields DEF TabsInv, BusyIn
<1>2. TabIsSound(t)
      BY DEF TabsInv
<1>3. BusyIn(t) = {f}
      BY <1>1, <1>2 DEF TabIsSound
<1>q. QED BY <1>1, <1>2, <1>3 DEF TabIsSound

\* Everything but the calls has its type after a step.
RestTypeOK ==
    /\ owner \in [Pairs -> People \union {Nobody}]
    /\ live \subseteq Issued
    /\ storage \in [access: {0} \union Issued, refresh: {0} \union Issued]
    /\ tab \in [Tabs -> [token: {0} \union Issued, user: People \union {Nobody}]]
    /\ troubled \in BOOLEAN /\ kicked \in BOOLEAN /\ signedOut \in BOOLEAN
    /\ muddled \subseteq Tabs

\* A call that goes on disturbs no other tab, and its own only through its own state.
LEMMA StepKeepsTabs ==
    ASSUME TabsInv, NEW f \in Flows, flow[f].at # "none",
           NEW at \in {"me", "refresh", "granted", "me2", "refused", "loggedIn", "loginMe", "logout", "loggedOut"},
           NEW p \in Issued', Step(f, at, p),
           Issued \subseteq Issued', \A q \in Issued : owner'[q] = owner[q], RestTypeOK',
           \A t \in Tabs : t # flow[f].tab => tab'[t] = tab[t], muddled \subseteq muddled',
           \A t \in Tabs \ muddled' : t = flow[f].tab =>
              /\ at # "loginMe" => (tab'[t].user # Nobody => tab'[t].token # 0 /\ owner'[tab'[t].token] = tab'[t].user)
              /\ at \in {"me", "refresh", "granted", "refused", "me2"} => tab'[t].user = Nobody
              /\ at \in {"me", "me2", "loginMe"} => tab'[t].token = p
    PROVE  TabsInv'
<1>0. WebTypeOK /\ FlowIsSound(flow[f])
      BY DEF TabsInv
<1>1. /\ flow' \in [Flows -> Flow'] /\ FlowIsSound(flow[f])' /\ flow'[f] # NoFlow
      /\ flow'[f].at = at /\ flow'[f].pair = p /\ flow'[f].tab = flow[f].tab /\ flow'[f].mine = flow[f].mine
      /\ \A g \in Flows \ {f} : flow'[g] = flow[g]
      BY <1>0, FlowSteps
<1>2. WebTypeOK'
      BY <1>1 DEF WebTypeOK, RestTypeOK
<1>3. ASSUME NEW g \in Flows PROVE FlowIsSound(flow[g])'
  <2>1. CASE g = f
        BY <1>1, <2>1
  <2>2. CASE g # f
    <3>1. FlowIsSound(flow[g]) /\ flow'[g] = flow[g]
          BY <1>1, <2>2 DEF TabsInv
    <3>q. QED BY <3>1 DEF FlowIsSound
  <2>q. QED BY <2>1, <2>2
<1>4. ASSUME NEW t \in Tabs \ muddled' PROVE TabIsSound(t)'
  <2>0. t \in Tabs \ muddled /\ TabIsSound(t)
        BY DEF TabsInv
  <2>1. CASE t # flow[f].tab
        BY <1>0, <1>1, <2>0, <2>1, TabUntouched
  <2>2. CASE t = flow[f].tab
    <3>1. BusyIn(t) = {f} /\ flow[f].mine
          BY <2>0, <2>2, AloneInTab
    <3>2. BusyIn(t)' = {f}
      <4>1. \A g \in Flows \ {f} : ~(flow[g] # NoFlow /\ flow[g].tab = t)
            BY <3>1 DEF BusyIn, Busy
      <4>q. QED BY <1>1, <2>2, <4>1, SMT, SMTT(30) DEF BusyIn, Busy
    <3>3. /\ at # "loginMe" => (tab'[t].user # Nobody => tab'[t].token # 0 /\ owner'[tab'[t].token] = tab'[t].user)
          /\ at \in {"me", "refresh", "granted", "refused", "me2"} => tab'[t].user = Nobody
          /\ at \in {"me", "me2", "loginMe"} => tab'[t].token = p
          BY <2>2
    <3>4. flow'[f].mine
          BY <1>1, <3>1
    <3>q. QED BY <1>1, <3>2, <3>3, <3>4 DEF TabIsSound, Owns
  <2>q. QED BY <2>1, <2>2
<1>q. QED BY <1>2, <1>3, <1>4 DEF TabsInv

\* A call that ends disturbs no other tab, and its own only through its own state.
LEMMA EndKeepsTabs ==
    ASSUME TabsInv, NEW f \in Flows, flow[f].at # "none", Ends(f), UNCHANGED owner, RestTypeOK',
           \A t \in Tabs : t # flow[f].tab => tab'[t] = tab[t], muddled \subseteq muddled',
           \A t \in Tabs \ muddled' : t = flow[f].tab =>
              (tab'[t].user # Nobody => tab'[t].token # 0 /\ owner'[tab'[t].token] = tab'[t].user)
    PROVE  TabsInv'
<1>0. WebTypeOK /\ FlowIsSound(flow[f]) /\ Issued' = Issued
      BY DEF TabsInv, Issued
<1>1. flow' \in [Flows -> Flow'] /\ flow'[f] = NoFlow /\ \A g \in Flows \ {f} : flow'[g] = flow[g]
      BY <1>0, FlowEnds
<1>2. WebTypeOK'
      BY <1>1 DEF WebTypeOK, RestTypeOK
<1>3. ASSUME NEW g \in Flows PROVE FlowIsSound(flow[g])'
  <2>1. flow'[g] = NoFlow \/ (FlowIsSound(flow[g]) /\ flow'[g] = flow[g])
        BY <1>1 DEF TabsInv
  <2>q. QED BY <1>0, <2>1 DEF FlowIsSound, NoFlow
<1>4. ASSUME NEW t \in Tabs \ muddled' PROVE TabIsSound(t)'
  <2>0. t \in Tabs \ muddled /\ TabIsSound(t)
        BY DEF TabsInv
  <2>1. CASE t # flow[f].tab
    <3>1. NoFlow.tab # t
          BY WebAssumption DEF NoFlow
    <3>q. QED BY <1>0, <1>1, <2>0, <2>1, <3>1, TabUntouched
  <2>2. CASE t = flow[f].tab
    <3>1. BusyIn(t) = {f}
          BY <2>0, <2>2, AloneInTab
    <3>2. BusyIn(t)' = {}
          BY <1>1, <3>1, SMT, SMTT(30) DEF BusyIn, Busy
    <3>3. tab'[t].user # Nobody => tab'[t].token # 0 /\ owner'[tab'[t].token] = tab'[t].user
          BY <2>2
    <3>q. QED BY <3>2, <3>3 DEF TabIsSound, Owns
  <2>q. QED BY <2>1, <2>2
<1>q. QED BY <1>2, <1>3, <1>4 DEF TabsInv

\* clearAuth leaves a tab without a token, and without a user if its provider is mounted.
LEMMA ClearedTab ==
    ASSUME TabsInv, NEW f \in Flows, flow[f].at # "none", clearAuth(f), Ends(f), UNCHANGED owner,
           live' \subseteq Issued', muddled' = muddled,
           troubled' \in BOOLEAN, kicked' \in BOOLEAN, signedOut' \in BOOLEAN
    PROVE  TabsInv'
<1>0. WebTypeOK /\ FlowIsSound(flow[f]) /\ Issued' = Issued /\ flow[f].tab \in Tabs
      BY FlowFields DEF TabsInv, Issued
<1>1. /\ storage' = NoTokens /\ Shown(f, Nobody) \in People \union {Nobody}
      /\ tab' = [tab EXCEPT ![flow[f].tab] = [token |-> 0, user |-> Shown(f, Nobody)]]
      BY <1>0 DEF clearAuth, Shown, WebTypeOK
<1>2. tab' \in [Tabs -> [token: {0} \union Issued, user: People \union {Nobody}]]
      BY <1>0, <1>1 DEF WebTypeOK
<1>3. RestTypeOK'
      BY <1>0, <1>1, <1>2 DEF RestTypeOK, WebTypeOK, NoTokens
<1>4. \A t \in Tabs : t # flow[f].tab => tab'[t] = tab[t]
      BY <1>0, <1>1 DEF WebTypeOK
<1>5. ASSUME NEW t \in Tabs \ muddled', t = flow[f].tab PROVE tab'[t].user = Nobody
  <2>1. flow[f].mine
        BY <1>5, AloneInTab
  <2>q. QED BY <1>0, <1>1, <1>5, <2>1 DEF Shown, WebTypeOK
<1>q. QED BY <1>3, <1>4, <1>5, EndKeepsTabs

\* GET /me answers: the tab shows the user of the pair the request was sent with.
LEMMA MeAnswersKeeps ==
    ASSUME TabsInv, NEW f \in Flows, MeAnswers(f)
    PROVE  TabsInv'
<1>0. /\ WebTypeOK /\ FlowIsSound(flow[f]) /\ flow[f].tab \in Tabs /\ flow[f].at # "none"
      /\ UNCHANGED <<owner, live, storage, troubled, muddled, kicked, signedOut>> /\ Issued' = Issued
      BY FlowFields DEF TabsInv, MeAnswers, serverVars, historyVars, Issued
<1>1. flow[f].pair \in Issued /\ flow[f].at \in {"me", "me2", "loginMe"}
      BY <1>0, SMT, SMTT(30) DEF FlowIsSound, NoFlow, MeAnswers
<1>2. PICK u : u = Shown(f, owner[flow[f].pair])
      OBVIOUS
<1>3. u \in People \union {Nobody} /\ tab' = [tab EXCEPT ![flow[f].tab].user = u]
      BY <1>0, <1>1, <1>2 DEF Shown, WebTypeOK, Issued, MeAnswers
<1>4. /\ tab' \in [Tabs -> [token: {0} \union Issued, user: People \union {Nobody}]]
      /\ tab'[flow[f].tab].user = u /\ tab'[flow[f].tab].token = tab[flow[f].tab].token
      /\ \A t \in Tabs : t # flow[f].tab => tab'[t] = tab[t]
      BY <1>0, <1>3 DEF WebTypeOK
<1>5. RestTypeOK'
      BY <1>0, <1>4 DEF RestTypeOK, WebTypeOK
<1>6. ASSUME NEW t \in Tabs \ muddled', t = flow[f].tab
      PROVE  tab'[t].token # 0 /\ owner'[tab'[t].token] = tab'[t].user
  <2>1. flow[f].mine /\ tab[t].token = flow[f].pair
        BY <1>0, <1>1, <1>6, AloneInTab
  <2>2. u = owner[flow[f].pair]
        BY <1>2, <2>1 DEF Shown
  <2>q. QED BY <1>0, <1>1, <1>4, <1>6, <2>1, <2>2, SMT, SMTT(30) DEF Issued, Pairs
<1>q. QED BY <1>0, <1>4, <1>5, <1>6, EndKeepsTabs DEF MeAnswers

\* GET /me fails: the tab refreshes, or signs itself out where it has no refresh token.
LEMMA MeFailsKeeps ==
    ASSUME TabsInv, NEW f \in Flows, MeFails(f)
    PROVE  TabsInv'
<1>0. /\ WebTypeOK /\ FlowIsSound(flow[f]) /\ flow[f].tab \in Tabs /\ flow[f].at = "me"
      /\ UNCHANGED <<owner, live, troubled, muddled, signedOut>> /\ Issued' = Issued
      BY FlowFields DEF TabsInv, MeFails, serverVars, Issued
<1>1. CASE storage.refresh # 0
  <2>1. PICK p : p = storage.refresh
        OBVIOUS
  <2>2. p \in Issued' /\ Step(f, "refresh", p) /\ UNCHANGED <<storage, tab, kicked>>
        BY <1>0, <1>1, <2>1 DEF MeFails, WebTypeOK
  <2>3. RestTypeOK'
        BY <1>0, <2>2 DEF RestTypeOK, WebTypeOK
  <2>4. ASSUME NEW t \in Tabs \ muddled', t = flow[f].tab PROVE tab'[t].user = Nobody
        BY <1>0, <2>2, <2>4, AloneInTab
  <2>q. QED BY <1>0, <2>2, <2>3, <2>4, StepKeepsTabs, SMT, SMTT(30)
<1>2. CASE storage.refresh = 0
  <2>1. clearAuth(f) /\ Ends(f) /\ kicked' = TRUE
        BY <1>2 DEF MeFails
  <2>2. live' \subseteq Issued' /\ troubled' \in BOOLEAN /\ signedOut' \in BOOLEAN
        BY <1>0 DEF WebTypeOK
  <2>q. QED BY <1>0, <2>1, <2>2, ClearedTab
<1>q. QED BY <1>1, <1>2

\* The server answers the refresh, refuses it, or the answer is lost.
LEMMA RefreshKeeps ==
    ASSUME TabsInv, NEW f \in Flows,
           (\E p \in Pairs : RefreshServed(f, p)) \/ RefreshRefused(f) \/ RefreshLost(f)
    PROVE  TabsInv'
<1>0. /\ WebTypeOK /\ FlowIsSound(flow[f]) /\ flow[f].tab \in Tabs /\ flow[f].at \in {"refresh", "granted"}
      /\ UNCHANGED <<storage, tab, muddled, kicked, signedOut>>
      BY FlowFields DEF TabsInv, RefreshServed, RefreshRefused, RefreshLost, historyVars
<1>1. flow[f].pair \in Issued
      BY <1>0, SMT, SMTT(30) DEF FlowIsSound, NoFlow
<1>2. ASSUME NEW t \in Tabs \ muddled', t = flow[f].tab PROVE tab'[t].user = Nobody
      BY <1>0, <1>2, AloneInTab
<1>3. ASSUME NEW p \in Pairs, RefreshServed(f, p) PROVE TabsInv'
  <2>1. PICK u : u = owner[flow[f].pair]
        OBVIOUS
  <2>2. u \in People /\ Issue(u, p)
        BY <1>0, <1>1, <1>3, <2>1 DEF RefreshServed, WebTypeOK, Issued
  <2>3. /\ Issued' = Issued \union {p} /\ owner' \in [Pairs -> People \union {Nobody}]
        /\ \A q \in Issued : owner'[q] = owner[q]
        BY <1>0, <2>2, IssuedStays
  <2>4. UNCHANGED troubled /\ live' \subseteq Issued'
        BY <1>0, <1>3, <2>3 DEF RefreshServed, historyVars, WebTypeOK
  <2>5. RestTypeOK'
        BY <1>0, <2>3, <2>4 DEF RestTypeOK, WebTypeOK
  <2>6. Step(f, "granted", p) /\ p \in Issued'
        BY <1>3, <2>3 DEF RefreshServed
  <2>q. QED BY <1>0, <1>2, <2>3, <2>5, <2>6, StepKeepsTabs, SMT, SMTT(30)
<1>4. CASE RefreshRefused(f) \/ RefreshLost(f)
  <2>1. UNCHANGED owner /\ live' \subseteq live /\ Issued' = Issued
        BY <1>4 DEF RefreshRefused, RefreshLost, serverVars, Issued
  <2>2. troubled' \in BOOLEAN
        BY <1>4 DEF RefreshRefused, RefreshLost
  <2>3. RestTypeOK'
        BY <1>0, <2>1, <2>2 DEF RestTypeOK, WebTypeOK
  <2>4. PICK p : p = flow[f].pair
        OBVIOUS
  <2>5. Step(f, "refused", p) /\ p \in Issued'
        BY <1>1, <1>4, <2>1, <2>4 DEF RefreshRefused, RefreshLost
  <2>q. QED BY <1>0, <1>2, <2>1, <2>3, <2>5, StepKeepsTabs, SMT, SMTT(30)
<1>q. QED BY <1>3, <1>4

\* The tokens of a pair are stored, and the client goes on with them.
LEMMA TokensReturnKeeps ==
    ASSUME TabsInv, NEW f \in Flows, RefreshReturns(f) \/ LoginReturns(f)
    PROVE  TabsInv'
<1>0. /\ WebTypeOK /\ FlowIsSound(flow[f]) /\ flow[f].tab \in Tabs /\ flow[f].at \in {"granted", "loggedIn"}
      /\ UNCHANGED <<owner, live, troubled, muddled, kicked, signedOut>> /\ Issued' = Issued
      BY FlowFields DEF TabsInv, RefreshReturns, LoginReturns, serverVars, historyVars, Issued
<1>1. flow[f].pair \in Issued
      BY <1>0, SMT, SMTT(30) DEF FlowIsSound, NoFlow
<1>2. PICK p : p = flow[f].pair
      OBVIOUS
<1>3. storage' = [access |-> p, refresh |-> p] /\ tab' = [tab EXCEPT ![flow[f].tab].token = p]
      BY <1>2 DEF RefreshReturns, LoginReturns, storeTokens
<1>4. /\ tab' \in [Tabs -> [token: {0} \union Issued, user: People \union {Nobody}]]
      /\ tab'[flow[f].tab].token = p /\ tab'[flow[f].tab].user = tab[flow[f].tab].user
      /\ \A t \in Tabs : t # flow[f].tab => tab'[t] = tab[t]
      BY ZenonT(40), <1>0, <1>1, <1>2, <1>3 DEF WebTypeOK
<1>5. storage' \in [access: {0} \union Issued, refresh: {0} \union Issued]
      BY <1>1, <1>2, <1>3
<1>6. RestTypeOK'
      BY <1>0, <1>4, <1>5 DEF RestTypeOK, WebTypeOK
<1>7. ASSUME NEW t \in Tabs \ muddled', t = flow[f].tab, flow[f].at = "granted" PROVE tab'[t].user = Nobody
      BY ZenonT(40), <1>0, <1>4, <1>7, AloneInTab
<1>8. CASE RefreshReturns(f)
  <2>1. Step(f, "me2", p) /\ flow[f].at = "granted" /\ p \in Issued'
        BY <1>0, <1>1, <1>2, <1>8 DEF RefreshReturns
  <2>q. QED BY <1>0, <1>4, <1>6, <1>7, <2>1, StepKeepsTabs, SMT, SMTT(30)
<1>9. CASE LoginReturns(f)
  <2>1. Step(f, "loginMe", p) /\ p \in Issued'
        BY <1>0, <1>1, <1>2, <1>9 DEF LoginReturns
  <2>q. QED BY ZenonT(40), <1>0, <1>4, <1>6, <2>1, StepKeepsTabs
<1>q. QED BY <1>8, <1>9

\* The catch of hydrateSession and the finally of logout clear the tab.
LEMMA ClearingKeeps ==
    ASSUME TabsInv, NEW f \in Flows, HydrateGivesUp(f) \/ LogoutReturns(f)
    PROVE  TabsInv'
<1>1. /\ flow[f].at # "none" /\ clearAuth(f) /\ Ends(f) /\ UNCHANGED <<owner, live, muddled>>
      BY DEF HydrateGivesUp, LogoutReturns, serverVars
<1>2. live' \subseteq Issued'
      BY <1>1 DEF TabsInv, WebTypeOK, Issued
<1>3. troubled' \in BOOLEAN
      BY DEF HydrateGivesUp, LogoutReturns, TabsInv, WebTypeOK
<1>4. kicked' \in BOOLEAN
      BY DEF HydrateGivesUp, LogoutReturns, TabsInv, WebTypeOK
<1>5. signedOut' \in BOOLEAN
      BY DEF HydrateGivesUp, LogoutReturns, TabsInv, WebTypeOK
<1>q. QED BY <1>1, <1>2, <1>3, <1>4, <1>5, ClearedTab

\* login's first request is answered.
LEMMA LoginServedKeeps ==
    ASSUME TabsInv, NEW f \in Flows, NEW p \in Pairs, LoginServed(f, p)
    PROVE  TabsInv'
<1>0. /\ WebTypeOK /\ FlowIsSound(flow[f]) /\ flow[f].tab \in Tabs /\ flow[f].at = "login"
      /\ UNCHANGED <<storage, tab, troubled, muddled, kicked, signedOut>>
      BY FlowFields DEF TabsInv, LoginServed, historyVars
<1>1. PICK u : u = flow[f].who
      OBVIOUS
<1>2. u \in People /\ Issue(u, p)
      BY <1>0, <1>1, SMT, SMTT(30) DEF LoginServed, FlowIsSound, NoFlow
<1>3. /\ Issued' = Issued \union {p} /\ owner' \in [Pairs -> People \union {Nobody}]
      /\ \A q \in Issued : owner'[q] = owner[q]
      BY <1>0, <1>2, IssuedStays
<1>4. live' \subseteq Issued'
      BY <1>0, <1>3 DEF LoginServed, WebTypeOK
<1>5. RestTypeOK'
      BY <1>0, <1>3, <1>4 DEF RestTypeOK, WebTypeOK
<1>6. ASSUME NEW t \in Tabs \ muddled', t = flow[f].tab
      PROVE  tab'[t].user # Nobody => tab'[t].token # 0 /\ owner'[tab'[t].token] = tab'[t].user
  <2>1. Owns(t)
        BY <1>0, <1>6, AloneInTab
  <2>2. tab[t].token \in {0} \union Issued
        BY <1>0 DEF WebTypeOK
  <2>q. QED BY <1>0, <1>3, <2>1, <2>2 DEF Owns
<1>7. Step(f, "loggedIn", p) /\ p \in Issued'
      BY <1>3 DEF LoginServed
<1>q. QED BY <1>0, <1>3, <1>5, <1>6, <1>7, StepKeepsTabs, SMT, SMTT(30)

\* login fails: at its second request the tab counts as muddled.
LEMMA LoginFailsKeeps ==
    ASSUME TabsInv, NEW f \in Flows, LoginFails(f)
    PROVE  TabsInv'
<1>0. /\ WebTypeOK /\ FlowIsSound(flow[f]) /\ flow[f].tab \in Tabs /\ flow[f].at \in {"login", "loggedIn", "loginMe"}
      /\ UNCHANGED <<owner, live, storage, tab, kicked, signedOut>> /\ troubled' = TRUE
      BY FlowFields DEF TabsInv, LoginFails, serverVars
<1>1. /\ muddled' = (IF flow[f].at = "loginMe" THEN muddled \union {flow[f].tab} ELSE muddled)
      /\ muddled \subseteq muddled' /\ muddled' \subseteq Tabs
      BY <1>0 DEF LoginFails, WebTypeOK
<1>2. RestTypeOK'
      BY <1>0, <1>1 DEF RestTypeOK, WebTypeOK, Issued
<1>3. ASSUME NEW t \in Tabs \ muddled', t = flow[f].tab
      PROVE  tab'[t].user # Nobody => tab'[t].token # 0 /\ owner'[tab'[t].token] = tab'[t].user
  <2>1. flow[f].at # "loginMe" /\ t \in Tabs \ muddled
        BY <1>1, <1>3
  <2>2. Owns(t)
        BY ZenonT(40), <1>0, <1>3, <2>1, AloneInTab
  <2>q. QED BY <1>0, <2>2 DEF Owns
<1>q. QED BY <1>0, <1>1, <1>2, <1>3, EndKeepsTabs DEF LoginFails

\* The server's side of a logout.
LEMMA LogoutServedKeeps ==
    ASSUME TabsInv, NEW f \in Flows, LogoutServed(f) \/ LogoutLost(f)
    PROVE  TabsInv'
<1>0. /\ WebTypeOK /\ FlowIsSound(flow[f]) /\ flow[f].tab \in Tabs /\ flow[f].at = "logout"
      /\ UNCHANGED <<owner, storage, tab, muddled, kicked, signedOut>> /\ live' \subseteq live /\ Issued' = Issued
      BY ZenonT(40), FlowFields DEF TabsInv, LogoutServed, LogoutLost, serverVars, historyVars, Issued
<1>1. flow[f].pair \in Issued
      BY <1>0, SMT, SMTT(30) DEF FlowIsSound, NoFlow
<1>2. troubled' \in BOOLEAN
      BY <1>0 DEF LogoutServed, LogoutLost, historyVars, WebTypeOK
<1>3. RestTypeOK'
      BY <1>0, <1>2 DEF RestTypeOK, WebTypeOK
<1>4. PICK p : p = flow[f].pair
      OBVIOUS
<1>5. Step(f, "loggedOut", p) /\ p \in Issued'
      BY <1>0, <1>1, <1>4 DEF LogoutServed, LogoutLost
<1>6. ASSUME NEW t \in Tabs \ muddled', t = flow[f].tab
      PROVE  tab'[t].user # Nobody => tab'[t].token # 0 /\ owner'[tab'[t].token] = tab'[t].user
  <2>1. Owns(t)
        BY <1>0, <1>6, AloneInTab
  <2>q. QED BY <1>0, <2>1 DEF Owns
<1>q. QED BY <1>0, <1>3, <1>5, <1>6, StepKeepsTabs, SMT, SMTT(30)

\* A tab that begins a call is muddled, or had none in flight.
LEMMA OverlapIsNoted ==
    ASSUME TabsInv, NEW t \in Tabs, NoteOverlap(t)
    PROVE  /\ muddled \subseteq muddled' /\ muddled' \subseteq Tabs /\ troubled' \in BOOLEAN
           /\ t \notin muddled' => BusyIn(t) = {} /\ \A g \in Flows : flow[g].tab # t
           /\ ~troubled' => ~troubled /\ Busy = {}
<1>1. WebTypeOK /\ \A g \in Flows : FlowIsSound(flow[g])
      BY DEF TabsInv
<1>2. muddled \subseteq muddled' /\ muddled' \subseteq Tabs
      BY <1>1 DEF NoteOverlap, WebTypeOK
<1>3. troubled' \in BOOLEAN
      BY DEF NoteOverlap
<1>4. ~troubled' => ~troubled /\ Busy = {}
      BY DEF NoteOverlap
<1>5. ASSUME t \notin muddled' PROVE BusyIn(t) = {}
      BY <1>5 DEF NoteOverlap
<1>6. ASSUME t \notin muddled', NEW g \in Flows PROVE flow[g].tab # t
  <2>1. g \notin Busy \/ flow[g].tab # t
        BY <1>5, <1>6 DEF BusyIn
  <2>2. NoFlow.tab # t
        BY WebAssumption DEF NoFlow
  <2>q. QED BY <2>1, <2>2 DEF Busy
<1>q. QED BY <1>2, <1>3, <1>4, <1>5, <1>6

\* A person signs in from a tab.
LEMMA loginKeeps ==
    ASSUME TabsInv, NEW t \in Tabs, NEW f \in Flows, NEW u \in People, login(t, f, u)
    PROVE  TabsInv'
<1>0. /\ WebTypeOK /\ flow[f] = NoFlow /\ UNCHANGED <<owner, live, storage, tab, kicked>> /\ signedOut' = FALSE
      /\ NoteOverlap(t) /\ Issued' = Issued
      BY DEF TabsInv, login, serverVars, Issued
<1>1. PICK k : k = [at |-> "login", tab |-> t, pair |-> 0, who |-> u, mine |-> TRUE]
      OBVIOUS
<1>2. flow' = [flow EXCEPT ![f] = k]
      BY <1>1 DEF login
<1>3. k \in Flow' /\ FlowIsSound(k)' /\ k # NoFlow /\ k.tab = t /\ k.mine /\ k.at = "login"
      BY <1>0, <1>1, FlowBegins
<1>4. flow \in [Flows -> Flow] /\ Flow' = Flow
      BY <1>0 DEF WebTypeOK, Flow
<1>5. flow' \in [Flows -> Flow'] /\ flow'[f] = k /\ \A g \in Flows \ {f} : flow'[g] = flow[g]
      BY <1>2, <1>3, <1>4
<1>6. WebTypeOK'
      BY <1>0, <1>5, OverlapIsNoted DEF WebTypeOK
<1>7. ASSUME NEW g \in Flows PROVE FlowIsSound(flow[g])'
  <2>1. CASE g = f
        BY <1>3, <1>5, <2>1 DEF FlowIsSound
  <2>2. CASE g # f
        BY <1>0, <1>5, <2>2 DEF FlowIsSound, TabsInv
  <2>q. QED BY <2>1, <2>2
<1>8. ASSUME NEW s \in Tabs \ muddled' PROVE TabIsSound(s)'
  <2>0. s \in Tabs \ muddled /\ TabIsSound(s)
        BY <1>0, OverlapIsNoted DEF TabsInv
  <2>1. CASE s # t
    <3>1. NoFlow.tab # s
          BY WebAssumption DEF NoFlow
    <3>q. QED BY <1>0, <1>3, <1>5, <2>0, <2>1, <3>1, TabUntouched
  <2>2. CASE s = t
    <3>1. BusyIn(s) = {} /\ \A g \in Flows : flow[g].tab # s
          BY <1>0, <2>2, OverlapIsNoted
    <3>2. BusyIn(s)' = {f}
          BY <1>3, <1>5, <2>2, <3>1 DEF BusyIn, Busy
    <3>3. Owns(s)'
          BY <1>0, <2>0, <3>1 DEF TabIsSound, Owns
    <3>q. QED BY <1>3, <1>5, <3>2, <3>3 DEF TabIsSound
  <2>q. QED BY <2>1, <2>2
<1>q. QED BY <1>6, <1>7, <1>8 DEF TabsInv

\* A person signs out from a tab.
LEMMA logoutKeeps ==
    ASSUME TabsInv, NEW t \in Tabs, NEW f \in Flows, logout(t, f)
    PROVE  TabsInv'
<1>0. /\ WebTypeOK /\ flow[f] = NoFlow /\ UNCHANGED <<owner, live, kicked>>
      /\ NoteOverlap(t) /\ Issued' = Issued
      BY DEF TabsInv, logout, serverVars, Issued
<1>1. CASE storage.refresh # 0
  <2>1. PICK p : p = storage.refresh
        OBVIOUS
  <2>2. PICK k : k = [at |-> "logout", tab |-> t, pair |-> p, who |-> Nobody, mine |-> TRUE]
        OBVIOUS
  <2>3. p \in Issued /\ flow' = [flow EXCEPT ![f] = k] /\ UNCHANGED <<storage, tab, signedOut>>
        BY <1>0, <1>1, <2>1, <2>2 DEF logout, WebTypeOK
  <2>4. k \in Flow' /\ FlowIsSound(k)' /\ k # NoFlow /\ k.tab = t /\ k.mine /\ k.at = "logout"
        BY <1>0, <2>2, <2>3, FlowBegins
  <2>5. flow \in [Flows -> Flow] /\ Flow' = Flow
        BY <1>0 DEF WebTypeOK, Flow
  <2>6. flow' \in [Flows -> Flow'] /\ flow'[f] = k /\ \A g \in Flows \ {f} : flow'[g] = flow[g]
        BY <2>3, <2>4, <2>5
  <2>7. WebTypeOK'
        BY <1>0, <2>3, <2>6, OverlapIsNoted DEF WebTypeOK
  <2>8. ASSUME NEW g \in Flows PROVE FlowIsSound(flow[g])'
    <3>1. CASE g = f
          BY <2>4, <2>6, <3>1 DEF FlowIsSound
    <3>2. CASE g # f
          BY <1>0, <2>6, <3>2 DEF FlowIsSound, TabsInv
    <3>q. QED BY <3>1, <3>2
  <2>9. ASSUME NEW s \in Tabs \ muddled' PROVE TabIsSound(s)'
    <3>0. s \in Tabs \ muddled /\ TabIsSound(s)
          BY <1>0, OverlapIsNoted DEF TabsInv
    <3>1. CASE s # t
      <4>1. NoFlow.tab # s
            BY WebAssumption DEF NoFlow
      <4>q. QED BY <1>0, <2>3, <2>4, <2>6, <3>0, <3>1, <4>1, TabUntouched
    <3>2. CASE s = t
      <4>1. BusyIn(s) = {} /\ \A g \in Flows : flow[g].tab # s
            BY <1>0, <3>2, OverlapIsNoted
      <4>2. BusyIn(s)' = {f}
            BY <2>4, <2>6, <3>2, <4>1 DEF BusyIn, Busy
      <4>3. Owns(s)'
            BY <1>0, <2>3, <3>0, <4>1 DEF TabIsSound, Owns
      <4>q. QED BY <2>4, <2>6, <4>2, <4>3 DEF TabIsSound
    <3>q. QED BY <3>1, <3>2
  <2>q. QED BY <2>7, <2>8, <2>9 DEF TabsInv
<1>2. CASE storage.refresh = 0
  <2>1. /\ storage' = NoTokens /\ UNCHANGED flow /\ signedOut' \in BOOLEAN
        /\ tab' = [tab EXCEPT ![t] = [token |-> 0, user |-> Nobody]]
    <3>1. /\ storage' = NoTokens /\ UNCHANGED flow
          /\ tab' = [tab EXCEPT ![t] = [token |-> 0, user |-> Nobody]]
          BY <1>2 DEF logout
    <3>2. signedOut' \in BOOLEAN
          BY <1>2 DEF logout
    <3>q. QED BY <3>1, <3>2
  <2>2. /\ tab' \in [Tabs -> [token: {0} \union Issued, user: People \union {Nobody}]]
        /\ tab'[t].user = Nobody /\ \A s \in Tabs \ {t} : tab'[s] = tab[s]
        BY <1>0, <2>1 DEF WebTypeOK
  <2>3. WebTypeOK'
        BY <1>0, <2>1, <2>2, OverlapIsNoted DEF WebTypeOK, NoTokens, Flow
  <2>4. \A g \in Flows : FlowIsSound(flow[g])'
        BY <1>0, <2>1 DEF FlowIsSound, TabsInv
  <2>5. ASSUME NEW s \in Tabs \ muddled' PROVE TabIsSound(s)'
    <3>0. s \in Tabs \ muddled /\ TabIsSound(s)
          BY <1>0, OverlapIsNoted DEF TabsInv
    <3>1. CASE s # t
          BY <1>0, <2>1, <2>2, <3>0, <3>1, TabUntouched
    <3>2. CASE s = t
      <4>1. BusyIn(s)' = {}
            BY <1>0, <2>1, <3>2, OverlapIsNoted DEF BusyIn, Busy
      <4>q. QED BY <2>2, <3>2, <4>1 DEF TabIsSound, Owns
    <3>q. QED BY <3>1, <3>2
  <2>q. QED BY <2>3, <2>4, <2>5 DEF TabsInv
<1>q. QED BY <1>1, <1>2

\* What Mount leaves of a call of another provider.
Kept(t, load) ==
    [g \in Flows |-> IF flow[g].tab # t THEN flow[g]
                     ELSE IF load THEN NoFlow ELSE [flow[g] EXCEPT !.mine = FALSE]]

\* Mounting touches the calls of its own tab only, and starts at most one.
LEMMA MountedFlows ==
    ASSUME TabsInv, NEW t \in Tabs, NEW f \in Flows, NEW load \in BOOLEAN, Mount(t, f, load)
    PROVE  /\ flow' \in [Flows -> Flow'] /\ (\A g \in Flows : FlowIsSound(flow[g])')
           /\ \A g \in Flows \ {f} : flow[g].tab # t => flow'[g] = flow[g]
           /\ \A g \in Flows \ {f} : flow[g].tab = t => flow'[g].tab \in {t, Nobody}
           /\ storage.access = 0 => flow'[f] = NoFlow
           /\ storage.access # 0 => /\ flow'[f].at = "me" /\ flow'[f].tab = t /\ flow'[f].mine /\ flow'[f] # NoFlow
                                    /\ flow'[f].pair = storage.access
<1>0. /\ WebTypeOK /\ flow[f] = NoFlow /\ UNCHANGED <<owner, storage>> /\ Issued' = Issued /\ t # Nobody
      BY WebAssumption DEF TabsInv, Mount, serverVars, Issued
<1>1. Flow' = Flow /\ flow \in [Flows -> Flow]
      BY <1>0 DEF Flow, WebTypeOK
<1>2. ASSUME NEW g \in Flows
      PROVE  /\ Kept(t, load)[g] \in Flow /\ FlowIsSound(Kept(t, load)[g])
             /\ flow[g].tab # t => Kept(t, load)[g] = flow[g]
             /\ flow[g].tab = t => Kept(t, load)[g].tab \in {t, Nobody}
  <2>1. flow[g] \in Flow /\ FlowIsSound(flow[g])
        BY <1>1 DEF TabsInv
  <2>2. CASE flow[g].tab # t
        BY <2>1, <2>2 DEF Kept
  <2>3. CASE flow[g].tab = t /\ load
    <3>1. Kept(t, load)[g] = NoFlow
          BY <2>3 DEF Kept
    <3>2. NoFlow \in Flow /\ NoFlow.tab = Nobody
          BY DEF NoFlow, Flow
    <3>q. QED BY <2>3, <3>1, <3>2 DEF FlowIsSound
  <2>4. CASE flow[g].tab = t /\ ~load
    <3>1. PICK k : k = [flow[g] EXCEPT !.mine = FALSE]
          OBVIOUS
    <3>2. k \in Flow
          BY <2>1, <3>1 DEF Flow
    <3>3. k.at = flow[g].at /\ k.tab = t /\ k.pair = flow[g].pair /\ k.who = flow[g].who
          BY <2>1, <2>4, <3>1 DEF Flow
    <3>4. flow[g] # NoFlow
          BY <1>0, <2>4, SMT, SMTT(30) DEF NoFlow
    <3>5. FlowIsSound(k)
          BY <2>1, <3>3, <3>4 DEF FlowIsSound
    <3>6. Kept(t, load)[g] = k
          BY <2>4, <3>1 DEF Kept
    <3>q. QED BY <2>4, <3>2, <3>3, <3>5, <3>6
  <2>q. QED BY <2>2, <2>3, <2>4
<1>3. Kept(t, load)[f] = NoFlow
      BY <1>0, SMT, SMTT(30) DEF Kept, NoFlow
<1>4. Kept(t, load) \in [Flows -> Flow]
      BY <1>2 DEF Kept
<1>5. CASE storage.access = 0
  <2>1. flow' = Kept(t, load)
        BY <1>5 DEF Mount, Kept
  <2>2. \A g \in Flows : FlowIsSound(flow[g])'
        BY <1>0, <1>2, <2>1 DEF FlowIsSound
  <2>q. QED BY <1>1, <1>2, <1>3, <1>4, <1>5, <2>1, <2>2
<1>6. CASE storage.access # 0
  <2>1. PICK p : p = storage.access
        OBVIOUS
  <2>2. PICK k : k = [at |-> "me", tab |-> t, pair |-> p, who |-> Nobody, mine |-> TRUE]
        OBVIOUS
  <2>3. p \in Issued /\ flow' = [Kept(t, load) EXCEPT ![f] = k]
        BY <1>0, <1>6, <2>1, <2>2 DEF Mount, Kept, WebTypeOK
  <2>4. k \in Flow' /\ FlowIsSound(k)' /\ k # NoFlow /\ k.tab = t /\ k.mine /\ k.at = "me" /\ k.pair = p
        BY <1>0, <2>2, <2>3, FlowBegins
  <2>5. flow' \in [Flows -> Flow'] /\ flow'[f] = k /\ \A g \in Flows \ {f} : flow'[g] = Kept(t, load)[g]
        BY <1>1, <1>4, <2>3, <2>4
  <2>6. ASSUME NEW g \in Flows PROVE FlowIsSound(flow[g])'
    <3>1. CASE g = f
          BY <2>4, <2>5, <3>1 DEF FlowIsSound
    <3>2. CASE g # f
          BY <1>0, <1>2, <2>5, <3>2 DEF FlowIsSound
    <3>q. QED BY <3>1, <3>2
  <2>q. QED BY <1>2, <1>6, <2>1, <2>4, <2>5, <2>6
<1>q. QED BY <1>5, <1>6

\* A provider mounts with what localStorage holds, and shows nobody until /me has answered.
LEMMA MountKeeps ==
    ASSUME TabsInv, NEW t \in Tabs, NEW f \in Flows, NEW load \in BOOLEAN, Mount(t, f, load)
    PROVE  TabsInv'
<1>0. /\ WebTypeOK /\ flow[f] = NoFlow /\ UNCHANGED <<owner, live, storage, kicked, signedOut>>
      /\ NoteOverlap(t) /\ Issued' = Issued /\ NoFlow.tab = Nobody /\ NoFlow.at = "none" /\ Nobody \notin Tabs
      BY WebAssumption DEF TabsInv, Mount, serverVars, Issued, NoFlow
<1>1. PICK p \in {0} \union Issued : tab' = [tab EXCEPT ![t] = [token |-> p, user |-> Nobody]]
                                     /\ (storage.access # 0 => p = storage.access)
  <2>1. CASE storage.access # 0
    <3>1. storage.access \in Issued
          BY <1>0, <2>1 DEF WebTypeOK
    <3>q. QED BY <2>1, <3>1 DEF Mount
  <2>2. CASE storage.access = 0
    <3>1. PICK q : q = IF load THEN 0 ELSE tab[t].token
          OBVIOUS
    <3>2. q \in {0} \union Issued
          BY <1>0, <3>1 DEF WebTypeOK
    <3>q. QED BY <2>2, <3>1, <3>2 DEF Mount
  <2>q. QED BY <2>1, <2>2
<1>2. /\ tab' \in [Tabs -> [token: {0} \union Issued, user: People \union {Nobody}]]
      /\ tab'[t].user = Nobody /\ tab'[t].token = p /\ \A s \in Tabs \ {t} : tab'[s] = tab[s]
      BY <1>0, <1>1 DEF WebTypeOK
<1>3. WebTypeOK'
      BY <1>0, <1>2, MountedFlows, OverlapIsNoted, SMT, SMTT(30) DEF WebTypeOK
<1>4. ASSUME NEW s \in Tabs \ muddled' PROVE TabIsSound(s)'
  <2>0. s \in Tabs \ muddled /\ TabIsSound(s)
        BY <1>0, OverlapIsNoted DEF TabsInv
  <2>1. CASE s # t
    <3>1. ASSUME NEW g \in Flows, flow[g].tab = s \/ flow'[g].tab = s PROVE flow'[g] = flow[g]
      <4>1. CASE g = f
            BY <1>0, <2>1, <3>1, <4>1, MountedFlows, SMT, SMTT(30)
      <4>2. CASE g # f
            BY <1>0, <2>1, <3>1, <4>2, MountedFlows, SMT, SMTT(30)
      <4>q. QED BY <4>1, <4>2
    <3>q. QED BY <1>0, <1>2, <2>0, <2>1, <3>1, TabUntouched
  <2>2. CASE s = t
    <3>1. \A g \in Flows : flow[g].tab # t
          BY <1>0, <2>2, OverlapIsNoted
    <3>2. \A g \in Flows \ {f} : flow'[g] = flow[g] /\ flow'[g].tab # t
          BY <3>1, MountedFlows, SMT, SMTT(30)
    <3>3. BusyIn(s)' \subseteq {f} /\ (storage.access = 0 => BusyIn(s)' = {})
          BY ZenonT(40), <1>0, <2>2, <3>2, MountedFlows DEF BusyIn, Busy
    <3>4. storage.access # 0 => flow'[f].at = "me" /\ flow'[f].mine /\ flow'[f].pair = p
          BY <1>1, MountedFlows, SMT, SMTT(30)
    <3>5. Owns(s)'
          BY <1>2, <2>2 DEF Owns
    <3>6. \A g \in BusyIn(s)' : g = f /\ flow'[g].mine /\ flow'[g].pair = p
          BY <3>3, <3>4
    <3>q. QED BY <1>2, <2>2, <3>5, <3>6 DEF TabIsSound
  <2>q. QED BY <2>1, <2>2
<1>q. QED BY <1>3, <1>4, MountedFlows DEF TabsInv

\* The invariant of the tabs holds in every state.
THEOREM WebInvariant == WebSpec => []TabsInv
<1>1. WebInit => TabsInv
  <2>0. SUFFICES ASSUME WebInit PROVE TabsInv
        OBVIOUS
  <2>1. /\ NoFlow \in Flow /\ NoTokens \in [access: {0} \union Issued, refresh: {0} \union Issued]
        BY DEF NoFlow, Flow, NoTokens
  <2>2. WebTypeOK
        BY <2>0, <2>1 DEF WebInit, WebTypeOK
  <2>3. \A t \in Tabs : BusyIn(t) = {} /\ tab[t].user = Nobody
        BY <2>0 DEF WebInit, BusyIn, Busy
  <2>4. \A f \in Flows : flow[f] = NoFlow
        BY <2>0 DEF WebInit
  <2>q. QED BY <2>2, <2>3, <2>4 DEF TabsInv, FlowIsSound, TabIsSound, Owns
<1>2. TabsInv /\ [WebNext]_webVars => TabsInv'
  <2>0. SUFFICES ASSUME TabsInv, [WebNext]_webVars PROVE TabsInv'
        OBVIOUS
  <2>1. ASSUME NEW f \in Flows, FlowStep(f) PROVE TabsInv'
        BY <2>0, <2>1, MeAnswersKeeps, MeFailsKeeps, RefreshKeeps, TokensReturnKeeps, ClearingKeeps,
           LoginServedKeeps, LoginFailsKeeps, LogoutServedKeeps DEF FlowStep
  <2>2. ASSUME NEW t \in Tabs, NEW f \in Flows,
               (\E load \in BOOLEAN : Mount(t, f, load)) \/ (\E u \in People : login(t, f, u)) \/ logout(t, f)
        PROVE  TabsInv'
        BY <2>0, <2>2, MountKeeps, loginKeeps, logoutKeeps
  <2>3. CASE UNCHANGED webVars
        BY <2>0, <2>3, SMT, SMTT(30) DEF webVars, TabsInv, WebTypeOK, Flow, Issued, FlowIsSound, TabIsSound, Owns, BusyIn, Busy
  <2>q. QED BY <2>0, <2>1, <2>2, <2>3 DEF WebNext
<1>q. QED BY <1>1, <1>2, PTL DEF WebSpec

\* hydrateSession, login and logout in any number of tabs: a tab shows the user whose token its requests
\* carry.
THEOREM ShownOwnsTokenHolds == WebSpec => []ShownOwnsToken
<1>1. TabsInv => ShownOwnsToken
      BY DEF TabsInv, TabIsSound, Owns, ShownOwnsToken
<1>q. QED BY <1>1, WebInvariant, PTL

\* After a logout that overlapped nothing, localStorage is empty and no call is in flight.
SignedOutInv == signedOut => storage = NoTokens /\ Busy = {}

\* logout's clearAuth: only a login brings tokens back after it, whatever tokens other tabs still hold.
THEOREM LogoutSticksHolds == WebSpec => []LogoutSticks
<1>1. WebInit => SignedOutInv
      BY DEF WebInit, SignedOutInv
<1>2. TabsInv /\ SignedOutInv /\ [WebNext]_webVars => SignedOutInv'
  <2>0. SUFFICES ASSUME TabsInv, SignedOutInv, [WebNext]_webVars, signedOut' PROVE storage' = NoTokens /\ Busy' = {}
        BY DEF SignedOutInv
  <2>t. WebTypeOK /\ \A g \in Flows : FlowIsSound(flow[g])
        BY <2>0 DEF TabsInv
  <2>1. ASSUME NEW f \in Flows, FlowStep(f), flow[f].at # "loggedOut" PROVE FALSE
    <3>1. signedOut' = signedOut
          BY <2>1 DEF FlowStep, MeAnswers, MeFails, RefreshServed, LoginServed, RefreshRefused, RefreshLost,
             RefreshReturns, HydrateGivesUp, LoginReturns, LoginFails, LogoutServed, LogoutLost, LogoutReturns, historyVars
    <3>2. flow[f].at # "none"
          BY <2>1 DEF FlowStep, MeAnswers, MeFails, RefreshServed, LoginServed, RefreshRefused, RefreshLost,
             RefreshReturns, HydrateGivesUp, LoginReturns, LoginFails, LogoutServed, LogoutLost, LogoutReturns
    <3>3. f \in Busy
          BY <2>t, <3>2, FlowFields
    <3>q. QED BY <2>0, <3>1, <3>3 DEF SignedOutInv
  <2>2. ASSUME NEW f \in Flows, FlowStep(f), flow[f].at = "loggedOut" PROVE storage' = NoTokens /\ Busy' = {}
    <3>1. LogoutReturns(f)
          BY <2>2 DEF FlowStep, MeAnswers, MeFails, RefreshServed, LoginServed, RefreshRefused, RefreshLost,
             RefreshReturns, HydrateGivesUp, LoginReturns, LoginFails, LogoutServed, LogoutLost
    <3>2. storage' = NoTokens /\ Busy = {f} /\ Ends(f)
          BY <2>0, <3>1 DEF LogoutReturns, clearAuth
    <3>3. flow'[f] = NoFlow /\ \A g \in Flows \ {f} : flow'[g] = flow[g]
          BY <2>t, <3>2 DEF Ends, WebTypeOK
    <3>q. QED BY <3>2, <3>3 DEF Busy
  <2>3. ASSUME NEW t \in Tabs, NEW f \in Flows, NEW load \in BOOLEAN, Mount(t, f, load)
        PROVE  storage' = NoTokens /\ Busy' = {}
    <3>1. storage = NoTokens /\ Busy = {} /\ UNCHANGED storage
          BY <2>0, <2>3 DEF SignedOutInv, Mount
    <3>2. storage.access = 0
          BY <3>1 DEF NoTokens
    <3>n. NoFlow.tab # t
          BY WebAssumption DEF NoFlow
    <3>f. \A g \in Flows : flow[g] = NoFlow
          BY <3>1 DEF Busy
    <3>3. \A g \in Flows : flow'[g] = NoFlow
          BY <2>0, <2>3, <3>2, <3>n, <3>f, MountedFlows, SMT, SMTT(30)
    <3>q. QED BY <3>1, <3>3 DEF Busy
  <2>4. ASSUME NEW t \in Tabs, NEW f \in Flows, logout(t, f) PROVE storage' = NoTokens /\ Busy' = {}
    <3>1. CASE storage.refresh # 0
      <4>1. storage = NoTokens
            BY <2>0, <2>4, <3>1 DEF logout, SignedOutInv
      <4>q. QED BY <3>1, <4>1 DEF NoTokens
    <3>2. CASE storage.refresh = 0
          BY <2>0, <2>4, <3>2 DEF logout, Busy
    <3>q. QED BY <3>1, <3>2
  <2>5. CASE UNCHANGED webVars
        BY <2>0, <2>5 DEF webVars, SignedOutInv, Busy
  <2>6. ASSUME NEW t \in Tabs, NEW f \in Flows, NEW u \in People, login(t, f, u) PROVE FALSE
        BY <2>0, <2>6 DEF login
  <2>q. QED BY <2>0, <2>1, <2>2, <2>3, <2>4, <2>5, <2>6 DEF WebNext
<1>3. SignedOutInv => LogoutSticks
      BY DEF SignedOutInv, LogoutSticks
<1>q. QED BY <1>1, <1>2, <1>3, WebInvariant, PTL DEF WebSpec

\* The inductive invariant of a session nothing has gone wrong with: no tab was signed out, one call at
\* most is in flight, and localStorage holds a pair whose refresh token is live, unless the call has just
\* exchanged it or is signing out.
SurvivalInv ==
    ~troubled =>
        /\ ~kicked
        /\ \A f, g \in Busy : f = g
        /\ storage.access = storage.refresh
        /\ (\A f \in Busy : flow[f].at \notin {"granted", "loggedOut"}) => storage.refresh \in live \union {0}
        /\ \A f \in Busy : /\ flow[f].at # "refused"
                           /\ flow[f].at = "me" => storage.refresh # 0
                           /\ flow[f].at \in {"refresh", "granted", "loggedIn"} => flow[f].pair \in live

\* The call that is in flight goes on.
LEMMA StepSurvives ==
    ASSUME TabsInv, SurvivalInv, ~troubled, ~kicked', NEW f \in Flows, flow[f].at # "none",
           NEW at \in {"me", "refresh", "granted", "me2", "loggedIn", "loginMe", "logout", "loggedOut"},
           NEW p \in Issued', Step(f, at, p), Issued \subseteq Issued',
           storage'.access = storage'.refresh,
           at \notin {"granted", "loggedOut"} => storage'.refresh \in live' \union {0},
           at = "me" => storage'.refresh # 0,
           at \in {"refresh", "granted", "loggedIn"} => p \in live'
    PROVE  SurvivalInv'
<1>0. WebTypeOK /\ FlowIsSound(flow[f])
      BY DEF TabsInv
<1>1. f \in Busy /\ \A g \in Busy : g = f
      BY <1>0, FlowFields DEF SurvivalInv
<1>2. flow'[f] # NoFlow /\ flow'[f].at = at /\ flow'[f].pair = p /\ \A g \in Flows \ {f} : flow'[g] = flow[g]
      BY <1>0, FlowSteps, SMT, SMTT(30)
<1>3. Busy' = {f}
      BY <1>1, <1>2 DEF Busy
<1>q. QED BY <1>2, <1>3 DEF SurvivalInv

\* The call that is in flight ends.
LEMMA EndSurvives ==
    ASSUME TabsInv, SurvivalInv, ~troubled, ~kicked', NEW f \in Flows, flow[f].at # "none", Ends(f),
           storage'.access = storage'.refresh, storage'.refresh \in live' \union {0}
    PROVE  SurvivalInv'
<1>0. WebTypeOK /\ FlowIsSound(flow[f])
      BY DEF TabsInv
<1>1. f \in Busy /\ \A g \in Busy : g = f
      BY <1>0, FlowFields DEF SurvivalInv
<1>2. flow'[f] = NoFlow /\ \A g \in Flows \ {f} : flow'[g] = flow[g]
      BY <1>0 DEF Ends, WebTypeOK
<1>3. Busy' = {}
      BY <1>1, <1>2 DEF Busy
<1>q. QED BY <1>3 DEF SurvivalInv

\* One step of the call in flight, while nothing has gone wrong.
LEMMA FlowSurvives ==
    ASSUME TabsInv, SurvivalInv, NEW f \in Flows, FlowStep(f), ~troubled'
    PROVE  SurvivalInv'
<1>0. WebTypeOK /\ FlowIsSound(flow[f]) /\ troubled \in BOOLEAN /\ kicked \in BOOLEAN
      BY DEF TabsInv, WebTypeOK
<1>1. ~troubled /\ flow[f].at # "none"
  <2>1. ~troubled
        BY DEF FlowStep, MeAnswers, MeFails, RefreshServed, LoginServed, RefreshRefused, RefreshLost, RefreshReturns,
               HydrateGivesUp, LoginReturns, LoginFails, LogoutServed, LogoutLost, LogoutReturns, historyVars
  <2>2. flow[f].at # "none"
        BY DEF FlowStep, MeAnswers, MeFails, RefreshServed, LoginServed, RefreshRefused, RefreshLost, RefreshReturns,
               HydrateGivesUp, LoginReturns, LoginFails, LogoutServed, LogoutLost, LogoutReturns
  <2>q. QED BY <2>1, <2>2
<1>2. /\ f \in Busy /\ flow[f].tab \in Tabs /\ ~kicked /\ storage.access = storage.refresh
      /\ flow[f].at \notin {"granted", "loggedOut"} => storage.refresh \in live \union {0}
      /\ flow[f].at # "refused" /\ (flow[f].at = "me" => storage.refresh # 0)
      /\ flow[f].at \in {"refresh", "granted", "loggedIn"} => flow[f].pair \in live
  <2>1. f \in Busy /\ flow[f].tab \in Tabs
        BY <1>0, <1>1, FlowFields
  <2>2. \A g \in Busy : g = f
        BY <1>1, <2>1 DEF SurvivalInv
  <2>q. QED BY <1>1, <2>1, <2>2 DEF SurvivalInv
<1>3. PICK p : p = flow[f].pair
      OBVIOUS
<1>4. flow[f].at # "login" => p \in Issued
      BY <1>0, <1>1, <1>3, SMT, SMTT(30) DEF FlowIsSound, NoFlow
<1>5. CASE MeAnswers(f)
  <2>1. Ends(f) /\ UNCHANGED <<live, storage, kicked>> /\ flow[f].at \notin {"granted", "loggedOut"}
        BY <1>5 DEF MeAnswers, serverVars, historyVars
  <2>q. QED BY <1>1, <1>2, <2>1, EndSurvives
<1>6. CASE MeFails(f)
  <2>1. PICK q : q = storage.refresh
        OBVIOUS
  <2>2. /\ Step(f, "refresh", q) /\ UNCHANGED <<owner, live, storage, kicked>>
        /\ q \in live /\ flow[f].at = "me"
        BY <1>2, <1>6, <2>1 DEF MeFails, serverVars
  <2>3. q \in Issued' /\ Issued' = Issued
        BY <1>0, <2>2 DEF WebTypeOK, Issued
  <2>q. QED BY <1>1, <1>2, <2>1, <2>2, <2>3, StepSurvives
<1>7. ASSUME NEW q \in Pairs, RefreshServed(f, q) PROVE SurvivalInv'
  <2>1. PICK u : u = owner[flow[f].pair]
        OBVIOUS
  <2>2. u \in People /\ Issue(u, q) /\ flow[f].at = "refresh"
        BY <1>0, <1>3, <1>4, <1>7, <2>1 DEF RefreshServed, WebTypeOK, Issued
  <2>3. Issued' = Issued \union {q}
        BY <1>0, <2>2, IssuedStays
  <2>4. Step(f, "granted", q) /\ UNCHANGED <<storage, kicked>> /\ q \in live'
        BY <1>7 DEF RefreshServed, historyVars
  <2>q. QED BY <1>1, <1>2, <2>2, <2>3, <2>4, StepSurvives
<1>8. CASE RefreshRefused(f) \/ RefreshLost(f) \/ LoginFails(f) \/ LogoutLost(f) \/ HydrateGivesUp(f)
  <2>1. ~RefreshLost(f) /\ ~LoginFails(f) /\ ~LogoutLost(f)
        BY DEF RefreshLost, LoginFails, LogoutLost
  <2>2. ~RefreshRefused(f)
        BY <1>2 DEF RefreshRefused
  <2>3. ~HydrateGivesUp(f)
        BY <1>2 DEF HydrateGivesUp
  <2>q. QED BY <1>8, <2>1, <2>2, <2>3
<1>9. CASE RefreshReturns(f) \/ LoginReturns(f)
  <2>1. /\ storage' = [access |-> p, refresh |-> p] /\ UNCHANGED <<owner, live, kicked>>
        /\ flow[f].at \in {"granted", "loggedIn"}
        /\ Step(f, "me2", p) \/ Step(f, "loginMe", p)
        BY <1>3, <1>9 DEF RefreshReturns, LoginReturns, storeTokens, serverVars, historyVars
  <2>2. p \in Issued' /\ Issued' = Issued /\ p \in live' /\ storage'.access = p /\ storage'.refresh = p
        BY <1>2, <1>3, <1>4, <2>1 DEF Issued
  <2>q. QED BY <1>1, <1>2, <2>1, <2>2, StepSurvives
<1>10. ASSUME NEW q \in Pairs, LoginServed(f, q) PROVE SurvivalInv'
  <2>1. PICK u : u = flow[f].who
        OBVIOUS
  <2>2. u \in People /\ Issue(u, q) /\ flow[f].at = "login"
        BY <1>0, <1>10, <2>1, SMT, SMTT(30) DEF LoginServed, FlowIsSound, NoFlow
  <2>3. Issued' = Issued \union {q}
        BY <1>0, <2>2, IssuedStays
  <2>4. Step(f, "loggedIn", q) /\ UNCHANGED <<storage, kicked>> /\ live' = live \union {q}
        BY <1>10 DEF LoginServed, historyVars
  <2>q. QED BY <1>1, <1>2, <2>2, <2>3, <2>4, StepSurvives
<1>11. CASE LogoutServed(f)
  <2>1. Step(f, "loggedOut", p) /\ UNCHANGED <<owner, storage, kicked>> /\ flow[f].at = "logout"
        BY <1>3, <1>11 DEF LogoutServed, historyVars
  <2>2. p \in Issued' /\ Issued' = Issued
        BY <1>4, <2>1 DEF Issued
  <2>q. QED BY <1>1, <1>2, <2>1, <2>2, StepSurvives
<1>12. CASE LogoutReturns(f)
  <2>1. Ends(f) /\ storage' = NoTokens /\ UNCHANGED kicked
        BY <1>12 DEF LogoutReturns, clearAuth
  <2>q. QED BY <1>1, <1>2, <2>1, EndSurvives DEF NoTokens
<1>q. QED BY <1>5, <1>6, <1>7, <1>8, <1>9, <1>10, <1>11, <1>12 DEF FlowStep

\* A call that begins overlaps nothing while nothing has gone wrong.
LEMMA BeginSurvives ==
    ASSUME TabsInv, SurvivalInv, ~troubled', NEW t \in Tabs, NEW f \in Flows,
           (\E load \in BOOLEAN : Mount(t, f, load)) \/ (\E u \in People : login(t, f, u)) \/ logout(t, f)
    PROVE  SurvivalInv'
<1>0. WebTypeOK /\ NoteOverlap(t) /\ UNCHANGED <<live, kicked>>
      BY DEF TabsInv, Mount, login, logout, serverVars
<1>1. ~troubled /\ Busy = {}
      BY <1>0, OverlapIsNoted
<1>2. ~kicked /\ storage.access = storage.refresh /\ storage.refresh \in live \union {0}
      BY <1>1 DEF SurvivalInv
<1>3. ASSUME NEW load \in BOOLEAN, Mount(t, f, load) PROVE SurvivalInv'
  <2>1. UNCHANGED storage
        BY <1>3 DEF Mount
  <2>2. \A g \in Flows \ {f} : flow'[g] = NoFlow
    <3>1. NoFlow.tab # t
          BY WebAssumption DEF NoFlow
    <3>2. \A g \in Flows : flow[g] = NoFlow
          BY <1>1 DEF Busy
    <3>q. QED BY <1>3, <3>1, <3>2, MountedFlows, SMT, SMTT(30)
  <2>3. Busy' \subseteq {f} /\ (storage.access = 0 => Busy' = {})
        BY <1>3, <2>2, MountedFlows DEF Busy
  <2>4. storage.access # 0 => flow'[f].at = "me"
        BY <1>3, MountedFlows, SMT, SMTT(30)
  <2>5. \A g \in Busy' : flow'[g].at = "me" /\ g = f /\ storage.refresh # 0
        BY <1>2, <2>3, <2>4
  <2>q. QED BY <1>0, <1>2, <2>1, <2>5 DEF SurvivalInv
<1>4. ASSUME NEW u \in People, login(t, f, u) PROVE SurvivalInv'
  <2>1. PICK k : k = [at |-> "login", tab |-> t, pair |-> 0, who |-> u, mine |-> TRUE]
        OBVIOUS
  <2>2. UNCHANGED storage /\ flow' = [flow EXCEPT ![f] = k] /\ k.at = "login"
        BY <1>4, <2>1 DEF login
  <2>3. Busy' \subseteq {f} /\ flow'[f] = k
        BY <1>0, <1>1, <2>2 DEF Busy, WebTypeOK
  <2>q. QED BY <1>0, <1>2, <2>2, <2>3 DEF SurvivalInv
<1>5. CASE logout(t, f)
  <2>1. CASE storage.refresh # 0
    <3>1. PICK k : k = [at |-> "logout", tab |-> t, pair |-> storage.refresh, who |-> Nobody, mine |-> TRUE]
          OBVIOUS
    <3>2. UNCHANGED storage /\ flow' = [flow EXCEPT ![f] = k] /\ k.at = "logout"
          BY <1>5, <2>1, <3>1 DEF logout
    <3>3. Busy' \subseteq {f} /\ flow'[f] = k
          BY <1>0, <1>1, <3>2 DEF Busy, WebTypeOK
    <3>q. QED BY <1>0, <1>2, <3>2, <3>3 DEF SurvivalInv
  <2>2. CASE storage.refresh = 0
    <3>1. storage' = NoTokens /\ UNCHANGED flow
          BY <1>5, <2>2 DEF logout
    <3>2. Busy' = {}
          BY <1>1, <3>1 DEF Busy
    <3>q. QED BY <1>0, <1>2, <3>1, <3>2 DEF SurvivalInv, NoTokens
  <2>q. QED BY <2>1, <2>2
<1>q. QED BY <1>3, <1>4, <1>5

\* hydrateSession: as long as calls do not overlap, requests are answered and the server ends no session,
\* an expired access token is replaced and no tab is signed out.
THEOREM SessionSurvivesHolds == WebSpec => []SessionSurvives
<1>1. WebInit => SurvivalInv
      BY SMT, SMTT(30) DEF WebInit, SurvivalInv, Busy, NoTokens
<1>2. TabsInv /\ SurvivalInv /\ [WebNext]_webVars => SurvivalInv'
  <2>0. SUFFICES ASSUME TabsInv, SurvivalInv, [WebNext]_webVars PROVE SurvivalInv'
        OBVIOUS
  <2>1. CASE troubled'
        BY <2>1 DEF SurvivalInv
  <2>2. CASE ~troubled'
    <3>1. CASE UNCHANGED webVars
          BY <2>0, <3>1 DEF webVars, SurvivalInv, Busy
    <3>2. CASE WebNext
          BY <2>0, <2>2, <3>2, FlowSurvives, BeginSurvives DEF WebNext
    <3>q. QED BY <2>0, <3>1, <3>2
  <2>q. QED BY <2>1, <2>2
<1>3. TabsInv /\ SurvivalInv => SessionSurvives
      BY DEF SurvivalInv, SessionSurvives, TabsInv, WebTypeOK
<1>q. QED BY <1>1, <1>2, <1>3, WebInvariant, PTL DEF WebSpec
=============================================================================
