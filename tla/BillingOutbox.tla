--------------------------- MODULE BillingOutbox ---------------------------
(***************************************************************************)
(* The subscription lifecycle of the billing service and the transactional *)
(* outbox that announces a suspension: SuspendSubscription writes the      *)
(* subscription and an event_outbox row in one transaction, a relay in     *)
(* every replica publishes the rows to JetStream, rows that keep failing   *)
(* are parked in event_outbox_dead, and outbox-admin re-arms parked rows.  *)
(***************************************************************************)
EXTENDS Integers, FiniteSets

CONSTANTS
    Tenants,
    Calls,              \* subscription RPCs in flight
    Relays,             \* replicas of the billing service, one Relay each
    MaxEvents,          \* bound on the events enqueued
    MaxReplays,         \* bound on the operator's replays
    RelayBatchSize,     \* relayBatchSize
    MaxOutboxAttempts,  \* maxOutboxAttempts
    HealthyTicks,       \* brokerHealthyWindow, in ticks of relayInterval
    NULL

ASSUME OutboxAssumption ==
    /\ MaxEvents \in Nat
    /\ MaxReplays \in Nat
    /\ RelayBatchSize \in Nat \ {0}
    /\ MaxOutboxAttempts \in Nat \ {0}
    /\ HealthyTicks \in Nat \ {0}
    /\ NULL \notin Tenants
    /\ NULL \notin Nat

\* Event ids, in the order of created_at.
Events == 1 .. MaxEvents

VARIABLES
    sub,        \* the status of each tenant's subscription
    call,       \* the subscription RPCs in flight
    owner,      \* the tenant_id of each event enqueued
    row,        \* event_outbox: no row, sent_at NULL, or sent_at set
    attempts,   \* event_outbox.attempts, counted up to MaxOutboxAttempts
    dead,       \* event_outbox_dead
    stream,     \* events JetStream has stored
    relay,      \* the batch each relay is working on
    replays     \* how often an operator has re-armed an event

subscriptionVars == <<sub, call>>
tableVars == <<row, attempts, dead>>
outboxVars == <<subscriptionVars, owner, tableVars, stream, relay, replays>>

SubscriptionStatus == {"none", "trialing", "active", "cancelled", "suspended"}

SubscriptionCall == [op: {"idle", "create", "update", "suspend"}, id: Tenants \union {NULL},
                     status: SubscriptionStatus]

\* maxed holds the claimed events whose returned attempts had reached
\* MaxOutboxAttempts; health is what is left of brokerHealthyWindow.
RelayBatch == [pc: {"idle", "publish", "mark", "moving"}, todo: SUBSET Events,
               failed: SUBSET Events, maxed: SUBSET Events, ev: Events \union {NULL},
               copied: BOOLEAN, published: BOOLEAN, health: 0 .. HealthyTicks]

NoSubCall == [op |-> "idle", id |-> NULL, status |-> "none"]

\* NewRelay: a fresh relay has seen no publish succeed.
NewRelay == [pc |-> "idle", todo |-> {}, failed |-> {}, maxed |-> {}, ev |-> NULL,
             copied |-> FALSE, published |-> FALSE, health |-> 0]

OutboxInit ==
    /\ sub = [t \in Tenants |-> "none"]
    /\ call = [c \in Calls |-> NoSubCall]
    /\ owner = [e \in Events |-> NULL]
    /\ row = [e \in Events |-> "none"]
    /\ attempts = [e \in Events |-> 0]
    /\ dead = {}
    /\ stream = {}
    /\ relay = [w \in Relays |-> NewRelay]
    /\ replays = 0

-----------------------------------------------------------------------------
(***************************************************************************)
(* The subscription RPCs: each reads the row, then writes all of it.       *)
(***************************************************************************)

Begin(c, t, op, status) ==
    /\ call[c].op = "idle"
    /\ call' = [call EXCEPT ![c] = [op |-> op, id |-> t, status |-> status]]
    /\ UNCHANGED <<sub, owner, tableVars, stream, relay, replays>>

CreateSubscriptionRead(c, t) ==
    /\ sub[t] = "none"
    /\ Begin(c, t, "create", "trialing")

\* Mutant: only a cancelled subscription is rejected.
UpgradeReadSuspended(c, t) ==
    /\ sub[t] \notin {"none", "cancelled"}
    /\ Begin(c, t, "update", IF sub[t] = "trialing" THEN "active" ELSE sub[t])

UpgradeSubscriptionRead(c, t) ==
    /\ sub[t] \notin {"none", "cancelled", "suspended"}
    /\ Begin(c, t, "update", IF sub[t] = "trialing" THEN "active" ELSE sub[t])

CancelSubscriptionRead(c, t) ==
    /\ sub[t] \notin {"none", "cancelled"}
    /\ Begin(c, t, "update", "cancelled")

\* SuspendSubscription reads the row and checks nothing of its status.
SuspendSubscriptionRead(c, t) ==
    /\ sub[t] # "none"
    /\ Begin(c, t, "suspend", "suspended")

\* INSERT ... ON CONFLICT (tenant_id) DO NOTHING.
CreateSubscription(c) ==
    /\ call[c].op = "create"
    /\ sub' = [sub EXCEPT ![call[c].id] = IF @ = "none" THEN call[c].status ELSE @]
    /\ call' = [call EXCEPT ![c] = NoSubCall]
    /\ UNCHANGED <<owner, tableVars, stream, relay, replays>>

\* The unguarded UPDATE of UpgradeSubscription and CancelSubscription.
UpdateSubscription(c) ==
    /\ call[c].op = "update"
    /\ sub' = [sub EXCEPT ![call[c].id] = call[c].status]
    /\ call' = [call EXCEPT ![c] = NoSubCall]
    /\ UNCHANGED <<owner, tableVars, stream, relay, replays>>

\* The subscription row and the outbox row commit together.  created_at is
\* the start of the transaction, so commits need not follow its order.
SuspendSubscriptionWithOutbox(c) ==
    /\ call[c].op = "suspend"
    /\ sub' = [sub EXCEPT ![call[c].id] = call[c].status]
    /\ \E e \in Events : /\ owner[e] = NULL
                         /\ owner' = [owner EXCEPT ![e] = call[c].id]
                         /\ row' = [row EXCEPT ![e] = "unsent"]
    /\ call' = [call EXCEPT ![c] = NoSubCall]
    /\ UNCHANGED <<attempts, dead, stream, relay, replays>>

\* A database error, a rolled back transaction or a crash of the RPC.
CallFails(c) ==
    /\ call[c].op # "idle"
    /\ call' = [call EXCEPT ![c] = NoSubCall]
    /\ UNCHANGED <<sub, owner, tableVars, stream, relay, replays>>

-----------------------------------------------------------------------------
(***************************************************************************)
(* One tick of a relay: processBatch.                                      *)
(***************************************************************************)

Unsent == {e \in Events : row[e] = "unsent"}

\* Mutant: rows that have used up their attempts are no longer claimed.
OldestWithTriesLeft ==
    {e \in Unsent : /\ attempts[e] < MaxOutboxAttempts
                    /\ Cardinality({f \in Unsent : f < e}) < RelayBatchSize}

\* ORDER BY created_at LIMIT RelayBatchSize.
Oldest == {e \in Unsent : Cardinality({f \in Unsent : f < e}) < RelayBatchSize}

CountTry(n) == IF n < MaxOutboxAttempts THEN n + 1 ELSE n

\* A tick of the relay: the window since the last success shrinks, by more
\* than one tick when the previous batch was slow, and a batch is claimed.
ClaimUnsentOutbox(w) ==
    /\ relay[w].pc = "idle"
    /\ attempts' = [e \in Events |-> IF e \in Oldest THEN CountTry(attempts[e]) ELSE attempts[e]]
    /\ \E left \in 0 .. HealthyTicks :
          /\ left < relay[w].health \/ left = 0
          /\ relay' = [relay EXCEPT ![w] =
                [NewRelay EXCEPT !.pc = "publish", !.todo = Oldest,
                    !.maxed = {e \in Oldest : CountTry(attempts[e]) = MaxOutboxAttempts},
                    !.health = left]]
    /\ UNCHANGED <<subscriptionVars, owner, row, dead, stream, replays>>

\* Publish returns no error: JetStream has stored the event.
PublishOk(w, e) ==
    /\ relay[w].pc = "publish"
    /\ e \in relay[w].todo
    /\ stream' = stream \union {e}
    /\ relay' = [relay EXCEPT ![w] = [relay[w] EXCEPT !.pc = "mark", !.ev = e]]
    /\ UNCHANGED <<subscriptionVars, owner, tableVars, replays>>

\* Publish returns an error; JetStream may have stored the event all the
\* same when only its acknowledgement was lost.
PublishFails(w, e) ==
    /\ relay[w].pc = "publish"
    /\ e \in relay[w].todo
    /\ stream' \in {stream, stream \union {e}}
    /\ relay' = [relay EXCEPT ![w] = [relay[w] EXCEPT !.todo = @ \ {e}, !.failed = @ \union {e}]]
    /\ UNCHANGED <<subscriptionVars, owner, tableVars, replays>>

\* MarkOutboxSent, and the success it counts.
MarkOutboxSent(w) ==
    /\ relay[w].pc = "mark"
    /\ row' = [row EXCEPT ![relay[w].ev] = IF @ = "none" THEN @ ELSE "sent"]
    /\ relay' = [relay EXCEPT ![w] = [relay[w] EXCEPT !.pc = "publish", !.todo = @ \ {relay[w].ev}, !.ev = NULL,
                                                   !.published = TRUE, !.health = HealthyTicks]]
    /\ UNCHANGED <<subscriptionVars, owner, attempts, dead, stream, replays>>

\* MarkOutboxSent returns an error: the event is published and unsent.
MarkOutboxSentFails(w) ==
    /\ relay[w].pc = "mark"
    /\ relay' = [relay EXCEPT ![w] = [relay[w] EXCEPT !.pc = "publish", !.todo = @ \ {relay[w].ev}, !.ev = NULL]]
    /\ UNCHANGED <<subscriptionVars, owner, tableVars, stream, replays>>

-----------------------------------------------------------------------------
(***************************************************************************)
(* The second pass over the failures of the batch.                         *)
(***************************************************************************)

Settling(w) == relay[w].pc = "publish" /\ relay[w].todo = {}

\* brokerHealthy.
BrokerHealthy(w) == relay[w].published \/ relay[w].health > 0

Parks(w, e) == BrokerHealthy(w) /\ e \in relay[w].maxed

\* The failure is recorded in last_error and the event is retried.
RecordOutboxFailure(w, e) ==
    /\ Settling(w)
    /\ e \in relay[w].failed
    /\ ~Parks(w, e)
    /\ relay' = [relay EXCEPT ![w] = [relay[w] EXCEPT !.failed = @ \ {e}]]
    /\ UNCHANGED <<subscriptionVars, owner, tableVars, stream, replays>>

\* MoveOutboxToDead, its INSERT ... SELECT ... ON CONFLICT (id) DO NOTHING:
\* it waits for another transaction that has inserted the same id.
MoveOutboxToDeadCopy(w, e) ==
    /\ Settling(w)
    /\ e \in relay[w].failed
    /\ Parks(w, e)
    /\ \A v \in Relays : ~(relay[v].pc = "moving" /\ relay[v].ev = e /\ relay[v].copied)
    /\ relay' = [relay EXCEPT ![w] = [relay[w] EXCEPT !.pc = "moving", !.failed = @ \ {e}, !.ev = e,
                                                   !.copied = row[e] # "none" /\ e \notin dead]]
    /\ UNCHANGED <<subscriptionVars, owner, tableVars, stream, replays>>

\* Mutant: the DELETE of MoveOutboxToDead without its INSERT.
MoveWithoutCopy(w) ==
    /\ relay[w].pc = "moving"
    /\ row' = [row EXCEPT ![relay[w].ev] = "none"]
    /\ relay' = [relay EXCEPT ![w] = [relay[w] EXCEPT !.pc = "publish", !.ev = NULL, !.copied = FALSE]]
    /\ UNCHANGED <<subscriptionVars, owner, attempts, dead, stream, replays>>

\* MoveOutboxToDead, its DELETE and COMMIT.
MoveOutboxToDead(w) ==
    /\ relay[w].pc = "moving"
    /\ dead' = IF relay[w].copied THEN dead \union {relay[w].ev} ELSE dead
    /\ row' = [row EXCEPT ![relay[w].ev] = "none"]
    /\ relay' = [relay EXCEPT ![w] = [relay[w] EXCEPT !.pc = "publish", !.ev = NULL, !.copied = FALSE]]
    /\ UNCHANGED <<subscriptionVars, owner, attempts, stream, replays>>

\* MoveOutboxToDead is rolled back; the error is logged.
MoveOutboxToDeadFails(w) ==
    /\ relay[w].pc = "moving"
    /\ relay' = [relay EXCEPT ![w] = [relay[w] EXCEPT !.pc = "publish", !.ev = NULL, !.copied = FALSE]]
    /\ UNCHANGED <<subscriptionVars, owner, tableVars, stream, replays>>

\* processBatch returns.
BatchDone(w) ==
    /\ Settling(w)
    /\ relay[w].failed = {}
    /\ relay' = [relay EXCEPT ![w] = [NewRelay EXCEPT !.health = relay[w].health]]
    /\ UNCHANGED <<subscriptionVars, owner, tableVars, stream, replays>>

\* Mutant: the cleanup deletes by age alone, without sent_at IS NOT NULL.
DeleteByAge(w, S) ==
    /\ relay[w].pc = "idle"
    /\ S # {} /\ \A e \in S : row[e] # "none"
    /\ row' = [e \in Events |-> IF e \in S THEN "none" ELSE row[e]]
    /\ UNCHANGED <<subscriptionVars, owner, attempts, dead, stream, relay, replays>>

\* The cleanup of every relayCleanupEach-th tick; S is what is past relaySentTTL.
DeleteSentOutboxOlderThan(w, S) ==
    /\ relay[w].pc = "idle"
    /\ S # {} /\ \A e \in S : row[e] = "sent"
    /\ row' = [e \in Events |-> IF e \in S THEN "none" ELSE row[e]]
    /\ UNCHANGED <<subscriptionVars, owner, attempts, dead, stream, relay, replays>>

\* The replica stops, at any point, and is started again.
RelayRestarts(w) ==
    /\ relay[w] # NewRelay
    /\ relay' = [relay EXCEPT ![w] = NewRelay]
    /\ UNCHANGED <<subscriptionVars, owner, tableVars, stream, replays>>

\* Mutant: the replay leaves the parked row behind.
ReplayKeepsDead(e) ==
    /\ replays < MaxReplays
    /\ e \in dead
    /\ row[e] = "none"
    /\ row' = [row EXCEPT ![e] = "unsent"]
    /\ attempts' = [attempts EXCEPT ![e] = 0]
    /\ replays' = replays + 1
    /\ UNCHANGED <<subscriptionVars, owner, dead, stream, relay>>

\* outbox-admin replay: one transaction, refused when the id is not parked
\* or is still in event_outbox.
ReplayDeadOutbox(e) ==
    /\ replays < MaxReplays
    /\ e \in dead
    /\ row[e] = "none"
    /\ row' = [row EXCEPT ![e] = "unsent"]
    /\ attempts' = [attempts EXCEPT ![e] = 0]
    /\ dead' = dead \ {e}
    /\ replays' = replays + 1
    /\ UNCHANGED <<subscriptionVars, owner, stream, relay>>

-----------------------------------------------------------------------------
CallStep(c) ==
    \/ \E t \in Tenants : \/ CreateSubscriptionRead(c, t)
                          \/ UpgradeSubscriptionRead(c, t)
                          \/ CancelSubscriptionRead(c, t)
                          \/ SuspendSubscriptionRead(c, t)
    \/ CreateSubscription(c)
    \/ UpdateSubscription(c)
    \/ SuspendSubscriptionWithOutbox(c)
    \/ CallFails(c)

RelayStep(w) ==
    \/ ClaimUnsentOutbox(w)
    \/ \E e \in Events : PublishOk(w, e) \/ PublishFails(w, e)
    \/ MarkOutboxSent(w)
    \/ MarkOutboxSentFails(w)
    \/ \E e \in Events : RecordOutboxFailure(w, e) \/ MoveOutboxToDeadCopy(w, e)
    \/ MoveOutboxToDead(w)
    \/ MoveOutboxToDeadFails(w)
    \/ BatchDone(w)
    \/ \E S \in SUBSET Events : DeleteSentOutboxOlderThan(w, S)
    \/ RelayRestarts(w)

OutboxNext ==
    \/ \E c \in Calls : CallStep(c)
    \/ \E w \in Relays : RelayStep(w)
    \/ \E e \in Events : ReplayDeadOutbox(e)

OutboxSpec == OutboxInit /\ [][OutboxNext]_outboxVars

-----------------------------------------------------------------------------
(***************************************************************************)
(* Properties.                                                             *)
(***************************************************************************)

\* The tables and the relays' batches keep their types.
OutboxTypeOK ==
    /\ sub \in [Tenants -> SubscriptionStatus]
    /\ call \in [Calls -> SubscriptionCall]
    /\ owner \in [Events -> Tenants \union {NULL}]
    /\ row \in [Events -> {"none", "unsent", "sent"}]
    /\ attempts \in [Events -> 0 .. MaxOutboxAttempts]
    /\ dead \subseteq Events
    /\ stream \subseteq Events
    /\ relay \in [Relays -> RelayBatch]
    /\ replays \in 0 .. MaxReplays

Kept(e) == row[e] # "none" \/ e \in dead \/ e \in stream

\* An event whose transaction committed is in event_outbox, in
\* event_outbox_dead or in the stream, whatever the relays, the cleanup and
\* crashes do (MoveOutboxToDead, DeleteSentOutboxOlderThan).
EventNeverLost == \A e \in Events : owner[e] # NULL => Kept(e)

\* A suspended subscription has an event that announces it: the update and
\* the event of SuspendSubscriptionWithOutbox cannot come apart, then or later.
SuspensionAnnounced ==
    \A t \in Tenants : sub[t] = "suspended" =>
        \E e \in Events : owner[e] = t /\ Kept(e)

\* The upgrades in flight, which write the status of the row they read.
Reviving(t) == {c \in Calls : call[c].op = "update" /\ call[c].id = t /\ call[c].status # "cancelled"}

\* UpgradeSubscription rejects a suspended subscription, on a row read before
\* its unguarded write.  So a suspension that no upgrade in flight overlaps
\* lasts until the subscription is cancelled, and so does its event's meaning.
SuspensionSticks ==
    [][\A t \in Tenants : sub[t] = "suspended" /\ Reviving(t) = {} =>
          sub'[t] \in {"suspended", "cancelled"} /\ Reviving(t)' = {}]_outboxVars

\* An id is never in event_outbox and event_outbox_dead at once; if it were,
\* ReplayDeadOutbox would fail on the primary key each time it is tried.
OutboxOrDead == \A e \in dead : row[e] = "none"

\* A relay decides to park from the attempts its claim returned, steps
\* before the move; the row it moves has still used up its attempts.
ParkedAfterMaxAttempts ==
    [][\A e \in dead' \ dead : attempts[e] = MaxOutboxAttempts]_outboxVars

DeliveryOf(e) == IF e \in stream THEN "delivered"
                 ELSE IF e \in dead THEN "parked"
                 ELSE IF row[e] # "none" THEN "pending"
                 ELSE "none"

Delivery == INSTANCE EventDelivery WITH delivery <- [e \in Events |-> DeliveryOf(e)]

\* Claims, publishes, marks, moves, cleanups, crashes and replays of the
\* relays implement the delivery promise.
OutboxDelivers == Delivery!DeliverySpec

\* What the scheduler, the database and the broker grant: a running relay
\* goes on, its statements and publishes do not fail for ever, and the
\* process does not restart for ever before a batch is finished.
RelayFairness(w) ==
    /\ WF_outboxVars(ClaimUnsentOutbox(w))
    /\ \A e \in Events : /\ SF_outboxVars(PublishOk(w, e))
                         /\ WF_outboxVars(RecordOutboxFailure(w, e))
                         /\ WF_outboxVars(MoveOutboxToDeadCopy(w, e))
    /\ SF_outboxVars(MarkOutboxSent(w))
    /\ WF_outboxVars(MoveOutboxToDead(w))
    /\ WF_outboxVars(BatchDone(w))

OutboxFairSpec == OutboxSpec /\ \A w \in Relays : RelayFairness(w)

\* Every enqueued event reaches the stream or the dead-letter table.
EventSettled == \A e \in Events : (owner[e] # NULL) ~> (e \in stream \/ e \in dead)
=============================================================================
