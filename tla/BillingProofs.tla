---------------------------- MODULE BillingProofs ----------------------------
(***************************************************************************)
(* Proofs about services/billing: the outbox and the subscriptions it      *)
(* announces, with the events it delivers; the numbers and the payments of *)
(* invoices; and the default payment method.  They hold for any number of  *)
(* rows, relays and calls in progress.                                     *)
(***************************************************************************)
EXTENDS BillingOutbox, Invoicing, PaymentMethods, TLAPS

\* Most leaves are first-order: Zenon proves them.  Those that need arithmetic cite SMT, with
\* SMTT(30) as a second and longer try; ZenonT(40) gives a leaf more time.
USE Zenon

\* A replay is deleted by a late MoveOutboxToDead only where there are replays and at
\* least two replicas.
NoRacingReplay == MaxReplays = 0 \/ \A v, w \in Relays : v = w

\* The events a relay has in its hands.
Held(w) == {e \in Events : e \in relay[w].todo \/ e \in relay[w].failed \/ e = relay[w].ev}

\* Nothing is known of an event before its transaction commits.
UnknownBefore ==
    \A e \in Events : owner[e] = NULL => row[e] = "none" /\ e \notin dead /\ e \notin stream

\* A row is marked sent only after JetStream has the event.
SentIsStored == \A e \in Events : row[e] = "sent" => e \in stream

\* A relay works on committed events, and marks what it has published: b is its batch,
\* ow the events' owners and st the stream.
BatchOK(b, ow, st) ==
    /\ \A e \in Events : e \in b.todo \/ e \in b.failed \/ e = b.ev => ow[e] # NULL
    /\ b.pc \in {"mark", "moving"} => b.ev \in Events
    /\ b.pc \in {"idle", "publish"} => b.ev = NULL
    /\ b.pc = "mark" => b.ev \in st
    /\ b.pc = "moving" => b.todo = {} /\ b.ev \notin b.failed /\ b.ev \in b.maxed
    /\ b.copied => b.pc = "moving"

\* All relays do.
RelayHolds == \A w \in Relays : BatchOK(relay[w], owner, stream)

\* What an RPC writes: only SuspendSubscription suspends.
CallWrites ==
    \A c \in Calls :
        /\ call[c].op # "idle" => call[c].id \in Tenants
        /\ call[c].op = "create" => call[c].status = "trialing"
        /\ call[c].op = "update" => call[c].status \notin {"none", "suspended"}
        /\ call[c].op = "suspend" => call[c].status = "suspended"

\* A suspended subscription has an event.
SuspendedHasEvent == \A t \in Tenants : sub[t] = "suspended" => \E e \in Events : owner[e] = t

\* The part of the invariant that needs no assumption about replays.
TableInv ==
    /\ OutboxTypeOK /\ UnknownBefore /\ SentIsStored /\ RelayHolds
    /\ CallWrites /\ SuspendedHasEvent /\ OutboxOrDead

\* A relay that moves a row to the dead-letter table either has a copy of a row that
\* nobody else has parked or lost meanwhile, or there is nothing left to copy.
MoveIsSafe ==
    \A w \in Relays : relay[w].pc = "moving" =>
        /\ relay[w].copied => /\ relay[w].ev \notin dead
                              /\ row[relay[w].ev] # "none" \/ relay[w].ev \in stream
        /\ relay[w].copied \/ row[relay[w].ev] = "none" \/ relay[w].ev \in dead

\* The unique id lets one transaction at a time insert an event.
OneCopy ==
    \A v, w \in Relays : relay[v].copied /\ relay[w].copied /\ relay[v].ev = relay[w].ev => v = w

\* What one relay alone works on has not been parked.
HeldIsNotParked == (\A v, w \in Relays : v = w) => \A w \in Relays : \A e \in Held(w) : e \notin dead

\* The attempts a claim returned as used up stay used up while the relay has the event.
MaxedIsMaxed ==
    \A w \in Relays : \A e \in Held(w) : e \in relay[w].maxed => attempts[e] = MaxOutboxAttempts

\* The part that needs NoRacingReplay.
MoveInv == MoveIsSafe /\ OneCopy /\ HeldIsNotParked /\ MaxedIsMaxed /\ EventNeverLost

USE OutboxAssumption DEF Events

\* The tables are empty at first and no relay has a batch.
LEMMA TableInvInit == OutboxInit => TableInv
BY SMT, SMTT(30) DEF OutboxInit, TableInv, OutboxTypeOK, UnknownBefore, SentIsStored, RelayHolds, BatchOK, CallWrites,
       SuspendedHasEvent, OutboxOrDead, NewRelay, NoSubCall, RelayBatch, SubscriptionCall, SubscriptionStatus

\* A step of one relay that leaves the owners alone keeps the other relays' batches.
LEMMA OneBatch ==
    ASSUME TableInv, NEW w \in Relays, NEW b \in RelayBatch, relay' = [relay EXCEPT ![w] = b],
           owner' = owner, stream \subseteq stream', BatchOK(b, owner, stream')
    PROVE  /\ relay' \in [Relays -> RelayBatch]
           /\ RelayHolds'
<1>1. relay \in [Relays -> RelayBatch] /\ RelayHolds
      BY DEF TableInv, OutboxTypeOK
<1>2. relay' \in [Relays -> RelayBatch]
      BY <1>1
<1>3. ASSUME NEW v \in Relays PROVE BatchOK(relay'[v], owner, stream')
      <2>1. CASE v = w
            BY <1>1, <2>1
      <2>2. CASE v # w
            <3>1. relay'[v] = relay[v] /\ BatchOK(relay[v], owner, stream)
                  BY <1>1, <2>2 DEF RelayHolds
            <3>2. QED
                  BY <3>1 DEF BatchOK
      <2>3. QED
            BY <2>1, <2>2
<1>4. QED
      BY <1>2, <1>3 DEF RelayHolds

\* The reads of the RPCs put no new status in play but the one they will write.
LEMMA ReadsTable ==
    ASSUME TableInv, NEW c \in Calls, NEW t \in Tenants,
           \/ CreateSubscriptionRead(c, t) \/ UpgradeSubscriptionRead(c, t)
           \/ CancelSubscriptionRead(c, t) \/ SuspendSubscriptionRead(c, t)
    PROVE  TableInv'
<1>1. PICK op \in {"create", "update", "suspend"}, st \in SubscriptionStatus :
         /\ Begin(c, t, op, st)
         /\ op = "create" => st = "trialing"
         /\ op = "update" => st \notin {"none", "suspended"}
         /\ op = "suspend" => st = "suspended"
      BY DEF CreateSubscriptionRead, UpgradeSubscriptionRead, CancelSubscriptionRead,
             SuspendSubscriptionRead, SubscriptionStatus, TableInv, OutboxTypeOK
<1>2. /\ call' = [call EXCEPT ![c] = [op |-> op, id |-> t, status |-> st]]
      /\ UNCHANGED <<sub, owner, row, attempts, dead, stream, relay, replays>>
      BY <1>1 DEF Begin, tableVars
<1>3. OutboxTypeOK'
      BY <1>2 DEF TableInv, OutboxTypeOK, SubscriptionCall
<1>4. CallWrites'
      BY <1>1, <1>2 DEF TableInv, OutboxTypeOK, CallWrites
<1>5. QED
      BY ZenonT(40), <1>2, <1>3, <1>4 DEF TableInv, UnknownBefore, SentIsStored, RelayHolds, BatchOK,
         SuspendedHasEvent, OutboxOrDead

\* CreateSubscription, UpdateSubscription and a failing RPC suspend nothing.
LEMMA WritesTable ==
    ASSUME TableInv, NEW c \in Calls, CreateSubscription(c) \/ UpdateSubscription(c) \/ CallFails(c)
    PROVE  TableInv'
<1>1. /\ call' = [call EXCEPT ![c] = NoSubCall]
      /\ UNCHANGED <<owner, row, attempts, dead, stream, relay, replays>>
      BY DEF CreateSubscription, UpdateSubscription, CallFails, tableVars
<1>2. /\ sub' \in [Tenants -> SubscriptionStatus]
      /\ \A t \in Tenants : sub'[t] = "suspended" => sub[t] = "suspended"
      <2>1. CASE CallFails(c)
            BY <2>1 DEF CallFails, TableInv, OutboxTypeOK
      <2>2. CASE CreateSubscription(c) \/ UpdateSubscription(c)
            <3>1. /\ call[c].id \in Tenants /\ call[c].status \in SubscriptionStatus
                  /\ call[c].status # "suspended"
                  BY <2>2 DEF CreateSubscription, UpdateSubscription, TableInv, OutboxTypeOK, CallWrites,
                     SubscriptionCall
            <3>2. PICK st \in SubscriptionStatus :
                     /\ sub' = [sub EXCEPT ![call[c].id] = st]
                     /\ st = "suspended" => sub[call[c].id] = "suspended"
                  BY <2>2, <3>1 DEF CreateSubscription, UpdateSubscription, TableInv, OutboxTypeOK
            <3>3. QED
                  BY <3>1, <3>2 DEF TableInv, OutboxTypeOK
      <2>3. QED
            BY <2>1, <2>2
<1>3. OutboxTypeOK' /\ CallWrites'
      BY <1>1, <1>2 DEF TableInv, OutboxTypeOK, CallWrites, SubscriptionCall, SubscriptionStatus, NoSubCall
<1>4. SuspendedHasEvent'
      BY <1>1, <1>2 DEF TableInv, SuspendedHasEvent
<1>5. QED
      BY <1>1, <1>3, <1>4 DEF TableInv, UnknownBefore, SentIsStored, RelayHolds, BatchOK, OutboxOrDead

\* SuspendSubscriptionWithOutbox writes the row and the event in one transaction.
LEMMA SuspendTable ==
    ASSUME TableInv, NEW c \in Calls, SuspendSubscriptionWithOutbox(c)
    PROVE  TableInv'
<1>1. call[c].id \in Tenants /\ call[c].status \in SubscriptionStatus
      BY DEF SuspendSubscriptionWithOutbox, TableInv, OutboxTypeOK, CallWrites, SubscriptionCall
<1>2. PICK e \in Events : /\ owner[e] = NULL
                          /\ owner' = [owner EXCEPT ![e] = call[c].id]
                          /\ row' = [row EXCEPT ![e] = "unsent"]
      BY DEF SuspendSubscriptionWithOutbox
<1>3. /\ call' = [call EXCEPT ![c] = NoSubCall]
      /\ sub' = [sub EXCEPT ![call[c].id] = call[c].status]
      /\ UNCHANGED <<attempts, dead, stream, relay, replays>>
      BY DEF SuspendSubscriptionWithOutbox
<1>4. OutboxTypeOK' /\ CallWrites'
      BY <1>1, <1>2, <1>3 DEF TableInv, OutboxTypeOK, CallWrites, SubscriptionCall, SubscriptionStatus, NoSubCall
<1>5. UnknownBefore' /\ SentIsStored' /\ OutboxOrDead'
      BY <1>1, <1>2, <1>3 DEF TableInv, OutboxTypeOK, UnknownBefore, SentIsStored, OutboxOrDead
<1>6. RelayHolds'
      BY <1>1, <1>2, <1>3 DEF TableInv, OutboxTypeOK, RelayHolds, BatchOK
<1>7. SuspendedHasEvent'
      BY ZenonT(40), <1>1, <1>2, <1>3 DEF TableInv, OutboxTypeOK, SuspendedHasEvent
<1>8. QED
      BY <1>4, <1>5, <1>6, <1>7 DEF TableInv

\* The parts of the invariant that a step of a relay which touches no table keeps.
LEMMA BatchOnly ==
    ASSUME TableInv, NEW w \in Relays, NEW b \in RelayBatch, relay' = [relay EXCEPT ![w] = b],
           BatchOK(b, owner, stream'), stream \subseteq stream', stream' \subseteq Events,
           \A e \in Events : e \in stream' => e \in stream \/ owner[e] # NULL,
           UNCHANGED <<subscriptionVars, owner, row, dead, replays>>,
           attempts' \in [Events -> 0 .. MaxOutboxAttempts]
    PROVE  TableInv'
<1>1. UNCHANGED <<sub, call, owner, row, dead, replays>>
      BY DEF subscriptionVars
<1>2. relay' \in [Relays -> RelayBatch] /\ RelayHolds'
      BY <1>1, OneBatch
<1>3. OutboxTypeOK'
      BY <1>1, <1>2 DEF TableInv, OutboxTypeOK
<1>4. UnknownBefore' /\ SentIsStored' /\ OutboxOrDead'
      BY <1>1 DEF TableInv, UnknownBefore, SentIsStored, OutboxOrDead
<1>5. CallWrites' /\ SuspendedHasEvent'
      BY <1>1 DEF TableInv, CallWrites, SuspendedHasEvent
<1>6. QED
      BY <1>2, <1>3, <1>4, <1>5 DEF TableInv

\* ClaimUnsentOutbox hands the relay unsent rows, which are of committed events.
LEMMA ClaimTable ==
    ASSUME TableInv, NEW w \in Relays, ClaimUnsentOutbox(w)
    PROVE  TableInv'
<1> DEFINE maxed == {e \in Oldest : CountTry(attempts[e]) = MaxOutboxAttempts}
<1>1. PICK left \in 0 .. HealthyTicks :
         relay' = [relay EXCEPT ![w] = [NewRelay EXCEPT !.pc = "publish", !.todo = Oldest,
                                                        !.maxed = maxed, !.health = left]]
      BY DEF ClaimUnsentOutbox
<1> DEFINE b == [NewRelay EXCEPT !.pc = "publish", !.todo = Oldest, !.maxed = maxed, !.health = left]
<1>2. Oldest \subseteq Events /\ \A e \in Oldest : owner[e] # NULL
      BY DEF Oldest, Unsent, TableInv, UnknownBefore
<1>3. maxed \subseteq Events
      BY <1>2
<1>4. b \in RelayBatch
      <2> HIDE DEF maxed
      <2> QED BY <1>2, <1>3 DEF NewRelay, RelayBatch
<1>5. BatchOK(b, owner, stream)
      <2> HIDE DEF maxed
      <2> QED BY <1>2, SMT, SMTT(30) DEF NewRelay, BatchOK
<1>6. attempts' \in [Events -> 0 .. MaxOutboxAttempts]
      <2>1. \A n \in 0 .. MaxOutboxAttempts : CountTry(n) \in 0 .. MaxOutboxAttempts
            BY SMT, SMTT(30) DEF CountTry
      <2>2. attempts' = [e \in Events |-> IF e \in Oldest THEN CountTry(attempts[e]) ELSE attempts[e]]
            BY DEF ClaimUnsentOutbox
      <2>3. QED
            BY <2>1, <2>2 DEF TableInv, OutboxTypeOK
<1>7. UNCHANGED <<subscriptionVars, owner, row, dead, replays, stream>>
      BY DEF ClaimUnsentOutbox
<1>8. stream' \subseteq Events /\ relay' = [relay EXCEPT ![w] = b]
      BY <1>1, <1>7 DEF TableInv, OutboxTypeOK
<1> HIDE DEF b
<1>9. QED
      BY <1>4, <1>5, <1>6, <1>7, <1>8, BatchOnly

\* A publish that succeeds puts a committed event in the stream.
LEMMA PublishTable ==
    ASSUME TableInv, NEW w \in Relays, NEW e \in Events, PublishOk(w, e)
    PROVE  TableInv'
<1> DEFINE b == [relay[w] EXCEPT !.pc = "mark", !.ev = e]
<1>1. relay[w] \in RelayBatch /\ BatchOK(relay[w], owner, stream)
      BY DEF TableInv, OutboxTypeOK, RelayHolds
<1>2. relay[w].pc = "publish" /\ e \in relay[w].todo /\ owner[e] # NULL
      BY <1>1 DEF PublishOk, BatchOK
<1>3. /\ stream' = stream \union {e} /\ relay' = [relay EXCEPT ![w] = b]
      /\ UNCHANGED <<subscriptionVars, owner, row, attempts, dead, replays>>
      BY DEF PublishOk, tableVars
<1>4. b \in RelayBatch
      BY <1>1 DEF RelayBatch
<1>5. BatchOK(b, owner, stream')
      BY <1>1, <1>2, <1>3 DEF BatchOK, RelayBatch
<1>6. stream' \subseteq Events /\ stream \subseteq stream' /\ attempts' \in [Events -> 0 .. MaxOutboxAttempts]
      BY <1>3 DEF TableInv, OutboxTypeOK
<1> HIDE DEF b
<1>7. QED
      BY <1>2, <1>3, <1>4, <1>5, <1>6, BatchOnly

\* So may one that fails, when its acknowledgement is lost.
LEMMA PublishFailsTable ==
    ASSUME TableInv, NEW w \in Relays, NEW e \in Events, PublishFails(w, e)
    PROVE  TableInv'
<1> DEFINE b == [relay[w] EXCEPT !.todo = @ \ {e}, !.failed = @ \union {e}]
<1>1. relay[w] \in RelayBatch /\ BatchOK(relay[w], owner, stream)
      BY DEF TableInv, OutboxTypeOK, RelayHolds
<1>2. relay[w].pc = "publish" /\ e \in relay[w].todo /\ owner[e] # NULL
      BY <1>1 DEF PublishFails, BatchOK
<1>3. /\ stream' = stream \/ stream' = stream \union {e}
      /\ relay' = [relay EXCEPT ![w] = b]
      /\ UNCHANGED <<subscriptionVars, owner, row, attempts, dead, replays>>
      BY DEF PublishFails, tableVars
<1>4. b \in RelayBatch
      BY <1>1 DEF RelayBatch
<1>5. BatchOK(b, owner, stream')
      BY <1>1, <1>2, <1>3 DEF BatchOK, RelayBatch
<1>6. stream' \subseteq Events /\ stream \subseteq stream' /\ attempts' \in [Events -> 0 .. MaxOutboxAttempts]
      BY <1>3 DEF TableInv, OutboxTypeOK
<1> HIDE DEF b
<1>7. QED
      BY <1>2, <1>3, <1>4, <1>5, <1>6, BatchOnly

\* Facts about the batch of a relay that steps below start from.
LEMMA BatchOf ==
    ASSUME TableInv, NEW w \in Relays
    PROVE  relay[w] \in RelayBatch /\ BatchOK(relay[w], owner, stream)
BY DEF TableInv, OutboxTypeOK, RelayHolds

\* MarkOutboxSent marks an event that is in the stream.
LEMMA MarkTable ==
    ASSUME TableInv, NEW w \in Relays, MarkOutboxSent(w)
    PROVE  TableInv'
<1> DEFINE e == relay[w].ev
<1> DEFINE b == [relay[w] EXCEPT !.pc = "publish", !.todo = @ \ {e}, !.ev = NULL,
                                 !.published = TRUE, !.health = HealthyTicks]
<1>1. relay[w] \in RelayBatch /\ BatchOK(relay[w], owner, stream)
      BY BatchOf
<1>2. relay[w].pc = "mark" /\ e \in Events /\ e \in stream
      BY <1>1 DEF MarkOutboxSent, BatchOK
<1>3. /\ row' = [row EXCEPT ![e] = IF @ = "none" THEN @ ELSE "sent"]
      /\ relay' = [relay EXCEPT ![w] = b]
      /\ UNCHANGED <<sub, call, owner, attempts, dead, stream, replays>>
      BY DEF MarkOutboxSent, subscriptionVars
<1>4. b \in RelayBatch
      <2>1. HealthyTicks \in 0 .. HealthyTicks
            BY SMT, SMTT(30)
      <2>2. QED
            BY <1>1, <2>1 DEF RelayBatch
<1>5. BatchOK(b, owner, stream')
      BY <1>1, <1>2, <1>3, SMT, SMTT(30) DEF BatchOK, RelayBatch
<1> HIDE DEF b
<1>6. relay' \in [Relays -> RelayBatch] /\ RelayHolds'
      BY <1>3, <1>4, <1>5, OneBatch
<1>7. row' \in [Events -> {"none", "unsent", "sent"}]
      BY <1>2, <1>3 DEF TableInv, OutboxTypeOK
<1>8. OutboxTypeOK'
      BY <1>3, <1>6, <1>7 DEF TableInv, OutboxTypeOK
<1>9. \A f \in Events : /\ row[f] = "none" => row'[f] = "none"
                        /\ row'[f] = "sent" => row[f] = "sent" \/ f \in stream
      BY <1>2, <1>3 DEF TableInv, OutboxTypeOK
<1>10. UnknownBefore' /\ SentIsStored' /\ OutboxOrDead'
      <2> HIDE DEF e
      <2> QED BY <1>3, <1>9 DEF TableInv, OutboxTypeOK, UnknownBefore, SentIsStored, OutboxOrDead
<1>11. CallWrites' /\ SuspendedHasEvent'
      BY <1>3 DEF TableInv, CallWrites, SuspendedHasEvent
<1>12. QED
      BY <1>6, <1>8, <1>10, <1>11 DEF TableInv

\* The steps of a relay that only change its batch: a failed mark, a recorded failure, the
\* copy of MoveOutboxToDead and its rollback, the end of a batch and a restart.
LEMMA BatchStepTable ==
    ASSUME TableInv, NEW w \in Relays,
           \/ MarkOutboxSentFails(w) \/ MoveOutboxToDeadFails(w) \/ BatchDone(w) \/ RelayRestarts(w)
           \/ \E e \in Events : RecordOutboxFailure(w, e) \/ MoveOutboxToDeadCopy(w, e)
    PROVE  TableInv'
<1>1. relay[w] \in RelayBatch /\ BatchOK(relay[w], owner, stream)
      BY BatchOf
<1>2. UNCHANGED <<subscriptionVars, owner, row, attempts, dead, stream, replays>>
      BY DEF MarkOutboxSentFails, MoveOutboxToDeadFails, BatchDone, RelayRestarts,
             RecordOutboxFailure, MoveOutboxToDeadCopy, tableVars
<1>3. \E b \in RelayBatch : relay' = [relay EXCEPT ![w] = b] /\ BatchOK(b, owner, stream)
      <2>1. CASE MarkOutboxSentFails(w)
            <3> DEFINE b == [relay[w] EXCEPT !.pc = "publish", !.todo = @ \ {relay[w].ev}, !.ev = NULL]
            <3>1. relay' = [relay EXCEPT ![w] = b]
                  BY <2>1 DEF MarkOutboxSentFails
            <3>2. b \in RelayBatch
                  BY <1>1 DEF RelayBatch
            <3>3. BatchOK(b, owner, stream)
                  BY <1>1, <2>1, SMT, SMTT(30) DEF BatchOK, RelayBatch, MarkOutboxSentFails
            <3>4. QED
                  BY <3>1, <3>2, <3>3
      <2>2. CASE MoveOutboxToDeadFails(w)
            <3> DEFINE b == [relay[w] EXCEPT !.pc = "publish", !.ev = NULL, !.copied = FALSE]
            <3>1. relay' = [relay EXCEPT ![w] = b]
                  BY <2>2 DEF MoveOutboxToDeadFails
            <3>2. b \in RelayBatch
                  BY <1>1 DEF RelayBatch
            <3>3. BatchOK(b, owner, stream)
                  BY <1>1, <2>2, SMT, SMTT(30) DEF BatchOK, RelayBatch
            <3>4. QED
                  BY <3>1, <3>2, <3>3
      <2>3. CASE BatchDone(w)
            <3> DEFINE b == [NewRelay EXCEPT !.health = relay[w].health]
            <3>1. relay' = [relay EXCEPT ![w] = b]
                  BY <2>3 DEF BatchDone
            <3>2. b \in RelayBatch
                  BY <1>1 DEF RelayBatch, NewRelay
            <3>3. BatchOK(b, owner, stream)
                  BY SMT, SMTT(30) DEF BatchOK, NewRelay
            <3>4. QED
                  BY <3>1, <3>2, <3>3
      <2>4. CASE RelayRestarts(w)
            <3>1. NewRelay \in RelayBatch /\ BatchOK(NewRelay, owner, stream)
                  BY SMT, SMTT(30) DEF RelayBatch, NewRelay, BatchOK
            <3>2. QED
                  BY <2>4, <3>1 DEF RelayRestarts
      <2>5. CASE \E e \in Events : RecordOutboxFailure(w, e)
            <3>1. PICK e \in Events : RecordOutboxFailure(w, e)
                  BY <2>5
            <3> DEFINE b == [relay[w] EXCEPT !.failed = @ \ {e}]
            <3>2. relay' = [relay EXCEPT ![w] = b]
                  BY <3>1 DEF RecordOutboxFailure
            <3>3. b \in RelayBatch
                  BY <1>1 DEF RelayBatch
            <3>4. BatchOK(b, owner, stream)
                  BY <1>1 DEF BatchOK, RelayBatch
            <3>5. QED
                  BY <3>2, <3>3, <3>4
      <2>6. CASE \E e \in Events : MoveOutboxToDeadCopy(w, e)
            <3>1. PICK e \in Events : MoveOutboxToDeadCopy(w, e)
                  BY <2>6
            <3> DEFINE has == row[e] # "none" /\ e \notin dead
            <3> DEFINE b == [relay[w] EXCEPT !.pc = "moving", !.failed = @ \ {e}, !.ev = e, !.copied = has]
            <3>2. relay' = [relay EXCEPT ![w] = b]
                  BY <3>1 DEF MoveOutboxToDeadCopy
            <3>3. /\ relay[w].pc = "publish" /\ relay[w].todo = {}
                  /\ e \in relay[w].failed /\ e \in relay[w].maxed
                  BY <3>1 DEF MoveOutboxToDeadCopy, Settling, Parks
            <3>4. has \in BOOLEAN
                  OBVIOUS
            <3> HIDE DEF has
            <3>5. b \in RelayBatch
                  BY <1>1, <3>4 DEF RelayBatch
            <3>6. BatchOK(b, owner, stream)
                  BY <1>1, <3>3, <3>4 DEF BatchOK, RelayBatch
            <3>7. QED
                  BY <3>2, <3>5, <3>6
      <2>7. QED
            BY <2>1, <2>2, <2>3, <2>4, <2>5, <2>6
<1>4. stream' \subseteq Events /\ stream' = stream /\ attempts' \in [Events -> 0 .. MaxOutboxAttempts]
      BY <1>2 DEF TableInv, OutboxTypeOK
<1>5. QED
      BY <1>2, <1>3, <1>4, BatchOnly

\* MoveOutboxToDead takes the row away whenever it parks the event.
LEMMA MoveTable ==
    ASSUME TableInv, NEW w \in Relays, MoveOutboxToDead(w)
    PROVE  TableInv'
<1> DEFINE e == relay[w].ev
<1> DEFINE b == [relay[w] EXCEPT !.pc = "publish", !.ev = NULL, !.copied = FALSE]
<1>1. relay[w] \in RelayBatch /\ BatchOK(relay[w], owner, stream)
      BY BatchOf
<1>2. relay[w].pc = "moving" /\ e \in Events /\ owner[e] # NULL
      BY <1>1 DEF MoveOutboxToDead, BatchOK
<1>3. /\ row' = [row EXCEPT ![e] = "none"]
      /\ relay' = [relay EXCEPT ![w] = b]
      /\ dead' = dead \/ dead' = dead \union {e}
      /\ UNCHANGED <<sub, call, owner, attempts, stream, replays>>
      BY DEF MoveOutboxToDead, subscriptionVars
<1>4. b \in RelayBatch
      BY <1>1 DEF RelayBatch
<1>5. BatchOK(b, owner, stream')
      BY <1>1, <1>2, <1>3, SMT, SMTT(30) DEF BatchOK, RelayBatch
<1> HIDE DEF b, e
<1>6. relay' \in [Relays -> RelayBatch] /\ RelayHolds'
      BY <1>3, <1>4, <1>5, OneBatch
<1>7. OutboxTypeOK'
      BY <1>2, <1>3, <1>6 DEF TableInv, OutboxTypeOK
<1>8. UnknownBefore' /\ SentIsStored' /\ OutboxOrDead'
      BY <1>2, <1>3 DEF TableInv, OutboxTypeOK, UnknownBefore, SentIsStored, OutboxOrDead
<1>9. CallWrites' /\ SuspendedHasEvent'
      BY <1>3 DEF TableInv, CallWrites, SuspendedHasEvent
<1>10. QED
      BY <1>6, <1>7, <1>8, <1>9 DEF TableInv

\* The cleanup and a replay.
LEMMA AdminTable ==
    ASSUME TableInv,
           \/ \E w \in Relays, S \in SUBSET Events : DeleteSentOutboxOlderThan(w, S)
           \/ \E e \in Events : ReplayDeadOutbox(e)
    PROVE  TableInv'
<1>1. CASE \E w \in Relays, S \in SUBSET Events : DeleteSentOutboxOlderThan(w, S)
      <2>1. PICK w \in Relays, S \in SUBSET Events : DeleteSentOutboxOlderThan(w, S)
            BY <1>1
      <2>2. /\ row' = [e \in Events |-> IF e \in S THEN "none" ELSE row[e]]
            /\ UNCHANGED <<sub, call, owner, attempts, dead, stream, relay, replays>>
            BY <2>1 DEF DeleteSentOutboxOlderThan, subscriptionVars
      <2>3. QED
            BY <2>2 DEF TableInv, OutboxTypeOK, UnknownBefore, SentIsStored, RelayHolds, CallWrites,
               SuspendedHasEvent, OutboxOrDead
<1>2. CASE \E e \in Events : ReplayDeadOutbox(e)
      <2>1. PICK e \in Events : ReplayDeadOutbox(e)
            BY <1>2
      <2>2. /\ e \in dead /\ replays < MaxReplays
            /\ row' = [row EXCEPT ![e] = "unsent"] /\ attempts' = [attempts EXCEPT ![e] = 0]
            /\ dead' = dead \ {e} /\ replays' = replays + 1
            /\ UNCHANGED <<sub, call, owner, stream, relay>>
            BY <2>1 DEF ReplayDeadOutbox, subscriptionVars
      <2>3. OutboxTypeOK'
            BY <2>2, SMT, SMTT(30) DEF TableInv, OutboxTypeOK
      <2>4. QED
            BY <2>2, <2>3 DEF TableInv, OutboxTypeOK, UnknownBefore, SentIsStored, RelayHolds, CallWrites,
               SuspendedHasEvent, OutboxOrDead
<1>3. QED
      BY <1>1, <1>2

\* Every step keeps the first part of the invariant.
LEMMA TableInvStep ==
    ASSUME TableInv, [OutboxNext]_outboxVars
    PROVE  TableInv'
<1>1. CASE UNCHANGED outboxVars
      BY <1>1 DEF outboxVars, subscriptionVars, tableVars, TableInv, OutboxTypeOK, UnknownBefore, SentIsStored,
         RelayHolds, CallWrites, SuspendedHasEvent, OutboxOrDead
<1>2. CASE \E c \in Calls : CallStep(c)
      BY <1>2, ReadsTable, WritesTable, SuspendTable DEF CallStep
<1>3. CASE \E w \in Relays : RelayStep(w)
      <2>1. PICK w \in Relays : RelayStep(w)
            BY <1>3
      <2>2. QED
            BY <2>1, ClaimTable, PublishTable, PublishFailsTable, MarkTable, BatchStepTable, MoveTable,
               AdminTable DEF RelayStep
<1>4. CASE \E e \in Events : ReplayDeadOutbox(e)
      BY <1>4, AdminTable
<1>5. QED
      BY <1>1, <1>2, <1>3, <1>4 DEF OutboxNext

-----------------------------------------------------------------------------
(* The second part, for relays that no replay races                        *)

\* No relay has anything at first.
LEMMA MoveInvInit == OutboxInit => MoveInv
BY SMT, SMTT(30) DEF OutboxInit, MoveInv, MoveIsSafe, OneCopy, HeldIsNotParked, MaxedIsMaxed, Held, EventNeverLost, Kept, NewRelay

\* A step that changes neither the tables nor the batches.
LEMMA IdleMove ==
    ASSUME MoveInv, UNCHANGED <<owner, row, attempts, dead, relay>>, stream' = stream
    PROVE  MoveInv'
BY DEF MoveInv, MoveIsSafe, OneCopy, HeldIsNotParked, MaxedIsMaxed, Held, EventNeverLost, Kept

\* SuspendSubscriptionWithOutbox enqueues an event that no relay holds.
LEMMA SuspendMove ==
    ASSUME TableInv, MoveInv, NEW c \in Calls, SuspendSubscriptionWithOutbox(c)
    PROVE  MoveInv'
<1>1. PICK e \in Events : /\ owner[e] = NULL
                          /\ owner' = [owner EXCEPT ![e] = call[c].id]
                          /\ row' = [row EXCEPT ![e] = "unsent"]
      BY DEF SuspendSubscriptionWithOutbox
<1>2. UNCHANGED <<attempts, dead, stream, relay>>
      BY DEF SuspendSubscriptionWithOutbox
<1>3. \A w \in Relays : e \notin Held(w) /\ relay[w].ev # e
      BY <1>1 DEF TableInv, OutboxTypeOK, RelayHolds, BatchOK, Held
<1>4. MoveIsSafe'
      <2> SUFFICES ASSUME NEW w \in Relays, relay[w].pc = "moving"
                   PROVE  row'[relay[w].ev] = row[relay[w].ev]
          BY <1>2 DEF MoveInv, MoveIsSafe
      <2> QED BY <1>1, <1>3, BatchOf DEF BatchOK, TableInv, OutboxTypeOK
<1>5. OneCopy' /\ HeldIsNotParked' /\ MaxedIsMaxed'
      BY <1>2 DEF MoveInv, OneCopy, HeldIsNotParked, MaxedIsMaxed, Held
<1>6. EventNeverLost'
      BY <1>1, <1>2 DEF MoveInv, TableInv, OutboxTypeOK, EventNeverLost, Kept
<1>7. QED
      BY <1>4, <1>5, <1>6 DEF MoveInv

\* ClaimUnsentOutbox takes unsent rows, none of which is parked, and reports their attempts.
LEMMA ClaimMove ==
    ASSUME TableInv, MoveInv, NEW w \in Relays, ClaimUnsentOutbox(w)
    PROVE  MoveInv'
<1> DEFINE maxed == {e \in Oldest : CountTry(attempts[e]) = MaxOutboxAttempts}
<1>1. PICK left \in 0 .. HealthyTicks :
         relay' = [relay EXCEPT ![w] = [NewRelay EXCEPT !.pc = "publish", !.todo = Oldest,
                                                        !.maxed = maxed, !.health = left]]
      BY DEF ClaimUnsentOutbox
<1>2. UNCHANGED <<owner, row, dead, stream>>
      BY DEF ClaimUnsentOutbox
<1>3. /\ relay'[w].pc = "publish" /\ relay'[w].todo = Oldest /\ relay'[w].failed = {}
      /\ relay'[w].ev = NULL /\ relay'[w].copied = FALSE /\ relay'[w].maxed = maxed
      /\ \A v \in Relays \ {w} : relay'[v] = relay[v]
      <2> HIDE DEF maxed
      <2> QED BY <1>1 DEF NewRelay, TableInv, OutboxTypeOK
<1>4. Oldest \subseteq Events /\ \A e \in Oldest : row[e] = "unsent" /\ e \notin dead
      BY DEF Oldest, Unsent, TableInv, OutboxOrDead
<1>5. \A e \in Events : /\ attempts[e] = MaxOutboxAttempts => attempts'[e] = MaxOutboxAttempts
                        /\ e \in maxed => attempts'[e] = MaxOutboxAttempts
      BY SMT, SMTT(30) DEF ClaimUnsentOutbox, CountTry, TableInv, OutboxTypeOK
<1> HIDE DEF maxed
<1>6. MoveIsSafe' /\ OneCopy'
      BY <1>2, <1>3 DEF MoveInv, MoveIsSafe, OneCopy
<1>7. HeldIsNotParked'
      BY <1>2, <1>3, <1>4, SMT, SMTT(30) DEF MoveInv, HeldIsNotParked, Held
<1>8. MaxedIsMaxed'
      BY <1>3, <1>4, <1>5, SMT, SMTT(30) DEF MoveInv, MaxedIsMaxed, Held
<1>9. EventNeverLost'
      BY <1>2 DEF MoveInv, EventNeverLost, Kept
<1>10. QED
      BY <1>6, <1>7, <1>8, <1>9 DEF MoveInv

\* A step of a relay that holds no more afterwards than before and copies nothing: it may
\* publish, and change a row that stays in the table.
LEMMA HoldsNoMore ==
    ASSUME TableInv, MoveInv, NEW w \in Relays, NEW b \in RelayBatch, relay' = [relay EXCEPT ![w] = b],
           UNCHANGED <<owner, attempts, dead>>, stream \subseteq stream',
           \A e \in Events : row'[e] = "none" <=> row[e] = "none",
           b.pc # "moving", b.copied = FALSE,
           \A e \in Events : e \in b.todo \/ e \in b.failed \/ e = b.ev => e \in Held(w),
           b.maxed \subseteq relay[w].maxed
    PROVE  MoveInv'
<1>1. relay'[w] = b /\ \A v \in Relays \ {w} : relay'[v] = relay[v]
      BY DEF TableInv, OutboxTypeOK
<1>2. MoveIsSafe'
      <2> SUFFICES ASSUME NEW v \in Relays, relay'[v].pc = "moving"
                   PROVE  /\ relay'[v].copied => /\ relay'[v].ev \notin dead
                                                 /\ row'[relay'[v].ev] # "none" \/ relay'[v].ev \in stream'
                          /\ relay'[v].copied \/ row'[relay'[v].ev] = "none" \/ relay'[v].ev \in dead
          BY DEF MoveIsSafe
      <2>1. v # w /\ relay'[v] = relay[v]
            BY <1>1
      <2>2. relay[v].ev \in Events
            BY <2>1, BatchOf DEF BatchOK
      <2>3. QED
            BY <2>1, <2>2 DEF MoveInv, MoveIsSafe
<1>3. OneCopy'
      BY <1>1 DEF MoveInv, OneCopy
<1>4. \A v \in Relays : Held(v)' \subseteq Held(v)
      BY <1>1 DEF Held
<1>5. HeldIsNotParked'
      BY <1>4 DEF MoveInv, HeldIsNotParked
<1>6. MaxedIsMaxed'
      BY <1>1, <1>4 DEF MoveInv, MaxedIsMaxed
<1>7. EventNeverLost'
      BY DEF MoveInv, EventNeverLost, Kept
<1>8. QED
      BY <1>2, <1>3, <1>5, <1>6, <1>7 DEF MoveInv

\* The publishes and what ends them: the relay holds no more than before.
LEMMA BatchStepMove ==
    ASSUME TableInv, MoveInv, NEW w \in Relays,
           \/ \E e \in Events : PublishOk(w, e) \/ PublishFails(w, e) \/ RecordOutboxFailure(w, e)
           \/ MarkOutboxSent(w) \/ MarkOutboxSentFails(w)
           \/ MoveOutboxToDeadFails(w) \/ BatchDone(w) \/ RelayRestarts(w)
    PROVE  MoveInv'
<1>1. relay[w] \in RelayBatch /\ BatchOK(relay[w], owner, stream)
      BY BatchOf
<1>2. relay[w].pc # "moving" => relay[w].copied = FALSE
      BY <1>1 DEF BatchOK, RelayBatch
<1>3. CASE \E e \in Events : PublishOk(w, e)
      <2>1. PICK e \in Events : PublishOk(w, e)
            BY <1>3
      <2> DEFINE b == [relay[w] EXCEPT !.pc = "mark", !.ev = e]
      <2>2. relay' = [relay EXCEPT ![w] = b] /\ stream \subseteq stream' /\ UNCHANGED <<owner, attempts, dead, row>>
            BY <2>1 DEF PublishOk, tableVars
      <2>3. b \in RelayBatch
            BY <1>1 DEF RelayBatch
      <2>4. /\ b.pc # "moving" /\ b.copied = FALSE /\ b.maxed \subseteq relay[w].maxed
            /\ \A f \in Events : f \in b.todo \/ f \in b.failed \/ f = b.ev => f \in Held(w)
            BY <1>1, <1>2, <2>1 DEF RelayBatch, Held, PublishOk
      <2> HIDE DEF b
      <2>5. QED
            BY <2>2, <2>3, <2>4, HoldsNoMore
<1>4. CASE \E e \in Events : PublishFails(w, e)
      <2>1. PICK e \in Events : PublishFails(w, e)
            BY <1>4
      <2> DEFINE b == [relay[w] EXCEPT !.todo = @ \ {e}, !.failed = @ \union {e}]
      <2>2. relay' = [relay EXCEPT ![w] = b] /\ stream \subseteq stream' /\ UNCHANGED <<owner, attempts, dead, row>>
            BY <2>1 DEF PublishFails, tableVars
      <2>3. b \in RelayBatch
            BY <1>1 DEF RelayBatch
      <2>4. /\ b.pc # "moving" /\ b.copied = FALSE /\ b.maxed \subseteq relay[w].maxed
            /\ \A f \in Events : f \in b.todo \/ f \in b.failed \/ f = b.ev => f \in Held(w)
            BY <1>1, <1>2, <2>1 DEF RelayBatch, Held, PublishFails
      <2> HIDE DEF b
      <2>5. QED
            BY <2>2, <2>3, <2>4, HoldsNoMore
<1>5. CASE \E e \in Events : RecordOutboxFailure(w, e)
      <2>1. PICK e \in Events : RecordOutboxFailure(w, e)
            BY <1>5
      <2> DEFINE b == [relay[w] EXCEPT !.failed = @ \ {e}]
      <2>2. relay' = [relay EXCEPT ![w] = b] /\ stream \subseteq stream' /\ UNCHANGED <<owner, attempts, dead, row>>
            BY <2>1 DEF RecordOutboxFailure, tableVars
      <2>3. b \in RelayBatch
            BY <1>1 DEF RelayBatch
      <2>4. /\ b.pc # "moving" /\ b.copied = FALSE /\ b.maxed \subseteq relay[w].maxed
            /\ \A f \in Events : f \in b.todo \/ f \in b.failed \/ f = b.ev => f \in Held(w)
            BY <1>1, <1>2, <2>1 DEF RelayBatch, Held, RecordOutboxFailure, Settling
      <2> HIDE DEF b
      <2>5. QED
            BY <2>2, <2>3, <2>4, HoldsNoMore
<1>6. CASE MarkOutboxSent(w)
      <2> DEFINE e == relay[w].ev
      <2> DEFINE b == [relay[w] EXCEPT !.pc = "publish", !.todo = @ \ {e}, !.ev = NULL,
                                       !.published = TRUE, !.health = HealthyTicks]
      <2>1. /\ relay' = [relay EXCEPT ![w] = b] /\ stream \subseteq stream' /\ UNCHANGED <<owner, attempts, dead>>
            /\ row' = [row EXCEPT ![e] = IF @ = "none" THEN @ ELSE "sent"] /\ relay[w].pc = "mark"
            BY <1>6 DEF MarkOutboxSent
      <2>2. HealthyTicks \in 0 .. HealthyTicks
            BY SMT, SMTT(30)
      <2>3. b \in RelayBatch
            BY <1>1, <2>2 DEF RelayBatch
      <2>4. /\ b.pc # "moving" /\ b.copied = FALSE /\ b.maxed \subseteq relay[w].maxed
            /\ \A f \in Events : f \in b.todo \/ f \in b.failed \/ f = b.ev => f \in Held(w)
            BY <1>1, <1>2, <2>1, SMT, SMTT(30) DEF RelayBatch, Held
      <2>5. \A f \in Events : row'[f] = "none" <=> row[f] = "none"
            BY <1>1, <2>1 DEF BatchOK, TableInv, OutboxTypeOK
      <2> HIDE DEF b, e
      <2>6. QED
            BY <2>1, <2>3, <2>4, <2>5, HoldsNoMore
<1>7. CASE MarkOutboxSentFails(w)
      <2> DEFINE b == [relay[w] EXCEPT !.pc = "publish", !.todo = @ \ {relay[w].ev}, !.ev = NULL]
      <2>1. relay' = [relay EXCEPT ![w] = b] /\ stream \subseteq stream' /\ UNCHANGED <<owner, attempts, dead, row>>
            BY <1>7 DEF MarkOutboxSentFails, tableVars
      <2>2. b \in RelayBatch
            BY <1>1 DEF RelayBatch
      <2>3. /\ b.pc # "moving" /\ b.copied = FALSE /\ b.maxed \subseteq relay[w].maxed
            /\ \A f \in Events : f \in b.todo \/ f \in b.failed \/ f = b.ev => f \in Held(w)
            BY <1>1, <1>2, <1>7, SMT, SMTT(30) DEF RelayBatch, Held, MarkOutboxSentFails
      <2> HIDE DEF b
      <2>4. QED
            BY <2>1, <2>2, <2>3, HoldsNoMore
<1>8. CASE MoveOutboxToDeadFails(w)
      <2> DEFINE b == [relay[w] EXCEPT !.pc = "publish", !.ev = NULL, !.copied = FALSE]
      <2>1. relay' = [relay EXCEPT ![w] = b] /\ stream \subseteq stream' /\ UNCHANGED <<owner, attempts, dead, row>>
            BY <1>8 DEF MoveOutboxToDeadFails, tableVars
      <2>2. b \in RelayBatch
            BY <1>1 DEF RelayBatch
      <2>3. /\ b.pc # "moving" /\ b.copied = FALSE /\ b.maxed \subseteq relay[w].maxed
            /\ \A f \in Events : f \in b.todo \/ f \in b.failed \/ f = b.ev => f \in Held(w)
            BY <1>1, SMT, SMTT(30) DEF RelayBatch, Held
      <2> HIDE DEF b
      <2>4. QED
            BY <2>1, <2>2, <2>3, HoldsNoMore
<1>9. CASE BatchDone(w) \/ RelayRestarts(w)
      <2>1. stream \subseteq stream' /\ UNCHANGED <<owner, attempts, dead, row>>
            BY <1>9 DEF BatchDone, RelayRestarts, tableVars
      <2>2. PICK b : /\ relay' = [relay EXCEPT ![w] = b] /\ b \in RelayBatch
                     /\ b.pc = "idle" /\ b.copied = FALSE /\ b.maxed = {}
                     /\ b.todo = {} /\ b.failed = {} /\ b.ev = NULL
            <3>1. CASE BatchDone(w)
                  <4> DEFINE d == [NewRelay EXCEPT !.health = relay[w].health]
                  <4>1. relay' = [relay EXCEPT ![w] = d]
                        BY <3>1 DEF BatchDone
                  <4>2. d \in RelayBatch
                        BY <1>1 DEF RelayBatch, NewRelay
                  <4>3. /\ d.pc = "idle" /\ d.copied = FALSE /\ d.maxed = {}
                        /\ d.todo = {} /\ d.failed = {} /\ d.ev = NULL
                        BY DEF NewRelay
                  <4> HIDE DEF d
                  <4>4. QED
                        BY <4>1, <4>2, <4>3
            <3>2. CASE RelayRestarts(w)
                  <4>1. NewRelay \in RelayBatch
                        BY SMT, SMTT(30) DEF RelayBatch, NewRelay
                  <4>2. /\ NewRelay.pc = "idle" /\ NewRelay.copied = FALSE /\ NewRelay.maxed = {}
                        /\ NewRelay.todo = {} /\ NewRelay.failed = {} /\ NewRelay.ev = NULL
                        BY DEF NewRelay
                  <4>3. QED
                        BY <3>2, <4>1, <4>2 DEF RelayRestarts
            <3>3. QED
                  BY <1>9, <3>1, <3>2
      <2>3. /\ b.pc # "moving" /\ b.maxed \subseteq relay[w].maxed
            /\ \A f \in Events : f \in b.todo \/ f \in b.failed \/ f = b.ev => f \in Held(w)
            BY <2>2, SMT, SMTT(30)
      <2>4. QED
            BY <2>1, <2>2, <2>3, HoldsNoMore
<1>10. QED
      BY <1>3, <1>4, <1>5, <1>6, <1>7, <1>8, <1>9

\* The INSERT of MoveOutboxToDead copies a row that is there and not parked, and waits for
\* whoever is copying the same one.
LEMMA CopyMove ==
    ASSUME TableInv, MoveInv, NEW w \in Relays, NEW e \in Events, MoveOutboxToDeadCopy(w, e)
    PROVE  MoveInv'
<1> DEFINE has == row[e] # "none" /\ e \notin dead
<1>1. relay[w] \in RelayBatch /\ BatchOK(relay[w], owner, stream)
      BY BatchOf
<1>2. /\ relay' = [relay EXCEPT ![w] = [relay[w] EXCEPT !.pc = "moving", !.failed = @ \ {e}, !.ev = e,
                                                        !.copied = has]]
      /\ UNCHANGED <<owner, row, attempts, dead, stream>>
      /\ e \in relay[w].failed /\ e \in relay[w].maxed
      /\ \A v \in Relays : ~(relay[v].pc = "moving" /\ relay[v].ev = e /\ relay[v].copied)
      BY DEF MoveOutboxToDeadCopy, tableVars, Parks
<1>3. has \in BOOLEAN /\ (has <=> row[e] # "none" /\ e \notin dead)
      OBVIOUS
<1> HIDE DEF has
<1>4. /\ relay'[w].pc = "moving" /\ relay'[w].ev = e /\ relay'[w].copied = has
      /\ relay'[w].todo = relay[w].todo /\ relay'[w].failed = relay[w].failed \ {e}
      /\ relay'[w].maxed = relay[w].maxed
      /\ \A v \in Relays \ {w} : relay'[v] = relay[v]
      BY <1>1, <1>2, <1>3 DEF TableInv, OutboxTypeOK, RelayBatch
<1>5. MoveIsSafe'
      BY <1>2, <1>3, <1>4, SMT, SMTT(30) DEF MoveInv, MoveIsSafe
<1>6. OneCopy'
      <2>1. \A v \in Relays : relay[v].copied => relay[v].pc = "moving"
            BY BatchOf DEF BatchOK
      <2>2. QED
            BY <1>2, <1>4, <2>1, SMT, SMTT(30) DEF MoveInv, OneCopy
<1>7. \A v \in Relays : Held(v)' \subseteq Held(v) /\ relay'[v].maxed = relay[v].maxed
      BY <1>2, <1>4 DEF Held
<1>8. HeldIsNotParked' /\ MaxedIsMaxed'
      BY <1>2, <1>7 DEF MoveInv, HeldIsNotParked, MaxedIsMaxed
<1>9. EventNeverLost'
      BY <1>2 DEF MoveInv, EventNeverLost, Kept
<1>10. QED
      BY <1>5, <1>6, <1>8, <1>9 DEF MoveInv

\* The DELETE of MoveOutboxToDead removes a row that is copied, or parked already, or gone.
LEMMA MoveMove ==
    ASSUME TableInv, MoveInv, NEW w \in Relays, MoveOutboxToDead(w)
    PROVE  MoveInv'
<1> DEFINE e == relay[w].ev
<1>1. relay[w] \in RelayBatch /\ BatchOK(relay[w], owner, stream)
      BY BatchOf
<1>2. relay[w].pc = "moving" /\ e \in Events /\ owner[e] # NULL /\ relay[w].todo = {} /\ e \notin relay[w].failed
      BY <1>1 DEF MoveOutboxToDead, BatchOK
<1>3. /\ relay' = [relay EXCEPT ![w] = [relay[w] EXCEPT !.pc = "publish", !.ev = NULL, !.copied = FALSE]]
      /\ row' = [row EXCEPT ![e] = "none"]
      /\ relay[w].copied => dead' = dead \union {e}
      /\ ~relay[w].copied => dead' = dead
      /\ UNCHANGED <<owner, attempts, stream>>
      BY DEF MoveOutboxToDead
<1>4. /\ relay'[w].pc = "publish" /\ relay'[w].ev = NULL /\ relay'[w].copied = FALSE
      /\ relay'[w].todo = relay[w].todo /\ relay'[w].failed = relay[w].failed
      /\ relay'[w].maxed = relay[w].maxed
      /\ \A v \in Relays \ {w} : relay'[v] = relay[v]
      BY <1>1, <1>3 DEF TableInv, OutboxTypeOK, RelayBatch
<1>5. /\ relay[w].copied => e \notin dead
      /\ relay[w].copied \/ row[e] = "none" \/ e \in dead
      BY <1>2 DEF MoveInv, MoveIsSafe
<1>6. row'[e] = "none" /\ \A f \in Events \ {e} : row'[f] = row[f]
      BY <1>2, <1>3 DEF TableInv, OutboxTypeOK
<1>7. MoveIsSafe'
      <2> SUFFICES ASSUME NEW v \in Relays, relay'[v].pc = "moving"
                   PROVE  /\ relay'[v].copied => /\ relay'[v].ev \notin dead'
                                                 /\ row'[relay'[v].ev] # "none" \/ relay'[v].ev \in stream
                          /\ relay'[v].copied \/ row'[relay'[v].ev] = "none" \/ relay'[v].ev \in dead'
          BY <1>3 DEF MoveIsSafe
      <2>1. v # w /\ relay'[v] = relay[v]
            BY <1>4
      <2>2. relay[v].ev \in Events
            BY <2>1, BatchOf DEF BatchOK
      <2>3. /\ relay[v].copied => relay[v].ev \notin dead /\ (row[relay[v].ev] # "none" \/ relay[v].ev \in stream)
            /\ relay[v].copied \/ row[relay[v].ev] = "none" \/ relay[v].ev \in dead
            BY <2>1 DEF MoveInv, MoveIsSafe
      <2>4. CASE relay[v].ev # e
            BY <1>3, <1>6, <2>1, <2>2, <2>3, <2>4
      <2>5. CASE relay[v].ev = e
            <3>1. ~(relay[v].copied /\ relay[w].copied)
                  BY <2>1, <2>5 DEF MoveInv, OneCopy
            <3>2. QED
                  BY <1>3, <1>5, <1>6, <2>1, <2>3, <2>5, <3>1
      <2>6. QED
            BY <2>4, <2>5
<1>8. OneCopy'
      BY <1>4 DEF MoveInv, OneCopy
<1>9. \A v \in Relays : Held(v)' \subseteq Held(v) /\ relay'[v].maxed = relay[v].maxed
      BY <1>4, SMT, SMTT(30) DEF Held
<1>10. HeldIsNotParked'
      <2> SUFFICES ASSUME \A v, u \in Relays : v = u, NEW v \in Relays, NEW f \in Held(v)'
                   PROVE  f \notin dead'
          BY DEF HeldIsNotParked
      <2>1. v = w /\ f \in Held(w) /\ f # e /\ f \in Events
            BY <1>2, <1>4, <1>9, SMT, SMTT(30) DEF Held
      <2>2. f \notin dead
            BY <2>1 DEF MoveInv, HeldIsNotParked
      <2>3. QED
            BY <1>3, <2>1, <2>2
<1>11. MaxedIsMaxed'
      BY <1>3, <1>9 DEF MoveInv, MaxedIsMaxed
<1>12. EventNeverLost'
      <2>1. e \in dead' \/ e \in stream
            BY <1>2, <1>3, <1>5 DEF MoveInv, EventNeverLost, Kept
      <2>2. dead \subseteq dead'
            BY <1>3
      <2>3. QED
            BY <1>3, <1>6, <2>1, <2>2 DEF MoveInv, EventNeverLost, Kept
<1>13. QED
      BY <1>7, <1>8, <1>10, <1>11, <1>12 DEF MoveInv

\* The cleanup deletes only rows whose event is in the stream.
LEMMA CleanMove ==
    ASSUME TableInv, MoveInv, NEW w \in Relays, NEW S \in SUBSET Events, DeleteSentOutboxOlderThan(w, S)
    PROVE  MoveInv'
<1>1. /\ \A e \in Events : row'[e] = IF e \in S THEN "none" ELSE row[e]
      /\ \A e \in S : e \in stream
      /\ UNCHANGED <<owner, attempts, dead, stream, relay>>
      BY DEF DeleteSentOutboxOlderThan, TableInv, SentIsStored
<1>2. MoveIsSafe'
      <2> SUFFICES ASSUME NEW v \in Relays, relay[v].pc = "moving"
                   PROVE  /\ relay[v].copied => /\ relay[v].ev \notin dead
                                                /\ row'[relay[v].ev] # "none" \/ relay[v].ev \in stream
                          /\ relay[v].copied \/ row'[relay[v].ev] = "none" \/ relay[v].ev \in dead
          BY <1>1 DEF MoveIsSafe
      <2>1. relay[v].ev \in Events
            BY BatchOf DEF BatchOK
      <2>2. QED
            BY <1>1, <2>1 DEF MoveInv, MoveIsSafe
<1>3. OneCopy' /\ HeldIsNotParked' /\ MaxedIsMaxed'
      BY <1>1 DEF MoveInv, OneCopy, HeldIsNotParked, MaxedIsMaxed, Held
<1>4. EventNeverLost'
      BY <1>1 DEF MoveInv, EventNeverLost, Kept
<1>5. QED
      BY <1>2, <1>3, <1>4 DEF MoveInv

\* A replay re-arms an event that the only relay does not hold.
LEMMA ReplayMove ==
    ASSUME NoRacingReplay, TableInv, MoveInv, NEW e \in Events, ReplayDeadOutbox(e)
    PROVE  MoveInv'
<1>1. /\ e \in dead /\ replays < MaxReplays
      /\ row' = [row EXCEPT ![e] = "unsent"] /\ attempts' = [attempts EXCEPT ![e] = 0]
      /\ dead' = dead \ {e}
      /\ UNCHANGED <<owner, stream, relay>>
      BY DEF ReplayDeadOutbox
<1>2. \A v, w \in Relays : v = w
      BY <1>1, SMT, SMTT(30) DEF NoRacingReplay, TableInv, OutboxTypeOK
<1>3. \A w \in Relays : e \notin Held(w) /\ relay[w].ev # e
      BY <1>1, <1>2 DEF MoveInv, HeldIsNotParked, Held
<1>4. \A f \in Events \ {e} : row'[f] = row[f] /\ attempts'[f] = attempts[f]
      BY <1>1 DEF TableInv, OutboxTypeOK
<1>5. MoveIsSafe'
      <2> SUFFICES ASSUME NEW v \in Relays, relay[v].pc = "moving"
                   PROVE  /\ relay[v].copied => /\ relay[v].ev \notin dead'
                                                /\ row'[relay[v].ev] # "none" \/ relay[v].ev \in stream
                          /\ relay[v].copied \/ row'[relay[v].ev] = "none" \/ relay[v].ev \in dead'
          BY <1>1 DEF MoveIsSafe
      <2>1. relay[v].ev \in Events \ {e}
            BY <1>3, BatchOf DEF BatchOK
      <2>2. QED
            BY <1>1, <1>4, <2>1 DEF MoveInv, MoveIsSafe
<1>6. OneCopy'
      BY <1>1 DEF MoveInv, OneCopy
<1>7. HeldIsNotParked' /\ MaxedIsMaxed'
      BY ZenonT(40), <1>1, <1>3, <1>4 DEF MoveInv, HeldIsNotParked, MaxedIsMaxed, Held
<1>8. EventNeverLost'
      BY <1>1, <1>4 DEF MoveInv, EventNeverLost, Kept, TableInv, OutboxTypeOK
<1>9. QED
      BY <1>5, <1>6, <1>7, <1>8 DEF MoveInv

\* Every step keeps the second part.
LEMMA MoveInvStep ==
    ASSUME NoRacingReplay, TableInv, MoveInv, [OutboxNext]_outboxVars
    PROVE  MoveInv'
<1>1. CASE UNCHANGED outboxVars
      BY <1>1, IdleMove DEF outboxVars, tableVars
<1>2. CASE \E c \in Calls : CallStep(c)
      <2>1. PICK c \in Calls : CallStep(c)
            BY <1>2
      <2>2. CASE SuspendSubscriptionWithOutbox(c)
            BY <2>2, SuspendMove
      <2>3. CASE ~SuspendSubscriptionWithOutbox(c)
            <3>1. UNCHANGED <<owner, row, attempts, dead, relay>> /\ stream' = stream
                  BY <2>1, <2>3 DEF CallStep, CreateSubscriptionRead, UpgradeSubscriptionRead,
                     CancelSubscriptionRead, SuspendSubscriptionRead, Begin, CreateSubscription,
                     UpdateSubscription, CallFails, tableVars
            <3>2. QED
                  BY <3>1, IdleMove
      <2>4. QED
            BY <2>2, <2>3
<1>3. CASE \E w \in Relays : RelayStep(w)
      <2>1. PICK w \in Relays : RelayStep(w)
            BY <1>3
      <2>2. QED
            BY <2>1, ClaimMove, BatchStepMove, CopyMove, MoveMove, CleanMove DEF RelayStep
<1>4. CASE \E e \in Events : ReplayDeadOutbox(e)
      BY <1>4, ReplayMove
<1>5. QED
      BY <1>1, <1>2, <1>3, <1>4 DEF OutboxNext

-----------------------------------------------------------------------------
(***************************************************************************)
(* The step of the abstract delivery that each step of the outbox takes.   *)
(***************************************************************************)

\* A change of one event's delivery is a step of the abstract specification.
LEMMA OneDelivery ==
    ASSUME NEW e \in Events, NEW from, NEW to, DeliveryOf(e) \in from, DeliveryOf(e)' = to,
           \A f \in Events \ {e} : DeliveryOf(f)' = DeliveryOf(f)
    PROVE  Delivery!Becomes(e, from, to)
<1> DEFINE D == [f \in Events |-> DeliveryOf(f)]
<1>1. D' = [f \in Events |-> DeliveryOf(f)']
      OBVIOUS
<1>2. D' = [D EXCEPT ![e] = to]
      BY <1>1
<1>3. D[e] \in from
      OBVIOUS
<1>4. QED
      BY <1>2, <1>3 DEF Delivery!Becomes

\* No change is a stutter.
LEMMA NoDelivery ==
    ASSUME \A f \in Events : DeliveryOf(f)' = DeliveryOf(f)
    PROVE  [f \in Events |-> DeliveryOf(f)]' = [f \in Events |-> DeliveryOf(f)]
OBVIOUS

\* A step that leaves both tables and the stream alone leaves every delivery alone.
LEMMA SameTables ==
    ASSUME UNCHANGED <<row, dead, stream>>
    PROVE  \A f \in Events : DeliveryOf(f)' = DeliveryOf(f)
BY DEF DeliveryOf

\* The transaction of SuspendSubscription makes its event pending.
LEMMA SuspendDelivers ==
    ASSUME TableInv, NEW c \in Calls, SuspendSubscriptionWithOutbox(c)
    PROVE  \E e \in Events : Delivery!Enqueue(e)
<1>1. PICK e \in Events : owner[e] = NULL /\ row' = [row EXCEPT ![e] = "unsent"]
      BY DEF SuspendSubscriptionWithOutbox
<1>2. UNCHANGED <<dead, stream>>
      BY DEF SuspendSubscriptionWithOutbox
<1>3. row[e] = "none" /\ e \notin dead /\ e \notin stream
      BY <1>1 DEF TableInv, UnknownBefore
<1>4. row'[e] = "unsent" /\ \A f \in Events \ {e} : row'[f] = row[f]
      BY <1>1 DEF TableInv, OutboxTypeOK
<1>5. DeliveryOf(e) = "none" /\ DeliveryOf(e)' = "pending"
      BY <1>2, <1>3, <1>4 DEF DeliveryOf
<1>6. \A f \in Events \ {e} : DeliveryOf(f)' = DeliveryOf(f)
      BY <1>2, <1>4 DEF DeliveryOf
<1>7. Delivery!Becomes(e, {"none"}, "pending")
      BY <1>5, <1>6, OneDelivery, SMT, SMTT(30)
<1>8. QED
      BY <1>7 DEF Delivery!Enqueue

\* A publish that JetStream stores delivers an event that was pending or parked.
LEMMA PublishDelivers ==
    ASSUME TableInv, MoveInv, NEW w \in Relays, NEW e \in Events,
           PublishOk(w, e) \/ PublishFails(w, e)
    PROVE  Delivery!Deliver(e) \/ \A f \in Events : DeliveryOf(f)' = DeliveryOf(f)
<1>1. stream' \in {stream, stream \union {e}} /\ UNCHANGED <<row, dead>> /\ e \in relay[w].todo
      BY DEF PublishOk, PublishFails, tableVars
<1>2. CASE stream' = stream
      BY <1>1, <1>2, SameTables
<1>3. CASE e \notin stream /\ stream' = stream \union {e}
      <2>1. Kept(e)
            BY <1>1, BatchOf DEF BatchOK, MoveInv, EventNeverLost
      <2>2. DeliveryOf(e) \in {"pending", "parked"} /\ DeliveryOf(e)' = "delivered"
            BY <1>3, <2>1 DEF DeliveryOf, Kept
      <2>3. \A f \in Events \ {e} : DeliveryOf(f)' = DeliveryOf(f)
            BY <1>1, <1>3 DEF DeliveryOf
      <2>4. Delivery!Becomes(e, {"pending", "parked"}, "delivered")
            BY <2>2, <2>3, OneDelivery, SMT, SMTT(30)
      <2>5. QED
            BY <2>4 DEF Delivery!Deliver
<1>4. CASE e \in stream /\ stream' = stream \union {e}
      <2>1. stream' = stream
            BY <1>4
      <2>2. QED
            BY <1>1, <2>1, SameTables
<1>5. QED
      BY <1>1, <1>2, <1>3, <1>4

\* A move parks a pending event, or changes nothing for an event stored or parked before.
LEMMA MoveDelivers ==
    ASSUME TableInv, MoveInv, NEW w \in Relays, MoveOutboxToDead(w)
    PROVE  (\E e \in Events : Delivery!Park(e)) \/ \A f \in Events : DeliveryOf(f)' = DeliveryOf(f)
<1>1. PICK e \in Events : e = relay[w].ev /\ relay[w].pc = "moving"
      BY BatchOf DEF BatchOK, MoveOutboxToDead
<1>2. /\ row' = [row EXCEPT ![e] = "none"] /\ stream' = stream
      /\ dead' = IF relay[w].copied THEN dead \union {e} ELSE dead
      BY <1>1 DEF MoveOutboxToDead
<1>3. row'[e] = "none" /\ \A f \in Events \ {e} : row'[f] = row[f]
      BY <1>1, <1>2 DEF TableInv, OutboxTypeOK
<1>4. /\ relay[w].copied => e \notin dead /\ (row[e] # "none" \/ e \in stream)
      /\ relay[w].copied \/ row[e] = "none" \/ e \in dead
      BY <1>1 DEF MoveInv, MoveIsSafe
<1>5. \A f \in Events \ {e} : DeliveryOf(f)' = DeliveryOf(f)
      BY <1>2, <1>3 DEF DeliveryOf
<1>6. CASE relay[w].copied /\ e \notin stream
      <2>1. DeliveryOf(e) = "pending" /\ DeliveryOf(e)' = "parked"
            BY <1>2, <1>4, <1>6 DEF DeliveryOf
      <2>2. Delivery!Becomes(e, {"pending"}, "parked")
            BY <1>1, <1>5, <2>1, OneDelivery, SMT, SMTT(30)
      <2>3. QED
            BY <1>1, <2>2 DEF Delivery!Park
<1>7. CASE ~relay[w].copied \/ e \in stream
      <2>1. DeliveryOf(e)' = DeliveryOf(e)
            BY <1>2, <1>3, <1>4, <1>7 DEF DeliveryOf
      <2>2. QED
            BY <1>5, <2>1
<1>8. QED
      BY <1>6, <1>7

\* The cleanup deletes rows of delivered events only.
LEMMA CleanDelivers ==
    ASSUME TableInv, NEW w \in Relays, NEW S \in SUBSET Events, DeleteSentOutboxOlderThan(w, S)
    PROVE  \A f \in Events : DeliveryOf(f)' = DeliveryOf(f)
<1>1. /\ \A f \in Events : row'[f] = IF f \in S THEN "none" ELSE row[f]
      /\ \A f \in S : f \in stream
      /\ UNCHANGED <<dead, stream>>
      BY DEF DeleteSentOutboxOlderThan, TableInv, SentIsStored
<1>2. QED
      BY <1>1 DEF DeliveryOf

\* A replay re-arms a parked event that JetStream has not stored.
LEMMA ReplayDelivers ==
    ASSUME TableInv, NEW e \in Events, ReplayDeadOutbox(e)
    PROVE  Delivery!Rearm(e) \/ \A f \in Events : DeliveryOf(f)' = DeliveryOf(f)
<1>1. /\ e \in dead /\ row' = [row EXCEPT ![e] = "unsent"] /\ dead' = dead \ {e}
      /\ stream' = stream
      BY DEF ReplayDeadOutbox
<1>2. row'[e] = "unsent" /\ \A f \in Events \ {e} : row'[f] = row[f]
      BY <1>1 DEF TableInv, OutboxTypeOK
<1>3. \A f \in Events \ {e} : DeliveryOf(f)' = DeliveryOf(f)
      BY <1>1, <1>2 DEF DeliveryOf
<1>4. CASE e \in stream
      <2>1. DeliveryOf(e)' = DeliveryOf(e)
            BY <1>1, <1>4 DEF DeliveryOf
      <2>2. QED
            BY <1>3, <2>1
<1>5. CASE e \notin stream
      <2>1. DeliveryOf(e) = "parked" /\ DeliveryOf(e)' = "pending"
            BY <1>1, <1>2, <1>5 DEF DeliveryOf
      <2>2. Delivery!Becomes(e, {"parked"}, "pending")
            BY <1>3, <2>1, OneDelivery, SMT, SMTT(30)
      <2>3. QED
            BY <2>2 DEF Delivery!Rearm
<1>6. QED
      BY <1>4, <1>5

\* Every step of the outbox is a step of the abstract delivery or a stutter.
LEMMA DeliveryStep ==
    ASSUME NoRacingReplay, TableInv, MoveInv, [OutboxNext]_outboxVars
    PROVE  \/ Delivery!DeliveryNext
           \/ \A f \in Events : DeliveryOf(f)' = DeliveryOf(f)
<1>1. CASE UNCHANGED outboxVars
      BY <1>1, SameTables DEF outboxVars, tableVars
<1>2. CASE \E c \in Calls : CallStep(c)
      <2>1. PICK c \in Calls : CallStep(c)
            BY <1>2
      <2>2. CASE SuspendSubscriptionWithOutbox(c)
            BY <2>2, SuspendDelivers DEF Delivery!DeliveryNext
      <2>3. CASE ~SuspendSubscriptionWithOutbox(c)
            <3>1. UNCHANGED <<row, dead, stream>>
                  BY <2>1, <2>3 DEF CallStep, CreateSubscriptionRead, UpgradeSubscriptionRead,
                     CancelSubscriptionRead, SuspendSubscriptionRead, Begin, CreateSubscription,
                     UpdateSubscription, CallFails, tableVars
            <3>2. QED
                  BY <3>1, SameTables
      <2>4. QED
            BY <2>2, <2>3
<1>3. CASE \E w \in Relays : RelayStep(w)
      <2>1. PICK w \in Relays : RelayStep(w)
            BY <1>3
      <2>2. CASE \E e \in Events : PublishOk(w, e) \/ PublishFails(w, e)
            BY <2>2, PublishDelivers DEF Delivery!DeliveryNext
      <2>3. CASE MoveOutboxToDead(w)
            BY <2>3, MoveDelivers DEF Delivery!DeliveryNext
      <2>4. CASE \E S \in SUBSET Events : DeleteSentOutboxOlderThan(w, S)
            BY <2>4, CleanDelivers
      <2>5. CASE MarkOutboxSent(w)
            <3>1. UNCHANGED <<dead, stream>> /\ \A f \in Events : row'[f] = "none" <=> row[f] = "none"
                  BY <2>5, BatchOf DEF MarkOutboxSent, BatchOK, TableInv, OutboxTypeOK
            <3>2. QED
                  BY <3>1 DEF DeliveryOf
      <2>6. CASE \/ ClaimUnsentOutbox(w) \/ MarkOutboxSentFails(w)
                 \/ \E e \in Events : RecordOutboxFailure(w, e) \/ MoveOutboxToDeadCopy(w, e)
                 \/ MoveOutboxToDeadFails(w) \/ BatchDone(w) \/ RelayRestarts(w)
            <3>1. UNCHANGED <<row, dead, stream>>
                  BY <2>6 DEF ClaimUnsentOutbox, MarkOutboxSentFails, RecordOutboxFailure,
                     MoveOutboxToDeadCopy, MoveOutboxToDeadFails, BatchDone, RelayRestarts, tableVars
            <3>2. QED
                  BY <3>1, SameTables
      <2>7. QED
            BY <2>1, <2>2, <2>3, <2>4, <2>5, <2>6 DEF RelayStep
<1>4. CASE \E e \in Events : ReplayDeadOutbox(e)
      BY <1>4, ReplayDelivers DEF Delivery!DeliveryNext
<1>5. QED
      BY <1>1, <1>2, <1>3, <1>4 DEF OutboxNext

-----------------------------------------------------------------------------
(***************************************************************************)
(* The theorems.                                                           *)
(***************************************************************************)

\* Whatever the relays and operators do, the tables stay in step: no event is in both
\* tables, a row is marked sent only once stored, and a relay holds committed events only.
THEOREM TableInvariant == OutboxSpec => []TableInv
<1>1. OutboxInit => TableInv
      BY TableInvInit
<1>2. TableInv /\ [OutboxNext]_outboxVars => TableInv'
      BY TableInvStep
<1>3. QED
      BY <1>1, <1>2, PTL DEF OutboxSpec

\* An id is never in event_outbox and event_outbox_dead at once, for any number of relays
\* and replays, so the re-inserting statement of ReplayDeadOutbox finds its key free.
THEOREM OutboxOrDeadHolds == OutboxSpec => []OutboxOrDead
<1>1. TableInv => OutboxOrDead
      BY DEF TableInv
<1>2. QED
      BY <1>1, TableInvariant, PTL

\* Without a replay that races a second relay, the whole invariant holds.
THEOREM MoveInvariant == NoRacingReplay => (OutboxSpec => [](TableInv /\ MoveInv))
<1> SUFFICES ASSUME NoRacingReplay
             PROVE  OutboxSpec => [](TableInv /\ MoveInv)
    OBVIOUS
<1>1. OutboxInit => TableInv /\ MoveInv
      BY TableInvInit, MoveInvInit
<1>2. (TableInv /\ MoveInv) /\ [OutboxNext]_outboxVars => (TableInv /\ MoveInv)'
      BY TableInvStep, MoveInvStep
<1>3. QED
      BY <1>1, <1>2, PTL DEF OutboxSpec

\* An enqueued event is in event_outbox, in event_outbox_dead or stored by JetStream at
\* every moment, as long as no operator replays while two relays run.
THEOREM EventNeverLostHolds == NoRacingReplay => (OutboxSpec => []EventNeverLost)
<1>1. TableInv /\ MoveInv => EventNeverLost
      BY DEF MoveInv
<1>2. QED
      BY <1>1, MoveInvariant, PTL

\* The update of a subscription and the event that announces it do not come apart, at
\* the commit or at any later moment: SuspendSubscriptionWithOutbox is one transaction,
\* and what it enqueued is never lost.
THEOREM SuspensionAnnouncedHolds == NoRacingReplay => (OutboxSpec => []SuspensionAnnounced)
<1>1. TableInv /\ MoveInv => SuspensionAnnounced
      BY DEF TableInv, MoveInv, SuspendedHasEvent, EventNeverLost,
                SuspensionAnnounced
<1>2. QED
      BY <1>1, MoveInvariant, PTL

\* A relay parks an event only when the row it moves has used up its attempts, although
\* it decided so from the attempts its claim returned.
THEOREM ParkedAfterMaxAttemptsHolds == NoRacingReplay => (OutboxSpec => ParkedAfterMaxAttempts)
<1> SUFFICES ASSUME NoRacingReplay
             PROVE  OutboxSpec => ParkedAfterMaxAttempts
    OBVIOUS
<1>1. TableInv /\ MoveInv /\ [OutboxNext]_outboxVars =>
         [\A e \in dead' \ dead : attempts[e] = MaxOutboxAttempts]_outboxVars
      <2> SUFFICES ASSUME TableInv, MoveInv, OutboxNext, NEW e \in dead' \ dead
                   PROVE  attempts[e] = MaxOutboxAttempts
          BY DEF outboxVars, tableVars
      <2>1. PICK w \in Relays : MoveOutboxToDead(w)
            BY DEF OutboxNext, CallStep, CreateSubscriptionRead, UpgradeSubscriptionRead,
               CancelSubscriptionRead, SuspendSubscriptionRead, Begin, CreateSubscription,
               UpdateSubscription, CallFails, SuspendSubscriptionWithOutbox, tableVars, RelayStep,
               ClaimUnsentOutbox, PublishOk, PublishFails, MarkOutboxSent, MarkOutboxSentFails,
               RecordOutboxFailure, MoveOutboxToDeadCopy, MoveOutboxToDeadFails, BatchDone,
               DeleteSentOutboxOlderThan, RelayRestarts, ReplayDeadOutbox
      <2>2. e = relay[w].ev /\ e \in Events /\ e \in relay[w].maxed
            BY <2>1, BatchOf DEF MoveOutboxToDead, BatchOK
      <2>3. QED
            BY <2>2 DEF MoveInv, MaxedIsMaxed, Held
<1>2. QED
      BY <1>1, MoveInvariant, PTL DEF OutboxSpec, ParkedAfterMaxAttempts

\* The outbox implements the delivery promise: what is enqueued stays pending until it is
\* delivered or visibly parked, and no step forgets it.
THEOREM OutboxDeliversHolds == NoRacingReplay => (OutboxSpec => OutboxDelivers)
<1> SUFFICES ASSUME NoRacingReplay
             PROVE  OutboxSpec => OutboxDelivers
    OBVIOUS
<1>1. OutboxInit => Delivery!DeliveryInit
      BY DEF OutboxInit, Delivery!DeliveryInit, DeliveryOf
<1>2. TableInv /\ MoveInv /\ [OutboxNext]_outboxVars =>
         [Delivery!DeliveryNext]_([e \in Events |-> DeliveryOf(e)])
      <2> SUFFICES ASSUME TableInv, MoveInv, [OutboxNext]_outboxVars
                   PROVE  [Delivery!DeliveryNext]_([e \in Events |-> DeliveryOf(e)])
          OBVIOUS
      <2>1. CASE Delivery!DeliveryNext
            BY <2>1
      <2>2. CASE \A f \in Events : DeliveryOf(f)' = DeliveryOf(f)
            BY <2>2, NoDelivery
      <2>3. QED
            BY <2>1, <2>2, DeliveryStep
<1>3. QED
      BY <1>1, <1>2, MoveInvariant, PTL DEF OutboxSpec, OutboxDelivers, Delivery!DeliverySpec

\* A suspension that no upgrade in flight overlaps lasts until it is cancelled.
THEOREM SuspensionSticksHolds == OutboxSpec => SuspensionSticks
<1>1. TableInv /\ [OutboxNext]_outboxVars =>
         [\A t \in Tenants : sub[t] = "suspended" /\ Reviving(t) = {} =>
             sub'[t] \in {"suspended", "cancelled"} /\ Reviving(t)' = {}]_outboxVars
      <2> SUFFICES ASSUME TableInv, OutboxNext, NEW t \in Tenants, sub[t] = "suspended", Reviving(t) = {}
                   PROVE  sub'[t] \in {"suspended", "cancelled"} /\ Reviving(t)' = {}
          OBVIOUS
      <2>1. CASE \E c \in Calls : CallStep(c)
            <3>1. PICK c \in Calls : CallStep(c)
                  BY <2>1
            <3>2. /\ sub \in [Tenants -> SubscriptionStatus] /\ call \in [Calls -> SubscriptionCall]
                  /\ \A d \in Calls : ~(call[d].op = "update" /\ call[d].id = t /\ call[d].status # "cancelled")
                  BY DEF TableInv, OutboxTypeOK, Reviving
            <3>3. SUFFICES /\ sub'[t] \in {"suspended", "cancelled"}
                           /\ \A d \in Calls : ~(call'[d].op = "update" /\ call'[d].id = t /\ call'[d].status # "cancelled")
                  BY DEF Reviving
            <3>4. CASE \E u \in Tenants : CreateSubscriptionRead(c, u) \/ UpgradeSubscriptionRead(c, u)
                          \/ CancelSubscriptionRead(c, u) \/ SuspendSubscriptionRead(c, u)
                  BY <3>2, <3>4, SMT, SMTT(30) DEF CreateSubscriptionRead, UpgradeSubscriptionRead,
                     CancelSubscriptionRead, SuspendSubscriptionRead, Begin
            <3>5. CASE CreateSubscription(c) \/ CallFails(c)
                  BY <3>2, <3>5, SMT, SMTT(30) DEF CreateSubscription, CallFails, NoSubCall
            <3>6. CASE UpdateSubscription(c)
                  BY <3>2, <3>6 DEF UpdateSubscription, NoSubCall
            <3>7. CASE SuspendSubscriptionWithOutbox(c)
                  <4>1. call[c].status = "suspended"
                        BY <3>7 DEF SuspendSubscriptionWithOutbox, TableInv, CallWrites
                  <4>2. QED
                        BY <3>2, <3>7, <4>1 DEF SuspendSubscriptionWithOutbox, NoSubCall
            <3>8. QED
                  BY <3>1, <3>4, <3>5, <3>6, <3>7 DEF CallStep
      <2>2. CASE (\E w \in Relays : RelayStep(w)) \/ (\E e \in Events : ReplayDeadOutbox(e))
            <3>1. UNCHANGED <<sub, call>>
                  BY ZenonT(40), <2>2 DEF RelayStep,
                     ClaimUnsentOutbox, PublishOk, PublishFails, MarkOutboxSent, MarkOutboxSentFails,
                     RecordOutboxFailure, MoveOutboxToDeadCopy, MoveOutboxToDead, MoveOutboxToDeadFails,
                     BatchDone, DeleteSentOutboxOlderThan, RelayRestarts, ReplayDeadOutbox, subscriptionVars
            <3>2. QED
                  BY <3>1 DEF Reviving
      <2>3. QED
            BY <2>1, <2>2 DEF OutboxNext
<1>2. QED
      BY <1>1, TableInvariant, PTL DEF OutboxSpec, SuspensionSticks

-----------------------------------------------------------------------------
(* Invoices                                                                *)

\* A number above the counter of its year has not been given to anybody.
AboveIsUnused ==
    \A y \in Years, k \in Nat : k > sequences[y] =>
        /\ \A i \in Invoices : invoice[i].number # <<y, k>>
        /\ \A p \in Payers : payer[p].at = "insert" => payer[p].row.number # <<y, k>>

\* An INSERT in progress is the only call about its invoice, which has no row yet.
InsertIsAlone ==
    \A p \in Payers : payer[p].at = "insert" =>
        /\ payer[p].inv \in Invoices /\ payer[p].row.status = "pending"
        /\ invoice[payer[p].inv] = Unissued
        /\ \A q \in Payers \ {p} : payer[q].inv # payer[p].inv

\* An UPDATE in progress is about a row that exists.  Alone with its invoice, a payment
\* has one before it that is not paid, and an overdue mark writes back the transaction
\* that is there, of an invoice that is not paid or counts as reopened.
UpdateIsCurrent ==
    \A p \in Payers : payer[p].at = "update" =>
        LET i == payer[p].inv
        IN  /\ i \in Invoices /\ invoice[i].status # "absent"
            /\ payer[p].row.status \in {"paid", "overdue"}
            /\ payer[p].row.status = "paid" => payer[p].row.txn \in Txns
            /\ i \notin overlapped =>
                  /\ \A q \in Payers \ {p} : payer[q].inv # i
                  /\ payer[p].row.status = "paid" => invoice[i].status # "paid"
                  /\ payer[p].row.status = "overdue" =>
                        /\ payer[p].row.txn = invoice[i].txn
                        /\ invoice[i].status = "paid" => i \in reopened

\* An invoice that does not exist has no payment.
PaidExists == \A i \in Invoices : invoice[i].status = "absent" => payments[i] = {}

\* A row without a status is no row at all.
RowIsWhole == \A i \in Invoices : invoice[i].status = "absent" => invoice[i] = Unissued

\* The inductive invariant.
InvoicingInv ==
    /\ InvoicingTypeOK /\ AboveIsUnused /\ InsertIsAlone /\ UpdateIsCurrent /\ PaidExists /\ RowIsWhole
    /\ NumberIsFree /\ PaidOnce /\ PaymentKept

HIDE OutboxAssumption DEF Events
USE InvoicingAssumption

\* The tables are empty at first.
LEMMA InvoicingInvInit == InvoicingInit => InvoicingInv
BY SMT, SMTT(30) DEF InvoicingInit, InvoicingInv, InvoicingTypeOK, AboveIsUnused, InsertIsAlone, UpdateIsCurrent,
       PaidExists, RowIsWhole, NumberIsFree, PaidOnce, PaymentKept, Idle, Unissued, InvoiceRow, NoNumber, NoTxn

\* NextInvoiceSeq keeps it: the number it draws was above the counter.
LEMMA DrawKeeps ==
    ASSUME InvoicingInv, NEW p \in Payers, NEW i \in Invoices, NEW y \in Years, NextInvoiceSeq(p, i, y)
    PROVE  InvoicingInv'
<1> DEFINE n == sequences[y] + 1
<1>1. /\ n \in 1 .. MaxNumber /\ sequences' = [sequences EXCEPT ![y] = n]
      /\ payer' = [payer EXCEPT ![p] = [at |-> "insert", inv |-> i, row |-> Draft(y, n)]]
      /\ invoice[i] = Unissued /\ \A q \in Payers : payer[q].inv # i
      /\ UNCHANGED <<invoice, payments, overlapped, reopened>>
      BY SMT, SMTT(30) DEF NextInvoiceSeq, WorkingOn, InvoicingInv, InvoicingTypeOK
<1>2. /\ \A j \in Invoices : invoice[j].number # <<y, n>>
      /\ \A q \in Payers : payer[q].at = "insert" => payer[q].row.number # <<y, n>>
      BY <1>1, SMT, SMTT(30) DEF InvoicingInv, InvoicingTypeOK, AboveIsUnused
<1> HIDE DEF n
<1>3. InvoicingTypeOK'
      BY <1>1, SMT, SMTT(30) DEF InvoicingInv, InvoicingTypeOK, InvoiceRow, Draft
<1>4. AboveIsUnused'
      <2> SUFFICES ASSUME NEW z \in Years, NEW k \in Nat, k > sequences'[z]
                   PROVE  /\ \A j \in Invoices : invoice[j].number # <<z, k>>
                          /\ \A q \in Payers : payer'[q].at = "insert" => payer'[q].row.number # <<z, k>>
          BY <1>1 DEF AboveIsUnused
      <2>1. k > sequences[z] /\ <<z, k>> # <<y, n>>
            BY <1>1, SMT, SMTT(30) DEF InvoicingInv, InvoicingTypeOK, n
      <2>2. /\ \A j \in Invoices : invoice[j].number # <<z, k>>
            /\ \A q \in Payers : payer[q].at = "insert" => payer[q].row.number # <<z, k>>
            BY <2>1 DEF InvoicingInv, AboveIsUnused
      <2> QED BY <1>1, <2>1, <2>2 DEF InvoicingInv, InvoicingTypeOK, Draft
<1>5. InsertIsAlone' /\ UpdateIsCurrent' /\ PaidExists' /\ RowIsWhole'
      BY ZenonT(40), <1>1 DEF InvoicingInv, InvoicingTypeOK, InsertIsAlone, UpdateIsCurrent, PaidExists, RowIsWhole, Draft
<1>6. NumberIsFree'
      BY <1>2, <1>1 DEF InvoicingInv, InvoicingTypeOK, NumberIsFree, Draft
<1>7. PaidOnce' /\ PaymentKept'
      BY <1>1 DEF InvoicingInv, PaidOnce, PaymentKept
<1> QED BY <1>3, <1>4, <1>5, <1>6, <1>7 DEF InvoicingInv

\* InsertInvoice keeps it: its number is free and its invoice had no row.
LEMMA InsertKeeps ==
    ASSUME InvoicingInv, NEW p \in Payers, InsertInvoice(p)
    PROVE  InvoicingInv'
<1>1. /\ payer[p].at = "insert" /\ payer[p].inv \in Invoices /\ payer[p].row \in InvoiceRow
      /\ invoice' = [invoice EXCEPT ![payer[p].inv] = payer[p].row]
      /\ payer' = [payer EXCEPT ![p] = Idle]
      /\ UNCHANGED <<sequences, payments, overlapped, reopened>>
      BY DEF InsertInvoice, InvoicingInv, InvoicingTypeOK, InsertIsAlone, NumberIsFree
<1>2. InvoicingTypeOK'
      BY <1>1 DEF InvoicingInv, InvoicingTypeOK, Idle, Unissued, InvoiceRow
<1>3. AboveIsUnused'
      BY <1>1 DEF InvoicingInv, InvoicingTypeOK, AboveIsUnused, Idle
<1>4. InsertIsAlone' /\ UpdateIsCurrent' /\ PaidExists' /\ RowIsWhole'
      BY <1>1, SMT, SMTT(30) DEF InvoicingInv, InvoicingTypeOK, InsertIsAlone, UpdateIsCurrent, PaidExists, RowIsWhole,
                  Idle, NoTxn, Unissued
<1>5. NumberIsFree'
      BY <1>1 DEF InvoicingInv, InvoicingTypeOK, NumberIsFree, Idle
<1>6. PaidOnce' /\ PaymentKept'
      BY <1>1, SMT, SMTT(30) DEF InvoicingInv, InvoicingTypeOK, PaidOnce, PaymentKept, InsertIsAlone, PaidExists, Unissued
<1> QED BY <1>2, <1>3, <1>4, <1>5, <1>6 DEF InvoicingInv

\* MarkInvoicePaid keeps it: alone with its invoice, it has read that it is not paid.
LEMMA PayKeeps ==
    ASSUME InvoicingInv, NEW p \in Payers, NEW i \in Invoices, NEW txn \in Txns, MarkInvoicePaid(p, i, txn)
    PROVE  InvoicingInv'
<1> DEFINE new == [number |-> invoice[i].number, status |-> "paid", txn |-> txn]
<1>1. /\ payer[p] = Idle /\ invoice[i] # Unissued /\ invoice[i].status # "paid"
      /\ payer' = [payer EXCEPT ![p] = [at |-> "update", inv |-> i, row |-> new]]
      /\ overlapped' = IF WorkingOn(i) = {} THEN overlapped ELSE overlapped \union {i}
      /\ UNCHANGED <<sequences, invoice, payments, reopened>>
      BY DEF MarkInvoicePaid, ReadInvoice
<1>2. new \in InvoiceRow /\ new.status = "paid" /\ new.txn = txn
      BY DEF InvoicingInv, InvoicingTypeOK, InvoiceRow
<1>3. \A q \in Payers : payer[q].inv = i => WorkingOn(i) # {}
      BY DEF WorkingOn
<1>4. \A q \in Payers : payer[q].at = "insert" => payer[q].inv # i
      BY <1>1 DEF InvoicingInv, InsertIsAlone
<1>5. invoice[i].status # "absent"
      BY <1>1 DEF InvoicingInv, RowIsWhole
<1> HIDE DEF new
<1>6. InvoicingTypeOK'
      BY <1>1, <1>2 DEF InvoicingInv, InvoicingTypeOK
<1>7. AboveIsUnused' /\ NumberIsFree' /\ PaidExists' /\ RowIsWhole'
      BY <1>1, SMT, SMTT(30) DEF InvoicingInv, InvoicingTypeOK, AboveIsUnused, NumberIsFree, PaidExists, RowIsWhole
<1>8. InsertIsAlone'
      BY <1>1, <1>4 DEF InvoicingInv, InvoicingTypeOK, InsertIsAlone
<1>9. UpdateIsCurrent'
      BY ZenonT(40), <1>1, <1>2, <1>3, <1>5 DEF InvoicingInv, InvoicingTypeOK, UpdateIsCurrent, Idle, NoTxn
<1>10. PaidOnce' /\ PaymentKept'
      BY <1>1 DEF InvoicingInv, PaidOnce, PaymentKept
<1> QED BY <1>6, <1>7, <1>8, <1>9, <1>10 DEF InvoicingInv

\* MarkInvoiceOverdue keeps it: what it will write is the transaction it has read.
LEMMA OverdueKeeps ==
    ASSUME InvoicingInv, NEW p \in Payers, NEW i \in Invoices, MarkInvoiceOverdue(p, i)
    PROVE  InvoicingInv'
<1> DEFINE new == [number |-> invoice[i].number, status |-> "overdue", txn |-> invoice[i].txn]
<1>1. /\ payer[p] = Idle /\ invoice[i] # Unissued
      /\ payer' = [payer EXCEPT ![p] = [at |-> "update", inv |-> i, row |-> new]]
      /\ overlapped' = IF WorkingOn(i) = {} THEN overlapped ELSE overlapped \union {i}
      /\ reopened' = IF invoice[i].status = "paid" THEN reopened \union {i} ELSE reopened
      /\ UNCHANGED <<sequences, invoice, payments>>
      BY DEF MarkInvoiceOverdue, ReadInvoice
<1>2. new \in InvoiceRow /\ new.status = "overdue" /\ new.txn = invoice[i].txn
      BY DEF InvoicingInv, InvoicingTypeOK, InvoiceRow
<1>3. \A q \in Payers : payer[q].inv = i => WorkingOn(i) # {}
      BY DEF WorkingOn
<1>4. \A q \in Payers : payer[q].at = "insert" => payer[q].inv # i
      BY <1>1 DEF InvoicingInv, InsertIsAlone
<1>5. invoice[i].status # "absent"
      BY <1>1 DEF InvoicingInv, RowIsWhole
<1> HIDE DEF new
<1>6. InvoicingTypeOK'
      BY <1>1, <1>2 DEF InvoicingInv, InvoicingTypeOK
<1>7. AboveIsUnused' /\ NumberIsFree' /\ PaidExists' /\ RowIsWhole'
      BY <1>1, SMT, SMTT(30) DEF InvoicingInv, InvoicingTypeOK, AboveIsUnused, NumberIsFree, PaidExists, RowIsWhole
<1>8. InsertIsAlone'
      BY <1>1, <1>4 DEF InvoicingInv, InvoicingTypeOK, InsertIsAlone
<1>9. UpdateIsCurrent'
      BY ZenonT(40), <1>1, <1>2, <1>3, <1>5 DEF InvoicingInv, InvoicingTypeOK, UpdateIsCurrent, Idle, NoTxn
<1>10. PaidOnce' /\ PaymentKept'
      BY <1>1 DEF InvoicingInv, PaidOnce, PaymentKept
<1> QED BY <1>6, <1>7, <1>8, <1>9, <1>10 DEF InvoicingInv

\* UpdateInvoice keeps it: alone with its invoice, a payment is the first since the
\* invoice was reopened, and an overdue mark leaves the payment in place.
LEMMA WriteKeeps ==
    ASSUME InvoicingInv, NEW p \in Payers, UpdateInvoice(p)
    PROVE  InvoicingInv'
<1> DEFINE i == payer[p].inv
           new == payer[p].row
<1>1. /\ payer[p].at = "update" /\ i \in Invoices /\ new \in InvoiceRow
      /\ invoice' = [invoice EXCEPT ![i] = [number |-> invoice[i].number, status |-> new.status, txn |-> new.txn]]
      /\ payments' = IF new.status = "paid"
                     THEN [payments EXCEPT ![i] = @ \union {new.txn}] ELSE payments
      /\ payer' = [payer EXCEPT ![p] = Idle]
      /\ UNCHANGED <<sequences, overlapped, reopened>>
      BY DEF UpdateInvoice, InvoicingInv, InvoicingTypeOK, InvoiceRow, UpdateIsCurrent
<1>2. /\ invoice[i].status # "absent" /\ new.status \in {"paid", "overdue"}
      /\ new.status = "paid" => new.txn \in Txns
      /\ i \notin overlapped =>
            /\ \A q \in Payers \ {p} : payer[q].inv # i
            /\ new.status = "paid" => invoice[i].status # "paid"
            /\ new.status = "overdue" => new.txn = invoice[i].txn /\ (invoice[i].status = "paid" => i \in reopened)
      BY <1>1 DEF InvoicingInv, UpdateIsCurrent
<1> HIDE DEF i, new
<1>3. InvoicingTypeOK'
      BY <1>1, <1>2 DEF InvoicingInv, InvoicingTypeOK, InvoiceRow, Idle, Unissued
<1>4. AboveIsUnused' /\ NumberIsFree'
      <2>1. \A j \in Invoices : invoice'[j].number = invoice[j].number
            BY <1>1 DEF InvoicingInv, InvoicingTypeOK
      <2>2. \A q \in Payers : payer'[q].at = "insert" => payer'[q] = payer[q] /\ payer[q].at = "insert"
            BY <1>1 DEF InvoicingInv, InvoicingTypeOK, Idle
      <2>3. AboveIsUnused'
            BY <1>1, <2>1, <2>2, SMT, SMTT(30) DEF InvoicingInv, AboveIsUnused
      <2>4. NumberIsFree'
            BY ZenonT(40), <2>1, <2>2 DEF InvoicingInv, NumberIsFree
      <2> QED BY <2>3, <2>4
<1>5. InsertIsAlone' /\ PaidExists' /\ RowIsWhole'
      BY <1>1, <1>2, SMT, SMTT(30) DEF InvoicingInv, InvoicingTypeOK, InsertIsAlone, PaidExists, RowIsWhole, Idle, NoTxn, Unissued
<1>6. UpdateIsCurrent'
      BY ZenonT(40), <1>1, <1>2 DEF InvoicingInv, InvoicingTypeOK, UpdateIsCurrent, Idle, NoTxn, i
<1>7. PaidOnce'
      BY <1>1, <1>2, SMT, SMTT(30) DEF InvoicingInv, InvoicingTypeOK, PaidOnce, PaymentKept
<1>8. PaymentKept'
      BY <1>1, <1>2 DEF InvoicingInv, InvoicingTypeOK, PaymentKept
<1> QED BY <1>3, <1>4, <1>5, <1>6, <1>7, <1>8 DEF InvoicingInv

\* A call that stops keeps it: it leaves its number unused and its row unwritten.
LEMMA StoppedKeeps ==
    ASSUME InvoicingInv, NEW p \in Payers, BillingCallStops(p)
    PROVE  InvoicingInv'
<1>1. payer' = [payer EXCEPT ![p] = Idle] /\ UNCHANGED <<sequences, invoice, payments, overlapped, reopened>>
      BY DEF BillingCallStops
<1>2. InvoicingTypeOK'
      BY <1>1 DEF InvoicingInv, InvoicingTypeOK, Idle, Unissued, InvoiceRow
<1>3. AboveIsUnused' /\ NumberIsFree' /\ PaidExists' /\ RowIsWhole' /\ PaidOnce' /\ PaymentKept'
      BY <1>1, SMT, SMTT(30) DEF InvoicingInv, InvoicingTypeOK, AboveIsUnused, NumberIsFree, PaidExists, RowIsWhole,
                  PaidOnce, PaymentKept, Idle
<1>4. InsertIsAlone' /\ UpdateIsCurrent'
      BY ZenonT(40), <1>1 DEF InvoicingInv, InvoicingTypeOK, InsertIsAlone, UpdateIsCurrent, Idle, NoTxn
<1> QED BY <1>2, <1>3, <1>4 DEF InvoicingInv

\* Every step of the service keeps it.
LEMMA InvoicingInvNext == InvoicingInv /\ [InvoicingNext]_invoicingVars => InvoicingInv'
<1> SUFFICES ASSUME InvoicingInv, [InvoicingNext]_invoicingVars PROVE InvoicingInv'
    OBVIOUS
<1>1. CASE InvoicingNext
      BY <1>1, DrawKeeps, InsertKeeps, PayKeeps, OverdueKeeps, WriteKeeps, StoppedKeeps DEF InvoicingNext
<1>2. CASE UNCHANGED invoicingVars
      BY <1>2, SMT, SMTT(30) DEF invoicingVars, InvoicingInv, InvoicingTypeOK, AboveIsUnused, InsertIsAlone, UpdateIsCurrent,
                  PaidExists, RowIsWhole, NumberIsFree, PaidOnce, PaymentKept
<1> QED BY <1>1, <1>2

\* The number that CreateInvoice drew is free when its INSERT uses it, whichever calls
\* overlap or stop.
THEOREM NumberIsFreeHolds == InvoicingSpec => []NumberIsFree
<1>1. InvoicingInv => NumberIsFree  BY DEF InvoicingInv
<1> QED BY <1>1, InvoicingInvInit, InvoicingInvNext, PTL DEF InvoicingSpec

\* A second payment takes an overlap or a reopened invoice.
THEOREM PaidOnceHolds == InvoicingSpec => []PaidOnce
<1>1. InvoicingInv => PaidOnce  BY DEF InvoicingInv
<1> QED BY <1>1, InvoicingInvInit, InvoicingInvNext, PTL DEF InvoicingSpec

\* A recorded payment is lost only to a call that overlapped it.
THEOREM PaymentKeptHolds == InvoicingSpec => []PaymentKept
<1>1. InvoicingInv => PaymentKept  BY DEF InvoicingInv
<1> QED BY <1>1, InvoicingInvInit, InvoicingInvNext, PTL DEF InvoicingSpec

-----------------------------------------------------------------------------
(* Payment methods                                                         *)

\* While no calls have run into each other there is one call at most, its method is
\* still there, and between its two writes no row has the flag.
Undisturbed ==
    "overlap" \notin mishap =>
        /\ \A c, d \in Cardholders : holder[c] # NoCall /\ holder[d] # NoCall => c = d
        /\ \A c \in Cardholders : holder[c] # NoCall => holder[c].pm \in Saved
        /\ \A c \in Cardholders : holder[c].at = "set" => Defaults = {}

\* Only a row that exists or existed was made the default.
LatestWasAdded == \A m \in latest : method[m] # "new"

\* The inductive invariant.
MethodsInv == MethodsTypeOK /\ Undisturbed /\ LatestWasAdded /\ OneDefault /\ DefaultIsLatest

\* The states in which the service starts, without a payment method, satisfy it.
LEMMA MethodsInvInit == MethodsInit => MethodsInv
BY DEF MethodsInit, MethodsInv, MethodsTypeOK, Undisturbed, LatestWasAdded, OneDefault,
       DefaultIsLatest, Defaults, Saved, NoCall

\* AddPaymentMethod keeps it: a new row has no flag.
LEMMA AddKeeps ==
    ASSUME MethodsInv, NEW m \in Methods, AddPaymentMethod(m)
    PROVE  MethodsInv'
BY SMT, SMTT(30) DEF AddPaymentMethod, MethodsInv, MethodsTypeOK, Undisturbed, LatestWasAdded, OneDefault,
       DefaultIsLatest, Defaults, Saved, NoCall

\* RemovePaymentMethod keeps it: removing the method of a call in progress is an overlap.
LEMMA RemoveKeeps ==
    ASSUME MethodsInv, NEW m \in Methods, RemovePaymentMethod(m)
    PROVE  MethodsInv'
BY DEF RemovePaymentMethod, MethodsInv, MethodsTypeOK, Undisturbed, LatestWasAdded, OneDefault,
       DefaultIsLatest, Defaults, Saved, NoCall

\* The read of SetDefaultPaymentMethod keeps it: a second call is an overlap.
LEMMA ReadKeeps ==
    ASSUME MethodsInv, NEW c \in Cardholders, NEW m \in Methods, SetDefaultPaymentMethod(c, m)
    PROVE  MethodsInv'
BY SMT, SMTT(30) DEF SetDefaultPaymentMethod, MethodsInv, MethodsTypeOK, Undisturbed, LatestWasAdded, OneDefault,
       DefaultIsLatest, Defaults, Saved, NoCall

\* ClearDefaultPaymentMethods keeps it: no flag is left.
LEMMA ClearKeeps ==
    ASSUME MethodsInv, NEW c \in Cardholders, ClearDefaultPaymentMethods(c)
    PROVE  MethodsInv'
BY SMT, SMTT(30) DEF ClearDefaultPaymentMethods, MethodsInv, MethodsTypeOK, Undisturbed, LatestWasAdded, OneDefault,
       DefaultIsLatest, Defaults, Saved, NoCall

\* UpdatePaymentMethod keeps it: the one flag it sets is the only one.
LEMMA UpdateKeeps ==
    ASSUME MethodsInv, NEW c \in Cardholders, UpdatePaymentMethod(c)
    PROVE  MethodsInv'
BY SMT, SMTT(30) DEF UpdatePaymentMethod, MethodsInv, MethodsTypeOK, Undisturbed, LatestWasAdded, OneDefault,
       DefaultIsLatest, Defaults, Saved, NoCall

\* A call that stops keeps it: before its first write it has done nothing, after it
\* there is no default, which the mishap records.
LEMMA StopKeeps ==
    ASSUME MethodsInv, NEW c \in Cardholders, DefaultCallStops(c)
    PROVE  MethodsInv'
BY ZenonT(40) DEF DefaultCallStops, MethodsInv, MethodsTypeOK, Undisturbed, LatestWasAdded, OneDefault,
       DefaultIsLatest, Defaults, Saved, NoCall

\* Every step of the service keeps it.
LEMMA MethodsInvNext == MethodsInv /\ [MethodsNext]_methodVars => MethodsInv'
<1> SUFFICES ASSUME MethodsInv, [MethodsNext]_methodVars PROVE MethodsInv'
    OBVIOUS
<1>1. CASE \E m \in Methods : AddPaymentMethod(m) \/ RemovePaymentMethod(m)
      BY <1>1, AddKeeps, RemoveKeeps
<1>2. CASE \E c \in Cardholders :
              \/ ClearDefaultPaymentMethods(c) \/ UpdatePaymentMethod(c) \/ DefaultCallStops(c)
              \/ \E m \in Methods : SetDefaultPaymentMethod(c, m)
      BY <1>2, ReadKeeps, ClearKeeps, UpdateKeeps, StopKeeps
<1>3. CASE UNCHANGED methodVars
      BY <1>3 DEF methodVars, MethodsInv, MethodsTypeOK, Undisturbed, LatestWasAdded, OneDefault,
                  DefaultIsLatest, Defaults, Saved
<1> QED BY <1>1, <1>2, <1>3 DEF MethodsNext

\* SetDefaultPaymentMethod never leaves two defaults, wherever it stops, as long as no
\* two calls overlap.
THEOREM OneDefaultHolds == MethodsSpec => []OneDefault
<1>1. MethodsInv => OneDefault  BY DEF MethodsInv
<1> QED BY <1>1, MethodsInvInit, MethodsInvNext, PTL DEF MethodsSpec

\* Undisturbed, the default is the method last made it, or none if that was removed.
THEOREM DefaultIsLatestHolds == MethodsSpec => []DefaultIsLatest
<1>1. MethodsInv => DefaultIsLatest  BY DEF MethodsInv
<1> QED BY <1>1, MethodsInvInit, MethodsInvNext, PTL DEF MethodsSpec
=============================================================================
