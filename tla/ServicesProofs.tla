--------------------------- MODULE ServicesProofs ---------------------------
(***************************************************************************)
(* Proofs about the services that write without a transaction: the log of  *)
(* the notifications, the check-out of assets, the versions of documents,  *)
(* and the approvals of expenses and budgets with the spend they are       *)
(* reported as.  They hold for any number of documents, events, calls in   *)
(* progress and deliveries.                                                *)
(***************************************************************************)
EXTENDS Documents, Notifications, AssetCheckout, Spend, FiniteSetTheorems, TLAPS

\* Most leaves are first-order: Zenon proves them.  Those that need arithmetic cite SMT, with
\* SMTT(30) as a second and longer try; ZenonT(40) gives a leaf more time.
USE Zenon

-----------------------------------------------------------------------------
(* Notifications                                                           *)

\* What the row of an attempt and the provider know of each other at every stage of Send: there
\* is no row before the insert, and no outcome before the send.
AttemptIsConsistent(d) ==
    /\ attempt[d] \in {"undelivered", "lookup", "insert"} => row[d] = "none"
    /\ attempt[d] \in {"send", "record"} => row[d] = "pending"
    /\ attempt[d] \notin {"record", "ended"} => ~accepted[d]
    /\ row[d] = "sent" => accepted[d]
    /\ row[d] = "failed" => ~accepted[d]
    /\ accepted[d] => row[d] \in {"pending", "sent"}

\* The inductive invariant of the notifications.
NotificationsInv ==
    /\ NotificationsTypeOK
    /\ \A d \in Deliveries : AttemptIsConsistent(d)
    /\ AckedIsHandled

\* Lookups, inserts and stops do not touch what the provider took.
LEMMA EarlyAttemptStep ==
    ASSUME NotificationsInv, NEW d \in Deliveries, GetActiveTemplate(d) \/ CreateNotification(d) \/ ConsumerStops(d)
    PROVE  NotificationsInv'
<1>0. d[1] \in Events
      BY DEF Deliveries
<1>1. UNCHANGED <<template, accepted>>
      BY DEF GetActiveTemplate, CreateNotification, ConsumerStops
<1>2. /\ attempt' \in [Deliveries -> {"undelivered", "lookup", "insert", "send", "record", "ended"}]
      /\ row' \in [Deliveries -> {"none", "pending", "sent", "failed"}]
      /\ acked' \subseteq Events /\ spared' \in [Events -> SUBSET {"no template", "lookup failed"}]
      /\ \A c \in Deliveries \ {d} : attempt'[c] = attempt[c] /\ row'[c] = row[c]
  <2>0. NotificationsTypeOK
        BY DEF NotificationsInv
  <2>1. CASE GetActiveTemplate(d)
    <3>1. UNCHANGED row /\ \E next \in {"insert", "ended"} : attempt' = [attempt EXCEPT ![d] = next]
          BY <2>1 DEF GetActiveTemplate, Ack, Nak
    <3>2. acked' \in {acked, acked \union {d[1]}}
          BY <2>1 DEF GetActiveTemplate, Ack, Nak
    <3>3. spared' = spared \/ \E why \in {"no template", "lookup failed"} :
                                  spared' = [spared EXCEPT ![d[1]] = @ \union {why}]
          BY <2>1 DEF GetActiveTemplate
    <3>4. spared' \in [Events -> SUBSET {"no template", "lookup failed"}]
      <4>1. spared \in [Events -> SUBSET {"no template", "lookup failed"}]
            BY <2>0 DEF NotificationsTypeOK
      <4>2. ASSUME NEW why \in {"no template", "lookup failed"}
            PROVE  [spared EXCEPT ![d[1]] = @ \union {why}] \in [Events -> SUBSET {"no template", "lookup failed"}]
        <5>1. spared[d[1]] \union {why} \in SUBSET {"no template", "lookup failed"}
              BY <1>0, <4>1
        <5>q. QED BY <4>1, <5>1
      <4>q. QED BY <3>3, <4>1, <4>2
    <3>q. QED BY ZenonT(40), <1>0, <2>0, <3>1, <3>2, <3>4 DEF NotificationsTypeOK
  <2>2. CASE CreateNotification(d)
        BY <2>0, <2>2 DEF CreateNotification, NotificationsTypeOK
  <2>3. CASE ConsumerStops(d)
        BY <2>0, <2>3 DEF ConsumerStops, NotificationsTypeOK
  <2>q. QED BY <2>1, <2>2, <2>3
<1>3. NotificationsTypeOK'
      BY <1>1, <1>2 DEF NotificationsInv, NotificationsTypeOK
<1>4. ASSUME NEW c \in Deliveries PROVE AttemptIsConsistent(c)'
  <2>1. CASE c # d
        BY <1>1, <1>2, <2>1 DEF NotificationsInv, AttemptIsConsistent
  <2>2. CASE c = d
    <3>1. AttemptIsConsistent(d)
          BY DEF NotificationsInv
    <3>2. \/ attempt[d] = "insert" /\ attempt'[d] = "send" /\ row'[d] = "pending"
          \/ attempt[d] = "lookup" /\ attempt'[d] = "insert" /\ row'[d] = row[d]
          \/ attempt'[d] = "ended" /\ row'[d] = row[d]
          BY DEF GetActiveTemplate, CreateNotification, ConsumerStops, Ack, Nak, NotificationsInv, NotificationsTypeOK
    <3>q. QED BY <1>1, <2>2, <3>1, <3>2 DEF AttemptIsConsistent
  <2>q. QED BY <2>1, <2>2
<1>5. AckedIsHandled'
  <2>1. \/ acked' = acked /\ \A e \in Events : spared[e] \subseteq spared'[e]
        \/ /\ acked' \subseteq acked \union {d[1]} /\ spared'[d[1]] # {}
           /\ \A e \in Events : spared[e] \subseteq spared'[e]
    <3>0. NotificationsTypeOK
          BY DEF NotificationsInv
    <3>1. CASE CreateNotification(d) \/ ConsumerStops(d)
          BY <3>1 DEF CreateNotification, ConsumerStops
    <3>2. CASE GetActiveTemplate(d)
      <4>1. CASE UNCHANGED <<acked, spared>>
            BY <4>1
      <4>2. ASSUME NEW why, spared' = [spared EXCEPT ![d[1]] = @ \union {why}]
            PROVE  why \in spared'[d[1]] /\ \A e \in Events : spared[e] \subseteq spared'[e]
            BY <1>0, <3>0, <4>2 DEF NotificationsTypeOK
      <4>3. CASE ~UNCHANGED <<acked, spared>>
        <5>1. PICK why \in {"no template", "lookup failed"} : spared' = [spared EXCEPT ![d[1]] = @ \union {why}]
              BY <3>2, <4>3 DEF GetActiveTemplate, Nak
        <5>2. acked' \subseteq acked \union {d[1]}
              BY <3>2 DEF GetActiveTemplate, Ack, Nak
        <5>q. QED BY <4>2, <5>1, <5>2
      <4>q. QED BY <4>1, <4>3
    <3>q. QED BY <3>1, <3>2
  <2>q. QED BY <1>1, <2>1 DEF AckedIsHandled, NotificationsInv, NotificationsTypeOK
<1>q. QED BY <1>3, <1>4, <1>5 DEF NotificationsInv

\* The send and the record of its outcome keep the log truthful.
LEMMA LateAttemptStep ==
    ASSUME NotificationsInv, NEW d \in Deliveries,
           ProviderSend(d) \/ NoSenderForChannel(d) \/ UpdateNotificationStatus(d)
    PROVE  NotificationsInv'
<1>0. d[1] \in Events /\ d[2] \in 1 .. MaxDeliver /\ d = <<d[1], d[2]>>
      BY SMT, SMTT(30) DEF Deliveries
<1>1. UNCHANGED <<template, spared>>
      BY DEF ProviderSend, NoSenderForChannel, UpdateNotificationStatus
<1>2. /\ attempt' \in [Deliveries -> {"undelivered", "lookup", "insert", "send", "record", "ended"}]
      /\ row' \in [Deliveries -> {"none", "pending", "sent", "failed"}]
      /\ acked' \subseteq Events
      /\ \A c \in Deliveries \ {d} : attempt'[c] = attempt[c] /\ row'[c] = row[c]
  <2>0. NotificationsTypeOK
        BY DEF NotificationsInv
  <2>1. \E next \in {"record", "ended"} : attempt' = [attempt EXCEPT ![d] = next]
        BY DEF ProviderSend, NoSenderForChannel, UpdateNotificationStatus, Ack, Nak
  <2>2. row' = row \/ \E next \in {"sent", "failed"} : row' = [row EXCEPT ![d] = next]
        BY DEF ProviderSend, NoSenderForChannel, UpdateNotificationStatus
  <2>3. acked' \in {acked, acked \union {d[1]}}
        BY DEF ProviderSend, NoSenderForChannel, UpdateNotificationStatus, Ack, Nak
  <2>4. /\ attempt' \in [Deliveries -> {"undelivered", "lookup", "insert", "send", "record", "ended"}]
        /\ \A c \in Deliveries \ {d} : attempt'[c] = attempt[c]
        BY <2>0, <2>1 DEF NotificationsTypeOK
  <2>5. /\ row' \in [Deliveries -> {"none", "pending", "sent", "failed"}]
        /\ \A c \in Deliveries \ {d} : row'[c] = row[c]
        BY ZenonT(40), <2>0, <2>2 DEF NotificationsTypeOK
  <2>6. acked' \subseteq Events
        BY <1>0, <2>0, <2>3 DEF NotificationsTypeOK
  <2>q. QED BY <2>4, <2>5, <2>6
<1>a. accepted' \in [Deliveries -> BOOLEAN]
      BY DEF ProviderSend, NoSenderForChannel, UpdateNotificationStatus, NotificationsInv, NotificationsTypeOK
<1>b. \A c \in Deliveries : accepted[c] => accepted'[c]
      BY DEF ProviderSend, NoSenderForChannel, UpdateNotificationStatus, NotificationsInv, NotificationsTypeOK
<1>c. \A c \in Deliveries \ {d} : accepted'[c] = accepted[c]
      BY DEF ProviderSend, NoSenderForChannel, UpdateNotificationStatus, NotificationsInv, NotificationsTypeOK
<1>3. NotificationsTypeOK'
      BY <1>1, <1>2, <1>a DEF NotificationsInv, NotificationsTypeOK
<1>4. ASSUME NEW c \in Deliveries PROVE AttemptIsConsistent(c)'
  <2>1. CASE c # d
        BY <1>c, <1>2, <2>1 DEF NotificationsInv, AttemptIsConsistent
  <2>2. CASE c = d
    <3>1. AttemptIsConsistent(d)
          BY DEF NotificationsInv
    <3>2. CASE ProviderSend(d)
      <4>1. attempt'[d] = "record" /\ row'[d] = row[d] /\ attempt[d] = "send"
            BY <3>2 DEF ProviderSend, NotificationsInv, NotificationsTypeOK
      <4>q. QED BY <2>2, <3>1, <4>1 DEF AttemptIsConsistent
    <3>3. CASE NoSenderForChannel(d)
      <4>1. attempt'[d] = "ended" /\ row'[d] \in {row[d], "failed"} /\ attempt[d] = "send"
            BY <3>3 DEF NoSenderForChannel, Nak, NotificationsInv, NotificationsTypeOK
      <4>2. UNCHANGED accepted
            BY <3>3 DEF NoSenderForChannel
      <4>q. QED BY <2>2, <3>1, <4>1, <4>2 DEF AttemptIsConsistent
    <3>4. CASE UpdateNotificationStatus(d)
      <4>1. /\ attempt'[d] = "ended" /\ attempt[d] = "record"
            /\ row'[d] \in {row[d], IF accepted[d] THEN "sent" ELSE "failed"}
            BY <3>4 DEF UpdateNotificationStatus, Ack, Nak, NotificationsInv, NotificationsTypeOK
      <4>2. UNCHANGED accepted
            BY <3>4 DEF UpdateNotificationStatus
      <4>q. QED BY <2>2, <3>1, <4>1, <4>2 DEF AttemptIsConsistent
    <3>q. QED BY <3>2, <3>3, <3>4
  <2>q. QED BY <2>1, <2>2
<1>5. AckedIsHandled'
  <2>1. acked' = acked \/ (acked' = acked \union {d[1]} /\ accepted[d])
        BY <1>0 DEF ProviderSend, NoSenderForChannel, UpdateNotificationStatus, Ack, Nak
  <2>2. \A e \in acked, n \in 1 .. MaxDeliver : accepted[<<e, n>>] => accepted'[<<e, n>>]
        BY <1>b DEF Deliveries, NotificationsInv, NotificationsTypeOK
  <2>3. accepted[d] => accepted'[d]
        BY <1>0, <1>b
  <2>q. QED BY <1>0, <1>1, <2>1, <2>2, <2>3 DEF AckedIsHandled, NotificationsInv
<1>q. QED BY <1>3, <1>4, <1>5 DEF NotificationsInv

\* An edit of a template disturbs nothing that is logged.
LEMMA QuietLog ==
    ASSUME NotificationsInv, template' \in [Events -> {"none", "active", "unrenderable"}],
           UNCHANGED <<attempt, row, accepted, acked, spared>>
    PROVE  NotificationsInv'
<1>1. NotificationsTypeOK'
      BY DEF NotificationsInv, NotificationsTypeOK
<1>2. AckedIsHandled'
      BY DEF NotificationsInv, AckedIsHandled
<1>3. ASSUME NEW c \in Deliveries PROVE AttemptIsConsistent(c)'
      BY DEF NotificationsInv, AttemptIsConsistent
<1>q. QED BY <1>1, <1>2, <1>3 DEF NotificationsInv

\* The invariant holds in every state of the notifications service, whatever is delivered again,
\* refused, lost or stopped.
THEOREM NotificationsInvariant == NotificationsSpec => []NotificationsInv
<1>1. NotificationsInit => NotificationsInv
  <2>1. NotificationsInit => NotificationsTypeOK
        BY DEF NotificationsInit, NotificationsTypeOK
  <2>q. QED BY <2>1 DEF NotificationsInit, NotificationsInv, AckedIsHandled, AttemptIsConsistent
<1>2. NotificationsInv /\ [NotificationsNext]_notificationVars => NotificationsInv'
  <2>0. SUFFICES ASSUME NotificationsInv, [NotificationsNext]_notificationVars PROVE NotificationsInv'
        OBVIOUS
  <2>1. ASSUME NEW e \in Events, NEW content \in {"active", "unrenderable", "none"}, UpdateTemplate(e, content)
        PROVE NotificationsInv'
    <3>1. template' \in [Events -> {"none", "active", "unrenderable"}]
          BY <2>0, <2>1 DEF UpdateTemplate, NotificationsInv, NotificationsTypeOK
    <3>2. UNCHANGED <<attempt, row, accepted, acked, spared>>
          BY <2>1 DEF UpdateTemplate
    <3>q. QED BY <2>0, <3>1, <3>2, QuietLog
  <2>2. ASSUME NEW e \in Events, NEW n \in 1 .. MaxDeliver, DeliverEvent(e, n)
        PROVE NotificationsInv'
    <3>1. <<e, n>> \in Deliveries /\ attempt[<<e, n>>] = "undelivered"
          BY <2>2 DEF Deliveries, DeliverEvent
    <3>2. attempt' = [attempt EXCEPT ![<<e, n>>] = "lookup"] /\ UNCHANGED <<template, row, accepted, acked, spared>>
          BY <2>2 DEF DeliverEvent
    <3>3. NotificationsTypeOK'
          BY <2>0, <3>1, <3>2 DEF NotificationsInv, NotificationsTypeOK
    <3>5. AckedIsHandled'
          BY <2>0, <3>2 DEF NotificationsInv, AckedIsHandled
    <3>4. \A c \in Deliveries : attempt'[c] = attempt[c] \/ (attempt[c] = "undelivered" /\ attempt'[c] = "lookup")
          BY <2>0, <3>1, <3>2 DEF NotificationsInv, NotificationsTypeOK
    <3>6. ASSUME NEW c \in Deliveries PROVE AttemptIsConsistent(c)'
      <4>1. AttemptIsConsistent(c)
            BY <2>0 DEF NotificationsInv
      <4>q. QED BY <3>2, <3>4, <4>1 DEF AttemptIsConsistent
    <3>q. QED BY <3>3, <3>5, <3>6 DEF NotificationsInv
  <2>3. CASE UNCHANGED notificationVars
    <3>1. template' \in [Events -> {"none", "active", "unrenderable"}]
          BY <2>0, <2>3 DEF notificationVars, NotificationsInv, NotificationsTypeOK
    <3>q. QED BY <2>0, <2>3, <3>1, QuietLog DEF notificationVars
  <2>q. QED BY <2>0, <2>1, <2>2, <2>3, EarlyAttemptStep, LateAttemptStep DEF NotificationsNext
<1>q. QED BY <1>1, <1>2, PTL DEF NotificationsSpec

\* Send: every row of notification_log tells the truth about its own attempt, for any number of
\* events and of attempts side by side.
THEOREM LogTellsTheTruthHolds == NotificationsSpec => []LogTellsTheTruth
<1>1. NotificationsInv => LogTellsTheTruth
      BY DEF NotificationsInv, AttemptIsConsistent, LogTellsTheTruth
<1>q. QED BY <1>1, NotificationsInvariant, PTL

\* ignoreTemplateMissing: an acknowledged event was taken by the provider, or no template for it
\* could be read.
THEOREM AckedIsHandledHolds == NotificationsSpec => []AckedIsHandled
<1>1. NotificationsInv => AckedIsHandled
      BY DEF NotificationsInv
<1>q. QED BY <1>1, NotificationsInvariant, PTL

-----------------------------------------------------------------------------
(* Check-out and check-in                                                  *)

\* Requests that did not overlap ran one at a time.
OneAtATime ==
    "overlap" \notin disturbed =>
        \A g, h \in Handlers : handler[g] # Waiting /\ handler[h] # Waiting => g = h

\* Only the newest row is ever open, and while one is, the asset is not available, except
\* between the two writes of a check-out.
HeldOnce ==
    disturbed \subseteq {"in"} =>
        /\ Active \subseteq {Len(checkouts)}
        /\ asset = "available" /\ Active # {} => \E h \in Handlers : handler[h].at = "out"
        /\ \A h \in Handlers : handler[h].at \in {"insert", "in"} => Active = {}
        /\ \A h \in Handlers : handler[h].at = "return" => handler[h].row = Len(checkouts)

\* A checked-out asset without an open row is being checked in.
NotStranded ==
    disturbed \subseteq {"out"} =>
        /\ asset = "checked_out" /\ Active = {} => \E h \in Handlers : handler[h].at = "in"
        /\ \A h \in Handlers : handler[h].at = "out" => Active # {}

\* The last checkout was returned damaged.
CameBackDamaged == checkouts # <<>> /\ Len(checkouts) \in damaged

\* The status is right except between the two writes of a request, and a check-in that has
\* written its row remembers what the row says.
StatusByStage ==
    disturbed = {} =>
        /\ (\A h \in Handlers : handler[h].at \notin {"out", "in"}) =>
               /\ asset = "checked_out" <=> Active # {}
               /\ asset = "under_repair" <=> Active = {} /\ CameBackDamaged
        /\ \A h \in Handlers : handler[h].at = "in" => (handler[h].damage <=> CameBackDamaged)

\* The inductive invariant of check-out and check-in.
CheckoutInv ==
    /\ CheckoutTypeOK
    /\ \A h \in Handlers : handler[h].at = "waiting" => handler[h] = Waiting
    /\ \A h \in Handlers : handler[h].at \in {"return", "in"} => handler[h].row \in DOMAIN checkouts
    /\ OneAtATime
    /\ HeldOnce
    /\ NotStranded
    /\ StatusByStage

\* Reading the asset or the open row starts a request; one that finds another in progress is
\* recorded as an overlap.
LEMMA RequestBegins ==
    ASSUME CheckoutInv, NEW h \in Handlers, NEW next, Begin(h, next),
           next \in [at : {"insert", "return"}, row : Nat, damage : BOOLEAN],
           next.at = "insert" => asset = "available",
           next.at = "return" => next.row \in Active,
           UNCHANGED <<asset, checkouts, damaged>>
    PROVE  CheckoutInv'
<1>0. CheckoutTypeOK /\ handler[h] = Waiting /\ handler[h].at = "waiting"
      BY SMT, SMTT(30) DEF CheckoutInv, Begin, Waiting
<1>1. /\ handler'[h] = next /\ \A g \in Handlers \ {h} : handler'[g] = handler[g]
      /\ disturbed \subseteq disturbed'
      /\ "overlap" \notin disturbed' => \A g \in Handlers \ {h} : handler[g] = Waiting
      /\ next.at \in {"insert", "return"} /\ Active' = Active
      BY <1>0 DEF CheckoutTypeOK, Begin, Active
<1>2. CheckoutTypeOK'
  <2>1. handler' \in [Handlers -> [at : {"waiting", "insert", "out", "return", "in"}, row : Nat, damage : BOOLEAN]]
    <3>1. next \in [at : {"waiting", "insert", "out", "return", "in"}, row : Nat, damage : BOOLEAN]
          OBVIOUS
    <3>q. QED BY <1>0, <3>1 DEF CheckoutTypeOK, Begin
  <2>2. disturbed' \subseteq {"overlap", "out", "in"}
        BY <1>0 DEF CheckoutTypeOK, Begin
  <2>q. QED BY <1>0, <2>1, <2>2 DEF CheckoutTypeOK
<1>3. /\ \A g \in Handlers : handler'[g].at = "waiting" => handler'[g] = Waiting
      /\ \A g \in Handlers : handler'[g].at \in {"return", "in"} => handler'[g].row \in DOMAIN checkouts
      BY <1>1 DEF CheckoutInv, Active
<1>4. OneAtATime'
      BY <1>0, <1>1, SMT, SMTT(30) DEF CheckoutInv, OneAtATime
<1>5. HeldOnce'
  <2>0. SUFFICES ASSUME disturbed' \subseteq {"in"} PROVE HeldOnce'
        BY DEF HeldOnce
  <2>1. disturbed \subseteq {"in"} /\ \A g \in Handlers : handler[g].at = "waiting"
        BY <1>0, <1>1, <2>0 DEF Waiting
  <2>2. /\ Active \subseteq {Len(checkouts)}
        /\ asset = "available" => Active = {}
        BY <2>1 DEF CheckoutInv, HeldOnce
  <2>3. /\ next.at = "insert" => Active = {}
        /\ next.at = "return" => next.row = Len(checkouts)
        BY <2>2
  <2>q. QED BY <1>1, <2>1, <2>2, <2>3 DEF HeldOnce
<1>6. NotStranded'
      BY <1>0, <1>1 DEF CheckoutInv, NotStranded
<1>7. StatusByStage'
  <2>0. SUFFICES ASSUME disturbed' = {} PROVE StatusByStage'
        BY DEF StatusByStage
  <2>1. disturbed = {} /\ \A g \in Handlers : handler[g].at = "waiting"
        BY <1>0, <1>1, <2>0 DEF Waiting
  <2>2. \A g \in Handlers : handler'[g].at \in {"waiting", "insert", "return"}
        BY <1>1, <2>1
  <2>3. CameBackDamaged' <=> CameBackDamaged
        BY DEF CameBackDamaged
  <2>q. QED BY <1>1, <2>1, <2>2, <2>3 DEF CheckoutInv, StatusByStage
<1>q. QED BY <1>2, <1>3, <1>4, <1>5, <1>6, <1>7 DEF CheckoutInv

\* While nothing overlaps, the request that takes a step is the only one.
LEMMA OthersWait ==
    ASSUME CheckoutInv, "overlap" \notin disturbed, NEW h \in Handlers, handler[h].at # "waiting"
    PROVE  \A g \in Handlers \ {h} : handler[g] = Waiting /\ handler[g].at = "waiting"
<1>1. handler[h] # Waiting
      BY SMT, SMTT(30) DEF Waiting
<1>q. QED BY <1>1, SMT, SMTT(30) DEF CheckoutInv, OneAtATime, Waiting

\* The insert of the row opens it before the status says so.
LEMMA CheckoutInserted ==
    ASSUME CheckoutInv, NEW h \in Handlers, InsertCheckout(h)
    PROVE  CheckoutInv'
<1>0. CheckoutTypeOK /\ handler[h].at = "insert"
      BY DEF CheckoutInv, InsertCheckout
<1>1. handler'[h] = [handler[h] EXCEPT !.at = "out"] /\ \A g \in Handlers \ {h} : handler'[g] = handler[g]
      BY <1>0 DEF CheckoutTypeOK, InsertCheckout
<1>2. handler'[h] \in [at : {"waiting", "insert", "out", "return", "in"}, row : Nat, damage : BOOLEAN]
      /\ handler'[h].at = "out"
      BY <1>0, <1>1 DEF CheckoutTypeOK
<1>3. /\ checkouts' \in Seq({"open", "returned"}) /\ Len(checkouts) \in Nat
      /\ Len(checkouts') = Len(checkouts) + 1 /\ checkouts'[Len(checkouts) + 1] = "open"
      /\ DOMAIN checkouts = 1 .. Len(checkouts) /\ DOMAIN checkouts' = 1 .. Len(checkouts) + 1
      /\ \A i \in DOMAIN checkouts : checkouts'[i] = checkouts[i]
      BY <1>0, SMT, SMTT(30) DEF CheckoutTypeOK, InsertCheckout
<1>4. Active' = Active \union {Len(checkouts')} /\ DOMAIN checkouts \subseteq DOMAIN checkouts'
      BY <1>3, SMT, SMTT(30) DEF Active
<1>5. UNCHANGED <<asset, damaged, disturbed>>
      BY DEF InsertCheckout
<1>6. CheckoutTypeOK'
  <2>1. handler' \in [Handlers -> [at : {"waiting", "insert", "out", "return", "in"}, row : Nat, damage : BOOLEAN]]
        BY <1>0, <1>1, <1>2 DEF CheckoutTypeOK, InsertCheckout
  <2>q. QED BY <1>0, <1>3, <1>4, <1>5, <2>1 DEF CheckoutTypeOK
<1>7. /\ \A g \in Handlers : handler'[g].at = "waiting" => handler'[g] = Waiting
      /\ \A g \in Handlers : handler'[g].at \in {"return", "in"} => handler'[g].row \in DOMAIN checkouts'
      BY <1>1, <1>2, <1>4 DEF CheckoutInv
<1>8. OneAtATime'
  <2>1. \A g \in Handlers : handler'[g] # Waiting => handler[g] # Waiting
        BY <1>0, <1>1, SMT, SMTT(30) DEF Waiting
  <2>q. QED BY <1>5, <2>1 DEF CheckoutInv, OneAtATime
<1>9. HeldOnce'
  <2>0. SUFFICES ASSUME disturbed \subseteq {"in"} PROVE HeldOnce'
        BY <1>5 DEF HeldOnce
  <2>1. \A g \in Handlers : handler'[g].at \in {"waiting", "out"}
        BY <1>0, <1>1, <1>2, <2>0, OthersWait, SMT, SMTT(30)
  <2>2. Active = {}
        BY <1>0, <2>0 DEF CheckoutInv, HeldOnce
  <2>q. QED BY <1>2, <1>4, <2>1, <2>2 DEF HeldOnce
<1>10. NotStranded'
      BY <1>4 DEF NotStranded
<1>11. StatusByStage'
  <2>0. SUFFICES ASSUME disturbed = {} PROVE StatusByStage'
        BY <1>5 DEF StatusByStage
  <2>1. \A g \in Handlers : handler'[g].at # "in"
        BY <1>0, <1>1, <1>2, <2>0, OthersWait
  <2>q. QED BY <1>2, <2>1 DEF StatusByStage
<1>q. QED BY <1>6, <1>7, <1>8, <1>9, <1>10, <1>11 DEF CheckoutInv

\* The check-in writes its row, with the damage, before the status.
LEMMA CheckoutReturned ==
    ASSUME CheckoutInv, NEW h \in Handlers, ReturnCheckout(h)
    PROVE  CheckoutInv'
<1>0. CheckoutTypeOK /\ handler[h].at = "return" /\ handler[h].row \in DOMAIN checkouts
      BY DEF CheckoutInv, ReturnCheckout
<1>1. handler'[h] = [handler[h] EXCEPT !.at = "in"] /\ \A g \in Handlers \ {h} : handler'[g] = handler[g]
      BY <1>0 DEF CheckoutTypeOK, ReturnCheckout
<1>2. /\ handler'[h] \in [at : {"waiting", "insert", "out", "return", "in"}, row : Nat, damage : BOOLEAN]
      /\ handler'[h].at = "in" /\ handler'[h].row = handler[h].row
      BY <1>0, <1>1 DEF CheckoutTypeOK
<1>d. handler'[h].damage = handler[h].damage
      BY <1>0, <1>1 DEF CheckoutTypeOK
<1>3. /\ checkouts' \in Seq({"open", "returned"}) /\ Len(checkouts) \in Nat
      /\ Len(checkouts') = Len(checkouts) /\ checkouts'[handler[h].row] = "returned"
      /\ DOMAIN checkouts = 1 .. Len(checkouts) /\ DOMAIN checkouts' = DOMAIN checkouts
      /\ \A i \in DOMAIN checkouts \ {handler[h].row} : checkouts'[i] = checkouts[i]
      BY <1>0, SMT, SMTT(30) DEF CheckoutTypeOK, ReturnCheckout
<1>4. Active' = Active \ {handler[h].row}
      BY <1>3 DEF Active
<1>5. UNCHANGED <<asset, disturbed>>
      BY DEF ReturnCheckout
<1>6. CheckoutTypeOK'
  <2>1. handler' \in [Handlers -> [at : {"waiting", "insert", "out", "return", "in"}, row : Nat, damage : BOOLEAN]]
        BY <1>0, <1>1, <1>2 DEF CheckoutTypeOK, ReturnCheckout
  <2>2. damaged' \subseteq DOMAIN checkouts'
        BY <1>0, <1>3 DEF CheckoutTypeOK, ReturnCheckout
  <2>q. QED BY <1>0, <1>3, <1>5, <2>1, <2>2 DEF CheckoutTypeOK
<1>7. /\ \A g \in Handlers : handler'[g].at = "waiting" => handler'[g] = Waiting
      /\ \A g \in Handlers : handler'[g].at \in {"return", "in"} => handler'[g].row \in DOMAIN checkouts'
      BY <1>0, <1>1, <1>2, <1>3, SMT, SMTT(30) DEF CheckoutInv
<1>8. OneAtATime'
  <2>1. \A g \in Handlers : handler'[g] # Waiting => handler[g] # Waiting
        BY <1>0, <1>1, SMT, SMTT(30) DEF Waiting
  <2>q. QED BY <1>5, <2>1 DEF CheckoutInv, OneAtATime
<1>9. disturbed \subseteq {"in"} => Active' = {} /\ handler[h].row = Len(checkouts)
      BY <1>0, <1>4 DEF CheckoutInv, HeldOnce
<1>10. HeldOnce'
  <2>0. SUFFICES ASSUME disturbed \subseteq {"in"} PROVE HeldOnce'
        BY <1>5 DEF HeldOnce
  <2>1. \A g \in Handlers : handler'[g].at \in {"waiting", "in"}
        BY <1>0, <1>1, <1>2, <2>0, OthersWait, SMT, SMTT(30)
  <2>q. QED BY <1>9, <2>0, <2>1 DEF HeldOnce
<1>11. NotStranded'
  <2>0. SUFFICES ASSUME disturbed \subseteq {"out"} PROVE NotStranded'
        BY <1>5 DEF NotStranded
  <2>1. \A g \in Handlers : handler'[g].at # "out"
        BY <1>0, <1>1, <1>2, <2>0, OthersWait
  <2>q. QED BY <1>2, <2>1 DEF NotStranded
<1>12. StatusByStage'
  <2>0. SUFFICES ASSUME disturbed = {} PROVE StatusByStage'
        BY <1>5 DEF StatusByStage
  <2>1. \A g \in Handlers \ {h} : handler'[g].at = "waiting"
        BY <1>0, <1>1, <2>0, OthersWait
  <2>2. Len(checkouts') \in damaged' <=> handler[h].damage
        BY <1>3, <1>9, <2>0 DEF ReturnCheckout
  <2>3. checkouts' # <<>>
        BY <1>0, <1>3, SMT, SMTT(30)
  <2>4. handler'[h].damage <=> CameBackDamaged'
        BY <1>d, <2>2, <2>3 DEF CameBackDamaged
  <2>q. QED BY <1>2, <2>1, <2>4 DEF StatusByStage
<1>q. QED BY <1>6, <1>7, <1>8, <1>10, <1>11, <1>12 DEF CheckoutInv

\* The last write of a request makes the status agree with its row.
LEMMA StatusUpdated ==
    ASSUME CheckoutInv, NEW h \in Handlers, UpdateAssetStatus(h)
    PROVE  CheckoutInv'
<1>0. CheckoutTypeOK /\ handler[h].at \in {"out", "in"}
      BY DEF CheckoutInv, UpdateAssetStatus
<1>1. /\ handler'[h] = Waiting /\ handler'[h].at = "waiting"
      /\ \A g \in Handlers \ {h} : handler'[g] = handler[g]
      BY <1>0 DEF CheckoutTypeOK, UpdateAssetStatus, Waiting
<1>2. UNCHANGED <<checkouts, damaged, disturbed>> /\ Active' = Active
      BY DEF UpdateAssetStatus, Active
<1>3. handler[h].at = "out" => asset' = "checked_out"
      BY DEF UpdateAssetStatus
<1>4. handler[h].at = "in" => (handler[h].damage /\ asset' = "under_repair") \/ (~handler[h].damage /\ asset' = "available")
      BY DEF UpdateAssetStatus
<1>5. CheckoutTypeOK'
  <2>1. Waiting \in [at : {"waiting", "insert", "out", "return", "in"}, row : Nat, damage : BOOLEAN]
        BY DEF Waiting
  <2>2. handler' \in [Handlers -> [at : {"waiting", "insert", "out", "return", "in"}, row : Nat, damage : BOOLEAN]]
        BY <1>0, <2>1 DEF CheckoutTypeOK, UpdateAssetStatus
  <2>3. asset' \in {"available", "checked_out", "under_repair"}
        BY <1>0, <1>3, <1>4
  <2>q. QED BY <1>0, <1>2, <2>2, <2>3 DEF CheckoutTypeOK
<1>6. /\ \A g \in Handlers : handler'[g].at = "waiting" => handler'[g] = Waiting
      /\ \A g \in Handlers : handler'[g].at \in {"return", "in"} => handler'[g].row \in DOMAIN checkouts'
      BY <1>1, <1>2 DEF CheckoutInv
<1>7. OneAtATime'
      BY <1>1, <1>2 DEF CheckoutInv, OneAtATime
<1>8. "overlap" \notin disturbed => \A g \in Handlers : handler'[g].at = "waiting"
      BY ZenonT(40), <1>0, <1>1, OthersWait
<1>9. HeldOnce'
  <2>0. SUFFICES ASSUME disturbed \subseteq {"in"} PROVE HeldOnce'
        BY <1>2 DEF HeldOnce
  <2>1. asset' = "available" => Active = {}
        BY <1>0, <1>3, <2>0 DEF CheckoutInv, HeldOnce
  <2>2. Active \subseteq {Len(checkouts)}
        BY <2>0 DEF CheckoutInv, HeldOnce
  <2>3. \A g \in Handlers : handler'[g].at = "waiting"
        BY <1>8, <2>0
  <2>q. QED BY <1>2, <2>1, <2>2, <2>3 DEF HeldOnce
<1>10. NotStranded'
  <2>0. SUFFICES ASSUME disturbed \subseteq {"out"} PROVE NotStranded'
        BY <1>2 DEF NotStranded
  <2>1. asset' = "checked_out" => Active # {}
        BY <1>0, <1>4, <2>0 DEF CheckoutInv, NotStranded
  <2>2. \A g \in Handlers : handler'[g].at = "waiting"
        BY <1>8, <2>0
  <2>q. QED BY <1>2, <2>1, <2>2 DEF NotStranded
<1>11. StatusByStage'
  <2>0. SUFFICES ASSUME disturbed = {} PROVE StatusByStage'
        BY <1>2 DEF StatusByStage
  <2>1. \A g \in Handlers : handler'[g].at = "waiting"
        BY <1>8, <2>0
  <2>2. CameBackDamaged' <=> CameBackDamaged
        BY <1>2 DEF CameBackDamaged
  <2>3. CASE handler[h].at = "out"
    <3>1. Active # {}
          BY <2>0, <2>3 DEF CheckoutInv, NotStranded
    <3>2. asset' = "checked_out" /\ Active' # {}
          BY <1>2, <1>3, <2>3, <3>1
    <3>q. QED BY <2>1, <3>2 DEF StatusByStage
  <2>4. CASE handler[h].at = "in"
    <3>1. Active' = {}
          BY <1>2, <2>0, <2>4 DEF CheckoutInv, HeldOnce
    <3>2. handler[h].damage <=> CameBackDamaged
          BY <2>0, <2>4 DEF CheckoutInv, StatusByStage
    <3>3. (CameBackDamaged' /\ asset' = "under_repair") \/ (~CameBackDamaged' /\ asset' = "available")
          BY <1>4, <2>2, <2>4, <3>2
    <3>q. QED BY <2>1, <3>1, <3>3 DEF StatusByStage
  <2>q. QED BY <1>0, <2>3, <2>4
<1>q. QED BY <1>5, <1>6, <1>7, <1>9, <1>10, <1>11 DEF CheckoutInv

\* A request that stops between its two writes is recorded as such; anywhere else it leaves
\* nothing behind.
LEMMA RequestStopped ==
    ASSUME CheckoutInv, NEW h \in Handlers, RequestStops(h)
    PROVE  CheckoutInv'
<1>0. CheckoutTypeOK /\ handler[h].at # "waiting"
      BY DEF CheckoutInv, RequestStops
<1>1. /\ handler'[h] = Waiting /\ handler'[h].at = "waiting"
      /\ \A g \in Handlers \ {h} : handler'[g] = handler[g]
      BY <1>0 DEF CheckoutTypeOK, RequestStops, Waiting
<1>2. UNCHANGED <<asset, checkouts, damaged>> /\ Active' = Active
      BY DEF RequestStops, Active
<1>3. /\ disturbed \subseteq disturbed' /\ ("overlap" \in disturbed' <=> "overlap" \in disturbed)
      /\ handler[h].at \in {"out", "in"} => handler[h].at \in disturbed'
      BY DEF RequestStops
<1>5. CheckoutTypeOK'
  <2>1. Waiting \in [at : {"waiting", "insert", "out", "return", "in"}, row : Nat, damage : BOOLEAN]
        BY DEF Waiting
  <2>2. handler' \in [Handlers -> [at : {"waiting", "insert", "out", "return", "in"}, row : Nat, damage : BOOLEAN]]
        BY <1>0, <2>1 DEF CheckoutTypeOK, RequestStops
  <2>3. disturbed' \subseteq {"overlap", "out", "in"}
        BY <1>0 DEF CheckoutTypeOK, RequestStops
  <2>q. QED BY <1>0, <1>2, <2>2, <2>3 DEF CheckoutTypeOK
<1>6. /\ \A g \in Handlers : handler'[g].at = "waiting" => handler'[g] = Waiting
      /\ \A g \in Handlers : handler'[g].at \in {"return", "in"} => handler'[g].row \in DOMAIN checkouts'
      BY <1>1, <1>2 DEF CheckoutInv
<1>7. OneAtATime'
      BY <1>1, <1>3 DEF CheckoutInv, OneAtATime
<1>8. "overlap" \notin disturbed => \A g \in Handlers : g # h => handler[g].at = "waiting"
      BY <1>0, OthersWait
<1>9. HeldOnce'
  <2>0. SUFFICES ASSUME disturbed' \subseteq {"in"} PROVE HeldOnce'
        BY DEF HeldOnce
  <2>1. /\ disturbed \subseteq {"in"} /\ handler[h].at # "out"
        /\ \A g \in Handlers : handler[g].at # "out" /\ handler'[g].at = "waiting"
        BY <1>1, <1>3, <1>8, <2>0
  <2>q. QED BY <1>2, <2>1 DEF CheckoutInv, HeldOnce
<1>10. NotStranded'
  <2>0. SUFFICES ASSUME disturbed' \subseteq {"out"} PROVE NotStranded'
        BY DEF NotStranded
  <2>1. /\ disturbed \subseteq {"out"} /\ handler[h].at # "in"
        /\ \A g \in Handlers : handler[g].at # "in" /\ handler'[g].at = "waiting"
        BY <1>1, <1>3, <1>8, <2>0
  <2>q. QED BY <1>2, <2>1 DEF CheckoutInv, NotStranded
<1>11. StatusByStage'
  <2>0. SUFFICES ASSUME disturbed' = {} PROVE StatusByStage'
        BY DEF StatusByStage
  <2>1. /\ disturbed = {} /\ handler[h].at \notin {"out", "in"}
        /\ \A g \in Handlers : handler[g].at \notin {"out", "in"} /\ handler'[g].at = "waiting"
        BY <1>1, <1>3, <1>8, <2>0
  <2>2. CameBackDamaged' <=> CameBackDamaged
        BY <1>2 DEF CameBackDamaged
  <2>q. QED BY <1>2, <2>1, <2>2 DEF CheckoutInv, StatusByStage
<1>q. QED BY <1>5, <1>6, <1>7, <1>9, <1>10, <1>11 DEF CheckoutInv

\* The invariant holds in every state of check-out and check-in, however requests overlap or stop.
THEOREM CheckoutInvariant == CheckoutSpec => []CheckoutInv
<1>1. CheckoutInit => CheckoutInv
  <2>0. SUFFICES ASSUME CheckoutInit PROVE CheckoutInv
        OBVIOUS
  <2>1. CheckoutTypeOK
        BY <2>0, SMT, SMTT(30) DEF CheckoutInit, CheckoutTypeOK, Waiting
  <2>2. /\ Active = {} /\ asset = "available" /\ checkouts = <<>>
        /\ \A h \in Handlers : handler[h] = Waiting /\ handler[h].at = "waiting"
        BY <2>0, SMT, SMTT(30) DEF CheckoutInit, Active, Waiting
  <2>q. QED BY <2>1, <2>2 DEF CheckoutInv, OneAtATime, HeldOnce, NotStranded, StatusByStage, CameBackDamaged
<1>2. CheckoutInv /\ [CheckoutNext]_checkoutVars => CheckoutInv'
  <2>0. SUFFICES ASSUME CheckoutInv, [CheckoutNext]_checkoutVars PROVE CheckoutInv'
        OBVIOUS
  <2>1. ASSUME NEW h \in Handlers, CheckOutAsset(h) PROVE CheckoutInv'
    <3>1. /\ [Waiting EXCEPT !.at = "insert"] \in [at : {"insert", "return"}, row : Nat, damage : BOOLEAN]
          /\ [Waiting EXCEPT !.at = "insert"].at = "insert"
          BY DEF Waiting
    <3>2. /\ Begin(h, [Waiting EXCEPT !.at = "insert"]) /\ asset = "available"
          /\ UNCHANGED <<asset, checkouts, damaged>>
          BY <2>1 DEF CheckOutAsset
    <3>q. QED BY <2>0, <3>1, <3>2, RequestBegins
  <2>2. ASSUME NEW h \in Handlers, NEW i \in 1 .. MaxCheckouts, NEW damage \in BOOLEAN, CheckInAsset(h, i, damage)
        PROVE CheckoutInv'
    <3>1. [at |-> "return", row |-> i, damage |-> damage] \in [at : {"insert", "return"}, row : Nat, damage : BOOLEAN]
          BY SMT, SMTT(30)
    <3>2. /\ Begin(h, [at |-> "return", row |-> i, damage |-> damage]) /\ i \in Active
          /\ UNCHANGED <<asset, checkouts, damaged>>
          BY <2>2 DEF CheckInAsset
    <3>q. QED BY <2>0, <3>1, <3>2, RequestBegins
  <2>3. CASE UNCHANGED checkoutVars
    <3>1. CheckoutTypeOK' /\ Active' = Active /\ (CameBackDamaged' <=> CameBackDamaged)
          BY <2>0, <2>3 DEF checkoutVars, CheckoutInv, CheckoutTypeOK, Active, CameBackDamaged
    <3>q. QED BY <2>0, <2>3, <3>1 DEF checkoutVars, CheckoutInv, OneAtATime, HeldOnce, NotStranded, StatusByStage
  <2>q. QED BY <2>0, <2>1, <2>2, <2>3, CheckoutInserted, CheckoutReturned, StatusUpdated, RequestStopped
            DEF CheckoutNext
<1>q. QED BY <1>1, <1>2, PTL DEF CheckoutSpec

\* CheckOutAsset and CheckInAsset: between undisturbed requests the status says whether the asset
\* is out and whether it came back damaged, for any number of requests and rows.
THEOREM StatusAgreesHolds == CheckoutSpec => []StatusAgrees
<1>1. CheckoutInv => StatusAgrees
      BY SMT, SMTT(30) DEF CheckoutInv, StatusByStage, StatusAgrees, Quiet, Waiting, CameBackDamaged
<1>q. QED BY <1>1, CheckoutInvariant, PTL

\* CheckOutAsset: an asset has one holder unless requests overlapped or a check-out stopped
\* between its writes; a check-in that stops there does no such harm.
THEOREM OneHolderHolds == CheckoutSpec => []OneHolder
<1>1. CheckoutInv => OneHolder
  <2>0. SUFFICES ASSUME CheckoutInv, disturbed \subseteq {"in"} PROVE Cardinality(Active) <= 1
        BY DEF OneHolder
  <2>1. Active \subseteq {Len(checkouts)}
        BY <2>0 DEF CheckoutInv, HeldOnce
  <2>2. IsFiniteSet({Len(checkouts)}) /\ Cardinality({Len(checkouts)}) = 1
        BY FS_Singleton
  <2>q. QED BY <2>1, <2>2, FS_Subset
<1>q. QED BY <1>1, CheckoutInvariant, PTL

\* CheckInAsset: only a check-in that stopped after its row, or an overlap, leaves an asset checked
\* out with nothing to check in.
THEOREM StrandedByCheckInHolds == CheckoutSpec => []StrandedByCheckIn
<1>1. CheckoutInv => StrandedByCheckIn
  <2>0. SUFFICES ASSUME CheckoutInv, disturbed \intersect {"overlap", "in"} = {}, Quiet,
                        asset = "checked_out", Active = {}
                 PROVE  FALSE
        BY DEF StrandedByCheckIn
  <2>1. disturbed \subseteq {"out"}
        BY <2>0 DEF CheckoutInv, CheckoutTypeOK
  <2>2. \A h \in Handlers : handler[h].at = "waiting"
        BY <2>0, SMT, SMTT(30) DEF Quiet, Waiting
  <2>q. QED BY <2>0, <2>1, <2>2 DEF CheckoutInv, NotStranded
<1>q. QED BY <1>1, CheckoutInvariant, PTL

-----------------------------------------------------------------------------
(* Documents                                                               *)

\* Storage still holds the upload of that size under the key, if only one URL was given out for it.
Holds(key, size) == size > 0 /\ (key \notin reissued => objects[key] = size)

\* A call that is to record a size has it from the object; every key it goes on with exists.
CallIsSound(k) ==
    /\ k.op # "none" => k.doc.key \in Versions /\ k.doc.version \in Versions
    /\ k.op \in {"uploadUpdate", "uploadVersion"} => Holds(k.doc.key, k.size)
    /\ k.op \in {"versionStat", "versionInsert", "versionUpdate"} => k.version \in Versions
    /\ k.op = "versionInsert" => Holds(k.version, k.size)

\* A key with one URL has either the URL or the object, never both.
OneURL == \A k \in Versions \ reissued : urls[k] <= 1 /\ (objects[k] > 0 => urls[k] = 0)

\* The object of every version is in the store.
RowsAreHeld == \A v \in Recorded : versions[v].key \in Versions /\ Holds(versions[v].key, versions[v].size)

\* The inductive invariant of the objects.
DocumentsInv ==
    /\ DocumentsTypeOK
    /\ OneURL
    /\ \A c \in Callers : CallIsSound(caller[c])
    /\ RowsAreHeld

\* What a step may do to storage: an object is replaced only under a key with several URLs.
StoreKept ==
    /\ reissued \subseteq reissued'
    /\ \A k \in Versions \ reissued' : objects'[k] = objects[k] \/ objects[k] = 0

\* Such a step leaves the calls and the rows as sound as they were.
LEMMA StoreStepKeeps ==
    ASSUME DocumentsInv, StoreKept, DocumentsTypeOK', OneURL', UNCHANGED <<versions, caller>>
    PROVE  DocumentsInv'
<1>1. ASSUME NEW key \in Versions, NEW size \in Nat, Holds(key, size) PROVE Holds(key, size)'
      BY <1>1, SMT, SMTT(30) DEF StoreKept, Holds
<1>2. ASSUME NEW c \in Callers PROVE CallIsSound(caller[c])'
  <2>1. CallIsSound(caller[c]) /\ caller[c] \in Call /\ caller'[c] = caller[c]
        BY DEF DocumentsInv, DocumentsTypeOK
  <2>2. caller[c].size \in Nat
        BY <2>1, DocumentsAssumption, SMT, SMTT(30) DEF Call
  <2>3. caller[c].op \in {"uploadUpdate", "uploadVersion"} => Holds(caller[c].doc.key, caller[c].size)'
        BY <1>1, <2>1, <2>2 DEF CallIsSound, Holds
  <2>4. caller[c].op = "versionInsert" => Holds(caller[c].version, caller[c].size)'
        BY <1>1, <2>1, <2>2 DEF CallIsSound, Holds
  <2>q. QED BY <2>1, <2>3, <2>4 DEF CallIsSound
<1>3. RowsAreHeld'
  <2>0. SUFFICES ASSUME NEW v \in Recorded
                 PROVE  (versions[v].key \in Versions /\ Holds(versions[v].key, versions[v].size))'
        BY DEF RowsAreHeld, Recorded
  <2>1. versions[v].key \in Versions /\ Holds(versions[v].key, versions[v].size) /\ versions[v].size \in Nat
        BY DocumentsAssumption, SMT, SMTT(30) DEF DocumentsInv, DocumentsTypeOK, RowsAreHeld, Recorded
  <2>2. versions'[v] = versions[v]
        OBVIOUS
  <2>q. QED BY <1>1, <2>1, <2>2 DEF Holds
<1>q. QED BY <1>2, <1>3 DEF DocumentsInv

\* A URL for a key that has one, or an object, makes the key a reissued one.
LEMMA URLIssued ==
    ASSUME DocumentsInv, NEW key \in Versions, PresignedPutURL(key), UNCHANGED <<versions, objects, uploads, caller, behind>>,
           doc' \in Document, doc' # NoDocument => {doc'.version, doc'.key} \subseteq Versions, UNCHANGED deleted
    PROVE  DocumentsInv'
<1>0. urls \in [Versions -> 0 .. 2] /\ objects \in [Versions -> Nat] /\ reissued \subseteq Versions
      BY DocumentsAssumption, SMT, SMTT(30) DEF DocumentsInv, DocumentsTypeOK
<1>1. urls' = [urls EXCEPT ![key] = urls[key] + 1] /\ urls[key] < 2
      BY DEF PresignedPutURL
<1>2. urls' \in [Versions -> 0 .. 2] /\ reissued' \subseteq Versions
      BY <1>0, <1>1, SMT, SMTT(30) DEF PresignedPutURL
<1>3. DocumentsTypeOK'
      BY <1>2 DEF DocumentsInv, DocumentsTypeOK
<1>4. StoreKept
      BY DEF StoreKept, PresignedPutURL
<1>5. OneURL'
  <2>1. ASSUME NEW k \in Versions \ reissued' PROVE urls'[k] <= 1 /\ (objects'[k] > 0 => urls'[k] = 0)
    <3>1. k \notin reissued
          BY DEF PresignedPutURL
    <3>2. CASE k = key
      <4>1. urls[key] = 0 /\ objects[key] = 0
            BY <1>0, <2>1, <3>2, SMT, SMTT(30) DEF PresignedPutURL
      <4>q. QED BY <1>0, <1>1, <3>2, <4>1, SMT, SMTT(30)
    <3>3. CASE k # key
          BY <1>0, <1>1, <3>1, <3>3 DEF DocumentsInv, OneURL
    <3>q. QED BY <3>2, <3>3
  <2>q. QED BY <2>1 DEF OneURL
<1>q. QED BY <1>3, <1>4, <1>5, StoreStepKeeps

\* A PUT uses its URL up, so it is the only one for a key that was given one.
LEMMA URLUsed ==
    ASSUME DocumentsInv, NEW key \in Versions, Put(key) \/ URLExpires(key)
    PROVE  DocumentsInv'
<1>0. /\ urls \in [Versions -> 0 .. 2] /\ objects \in [Versions -> 0 .. MaxUploads] /\ uploads \in 0 .. MaxUploads
      /\ urls[key] > 0 /\ urls' = [urls EXCEPT ![key] = urls[key] - 1]
      /\ UNCHANGED <<doc, deleted, versions, caller, reissued, behind>>
      BY DEF DocumentsInv, DocumentsTypeOK, Put, URLExpires
<1>1. urls' \in [Versions -> 0 .. 2] /\ \A k \in Versions : urls'[k] <= urls[k]
      BY <1>0, SMT, SMTT(30)
<1>2. /\ objects' \in [Versions -> 0 .. MaxUploads] /\ uploads' \in 0 .. MaxUploads
      /\ \A k \in Versions \ {key} : objects'[k] = objects[k]
      BY <1>0, DocumentsAssumption, SMT, SMTT(30) DEF Put, URLExpires
<1>3. DocumentsTypeOK'
      BY <1>0, <1>1, <1>2 DEF DocumentsInv, DocumentsTypeOK
<1>4. key \notin reissued => urls[key] = 1 /\ objects[key] = 0
      BY <1>0, DocumentsAssumption, SMT, SMTT(30) DEF DocumentsInv, OneURL
<1>5. StoreKept
      BY <1>0, <1>2, <1>4 DEF StoreKept
<1>6. OneURL'
  <2>1. ASSUME NEW k \in Versions \ reissued PROVE urls'[k] <= 1 /\ (objects'[k] > 0 => urls'[k] = 0)
    <3>1. CASE k = key
          BY <1>0, <1>4, <2>1, <3>1, SMT, SMTT(30)
    <3>2. CASE k # key
          BY <1>0, <1>2, <3>2 DEF DocumentsInv, OneURL
    <3>q. QED BY <3>1, <3>2
  <2>q. QED BY <1>0, <2>1 DEF OneURL
<1>q. QED BY <1>0, <1>3, <1>5, <1>6, StoreStepKeeps

\* Steps that leave storage alone have only their own call and row to answer for.
LEMMA CallStepKeeps ==
    ASSUME DocumentsInv, UNCHANGED <<objects, urls, uploads, reissued>>,
           caller' \in [Callers -> Call], \A c \in Callers : CallIsSound(caller'[c]),
           doc' \in Document, doc' # NoDocument => {doc'.version, doc'.key} \subseteq Versions,
           deleted' \in BOOLEAN, behind' \subseteq {"restored", "stopped", "overtaken"},
           versions' \in [Versions -> [key : 0 .. MaxVersion, size : 0 .. MaxUploads]],
           \A v \in Versions : versions'[v] = versions[v]
                               \/ (versions'[v].key \in Versions /\ Holds(versions'[v].key, versions'[v].size))
    PROVE  DocumentsInv'
<1>1. DocumentsTypeOK'
      BY DEF DocumentsInv, DocumentsTypeOK
<1>2. OneURL'
      BY DEF DocumentsInv, OneURL
<1>3. ASSUME NEW c \in Callers PROVE CallIsSound(caller[c])'
      BY DEF CallIsSound, Holds
<1>4. RowsAreHeld'
  <2>0. SUFFICES ASSUME NEW v \in Versions, versions'[v] # NoVersion
                 PROVE  versions'[v].key \in Versions /\ Holds(versions'[v].key, versions'[v].size)
        BY DEF RowsAreHeld, Recorded, Holds
  <2>q. QED BY <2>0 DEF DocumentsInv, RowsAreHeld, Recorded
<1>q. QED BY <1>1, <1>2, <1>3, <1>4 DEF DocumentsInv

\* One call moves on, the others and the document are as they were.
LEMMA OneCallMoves ==
    ASSUME DocumentsInv, UNCHANGED <<objects, urls, uploads, reissued, doc, versions>>,
           NEW c \in Callers, NEW k \in Call, CallIsSound(k), caller' = [caller EXCEPT ![c] = k],
           deleted' \in BOOLEAN, behind' \subseteq {"restored", "stopped", "overtaken"}
    PROVE  DocumentsInv'
<1>1. /\ caller \in [Callers -> Call] /\ \A d \in Callers : CallIsSound(caller[d])
      /\ doc \in Document /\ (doc # NoDocument => {doc.version, doc.key} \subseteq Versions)
      /\ versions \in [Versions -> [key : 0 .. MaxVersion, size : 0 .. MaxUploads]]
      BY DEF DocumentsInv, DocumentsTypeOK
<1>2. caller' \in [Callers -> Call] /\ \A d \in Callers : CallIsSound(caller'[d])
      BY <1>1
<1>q. QED BY <1>1, <1>2, CallStepKeeps

\* A call at rest has nothing to be sound about.
LEMMA RestingIsSound == Resting \in Call /\ CallIsSound(Resting) /\ Resting.op = "none"
<1>1. NoDocument \in Document
      BY DocumentsAssumption, SMT, SMTT(30) DEF NoDocument, Document
<1>2. Resting \in Call /\ Resting.op = "none"
      BY <1>1, DocumentsAssumption, SMT, SMTT(30) DEF Resting, Working, Call
<1>q. QED BY <1>2 DEF CallIsSound

\* The calls that read the row: the keys they go on with are the row's, or a recorded version's.
LEMMA CallBegins ==
    ASSUME DocumentsInv, NEW c \in Callers, doc # NoDocument,
           NEW op \in {"uploadStat", "moveUpdate", "softDelete", "versionStat", "restoreUpdate"},
           NEW d \in Document, d.key \in Versions, d.version \in Versions,
           NEW v \in 0 .. MaxVersion, op = "versionStat" => v \in Versions,
           caller' = [caller EXCEPT ![c] = [op |-> op, doc |-> d, version |-> v, size |-> 0, stale |-> FALSE]],
           UNCHANGED <<doc, deleted, versions, objects, urls, uploads, reissued, behind>>
    PROVE  DocumentsInv'
<1>1. PICK k : k = [op |-> op, doc |-> d, version |-> v, size |-> 0, stale |-> FALSE]
      OBVIOUS
<1>2. k \in Call /\ k.op = op /\ k.doc = d /\ k.version = v
      BY <1>1, DocumentsAssumption, SMT, SMTT(30) DEF Call
<1>3. CallIsSound(k)
      BY <1>2 DEF CallIsSound
<1>4. deleted' \in BOOLEAN /\ behind' \subseteq {"restored", "stopped", "overtaken"}
      BY DEF DocumentsInv, DocumentsTypeOK
<1>q. QED BY <1>1, <1>2, <1>3, <1>4, OneCallMoves

\* Every action that starts a call is one of those.
LEMMA CallsBegin ==
    ASSUME DocumentsInv, NEW c \in Callers,
           \/ ConfirmUpload(c) \/ DeleteDocument(c)
           \/ \E f \in Folders : MoveDocument(c, f)
           \/ \E v \in Versions : ConfirmVersion(c, v) \/ RestoreVersion(c, v)
    PROVE  DocumentsInv'
<1>0. DocumentsTypeOK /\ doc # NoDocument /\ doc \in Document /\ doc.key \in Versions /\ doc.version \in Versions
      BY DEF DocumentsInv, DocumentsTypeOK, ConfirmUpload, DeleteDocument, MoveDocument, ConfirmVersion,
             RestoreVersion, GetDocument
<1>1. UNCHANGED <<doc, deleted, versions, objects, urls, uploads, reissued, behind>>
      BY DEF ConfirmUpload, DeleteDocument, MoveDocument, ConfirmVersion, RestoreVersion
<1>4. 0 \in 0 .. MaxVersion /\ 1 \in 0 .. MaxVersion /\ Versions \subseteq 0 .. MaxVersion
      BY DocumentsAssumption, SMT, SMTT(30) DEF Versions
<1>5. CASE ConfirmUpload(c)
  <2>1. caller' = [caller EXCEPT ![c] = [op |-> "uploadStat", doc |-> doc, version |-> 1, size |-> 0, stale |-> FALSE]]
        BY <1>5 DEF ConfirmUpload, GetDocument, Working
  <2>q. QED BY <1>0, <1>1, <1>4, <2>1, CallBegins
<1>6. CASE DeleteDocument(c)
  <2>1. caller' = [caller EXCEPT ![c] = [op |-> "softDelete", doc |-> doc, version |-> 0, size |-> 0, stale |-> FALSE]]
        BY <1>6 DEF DeleteDocument, GetDocument, Working
  <2>q. QED BY <1>0, <1>1, <1>4, <2>1, CallBegins
<1>7. ASSUME NEW f \in Folders, MoveDocument(c, f) PROVE DocumentsInv'
  <2>1. PICK d : d = [doc EXCEPT !.folder = f]
        OBVIOUS
  <2>2. d \in Document /\ d.key = doc.key /\ d.version = doc.version
        BY <1>0, <2>1 DEF Document
  <2>3. caller' = [caller EXCEPT ![c] = [op |-> "moveUpdate", doc |-> d, version |-> 0, size |-> 0, stale |-> FALSE]]
        BY <1>7, <2>1 DEF MoveDocument, Working
  <2>q. QED BY <1>0, <1>1, <1>4, <2>2, <2>3, CallBegins
<1>8. ASSUME NEW v \in Versions, ConfirmVersion(c, v) PROVE DocumentsInv'
  <2>1. caller' = [caller EXCEPT ![c] = [op |-> "versionStat", doc |-> doc, version |-> v, size |-> 0, stale |-> FALSE]]
        BY <1>8 DEF ConfirmVersion, GetDocument, Working
  <2>q. QED BY <1>0, <1>1, <1>4, <2>1, CallBegins
<1>9. ASSUME NEW v \in Versions, RestoreVersion(c, v) PROVE DocumentsInv'
  <2>1. PICK d : d = [doc EXCEPT !.version = v, !.key = versions[v].key, !.size = versions[v].size]
        OBVIOUS
  <2>2. v \in Recorded /\ versions[v].key \in Versions /\ versions[v].size \in 0 .. MaxUploads
        BY <1>0, <1>9 DEF RestoreVersion, Recorded, DocumentsInv, RowsAreHeld, DocumentsTypeOK
  <2>3. d \in Document /\ d.key = versions[v].key /\ d.version = v
        BY <1>0, <1>4, <2>1, <2>2 DEF Document
  <2>4. caller' = [caller EXCEPT ![c] = [op |-> "restoreUpdate", doc |-> d, version |-> 0, size |-> 0, stale |-> FALSE]]
        BY <1>9, <2>1 DEF RestoreVersion, Working
  <2>q. QED BY <1>0, <1>1, <1>4, <2>2, <2>3, <2>4, CallBegins
<1>q. QED BY <1>5, <1>6, <1>7, <1>8, <1>9

\* Stat takes the size from the object that is there.
LEMMA StatKeeps ==
    ASSUME DocumentsInv, NEW c \in Callers, UploadStat(c) \/ VersionStat(c)
    PROVE  DocumentsInv'
<1>0. /\ caller[c] \in Call /\ CallIsSound(caller[c]) /\ objects \in [Versions -> 0 .. MaxUploads]
      /\ deleted \in BOOLEAN /\ behind \subseteq {"restored", "stopped", "overtaken"}
      BY DEF DocumentsInv, DocumentsTypeOK
<1>1. UNCHANGED <<doc, deleted, versions, objects, urls, uploads, reissued, behind>>
      BY DEF UploadStat, VersionStat, Stat
<1>2. CASE caller' = [caller EXCEPT ![c] = Resting]
      BY <1>0, <1>1, <1>2, RestingIsSound, OneCallMoves
<1>3. ASSUME NEW key \in Versions, NEW next \in {"uploadUpdate", "versionInsert"}, objects[key] # 0,
             caller' = [caller EXCEPT ![c].size = objects[key], ![c].op = next],
             caller[c].op # "none",
             next = "uploadUpdate" => key = caller[c].doc.key,
             next = "versionInsert" => key = caller[c].version
      PROVE  DocumentsInv'
  <2>1. PICK k : k = [caller[c] EXCEPT !.size = objects[key], !.op = next]
        OBVIOUS
  <2>2. /\ k \in Call /\ k.op = next /\ k.size = objects[key]
        /\ k.doc = caller[c].doc /\ k.version = caller[c].version
        BY <1>0, <2>1 DEF Call
  <2>3. Holds(key, objects[key])
        BY <1>0, <1>3, DocumentsAssumption, SMT, SMTT(30) DEF Holds
  <2>4. CallIsSound(k)
    <3>1. k.doc.key \in Versions /\ k.doc.version \in Versions
          BY <1>0, <1>3, <2>2 DEF CallIsSound
    <3>q. QED BY <1>3, <2>2, <2>3, <3>1 DEF CallIsSound
  <2>5. caller' = [caller EXCEPT ![c] = k]
        BY <1>3, <2>1 DEF DocumentsInv, DocumentsTypeOK
  <2>q. QED BY <1>0, <1>1, <2>2, <2>4, <2>5, OneCallMoves
<1>4. CASE UploadStat(c)
  <2>1. caller[c].op = "uploadStat" /\ caller[c].doc.key \in Versions
        BY <1>0, <1>4 DEF UploadStat, CallIsSound
  <2>2. \/ caller' = [caller EXCEPT ![c] = Resting]
        \/ /\ caller' = [caller EXCEPT ![c].size = objects[caller[c].doc.key], ![c].op = "uploadUpdate"]
           /\ objects[caller[c].doc.key] # 0
        BY <1>4 DEF UploadStat, Stat
  <2>q. QED BY <1>2, <1>3, <2>1, <2>2
<1>5. CASE VersionStat(c)
  <2>1. caller[c].op = "versionStat" /\ caller[c].version \in Versions
        BY <1>0, <1>5 DEF VersionStat, CallIsSound
  <2>2. \/ caller' = [caller EXCEPT ![c] = Resting]
        \/ /\ caller' = [caller EXCEPT ![c].size = objects[caller[c].version], ![c].op = "versionInsert"]
           /\ objects[caller[c].version] # 0
        BY <1>5 DEF VersionStat, Stat
  <2>q. QED BY <1>2, <1>3, <2>1, <2>2
<1>q. QED BY <1>4, <1>5

\* A call that returns, having deleted the document or stopped.
LEMMA CallEnds ==
    ASSUME DocumentsInv, NEW c \in Callers, SoftDeleteDocument(c) \/ CallStops(c)
    PROVE  DocumentsInv'
<1>1. /\ caller' = [caller EXCEPT ![c] = Resting] /\ UNCHANGED <<doc, versions, objects, urls, uploads, reissued>>
      BY DEF SoftDeleteDocument, CallStops, Return
<1>2. deleted' \in BOOLEAN
      BY DEF SoftDeleteDocument, CallStops, DocumentsInv, DocumentsTypeOK
<1>3. behind' \subseteq {"restored", "stopped", "overtaken"}
      BY DEF SoftDeleteDocument, CallStops, DocumentsInv, DocumentsTypeOK
<1>q. QED BY <1>1, <1>2, <1>3, RestingIsSound, OneCallMoves

\* The rows of document_versions are written with the key and the size of the object.
LEMMA VersionRowKeeps ==
    ASSUME DocumentsInv, NEW c \in Callers, UploadVersion(c) \/ VersionInsert(c)
    PROVE  DocumentsInv'
<1>0. /\ caller \in [Callers -> Call] /\ (\A d \in Callers : CallIsSound(caller[d]))
      /\ doc \in Document /\ (doc # NoDocument => {doc.version, doc.key} \subseteq Versions)
      /\ versions \in [Versions -> [key : 0 .. MaxVersion, size : 0 .. MaxUploads]]
      /\ deleted \in BOOLEAN /\ behind \subseteq {"restored", "stopped", "overtaken"}
      /\ 1 \in Versions
      BY DocumentsAssumption, SMT, SMTT(30) DEF DocumentsInv, DocumentsTypeOK, Versions
<1>1. UNCHANGED <<doc, deleted, objects, urls, uploads, reissued, behind>>
      BY DEF UploadVersion, VersionInsert
<1>2. ASSUME NEW v \in Versions, NEW key \in Versions, NEW size \in 0 .. MaxUploads, Holds(key, size),
             InsertVersion(v, key, size), NEW k \in Call, CallIsSound(k), caller' = [caller EXCEPT ![c] = k]
      PROVE  DocumentsInv'
  <2>1. caller' \in [Callers -> Call] /\ \A d \in Callers : CallIsSound(caller'[d])
        BY <1>0, <1>2
  <2>2. [key |-> key, size |-> size] \in [key : 0 .. MaxVersion, size : 0 .. MaxUploads]
        BY DocumentsAssumption, SMT, SMTT(30) DEF Versions
  <2>3. versions' \in [Versions -> [key : 0 .. MaxVersion, size : 0 .. MaxUploads]]
        BY <1>0, <1>2, <2>2 DEF InsertVersion
  <2>4. \A w \in Versions : versions'[w] = versions[w]
                            \/ (versions'[w].key \in Versions /\ Holds(versions'[w].key, versions'[w].size))
    <3>1. \A w \in Versions : versions'[w] = versions[w] \/ versions'[w] = [key |-> key, size |-> size]
          BY <1>0, <1>2 DEF InsertVersion
    <3>2. [key |-> key, size |-> size].key = key /\ [key |-> key, size |-> size].size = size
          OBVIOUS
    <3>q. QED BY <1>2, <3>1, <3>2
  <2>q. QED BY <1>0, <1>1, <2>1, <2>3, <2>4, CallStepKeeps
<1>3. caller[c].size \in 0 .. MaxUploads
      BY <1>0 DEF Call
<1>4. CASE UploadVersion(c)
  <2>1. Holds(caller[c].doc.key, caller[c].size) /\ caller[c].doc.key \in Versions
        BY <1>0, <1>4 DEF UploadVersion, CallIsSound
  <2>2. InsertVersion(1, caller[c].doc.key, caller[c].size) /\ caller' = [caller EXCEPT ![c] = Resting]
        BY <1>4 DEF UploadVersion, Return
  <2>q. QED BY <1>0, <1>2, <1>3, <2>1, <2>2, RestingIsSound
<1>5. CASE VersionInsert(c)
  <2>1. /\ Holds(caller[c].version, caller[c].size) /\ caller[c].version \in Versions
        /\ caller[c].doc.key \in Versions /\ caller[c].doc.version \in Versions
        BY <1>0, <1>5 DEF VersionInsert, CallIsSound
  <2>2. InsertVersion(caller[c].version, caller[c].version, caller[c].size)
        BY <1>5 DEF VersionInsert
  <2>3. PICK k : k = [caller[c] EXCEPT !.op = "versionUpdate"]
        OBVIOUS
  <2>4. k \in Call /\ k.op = "versionUpdate" /\ k.doc = caller[c].doc /\ k.version = caller[c].version
        BY <1>0, <2>3 DEF Call
  <2>5. CallIsSound(k)
        BY <2>1, <2>4 DEF CallIsSound
  <2>6. caller' = [caller EXCEPT ![c] = k] \/ caller' = [caller EXCEPT ![c] = Resting]
        BY <1>0, <1>5, <2>3 DEF VersionInsert, Move, Return
  <2>q. QED BY <1>2, <1>3, <2>1, <2>2, <2>4, <2>5, <2>6, RestingIsSound
<1>q. QED BY <1>4, <1>5

\* A row that is written back has the keys the call is sound about; the other calls only
\* learn that theirs is older.
LEMMA RowWritten ==
    ASSUME DocumentsInv, NEW c \in Callers, NEW new \in Document, {new.version, new.key} \subseteq Versions,
           doc' = new, NEW k \in Call, CallIsSound(k), NEW late \in [Callers -> BOOLEAN],
           caller' = [d \in Callers |-> IF d = c THEN k ELSE [caller[d] EXCEPT !.stale = late[d]]],
           behind' \subseteq {"restored", "stopped", "overtaken"},
           UNCHANGED <<deleted, versions, objects, urls, uploads, reissued>>
    PROVE  DocumentsInv'
<1>0. /\ caller \in [Callers -> Call] /\ (\A d \in Callers : CallIsSound(caller[d]))
      /\ versions \in [Versions -> [key : 0 .. MaxVersion, size : 0 .. MaxUploads]] /\ deleted \in BOOLEAN
      BY DEF DocumentsInv, DocumentsTypeOK
<1>1. ASSUME NEW d \in Callers PROVE caller'[d] \in Call /\ CallIsSound(caller'[d])
  <2>1. CASE d = c
        BY <2>1
  <2>2. CASE d # c
    <3>1. caller'[d] = [caller[d] EXCEPT !.stale = late[d]] /\ caller[d] \in Call /\ CallIsSound(caller[d])
          BY <1>0, <2>2
    <3>2. /\ caller'[d] \in Call /\ caller'[d].op = caller[d].op /\ caller'[d].doc = caller[d].doc
          /\ caller'[d].version = caller[d].version /\ caller'[d].size = caller[d].size
          BY <3>1 DEF Call
    <3>q. QED BY <3>1, <3>2 DEF CallIsSound
  <2>q. QED BY <2>1, <2>2
<1>2. caller' \in [Callers -> Call]
      BY <1>1
<1>q. QED BY <1>0, <1>1, <1>2, CallStepKeeps

\* The UPDATEs of documents: after an upload, a move, a new version and a restore.
LEMMA RowUpdates ==
    ASSUME DocumentsInv, NEW c \in Callers, UploadUpdate(c) \/ MoveUpdate(c) \/ VersionUpdate(c) \/ RestoreUpdate(c)
    PROVE  DocumentsInv'
<1>0. /\ caller \in [Callers -> Call] /\ caller[c] \in Call /\ CallIsSound(caller[c])
      /\ caller[c].doc \in Document /\ behind \subseteq {"restored", "stopped", "overtaken"}
      /\ caller[c].size \in 0 .. MaxUploads /\ caller[c].version \in 0 .. MaxVersion
      BY DEF DocumentsInv, DocumentsTypeOK, Call
<1>1. caller[c].doc.key \in Versions /\ caller[c].doc.version \in Versions
      BY <1>0 DEF UploadUpdate, MoveUpdate, VersionUpdate, RestoreUpdate, CallIsSound
<1>2. UNCHANGED <<deleted, versions, objects, urls, uploads, reissued>>
      BY DEF UploadUpdate, MoveUpdate, VersionUpdate, RestoreUpdate
<1>3. ASSUME NEW new, NEW next, UpdateDocument(c, new, next)
      PROVE  \E late \in [Callers -> BOOLEAN] :
                caller' = [d \in Callers |-> IF d = c THEN next ELSE [caller[d] EXCEPT !.stale = late[d]]]
  <2>1. PICK late : late = [d \in Callers |-> caller[d].stale \/ (caller[d].op # "none" /\ new # doc)]
        OBVIOUS
  <2>2. late \in [Callers -> BOOLEAN]
        BY <2>1
  <2>3. \A d \in Callers : late[d] = (caller[d].stale \/ (caller[d].op # "none" /\ new # doc))
        BY <2>1
  <2>4. caller' = [d \in Callers |-> IF d = c THEN next
                     ELSE [caller[d] EXCEPT !.stale = caller[d].stale \/ (caller[d].op # "none" /\ new # doc)]]
        BY <1>0, <1>3 DEF UpdateDocument, Call
  <2>5. caller' = [d \in Callers |-> IF d = c THEN next ELSE [caller[d] EXCEPT !.stale = late[d]]]
        BY <2>3, <2>4
  <2>q. QED BY <2>2, <2>5
<1>4. ASSUME NEW new, NEW next, UpdateDocument(c, new, next)
      PROVE  doc' = new /\ behind' \subseteq {"restored", "stopped", "overtaken"}
      BY <1>0, <1>4 DEF UpdateDocument
<1>5. CASE UploadUpdate(c)
  <2>1. PICK new : new = [caller[c].doc EXCEPT !.size = caller[c].size]
        OBVIOUS
  <2>2. new \in Document /\ new.key = caller[c].doc.key /\ new.version = caller[c].doc.version
        BY <1>0, <2>1 DEF Document
  <2>3. PICK k : k = [caller[c] EXCEPT !.op = "uploadVersion", !.doc = new]
        OBVIOUS
  <2>4. k \in Call /\ k.op = "uploadVersion" /\ k.doc = new /\ k.size = caller[c].size
        BY <1>0, <2>2, <2>3 DEF Call
  <2>5. CallIsSound(k)
    <3>1. Holds(k.doc.key, k.size)
          BY <1>0, <1>5, <2>2, <2>4 DEF UploadUpdate, CallIsSound
    <3>q. QED BY <1>1, <2>2, <2>4, <3>1 DEF CallIsSound
  <2>6. UpdateDocument(c, new, k)
        BY <1>5, <2>1, <2>3 DEF UploadUpdate
  <2>q. QED BY <1>1, <1>2, <1>3, <1>4, <2>2, <2>4, <2>5, <2>6, RowWritten, SMT, SMTT(30)
<1>6. CASE MoveUpdate(c)
  <2>1. UpdateDocument(c, caller[c].doc, Resting)
        BY <1>6 DEF MoveUpdate
  <2>q. QED BY <1>0, <1>1, <1>2, <1>3, <1>4, <2>1, RestingIsSound, RowWritten, SMT, SMTT(30)
<1>7. CASE VersionUpdate(c)
  <2>1. PICK new : new = [caller[c].doc EXCEPT !.version = caller[c].version, !.key = caller[c].version,
                                              !.size = caller[c].size]
        OBVIOUS
  <2>2. caller[c].version \in Versions
        BY <1>0, <1>7 DEF VersionUpdate, CallIsSound
  <2>3. new \in Document /\ new.key = caller[c].version /\ new.version = caller[c].version
        BY <1>0, <2>1 DEF Document
  <2>4. UpdateDocument(c, new, Resting)
        BY <1>7, <2>1 DEF VersionUpdate
  <2>q. QED BY <1>2, <1>3, <1>4, <2>2, <2>3, <2>4, RestingIsSound, RowWritten, SMT, SMTT(30)
<1>8. CASE RestoreUpdate(c)
  <2>1. PICK late : late = [d \in Callers |-> caller[d].op # "none"]
        OBVIOUS
  <2>2. late \in [Callers -> BOOLEAN]
        BY <2>1
  <2>3. caller' = [d \in Callers |-> IF d = c THEN Resting ELSE [caller[d] EXCEPT !.stale = late[d]]]
        BY <1>8, <2>1 DEF RestoreUpdate
  <2>4. doc' = caller[c].doc /\ behind' \subseteq {"restored", "stopped", "overtaken"}
        BY <1>0, <1>8 DEF RestoreUpdate
  <2>q. QED BY ZenonT(40), <1>0, <1>1, <1>2, <2>2, <2>3, <2>4, RestingIsSound, RowWritten
<1>q. QED BY <1>5, <1>6, <1>7, <1>8

\* The steps that sign a URL.
LEMMA URLSteps ==
    ASSUME DocumentsInv, CreateVersion \/ \E f \in Folders \union {"none"} : InitiateUpload(f)
    PROVE  DocumentsInv'
<1>0. /\ doc \in Document /\ (doc # NoDocument => {doc.version, doc.key} \subseteq Versions)
      /\ 1 \in Versions /\ 1 \in 0 .. MaxVersion /\ 0 \in 0 .. MaxUploads
      BY DocumentsAssumption, SMT, SMTT(30) DEF DocumentsInv, DocumentsTypeOK, Versions
<1>1. CASE CreateVersion
  <2>1. doc.version + 1 \in Versions
        BY <1>0, <1>1, DocumentsAssumption, SMT, SMTT(30) DEF CreateVersion, Versions, Document
  <2>q. QED BY <1>0, <1>1, <2>1, URLIssued DEF CreateVersion
<1>2. ASSUME NEW f \in Folders \union {"none"}, InitiateUpload(f) PROVE DocumentsInv'
  <2>1. PICK d : d = [size |-> 0, folder |-> f, key |-> 1, version |-> 1]
        OBVIOUS
  <2>2. d \in Document /\ d.key = 1 /\ d.version = 1
        BY <1>0, <2>1 DEF Document
  <2>3. /\ doc' = d /\ PresignedPutURL(1)
        /\ UNCHANGED <<deleted, versions, objects, uploads, caller, behind>>
        BY <1>2, <2>1 DEF InitiateUpload
  <2>4. doc' \in Document /\ {doc'.version, doc'.key} \subseteq Versions
        BY <1>0, <2>2, <2>3
  <2>q. QED BY <1>0, <2>3, <2>4, URLIssued
<1>q. QED BY <1>1, <1>2

\* The invariant of the objects is inductive.
LEMMA DocumentsInvNext == DocumentsInv /\ [DocumentsNext]_docVars => DocumentsInv'
<1>0. SUFFICES ASSUME DocumentsInv, [DocumentsNext]_docVars PROVE DocumentsInv'
      OBVIOUS
<1>1. CASE UNCHANGED docVars
  <2>1. DocumentsTypeOK' /\ OneURL' /\ StoreKept
        BY <1>0, <1>1 DEF docVars, DocumentsInv, DocumentsTypeOK, OneURL, StoreKept
  <2>q. QED BY <1>0, <1>1, <2>1, StoreStepKeeps DEF docVars
<1>q. QED BY <1>0, <1>1, URLSteps, URLUsed, CallsBegin, StatKeeps, CallEnds, VersionRowKeeps, RowUpdates
          DEF DocumentsNext

\* It holds in every state of the document service, whatever overlaps, expires, stops or is retried.
THEOREM DocumentsInvariant == DocumentsSpec => []DocumentsInv
<1>1. DocumentsInit => DocumentsInv
  <2>0. SUFFICES ASSUME DocumentsInit PROVE DocumentsInv
        OBVIOUS
  <2>1. NoDocument \in Document /\ NoVersion \in [key : 0 .. MaxVersion, size : 0 .. MaxUploads]
        BY DocumentsAssumption, SMT, SMTT(30) DEF NoDocument, Document, NoVersion
  <2>2. DocumentsTypeOK
    <3>1. urls \in [Versions -> 0 .. 2] /\ objects \in [Versions -> 0 .. MaxUploads] /\ uploads \in 0 .. MaxUploads
          BY <2>0, DocumentsAssumption, SMT, SMTT(30) DEF DocumentsInit
    <3>q. QED BY <2>0, <2>1, <3>1, RestingIsSound DEF DocumentsInit, DocumentsTypeOK
  <2>3. \A c \in Callers : CallIsSound(caller[c])
        BY <2>0, RestingIsSound DEF DocumentsInit
  <2>q. QED BY <2>0, <2>2, <2>3, SMT, SMTT(30) DEF DocumentsInit, DocumentsInv, OneURL, RowsAreHeld, Recorded
<1>q. QED BY <1>1, DocumentsInvNext, PTL DEF DocumentsSpec

\* ConfirmUpload, ConfirmVersion: a version row goes on naming the object that was confirmed as
\* that version, unless a second URL for its key was handed out.
THEOREM VersionObjectKeptHolds == DocumentsSpec => []VersionObjectKept
<1>1. DocumentsInv => VersionObjectKept
      BY DEF DocumentsInv, RowsAreHeld, Holds, VersionObjectKept
<1>q. QED BY <1>1, DocumentsInvariant, PTL

\* A call of which the row read is still the row stored, or an older one it is known to be late for.
ReadIsCurrent(k) ==
    k.op \notin {"none", "restoreUpdate"} => k.doc.version <= doc.version /\ (k.stale \/ k.doc.version = doc.version)

\* A call on a document adds the version after the one it read.
NamesTheNext(k) == k.op \in {"versionStat", "versionInsert", "versionUpdate"} => k.version = k.doc.version + 1

\* The row is at most one version behind, and then a confirmation is about to write it.
AtMostOneAhead ==
    behind = {} =>
        /\ \A v \in Recorded : v <= doc.version + 1
        /\ doc.version + 1 \in Recorded => \E c \in Callers : caller[c].op = "versionUpdate"
        /\ \A c \in Callers : ReadIsCurrent(caller[c])

\* The inductive invariant of the row, on top of the one of the objects.
PointerInv ==
    /\ doc = NoDocument => \A c \in Callers : caller[c].op = "none"
    /\ \A c \in Callers : NamesTheNext(caller[c])
    /\ AtMostOneAhead

\* One call moves on and the document is as it was.
LEMMA PointerCallMoves ==
    ASSUME DocumentsInv, PointerInv, NEW c \in Callers, NEW k, caller' = [caller EXCEPT ![c] = k],
           UNCHANGED <<doc, versions>>, behind \subseteq behind',
           k.op # "none" => doc # NoDocument, NamesTheNext(k), behind = {} => ReadIsCurrent(k),
           caller[c].op = "versionUpdate" => behind' # {}
    PROVE  PointerInv'
<1>1. caller'[c] = k /\ \A d \in Callers \ {c} : caller'[d] = caller[d]
      BY DEF DocumentsInv, DocumentsTypeOK
<1>2. doc' = NoDocument => \A d \in Callers : caller'[d].op = "none"
      BY <1>1 DEF PointerInv
<1>3. \A d \in Callers : NamesTheNext(caller[d])'
      BY <1>1 DEF PointerInv, NamesTheNext
<1>4. AtMostOneAhead'
  <2>0. SUFFICES ASSUME behind' = {} PROVE AtMostOneAhead'
        BY DEF AtMostOneAhead
  <2>1. behind = {} /\ caller[c].op # "versionUpdate"
        BY <2>0
  <2>2. ASSUME NEW d \in Callers PROVE ReadIsCurrent(caller[d])'
    <3>1. ReadIsCurrent(caller'[d])
          BY <1>1, <2>1 DEF PointerInv, AtMostOneAhead
    <3>q. QED BY <3>1 DEF ReadIsCurrent
  <2>3. \A v \in Recorded' : v <= doc'.version + 1
        BY <2>1 DEF PointerInv, AtMostOneAhead, Recorded
  <2>4. doc'.version + 1 \in Recorded' => \E d \in Callers : caller'[d].op = "versionUpdate"
        BY <1>1, <2>1 DEF PointerInv, AtMostOneAhead, Recorded
  <2>q. QED BY <2>2, <2>3, <2>4 DEF AtMostOneAhead
<1>q. QED BY <1>2, <1>3, <1>4 DEF PointerInv

\* The calls that read the row begin with what it says, and Stat, the deletion and a stop
\* do not change that.
LEMMA PointerQuietSteps ==
    ASSUME DocumentsInv, PointerInv, NEW c \in Callers,
           \/ ConfirmUpload(c) \/ DeleteDocument(c) \/ UploadStat(c) \/ VersionStat(c)
           \/ SoftDeleteDocument(c) \/ CallStops(c)
           \/ \E f \in Folders : MoveDocument(c, f)
           \/ \E v \in Versions : ConfirmVersion(c, v) \/ RestoreVersion(c, v)
    PROVE  PointerInv'
<1>0. /\ caller[c] \in Call /\ caller \in [Callers -> Call] /\ doc \in Document /\ NamesTheNext(caller[c])
      /\ behind = {} => ReadIsCurrent(caller[c])
      /\ caller[c].op # "none" => doc # NoDocument
      /\ UNCHANGED <<doc, versions>>
      BY DEF DocumentsInv, DocumentsTypeOK, PointerInv, AtMostOneAhead, ConfirmUpload, DeleteDocument, UploadStat,
             VersionStat, SoftDeleteDocument, CallStops, MoveDocument, ConfirmVersion, RestoreVersion, Stat
<1>1. doc.version \in Nat
      BY <1>0, DocumentsAssumption, SMT, SMTT(30) DEF Document
<1>2. Resting.op = "none" /\ NamesTheNext(Resting) /\ ReadIsCurrent(Resting)
      BY RestingIsSound DEF NamesTheNext, ReadIsCurrent
<1>3. CASE SoftDeleteDocument(c)
      BY <1>0, <1>2, <1>3, PointerCallMoves DEF SoftDeleteDocument, Return
<1>4. CASE CallStops(c)
      BY <1>0, <1>2, <1>4, PointerCallMoves DEF CallStops, Return
<1>5. CASE UploadStat(c) \/ VersionStat(c)
  <2>1. /\ UNCHANGED behind /\ caller[c].op \in {"uploadStat", "versionStat"}
        /\ \/ caller' = [caller EXCEPT ![c] = Resting]
           \/ \E size, next : /\ caller' = [caller EXCEPT ![c].size = size, ![c].op = next]
                              /\ next = IF caller[c].op = "uploadStat" THEN "uploadUpdate" ELSE "versionInsert"
        BY <1>5 DEF UploadStat, VersionStat, Stat
  <2>2. ASSUME NEW size, NEW next, caller' = [caller EXCEPT ![c].size = size, ![c].op = next],
               next = IF caller[c].op = "uploadStat" THEN "uploadUpdate" ELSE "versionInsert"
        PROVE  PointerInv'
    <3>1. PICK k : k = [caller[c] EXCEPT !.size = size, !.op = next]
          OBVIOUS
    <3>2. k.op = next /\ k.doc = caller[c].doc /\ k.version = caller[c].version /\ caller' = [caller EXCEPT ![c] = k]
          BY <1>0, <2>2, <3>1 DEF Call
    <3>3. k.stale = caller[c].stale
          BY <1>0, <3>1 DEF Call
    <3>4. NamesTheNext(k)
          BY <1>0, <2>1, <2>2, <3>2 DEF NamesTheNext
    <3>5. behind = {} => ReadIsCurrent(k)
          BY <1>0, <2>1, <2>2, <3>2, <3>3 DEF ReadIsCurrent
    <3>q. QED BY <1>0, <2>1, <3>2, <3>4, <3>5, PointerCallMoves
  <2>q. QED BY <1>0, <1>2, <2>1, <2>2, PointerCallMoves
<1>6. ASSUME NEW op, NEW d, NEW v, caller' = [caller EXCEPT ![c] = Working(op, d, v)], UNCHANGED behind,
             caller[c].op = "none", doc # NoDocument, op \in {"versionStat", "versionInsert", "versionUpdate"} => v = d.version + 1,
             op = "restoreUpdate" \/ d.version = doc.version
      PROVE  PointerInv'
  <2>1. Working(op, d, v).op = op /\ Working(op, d, v).doc = d /\ Working(op, d, v).version = v
        BY DEF Working
  <2>2. NamesTheNext(Working(op, d, v))
        BY <1>6, <2>1 DEF NamesTheNext
  <2>3. ReadIsCurrent(Working(op, d, v))
        BY <1>1, <1>6, <2>1, SMT, SMTT(30) DEF ReadIsCurrent
  <2>q. QED BY <1>0, <1>6, <2>2, <2>3, PointerCallMoves
<1>7. CASE ConfirmUpload(c)
      BY <1>6, <1>7 DEF ConfirmUpload, GetDocument
<1>8. CASE DeleteDocument(c)
      BY <1>6, <1>8 DEF DeleteDocument, GetDocument
<1>9. ASSUME NEW v \in Versions, ConfirmVersion(c, v) PROVE PointerInv'
      BY <1>6, <1>9 DEF ConfirmVersion, GetDocument
<1>10. ASSUME NEW v \in Versions, RestoreVersion(c, v) PROVE PointerInv'
      BY <1>6, <1>10 DEF RestoreVersion
<1>11. ASSUME NEW f \in Folders, MoveDocument(c, f) PROVE PointerInv'
  <2>1. [doc EXCEPT !.folder = f].version = doc.version
        BY <1>0 DEF Document
  <2>q. QED BY <1>6, <1>11, <2>1 DEF MoveDocument
<1>q. QED BY <1>3, <1>4, <1>5, <1>7, <1>8, <1>9, <1>10, <1>11

\* A version row is at most one ahead of the row, and its call is about to write that.
LEMMA PointerVersionRow ==
    ASSUME DocumentsInv, PointerInv, NEW c \in Callers, UploadVersion(c) \/ VersionInsert(c)
    PROVE  PointerInv'
<1>0. /\ caller[c] \in Call /\ caller \in [Callers -> Call] /\ doc \in Document /\ NamesTheNext(caller[c])
      /\ caller[c].op \in {"uploadVersion", "versionInsert"} /\ CallIsSound(caller[c])
      /\ versions \in [Versions -> [key : 0 .. MaxVersion, size : 0 .. MaxUploads]]
      /\ doc # NoDocument /\ doc.version \in Versions /\ UNCHANGED <<doc, behind>>
      BY DEF DocumentsInv, DocumentsTypeOK, PointerInv, UploadVersion, VersionInsert
<1>1. /\ doc.version \in Nat /\ doc.version > 0 /\ caller[c].version \in Nat /\ caller[c].doc.version \in Nat
      /\ 1 \in Versions /\ Versions \subseteq Nat
      BY <1>0, DocumentsAssumption, SMT, SMTT(30) DEF Versions, Call, Document
<1>2. PICK v \in Versions : /\ Recorded' \subseteq Recorded \union {v}
                            /\ \/ v = 1 /\ caller' = [caller EXCEPT ![c] = Resting]
                               \/ /\ v = caller[c].version /\ caller[c].op = "versionInsert"
                                  /\ caller' = [caller EXCEPT ![c].op = "versionUpdate"]
                               \/ Recorded' = Recorded /\ caller' = [caller EXCEPT ![c] = Resting]
  <2>1. CASE UploadVersion(c)
        BY <1>0, <1>1, <2>1 DEF UploadVersion, InsertVersion, Return, Recorded
  <2>2. CASE VersionInsert(c)
    <3>1. caller[c].version \in Versions
          BY <1>0, <2>2 DEF VersionInsert, CallIsSound
    <3>q. QED BY <1>0, <2>2, <3>1, SMT, SMTT(30) DEF VersionInsert, InsertVersion, Return, Move, Recorded
  <2>q. QED BY <2>1, <2>2
<1>3. PICK k : /\ caller' = [caller EXCEPT ![c] = k]
               /\ \/ k = Resting /\ (v = 1 \/ Recorded' = Recorded)
                  \/ k = [caller[c] EXCEPT !.op = "versionUpdate"] /\ v = caller[c].version /\ caller[c].op = "versionInsert"
      BY <1>0, <1>2
<1>4. /\ k.op = "none" /\ (v = 1 \/ Recorded' = Recorded)
      \/ /\ k.op = "versionUpdate" /\ k.doc = caller[c].doc /\ k.version = caller[c].version /\ v = k.doc.version + 1
         /\ caller[c].op = "versionInsert"
      BY <1>0, <1>3, RestingIsSound DEF Call, NamesTheNext
<1>s. k.op = "versionUpdate" => k.stale = caller[c].stale
      BY <1>0, <1>3, RestingIsSound DEF Call
<1>5. caller'[c] = k /\ \A d \in Callers \ {c} : caller'[d] = caller[d]
      BY <1>0, <1>3
<1>6. \A d \in Callers : NamesTheNext(caller[d])'
      BY <1>0, <1>4, <1>5 DEF PointerInv, NamesTheNext
<1>7. AtMostOneAhead'
  <2>0. SUFFICES ASSUME behind = {} PROVE AtMostOneAhead'
        BY <1>0 DEF AtMostOneAhead
  <2>1. ReadIsCurrent(caller[c])
        BY <2>0 DEF PointerInv, AtMostOneAhead
  <2>2. caller[c].op = "versionInsert" => caller[c].doc.version <= doc.version
        BY <2>1 DEF ReadIsCurrent
  <2>3. \A w \in Recorded' : w <= doc'.version + 1
        BY <1>0, <1>1, <1>2, <1>4, <2>0, <2>2, SMT, SMTT(30) DEF PointerInv, AtMostOneAhead
  <2>4. doc'.version + 1 \in Recorded' => \E d \in Callers : caller'[d].op = "versionUpdate"
    <3>1. SUFFICES ASSUME doc.version + 1 \in Recorded', k.op # "versionUpdate"
                   PROVE  \E d \in Callers : caller'[d].op = "versionUpdate"
          BY <1>0, <1>5
    <3>2. doc.version + 1 \in Recorded
          BY <1>1, <1>2, <1>4, <3>1, SMT, SMTT(30)
    <3>q. QED BY <1>0, <1>5, <2>0, <3>2 DEF PointerInv, AtMostOneAhead
  <2>5. ASSUME NEW d \in Callers PROVE ReadIsCurrent(caller[d])'
    <3>1. ReadIsCurrent(caller'[d])
          BY <1>4, <1>s, <1>5, <2>0, <2>1 DEF PointerInv, AtMostOneAhead, ReadIsCurrent
    <3>q. QED BY <1>0, <3>1 DEF ReadIsCurrent
  <2>q. QED BY <2>3, <2>4, <2>5 DEF AtMostOneAhead
<1>q. QED BY <1>0, <1>6, <1>7 DEF PointerInv

\* A row written back is the row that is there, or one version on, or the write counts as late.
LEMMA PointerRowUpdates ==
    ASSUME DocumentsInv, PointerInv, NEW c \in Callers,
           UploadUpdate(c) \/ MoveUpdate(c) \/ VersionUpdate(c) \/ RestoreUpdate(c)
    PROVE  PointerInv'
<1>0. /\ caller \in [Callers -> Call] /\ caller[c] \in Call /\ CallIsSound(caller[c]) /\ NamesTheNext(caller[c])
      /\ caller[c].doc \in Document /\ doc \in Document /\ UNCHANGED versions
      /\ caller[c].op \in {"uploadUpdate", "moveUpdate", "versionUpdate", "restoreUpdate"}
      BY DEF DocumentsInv, DocumentsTypeOK, Call, PointerInv, UploadUpdate, MoveUpdate, VersionUpdate, RestoreUpdate
<1>1. PICK k, new :
         /\ doc' = new /\ caller'[c] = k
         /\ \A d \in Callers \ {c} : \E b : caller'[d] = [caller[d] EXCEPT !.stale = b]
         /\ new.version = IF caller[c].op = "versionUpdate" THEN caller[c].version ELSE caller[c].doc.version
         /\ \/ k = Resting
            \/ k = [caller[c] EXCEPT !.op = "uploadVersion", !.doc = new] /\ caller[c].op = "uploadUpdate"
         /\ behind \subseteq behind'
  <2>1. CASE UploadUpdate(c)
    <3>1. PICK new : new = [caller[c].doc EXCEPT !.size = caller[c].size]
          OBVIOUS
    <3>2. new.version = caller[c].doc.version
          BY <1>0, <3>1 DEF Document
    <3>q. QED BY <1>0, <2>1, <3>1, <3>2 DEF UploadUpdate, UpdateDocument
  <2>2. CASE MoveUpdate(c)
        BY <1>0, <2>2 DEF MoveUpdate, UpdateDocument
  <2>3. CASE VersionUpdate(c)
    <3>1. PICK new : new = [caller[c].doc EXCEPT !.version = caller[c].version, !.key = caller[c].version,
                                                !.size = caller[c].size]
          OBVIOUS
    <3>2. new.version = caller[c].version
          BY <1>0, <3>1 DEF Document
    <3>q. QED BY <1>0, <2>3, <3>1, <3>2 DEF VersionUpdate, UpdateDocument
  <2>4. CASE RestoreUpdate(c)
        BY <1>0, <2>4 DEF RestoreUpdate
  <2>q. QED BY <2>1, <2>2, <2>3, <2>4
<1>2. /\ k.op \in {"none", "uploadVersion"} /\ (k.op = "uploadVersion" => k.doc = new /\ caller[c].op = "uploadUpdate")
      BY <1>0, <1>1, RestingIsSound DEF Call
<1>3. ASSUME NEW d \in Callers \ {c}
      PROVE  caller'[d].op = caller[d].op /\ caller'[d].doc = caller[d].doc /\ caller'[d].version = caller[d].version
  <2>1. PICK b : caller'[d] = [caller[d] EXCEPT !.stale = b]
        BY <1>1
  <2>q. QED BY <1>0, <2>1 DEF Call
<1>4. new.version \in Versions /\ new.version \in Nat /\ new # NoDocument
  <2>1. new.version \in Versions
        BY <1>0, <1>1 DEF CallIsSound
  <2>q. QED BY <2>1, DocumentsAssumption, SMT, SMTT(30) DEF Versions, NoDocument
<1>5. \A d \in Callers : NamesTheNext(caller[d])'
      BY ZenonT(40), <1>1, <1>2, <1>3 DEF PointerInv, NamesTheNext
<1>6. AtMostOneAhead'
  <2>0. SUFFICES ASSUME behind' = {} PROVE AtMostOneAhead'
        BY DEF AtMostOneAhead
  <2>1. caller[c].op # "restoreUpdate" /\ ~caller[c].stale
        BY <2>0, <1>0, Zenon DEF UploadUpdate, MoveUpdate, VersionUpdate, RestoreUpdate, UpdateDocument
  <2>2. behind = {}
        BY <1>1, <2>0
  <2>3. caller[c].doc.version = doc.version
    <3>1. ReadIsCurrent(caller[c])
          BY <2>2 DEF PointerInv, AtMostOneAhead
    <3>q. QED BY <1>0, <2>1, <3>1 DEF ReadIsCurrent
  <2>4. doc.version \in Nat /\ new.version = IF caller[c].op = "versionUpdate" THEN doc.version + 1 ELSE doc.version
        BY <1>0, <1>1, <2>3, DocumentsAssumption, SMT, SMTT(30) DEF Document, NamesTheNext
  <2>5. \A v \in Recorded' : v \in Nat /\ v <= doc.version + 1
        BY <1>0, <2>2, DocumentsAssumption, SMT, SMTT(30) DEF PointerInv, AtMostOneAhead, Recorded, Versions
  <2>6. \A v \in Recorded' : v <= new.version + 1
        BY <2>4, <2>5, SMT, SMTT(30)
  <2>7. new.version + 1 \in Recorded' => \E d \in Callers : caller'[d].op = "versionUpdate"
    <3>1. SUFFICES ASSUME new.version + 1 \in Recorded' PROVE \E d \in Callers : caller'[d].op = "versionUpdate"
          OBVIOUS
    <3>2. caller[c].op # "versionUpdate" /\ doc.version + 1 \in Recorded
          BY <1>0, <2>4, <2>5, <3>1, SMT, SMTT(30) DEF Recorded
    <3>3. PICK d \in Callers : caller[d].op = "versionUpdate"
          BY <2>2, <3>2 DEF PointerInv, AtMostOneAhead
    <3>q. QED BY <1>3, <3>2, <3>3
  <2>8. ASSUME NEW d \in Callers PROVE ReadIsCurrent(caller[d])'
    <3>1. CASE d = c
      <4>1. k.op = "uploadVersion" => k.doc.version <= new.version /\ k.doc.version = new.version
            BY <1>2, <1>4, SMT, SMTT(30)
      <4>q. QED BY <1>1, <1>2, <3>1, <4>1 DEF ReadIsCurrent
    <3>2. CASE d # c
      <4>1. ReadIsCurrent(caller[d]) /\ caller[d] \in Call
            BY <1>0, <2>2 DEF PointerInv, AtMostOneAhead
      <4>2. SUFFICES ASSUME caller[d].op \notin {"none", "restoreUpdate"}
                     PROVE  caller[d].doc.version <= new.version /\ (caller'[d].stale \/ caller[d].doc.version = new.version)
            BY <1>1, <1>3, <3>2 DEF ReadIsCurrent
      <4>3. caller[d].doc.version <= doc.version /\ caller[d].doc.version \in Nat
            BY <4>1, <4>2, DocumentsAssumption, SMT, SMTT(30) DEF ReadIsCurrent, Call, Document
      <4>4. caller'[d].stale \/ caller[d].doc.version = new.version
        <5>1. UploadUpdate(c) \/ MoveUpdate(c) \/ VersionUpdate(c)
              BY <2>1 DEF RestoreUpdate
        <5>2. PICK n : caller'[d] = [caller[d] EXCEPT !.stale = caller[d].stale \/ (caller[d].op # "none" /\ n # doc)] /\ doc' = n
              BY <1>0, <3>2, <5>1 DEF UploadUpdate, MoveUpdate, VersionUpdate, UpdateDocument
        <5>3. caller'[d].stale = (caller[d].stale \/ (caller[d].op # "none" /\ n # doc))
              BY <4>1, <5>2 DEF Call
        <5>4. CASE n = doc
              BY <1>1, <4>1, <4>2, <5>2, <5>3, <5>4 DEF ReadIsCurrent
        <5>5. CASE n # doc
              BY <4>2, <5>3, <5>5
        <5>q. QED BY <5>4, <5>5
      <4>q. QED BY <1>4, <2>4, <4>3, <4>4, SMT, SMTT(30)
    <3>q. QED BY <3>1, <3>2
  <2>q. QED BY <1>1, <2>6, <2>7, <2>8 DEF AtMostOneAhead
<1>q. QED BY <1>1, <1>4, <1>5, <1>6 DEF PointerInv

\* URLs and objects do not concern the row, except for the upload that creates it.
LEMMA PointerURLSteps ==
    ASSUME DocumentsInv, PointerInv,
           \/ CreateVersion \/ \E f \in Folders \union {"none"} : InitiateUpload(f)
           \/ \E v \in Versions : Put(v) \/ URLExpires(v)
           \/ UNCHANGED docVars
    PROVE  PointerInv'
<1>1. CASE UNCHANGED <<doc, versions, caller, behind>>
      BY <1>1 DEF PointerInv, AtMostOneAhead, ReadIsCurrent, NamesTheNext, Recorded
<1>2. ASSUME NEW f \in Folders \union {"none"}, InitiateUpload(f) PROVE PointerInv'
  <2>1. /\ doc = NoDocument /\ doc.version = 0 /\ doc'.version = 1 /\ doc' # NoDocument
        /\ UNCHANGED <<versions, caller, behind>>
        BY <1>2, SMT, SMTT(30) DEF InitiateUpload, NoDocument
  <2>2. \A c \in Callers : caller[c].op = "none"
        BY <2>1 DEF PointerInv
  <2>3. Recorded' = Recorded /\ (behind = {} => \A v \in Recorded : v <= 1)
        BY <2>1, SMT, SMTT(30) DEF PointerInv, AtMostOneAhead, Recorded
  <2>4. \A v \in Recorded : v \in Nat
        BY SMT, SMTT(30) DEF Recorded, Versions
  <2>5. behind = {} => (\A v \in Recorded' : v <= doc'.version + 1) /\ doc'.version + 1 \notin Recorded'
        BY <2>1, <2>3, <2>4, SMT, SMTT(30)
  <2>q. QED BY <2>1, <2>2, <2>5 DEF PointerInv, AtMostOneAhead, ReadIsCurrent, NamesTheNext
<1>q. QED BY <1>1, <1>2 DEF CreateVersion, Put, URLExpires, docVars

\* CreateVersion, ConfirmVersion: the row points below the newest version only after a restore, a
\* stop between two writes, or a late write; otherwise the next version is a new one.
THEOREM PointerFollowsHolds == DocumentsSpec => []PointerFollows
<1>1. DocumentsInit => PointerInv
  <2>1. DocumentsInit => Recorded = {} /\ \A c \in Callers : caller[c].op = "none"
        BY RestingIsSound DEF DocumentsInit, Recorded
  <2>q. QED BY <2>1 DEF PointerInv, AtMostOneAhead, ReadIsCurrent, NamesTheNext
<1>2. DocumentsInv /\ PointerInv /\ [DocumentsNext]_docVars => PointerInv'
      BY PointerURLSteps, PointerQuietSteps, PointerVersionRow, PointerRowUpdates DEF DocumentsNext
<1>3. DocumentsInv /\ PointerInv => PointerFollows
  <2>0. SUFFICES ASSUME DocumentsInv, PointerInv, behind = {}, ~\E c \in Callers : caller[c].op = "versionUpdate",
                        NEW v \in Recorded
                 PROVE  v <= doc.version
        BY DEF PointerFollows
  <2>1. v <= doc.version + 1 /\ v # doc.version + 1 /\ v \in Nat /\ doc.version \in Nat
        BY <2>0, DocumentsAssumption, SMT, SMTT(30)
           DEF PointerInv, AtMostOneAhead, Recorded, Versions, DocumentsInv, DocumentsTypeOK, Document
  <2>q. QED BY <2>1, SMT, SMTT(30)
<1>q. QED BY <1>1, <1>2, <1>3, DocumentsInvariant, PTL DEF DocumentsSpec

-----------------------------------------------------------------------------
(* Approvals                                                               *)

\* The statuses that the documents of each table can have.
StatusOfTable ==
    /\ \A d \in Expenses : status[d] \in {"absent", "draft", "submitted", "approved", "rejected"}
    /\ \A d \in Advances : status[d] \in {"absent", "issued", "settled"}

\* The table an operation works on.
Table == [approveExpense |-> Expenses, rejectExpense |-> Expenses, approveOrder |-> Orders,
          settleAdvance |-> Advances, submitBudget |-> Budgets, approveBudget |-> Budgets]

\* A call knows its document, which exists; one that is about to write, alone with its
\* document, would accept the status the row still has.
CallIsFresh(k) ==
    /\ k.at = "idle" => k = NoDecision
    /\ k.at # "idle" => k.op \in Operations /\ k.doc \in Docs /\ k.doc \in Table[k.op] /\ status[k.doc] # "absent"
    /\ k.at = "write" /\ k.doc \notin contested => Accepts(k.op, k.doc, status[k.doc])

\* A document that is not contested has one call at most.
OneDecider ==
    \A d \in Docs \ contested, c, o \in Deciders : decider[c].doc = d /\ decider[o].doc = d => c = o

\* A decision on a document that is not contested was the only one, and it is final.
DecidedIsFinal ==
    \A d \in Docs \ contested :
        decided[d] = 0 \/ (decided[d] = 1 /\ status[d] \in {"approved", "rejected", "settled"})

\* The inductive invariant of the decisions.
DecisionsInv ==
    /\ SpendTypeOK
    /\ StatusOfTable
    /\ \A c \in Deciders : CallIsFresh(decider[c])
    /\ OneDecider
    /\ DecidedIsFinal

\* Steps of the consumer do not touch it.
LEMMA ServicesUntouched ==
    ASSUME DecisionsInv, UNCHANGED services, SpendTypeOK'
    PROVE  DecisionsInv'
<1>1. \A c \in Deciders : CallIsFresh(decider[c])'
      BY DEF DecisionsInv, services, CallIsFresh
<1>2. StatusOfTable' /\ OneDecider' /\ DecidedIsFinal'
      BY DEF DecisionsInv, services, StatusOfTable, OneDecider, DecidedIsFinal
<1>q. QED BY <1>1, <1>2 DEF DecisionsInv

\* What an operation accepts is not final, and it is of the operation's table.
LEMMA AcceptedIsOpen ==
    ASSUME DecisionsInv, NEW op \in Operations, NEW d \in Docs, Accepts(op, d, status[d]), status[d] # "absent"
    PROVE  /\ status[d] \notin {"approved", "rejected", "settled"}
           /\ op \in {"approveExpense", "rejectExpense"} => d \in Expenses
           /\ op = "approveExpense" => status[d] = "submitted"
           /\ op = "settleAdvance" => d \in Advances
           /\ op \in {"approveOrder"} => d \in Orders
           /\ op \in {"submitBudget", "approveBudget"} => d \in Budgets
<1>1. CASE op = "approveExpense"
      BY <1>1 DEF Accepts, ApproveExpense
<1>2. CASE op = "rejectExpense"
      BY <1>2 DEF Accepts, RejectExpense, DecisionsInv, StatusOfTable
<1>3. CASE op = "approveOrder"
      BY <1>3 DEF Accepts, ApprovePurchaseOrder
<1>4. CASE op = "settleAdvance"
      BY <1>4 DEF Accepts, SettlePettyCash, DecisionsInv, StatusOfTable
<1>5. CASE op = "submitBudget"
      BY <1>5 DEF Accepts, SubmitBudget
<1>6. CASE op = "approveBudget"
      BY <1>6 DEF Accepts, ApproveBudget
<1>q. QED BY <1>1, <1>2, <1>3, <1>4, <1>5, <1>6 DEF Operations

\* A call begins.  One that finds another on its document makes the document contested.
LEMMA ReadKeeps ==
    ASSUME DecisionsInv, NEW c \in Deciders, NEW op \in Operations, NEW d \in Docs, DecideRead(c, op, d)
    PROVE  DecisionsInv'
<1>0. SpendTypeOK /\ UNCHANGED <<status, decided, submitted, message, facts, pending, monthly, category>>
      BY DEF DecisionsInv, DecideRead, projections
<1>1. PICK k : k = [at |-> "write", op |-> op, doc |-> d]
      OBVIOUS
<1>2. /\ k \in [at : {"idle", "write", "publish"}, op : Operations \union {"none"}, doc : Docs \union {"none"}]
      /\ k.at = "write" /\ k.op = op /\ k.doc = d
      BY <1>1
<1>3. /\ decider' = [decider EXCEPT ![c] = k] /\ decider'[c] = k
      /\ \A o \in Deciders \ {c} : decider'[o] = decider[o]
      BY <1>0, <1>1 DEF DecideRead, SpendTypeOK
<1>4. /\ contested \subseteq contested' /\ contested' \subseteq contested \union {d}
      /\ d \notin contested' => \A o \in Deciders \ {c} : decider[o].doc # d
      BY DEF DecideRead
<1>5. SpendTypeOK'
      BY <1>0, <1>2, <1>3, <1>4 DEF SpendTypeOK
<1>6. CallIsFresh(k)'
  <2>1. status[d] # "absent" /\ Accepts(op, d, status[d])
        BY DEF DecideRead
  <2>2. d \in Table[op]
        BY <2>1, AcceptedIsOpen, SMT, SMTT(30) DEF Table, Operations
  <2>q. QED BY <1>0, <1>2, <2>1, <2>2 DEF CallIsFresh
<1>7. ASSUME NEW o \in Deciders PROVE CallIsFresh(decider[o])'
  <2>1. CASE o = c
        BY <1>3, <1>6, <2>1 DEF CallIsFresh
  <2>2. CASE o # c
        BY <1>0, <1>3, <1>4, <2>2 DEF DecisionsInv, CallIsFresh
  <2>q. QED BY <2>1, <2>2
<1>8. OneDecider'
      BY <1>2, <1>3, <1>4, SMT, SMTT(30) DEF DecisionsInv, OneDecider
<1>9. StatusOfTable' /\ DecidedIsFinal'
      BY <1>0, <1>4 DEF DecisionsInv, StatusOfTable, DecidedIsFinal
<1>q. QED BY <1>5, <1>7, <1>8, <1>9 DEF DecisionsInv

\* The write is the only decision on a document it is alone with.
LEMMA WriteKeepsDecisions ==
    ASSUME DecisionsInv, NEW c \in Deciders, DecideWrite(c)
    PROVE  DecisionsInv'
<1>0. PICK k : k = decider[c]
      OBVIOUS
<1>1. /\ SpendTypeOK /\ UNCHANGED <<contested, submitted, message, facts, pending, monthly, category>>
      /\ k.at = "write" /\ CallIsFresh(k)
      /\ k \in [at : {"idle", "write", "publish"}, op : Operations \union {"none"}, doc : Docs \union {"none"}]
      BY <1>0 DEF DecisionsInv, DecideWrite, projections, SpendTypeOK
<1>2. k.op \in Operations /\ k.doc \in Docs /\ status[k.doc] # "absent" /\ k.doc \in Table[k.op]
      BY <1>1 DEF CallIsFresh
<1>3. /\ Writes[k.op] \in {"approved", "rejected", "settled", "submitted"}
      /\ k.doc \in Expenses => Writes[k.op] \in {"approved", "rejected"}
      /\ k.doc \in Advances => Writes[k.op] = "settled"
      /\ Writes[k.op] = "submitted" <=> k.op \notin Decisions
      BY <1>2, SpendAssumption, SMT, SMTT(30) DEF Writes, Table, Operations, Decisions
<1>4. /\ status' = [status EXCEPT ![k.doc] = Writes[k.op]]
      /\ decided' = IF k.op \in Decisions THEN [decided EXCEPT ![k.doc] = decided[k.doc] + 1] ELSE decided
      BY <1>0 DEF DecideWrite
<1>5. PICK next : /\ decider' = [decider EXCEPT ![c] = next]
                  /\ next = NoDecision \/ next = [k EXCEPT !.at = "publish"]
      BY <1>0, <1>1 DEF DecideWrite, SpendTypeOK
<1>6. /\ next \in [at : {"idle", "write", "publish"}, op : Operations \union {"none"}, doc : Docs \union {"none"}]
      /\ \/ next = NoDecision /\ next.at = "idle" /\ next.doc = "none"
         \/ next.at = "publish" /\ next.op = k.op /\ next.doc = k.doc
      BY <1>1, <1>5, SMT, SMTT(30) DEF NoDecision
<1>7. decider'[c] = next /\ \A o \in Deciders \ {c} : decider'[o] = decider[o]
      BY <1>1, <1>5 DEF SpendTypeOK
<1>8. /\ \A d \in Docs \ {k.doc} : status'[d] = status[d] /\ decided'[d] = decided[d]
      /\ status'[k.doc] = Writes[k.op]
      /\ decided'[k.doc] = IF k.op \in Decisions THEN decided[k.doc] + 1 ELSE decided[k.doc]
      BY <1>1, <1>2, <1>4 DEF SpendTypeOK
<1>9. SpendTypeOK'
  <2>1. status' \in [Docs -> {"absent", "draft", "submitted", "approved", "rejected", "issued", "settled"}]
        BY <1>1, <1>3, <1>4 DEF SpendTypeOK
  <2>2. decided' \in [Docs -> Nat]
    <3>1. decided \in [Docs -> Nat] /\ decided[k.doc] + 1 \in Nat
          BY <1>1, <1>2, SMT, SMTT(30) DEF SpendTypeOK
    <3>q. QED BY <1>4, <3>1
  <2>3. decider' \in [Deciders -> [at : {"idle", "write", "publish"}, op : Operations \union {"none"}, doc : Docs \union {"none"}]]
        BY <1>1, <1>5, <1>6 DEF SpendTypeOK
  <2>q. QED BY <1>1, <2>1, <2>2, <2>3 DEF SpendTypeOK
<1>10. StatusOfTable'
      BY <1>3, <1>8, SpendAssumption DEF DecisionsInv, StatusOfTable, Docs
<1>11. ASSUME NEW o \in Deciders PROVE CallIsFresh(decider[o])'
  <2>1. CASE o = c
    <3>1. next.at = "publish" => status'[next.doc] # "absent"
          BY <1>3, <1>6, <1>8
    <3>q. QED BY <1>2, <1>6, <1>7, <2>1, <3>1 DEF CallIsFresh
  <2>2. CASE o # c
    <3>1. CallIsFresh(decider[o]) /\ decider'[o] = decider[o]
          BY <1>7, <2>2 DEF DecisionsInv
    <3>2. decider[o].at # "idle" => decider[o].doc \in Docs /\ status'[decider[o].doc] # "absent"
          BY <1>3, <1>8, <3>1 DEF CallIsFresh
    <3>3. decider[o].doc \in Docs \ contested => decider[o].doc # k.doc
          BY <1>0, <2>2 DEF DecisionsInv, OneDecider
    <3>4. decider[o].at # "idle" /\ decider[o].doc \notin contested => status'[decider[o].doc] = status[decider[o].doc]
          BY <1>8, <3>2, <3>3
    <3>q. QED BY <1>1, <3>1, <3>2, <3>4 DEF CallIsFresh
  <2>q. QED BY <2>1, <2>2
<1>12. OneDecider'
  <2>1. \A o \in Deciders, d \in Docs : decider'[o].doc = d => decider[o].doc = d
        BY <1>0, <1>6, <1>7, SpendAssumption DEF Docs
  <2>q. QED BY <1>1, <2>1, SMT, SMTT(30) DEF DecisionsInv, OneDecider
<1>13. DecidedIsFinal'
  <2>1. ASSUME NEW d \in Docs \ contested
        PROVE  decided'[d] = 0 \/ (decided'[d] = 1 /\ status'[d] \in {"approved", "rejected", "settled"})
    <3>1. decided[d] = 0 \/ (decided[d] = 1 /\ status[d] \in {"approved", "rejected", "settled"})
          BY DEF DecisionsInv, DecidedIsFinal
    <3>2. CASE d # k.doc
          BY <1>8, <3>1, <3>2
    <3>3. CASE d = k.doc
      <4>1. Accepts(k.op, d, status[d])
            BY <1>1, <3>3 DEF CallIsFresh
      <4>2. status[d] \notin {"approved", "rejected", "settled"}
            BY <1>2, <3>3, <4>1, AcceptedIsOpen
      <4>q. QED BY <1>3, <1>8, <3>1, <3>3, <4>2, SMT, SMTT(30)
    <3>q. QED BY <3>2, <3>3
  <2>q. QED BY <1>1, <2>1 DEF DecidedIsFinal
<1>q. QED BY <1>9, <1>10, <1>11, <1>12, <1>13 DEF DecisionsInv

\* What publish does: nothing, or one more event that waits in its queue.
LEMMA PublishedIsQueued ==
    ASSUME SpendTypeOK, NEW kind \in {"submitted", "approved", "budget"}, NEW d \in Docs, NEW complete \in BOOLEAN,
           Publish(kind, d, complete)
    PROVE  /\ \E n \in Nat : message' \in [1 .. n -> Message]
           /\ \/ UNCHANGED message
              \/ \E m \in Published' :
                    /\ m \notin Published /\ Published' = Published \union {m}
                    /\ message'[m] = [kind |-> kind, doc |-> d, complete |-> complete, at |-> "queued", deliveries |-> 0]
                    /\ \A i \in Published : message'[i] = message[i]
<1>0. PICK n \in Nat : message \in [1 .. n -> Message]
      BY DEF SpendTypeOK
<1>1. CASE UNCHANGED message
      BY <1>0, <1>1
<1>2. CASE ~UNCHANGED message
  <2>1. Published = 1 .. n /\ Cardinality(Published) + 1 = n + 1 /\ n + 1 \in Nat
    <3>1. Cardinality(1 .. n) = n
          BY FS_Interval, SMT, SMTT(30)
    <3>q. QED BY <1>0, <3>1, SMT, SMTT(30) DEF Published
  <2>2. PICK new : new = [kind |-> kind, doc |-> d, complete |-> complete, at |-> "queued", deliveries |-> 0]
        OBVIOUS
  <2>3. new \in Message
        BY <2>2 DEF Message
  <2>4. message' = [i \in (1 .. n) \union {n + 1} |-> IF i = n + 1 THEN new ELSE message[i]]
        BY <1>2, <2>1, <2>2 DEF Publish
  <2>5. (1 .. n) \union {n + 1} = 1 .. n + 1 /\ n + 1 \notin 1 .. n
        BY SMT, SMTT(30)
  <2>6. message' \in [1 .. n + 1 -> Message]
        BY <1>0, <2>3, <2>4, <2>5
  <2>7. /\ n + 1 \in Published' /\ n + 1 \notin Published /\ Published' = Published \union {n + 1}
        /\ message'[n + 1] = new /\ \A i \in Published : message'[i] = message[i]
        BY <2>1, <2>4, <2>5 DEF Published
  <2>q. QED BY <2>1, <2>2, <2>6, <2>7
<1>q. QED BY <1>1, <1>2

\* What a handler does to its message: only the stage changes.
LEMMA MessageMoves ==
    ASSUME SpendTypeOK, NEW m \in Published, MoveTo(m, "queued") \/ MoveTo(m, "acked")
               \/ (message[m].at \in DOMAIN Following /\ MoveTo(m, Following[message[m].at]))
    PROVE  /\ \E n \in Nat : message' \in [1 .. n -> Message]
           /\ Published' = Published /\ \A i \in Published \ {m} : message'[i] = message[i]
           /\ message'[m].kind = message[m].kind /\ message'[m].doc = message[m].doc
           /\ message'[m].deliveries = message[m].deliveries /\ message'[m].complete = message[m].complete
           /\ MoveTo(m, "queued") => message'[m].at = "queued"
           /\ MoveTo(m, "acked") => message'[m].at = "acked"
           /\ message[m].at \in DOMAIN Following /\ MoveTo(m, Following[message[m].at])
                  => message'[m].at = Following[message[m].at]
<1>0. PICK n \in Nat : message \in [1 .. n -> Message]
      BY DEF SpendTypeOK
<1>1. message[m] \in Message /\ Published = 1 .. n
      BY <1>0 DEF Published
<1>2. ASSUME NEW at \in {"queued", "pend", "fact", "monthly", "category", "unpend", "ack", "acked"}, MoveTo(m, at)
      PROVE  /\ message' \in [1 .. n -> Message] /\ Published' = Published
             /\ \A i \in Published \ {m} : message'[i] = message[i]
             /\ message'[m].kind = message[m].kind /\ message'[m].doc = message[m].doc
             /\ message'[m].deliveries = message[m].deliveries /\ message'[m].at = at
             /\ message'[m].complete = message[m].complete
  <2>1. PICK k : k = [message[m] EXCEPT !.at = at]
        OBVIOUS
  <2>2. k \in Message
        BY <1>1, <2>1 DEF Message
  <2>3. k.kind = message[m].kind /\ k.doc = message[m].doc /\ k.deliveries = message[m].deliveries /\ k.at = at
        BY <1>1, <2>1 DEF Message
  <2>4. k.complete = message[m].complete
        BY <1>1, <2>1 DEF Message
  <2>5. message' = [message EXCEPT ![m] = k]
        BY <1>2, <2>1 DEF MoveTo
  <2>6. message' \in [1 .. n -> Message] /\ message'[m] = k /\ \A i \in (1 .. n) \ {m} : message'[i] = message[i]
        BY <1>0, <1>1, <2>2, <2>5
  <2>7. Published' = Published
        BY <1>1, <2>6 DEF Published
  <2>q. QED BY <1>1, <2>3, <2>4, <2>6, <2>7
<1>3. message[m].at \in DOMAIN Following => Following[message[m].at] \in {"ack", "monthly", "category", "unpend"}
      BY SMT, SMTT(30) DEF Following
<1>q. QED BY <1>0, <1>2, <1>3

\* What a delivery does: it is counted, and the handler begins with its first write, or with the
\* acknowledgement of a payload that does not parse.
LEMMA MessageDelivered ==
    ASSUME SpendTypeOK, NEW m \in Published, Deliver(m)
    PROVE  /\ \E n \in Nat : message' \in [1 .. n -> Message]
           /\ Published' = Published /\ \A i \in Published \ {m} : message'[i] = message[i]
           /\ message'[m].kind = message[m].kind /\ message'[m].doc = message[m].doc
           /\ message'[m].deliveries = message[m].deliveries + 1 /\ message'[m].complete = message[m].complete
           /\ message[m].at = "queued"
           /\ \/ ~message[m].complete /\ message'[m].at = "ack"
              \/ message[m].complete /\ message[m].kind = "submitted" /\ message'[m].at = "pend"
              \/ message[m].complete /\ message[m].kind # "submitted" /\ message'[m].at = "fact"
<1>0. PICK n \in Nat : message \in [1 .. n -> Message]
      BY DEF SpendTypeOK
<1>1. message[m] \in Message /\ Published = 1 .. n /\ message[m].deliveries + 1 \in Nat
      BY <1>0, SMT, SMTT(30) DEF Published, Message
<1>2. PICK at : at = IF ~message[m].complete THEN "ack" ELSE IF message[m].kind = "submitted" THEN "pend" ELSE "fact"
      OBVIOUS
<1>a. at \in {"ack", "pend", "fact"}
      BY <1>2
<1>3. PICK k : k = [message[m] EXCEPT !.deliveries = message[m].deliveries + 1, !.at = at]
      OBVIOUS
<1>4. k \in Message
      BY <1>1, <1>a, <1>3 DEF Message
<1>5. k.kind = message[m].kind /\ k.doc = message[m].doc /\ k.deliveries = message[m].deliveries + 1 /\ k.at = at
      BY <1>1, <1>3 DEF Message
<1>6. k.complete = message[m].complete
      BY <1>1, <1>3 DEF Message
<1>7. message' = [message EXCEPT ![m] = k]
      BY <1>0, <1>1, <1>2, <1>3 DEF Deliver
<1>8. message' \in [1 .. n -> Message] /\ message'[m] = k /\ \A i \in (1 .. n) \ {m} : message'[i] = message[i]
      BY <1>0, <1>1, <1>4, <1>7
<1>9. Published' = Published
      BY <1>1, <1>8 DEF Published
<1>10. message[m].at = "queued"
      BY DEF Deliver
<1>11. \/ ~message[m].complete /\ at = "ack"
       \/ message[m].complete /\ message[m].kind = "submitted" /\ at = "pend"
       \/ message[m].complete /\ message[m].kind # "submitted" /\ at = "fact"
      BY <1>2, Zenon
<1>q. QED BY <1>1, <1>5, <1>6, <1>8, <1>9, <1>10, <1>11

\* A new expense has no decision and no call.
LEMMA SubmitKeeps ==
    ASSUME DecisionsInv, NEW e \in Expenses, SubmitExpense(e)
    PROVE  DecisionsInv'
<1>0. /\ SpendTypeOK /\ UNCHANGED <<decider, decided, contested, facts, pending, monthly, category>>
      /\ e \in Docs /\ status[e] = "absent" /\ submitted' = submitted \union {e}
      /\ status' = [status EXCEPT ![e] = "draft"] /\ Publish("submitted", e, TRUE)
      BY DEF DecisionsInv, SubmitExpense, projections, Docs, CreateExpense
<1>1. status'[e] = "draft" /\ \A d \in Docs \ {e} : status'[d] = status[d]
      BY <1>0 DEF SpendTypeOK
<1>2. \E n \in Nat : message' \in [1 .. n -> Message]
      BY <1>0, PublishedIsQueued
<1>3. SpendTypeOK'
      BY <1>0, <1>2 DEF SpendTypeOK
<1>4. StatusOfTable'
      BY <1>0, <1>1, SpendAssumption DEF DecisionsInv, StatusOfTable, Docs
<1>5. ASSUME NEW c \in Deciders PROVE CallIsFresh(decider[c])'
  <2>1. CallIsFresh(decider[c])
        BY DEF DecisionsInv
  <2>2. decider[c].at # "idle" => decider[c].doc \in Docs /\ decider[c].doc # e
        BY <1>0, <2>1 DEF CallIsFresh
  <2>q. QED BY <1>0, <1>1, <2>1, <2>2 DEF CallIsFresh
<1>6. OneDecider'
      BY <1>0 DEF DecisionsInv, OneDecider
<1>7. DecidedIsFinal'
      BY <1>0, <1>1 DEF DecisionsInv, DecidedIsFinal
<1>q. QED BY <1>3, <1>4, <1>5, <1>6, <1>7 DEF DecisionsInv

\* A call that publishes or fails is over.
LEMMA CallOverKeeps ==
    ASSUME DecisionsInv, NEW c \in Deciders, DecidePublish(c) \/ DecideFails(c)
    PROVE  DecisionsInv'
<1>0. /\ SpendTypeOK /\ UNCHANGED <<status, decided, contested, submitted, facts, pending, monthly, category>>
      /\ decider' = [decider EXCEPT ![c] = NoDecision]
      BY DEF DecisionsInv, DecidePublish, DecideFails, projections
<1>1. /\ NoDecision \in [at : {"idle", "write", "publish"}, op : Operations \union {"none"}, doc : Docs \union {"none"}]
      /\ NoDecision.doc = "none" /\ NoDecision.at = "idle"
      BY DEF NoDecision
<1>2. decider'[c] = NoDecision /\ \A o \in Deciders \ {c} : decider'[o] = decider[o]
      BY <1>0 DEF SpendTypeOK
<1>3. \E n \in Nat : message' \in [1 .. n -> Message]
  <2>1. CASE DecideFails(c)
        BY <1>0, <2>1 DEF DecideFails, SpendTypeOK
  <2>2. CASE DecidePublish(c)
    <3>1. decider[c].doc \in Docs
          BY <2>2 DEF DecisionsInv, CallIsFresh, DecidePublish
    <3>q. QED BY <1>0, <2>2, <3>1, PublishedIsQueued DEF DecidePublish
  <2>q. QED BY <2>1, <2>2
<1>4. SpendTypeOK'
      BY <1>0, <1>1, <1>3 DEF SpendTypeOK
<1>5. ASSUME NEW o \in Deciders PROVE CallIsFresh(decider[o])'
      BY <1>0, <1>1, <1>2, SMT, SMTT(30) DEF DecisionsInv, CallIsFresh
<1>6. OneDecider'
      BY <1>0, <1>1, <1>2, SpendAssumption, SMT, SMTT(30) DEF DecisionsInv, OneDecider, Docs
<1>7. StatusOfTable' /\ DecidedIsFinal'
      BY <1>0 DEF DecisionsInv, StatusOfTable, DecidedIsFinal
<1>q. QED BY <1>4, <1>5, <1>6, <1>7 DEF DecisionsInv

\* A projection write keeps the projections' types.
LEMMA WriteKeepsTypes ==
    ASSUME SpendTypeOK, NEW m \in Published, ProjectionWrite(m) \/ UNCHANGED projections
    PROVE  facts' \subseteq Docs /\ pending' \subseteq Docs /\ monthly' \in Nat /\ category' \in Nat
<1>1. message[m].doc \in Docs
      BY DEF SpendTypeOK, Published, Message
<1>2. CASE UNCHANGED projections
      BY <1>2 DEF SpendTypeOK, projections
<1>3. CASE UpsertPendingApproval(m) \/ UpsertExpenseFact(m) \/ DeletePendingApproval(m)
      BY <1>1, <1>3 DEF SpendTypeOK, UpsertPendingApproval, UpsertExpenseFact, DeletePendingApproval
<1>4. CASE IncrementMonthlySpend(m) \/ IncrementCategorySpend(m)
      BY <1>4, SMT, SMTT(30) DEF SpendTypeOK, IncrementMonthlySpend, IncrementCategorySpend
<1>q. QED BY <1>2, <1>3, <1>4 DEF ProjectionWrite

\* The consumer takes no part in the decisions.
LEMMA ConsumerKeepsDecisions ==
    ASSUME DecisionsInv, NEW m \in Published, Deliver(m) \/ HandlerStep(m) \/ HandlerFails(m) \/ HandlerAcks(m)
    PROVE  DecisionsInv'
<1>0. SpendTypeOK /\ UNCHANGED services
      BY DEF DecisionsInv, Deliver, HandlerStep, HandlerFails, HandlerAcks
<1>1. \E n \in Nat : message' \in [1 .. n -> Message]
      BY <1>0, MessageMoves, MessageDelivered DEF HandlerStep, HandlerFails, HandlerAcks
<1>2. ProjectionWrite(m) \/ UNCHANGED projections
      BY DEF Deliver, HandlerStep, HandlerFails, HandlerAcks
<1>3. facts' \subseteq Docs /\ pending' \subseteq Docs /\ monthly' \in Nat /\ category' \in Nat
      BY <1>0, <1>2, WriteKeepsTypes
<1>4. SpendTypeOK'
      BY <1>0, <1>1, <1>3 DEF SpendTypeOK, services
<1>q. QED BY <1>0, <1>4, ServicesUntouched

\* The invariant of the decisions holds at first and is kept by every step.
LEMMA DecisionsInvInit == SpendInit => DecisionsInv
<1>0. SUFFICES ASSUME SpendInit PROVE DecisionsInv
      OBVIOUS
<1>1. PICK seeded \in SUBSET Docs :
          status = [d \in Docs |-> CASE d \notin seeded -> "absent"
                                     [] d \in seeded \intersect Expenses -> "submitted"
                                     [] d \in seeded \intersect Advances -> "issued"
                                     [] OTHER -> "draft"]
      BY <1>0 DEF SpendInit
<1>2. \A d \in Docs : /\ status[d] \in {"absent", "submitted", "issued", "draft"}
                      /\ d \in Expenses => status[d] \in {"absent", "submitted"}
                      /\ d \in Advances => status[d] \in {"absent", "issued"}
  <2>1. ASSUME NEW d \in Docs
        PROVE  /\ status[d] \in {"absent", "submitted", "issued", "draft"}
               /\ d \in Expenses => status[d] \in {"absent", "submitted"}
               /\ d \in Advances => status[d] \in {"absent", "issued"}
    <3>1. CASE d \notin seeded
          BY <1>1, <3>1
    <3>2. CASE d \in seeded /\ d \in Expenses
          BY <1>1, <3>2, SpendAssumption
    <3>3. CASE d \in seeded /\ d \in Advances
          BY <1>1, <3>3, SpendAssumption
    <3>4. CASE d \in seeded /\ d \notin Advances /\ d \notin Expenses
          BY <1>1, <3>4
    <3>q. QED BY <3>1, <3>2, <3>3, <3>4
  <2>q. QED BY <2>1
<1>3. StatusOfTable
      BY <1>2 DEF StatusOfTable, Docs
<1>4. /\ NoDecision \in [at : {"idle", "write", "publish"}, op : Operations \union {"none"}, doc : Docs \union {"none"}]
      /\ NoDecision.doc = "none" /\ NoDecision.at = "idle"
      BY DEF NoDecision
<1>5. SpendTypeOK
  <2>1. status \in [Docs -> {"absent", "draft", "submitted", "approved", "rejected", "issued", "settled"}]
        BY <1>1, <1>2
  <2>2. message \in [1 .. 0 -> Message]
        BY <1>0, SMT, SMTT(30) DEF SpendInit
  <2>3. \E n \in Nat : message \in [1 .. n -> Message]
        BY <2>2
  <2>q. QED BY <1>0, <1>4, <2>1, <2>3 DEF SpendInit, SpendTypeOK
<1>6. \A c \in Deciders : decider[c] = NoDecision
      BY <1>0 DEF SpendInit
<1>7. (\A c \in Deciders : CallIsFresh(decider[c])) /\ OneDecider
      BY <1>4, <1>6, SpendAssumption DEF CallIsFresh, OneDecider, Docs
<1>8. DecidedIsFinal
      BY <1>0 DEF SpendInit, DecidedIsFinal
<1>q. QED BY <1>3, <1>5, <1>7, <1>8 DEF DecisionsInv

\* Every step keeps it.
LEMMA DecisionsInvNext == DecisionsInv /\ [SpendNext]_spendVars => DecisionsInv'
<1>0. SUFFICES ASSUME DecisionsInv, [SpendNext]_spendVars PROVE DecisionsInv'
      OBVIOUS
<1>1. CASE UNCHANGED spendVars
  <2>1. SpendTypeOK'
        BY <1>0, <1>1 DEF spendVars, DecisionsInv, SpendTypeOK
  <2>q. QED BY <1>0, <1>1, <2>1, ServicesUntouched DEF spendVars, services
<1>q. QED BY <1>0, <1>1, SubmitKeeps, ReadKeeps, WriteKeepsDecisions, CallOverKeeps, ConsumerKeepsDecisions DEF SpendNext

\* ApproveExpense, RejectExpense, ApprovePurchaseOrder, SettlePettyCash, ApproveBudget: no document
\* is decided twice unless two calls were deciding on it at the same time, for any number of
\* documents and calls.
THEOREM DecidedOnceHolds == SpendSpec => []DecidedOnce
<1>1. DecisionsInv => DecidedOnce
      BY SMT, SMTT(30) DEF DecisionsInv, DecidedIsFinal, DecidedOnce
<1>q. QED BY <1>1, DecisionsInvInit, DecisionsInvNext, PTL DEF SpendSpec

\* An expense whose approval has been written; it stays approved unless it is contested.
IsApproved(e) ==
    /\ e \in Expenses /\ e \notin submitted /\ status[e] # "absent"
    /\ e \notin contested => status[e] = "approved"

\* What a call has yet to publish is true, and only an expense that did not come in through
\* SubmitExpense is being approved.
ApprovalIsTrue(k) ==
    /\ k.at # "idle" /\ k.op = "approveExpense" => k.doc \notin submitted
    /\ k.at = "publish" => k.op \in {"approveExpense", "approveBudget"}
    /\ k.at = "publish" /\ k.op = "approveExpense" => IsApproved(k.doc)

\* An event says what happened, and is only in the stages of its own handler.
MessageIsTrue(k) ==
    /\ k.kind = "approved" => IsApproved(k.doc) /\ k.at # "pend" /\ (k.at = "queued" \/ k.deliveries >= 1)
    /\ k.kind = "approved" => k.complete
    /\ k.kind = "submitted" => k.at \in {"queued", "pend", "ack", "acked"}
    /\ k.kind = "budget" => ~k.complete /\ k.at \in {"queued", "ack", "acked"}

\* The inductive invariant of what is reported, on top of the one of the decisions.
ReportInv ==
    /\ \A c \in Deciders : ApprovalIsTrue(decider[c])
    /\ \A m \in Published : MessageIsTrue(message[m])
    /\ \A e \in facts : IsApproved(e)
    /\ \A e \in submitted : status[e] \in {"draft", "rejected"}

\* A step of the services that changes no approval leaves the projections and the events true.
LEMMA ApprovalsStay ==
    ASSUME ReportInv, \A e \in Docs : IsApproved(e) => IsApproved(e)', SpendTypeOK,
           UNCHANGED <<facts, message>>
    PROVE  (\A m \in Published : MessageIsTrue(message[m]))' /\ (\A e \in facts : IsApproved(e))'
<1>1. \A m \in Published : message[m].doc \in Docs
      BY DEF SpendTypeOK, Published, Message
<1>2. \A m \in Published : MessageIsTrue(message[m])'
      BY <1>1 DEF ReportInv, MessageIsTrue
<1>q. QED BY <1>2 DEF ReportInv, SpendTypeOK, Published

\* Reading a document changes none, and only a submitted expense can be approved.
LEMMA ReadKeepsReport ==
    ASSUME DecisionsInv, ReportInv, NEW c \in Deciders, NEW op \in Operations, NEW d \in Docs, DecideRead(c, op, d)
    PROVE  ReportInv'
<1>0. /\ SpendTypeOK /\ UNCHANGED <<status, submitted, message, facts>> /\ contested \subseteq contested'
      /\ Accepts(op, d, status[d]) /\ status[d] # "absent"
      BY DEF DecisionsInv, DecideRead, projections
<1>1. \A e \in Docs : IsApproved(e) => IsApproved(e)'
      BY <1>0 DEF IsApproved
<1>2. (\A m \in Published : MessageIsTrue(message[m]))' /\ (\A e \in facts : IsApproved(e))'
      BY <1>0, <1>1, ApprovalsStay
<1>3. ASSUME NEW o \in Deciders PROVE ApprovalIsTrue(decider[o])'
  <2>1. CASE o = c
    <3>1. decider'[c].at = "write" /\ decider'[c].op = op /\ decider'[c].doc = d
          BY <1>0 DEF DecideRead, SpendTypeOK
    <3>2. op = "approveExpense" => d \notin submitted
          BY <1>0, AcceptedIsOpen DEF ReportInv
    <3>q. QED BY <1>0, <2>1, <3>1, <3>2 DEF ApprovalIsTrue
  <2>2. CASE o # c
    <3>1. decider'[o] = decider[o] /\ ApprovalIsTrue(decider[o])
          BY <1>0, <2>2 DEF DecideRead, SpendTypeOK, ReportInv
    <3>2. decider[o].at = "publish" => decider[o].doc \in Docs
          BY DEF DecisionsInv, CallIsFresh
    <3>q. QED BY <1>0, <1>1, <3>1, <3>2 DEF ApprovalIsTrue
  <2>q. QED BY <2>1, <2>2
<1>4. (\A e \in submitted : status[e] \in {"draft", "rejected"})'
      BY <1>0 DEF ReportInv
<1>q. QED BY <1>2, <1>3, <1>4 DEF ReportInv

\* A write changes no approval of a document it is alone with.
LEMMA WriteKeepsReport ==
    ASSUME DecisionsInv, ReportInv, NEW c \in Deciders, DecideWrite(c)
    PROVE  ReportInv'
<1>0. PICK k : k = decider[c]
      OBVIOUS
<1>1. /\ SpendTypeOK /\ UNCHANGED <<contested, submitted, message, facts>>
      /\ k.at = "write" /\ CallIsFresh(k) /\ ApprovalIsTrue(k)
      /\ k \in [at : {"idle", "write", "publish"}, op : Operations \union {"none"}, doc : Docs \union {"none"}]
      BY <1>0 DEF DecisionsInv, DecideWrite, projections, SpendTypeOK, ReportInv
<1>2. k.op \in Operations /\ k.doc \in Docs /\ status[k.doc] # "absent" /\ k.doc \in Table[k.op]
      BY <1>1 DEF CallIsFresh
<1>3. /\ Writes[k.op] \in {"approved", "rejected", "settled", "submitted"}
      /\ k.doc \in Expenses => k.op \in {"approveExpense", "rejectExpense"}
      /\ k.op = "approveExpense" => k.doc \in Expenses /\ Writes[k.op] = "approved"
      /\ k.op = "rejectExpense" => Writes[k.op] = "rejected"
      BY <1>2, SpendAssumption, SMT, SMTT(30) DEF Writes, Table, Operations
<1>4. status'[k.doc] = Writes[k.op] /\ \A d \in Docs \ {k.doc} : status'[d] = status[d]
      BY <1>0, <1>1, <1>2 DEF DecideWrite, SpendTypeOK
<1>5. ASSUME NEW e \in Docs, IsApproved(e) PROVE IsApproved(e)'
  <2>1. CASE e # k.doc
        BY <1>1, <1>4, <1>5, <2>1 DEF IsApproved
  <2>2. CASE e = k.doc /\ e \in contested
        BY <1>1, <1>3, <1>4, <1>5, <2>2 DEF IsApproved
  <2>3. CASE e = k.doc /\ e \notin contested
    <3>1. Accepts(k.op, e, status[e])
          BY <1>1, <2>3 DEF CallIsFresh
    <3>2. status[e] # "approved"
          BY <1>2, <2>3, <3>1, AcceptedIsOpen
    <3>q. QED BY <1>5, <2>3, <3>2 DEF IsApproved
  <2>q. QED BY <2>1, <2>2, <2>3
<1>6. (\A m \in Published : MessageIsTrue(message[m]))' /\ (\A e \in facts : IsApproved(e))'
      BY <1>1, <1>5, ApprovalsStay
<1>7. PICK next : /\ decider'[c] = next /\ \A o \in Deciders \ {c} : decider'[o] = decider[o]
                  /\ \/ next.at = "idle"
                     \/ next.at = "publish" /\ next.op = k.op /\ next.doc = k.doc /\ k.op \in {"approveExpense", "approveBudget"}
  <2>1. PICK next : /\ decider' = [decider EXCEPT ![c] = next]
                    /\ \/ next = NoDecision
                       \/ next = [k EXCEPT !.at = "publish"] /\ k.op \in {"approveExpense", "approveBudget"}
        BY <1>0, <1>1 DEF DecideWrite, SpendTypeOK
  <2>2. \/ next.at = "idle"
        \/ next.at = "publish" /\ next.op = k.op /\ next.doc = k.doc /\ k.op \in {"approveExpense", "approveBudget"}
        BY <1>1, <2>1, SMT, SMTT(30) DEF NoDecision
  <2>3. decider'[c] = next /\ \A o \in Deciders \ {c} : decider'[o] = decider[o]
        BY <1>1, <2>1 DEF SpendTypeOK
  <2>q. QED BY <2>2, <2>3
<1>8. ASSUME NEW o \in Deciders PROVE ApprovalIsTrue(decider[o])'
  <2>1. CASE o = c
    <3>1. k.op = "approveExpense" => k.doc \notin submitted /\ IsApproved(k.doc)'
      <4>1. k.op = "approveExpense" => k.doc \notin submitted
            BY <1>1 DEF ApprovalIsTrue
      <4>q. QED BY <1>1, <1>3, <1>4, <4>1 DEF IsApproved
    <3>q. QED BY <1>1, <1>7, <2>1, <3>1 DEF ApprovalIsTrue
  <2>2. CASE o # c
    <3>1. decider'[o] = decider[o] /\ ApprovalIsTrue(decider[o])
          BY <1>7, <2>2 DEF ReportInv
    <3>2. decider[o].at = "publish" => decider[o].doc \in Docs
          BY DEF DecisionsInv, CallIsFresh
    <3>q. QED BY <1>1, <1>5, <3>1, <3>2 DEF ApprovalIsTrue
  <2>q. QED BY <2>1, <2>2
<1>9. ASSUME NEW e \in submitted PROVE status'[e] \in {"draft", "rejected"}
  <2>1. e \in Expenses /\ e \in Docs /\ status[e] \in {"draft", "rejected"}
        BY <1>1 DEF ReportInv, SpendTypeOK, Docs
  <2>2. CASE e # k.doc
        BY <1>4, <2>1, <2>2
  <2>3. CASE e = k.doc
    <3>1. k.op = "rejectExpense"
          BY <1>1, <1>3, <2>1, <2>3 DEF ApprovalIsTrue
    <3>q. QED BY <1>3, <1>4, <2>3, <3>1
  <2>q. QED BY <2>2, <2>3
<1>q. QED BY <1>1, <1>6, <1>8, <1>9 DEF ReportInv

\* A new event waits in its queue.
LEMMA PublishKeepsReport ==
    ASSUME DecisionsInv, ReportInv, NEW kind \in {"submitted", "approved", "budget"}, NEW d \in Docs, NEW complete \in BOOLEAN,
           Publish(kind, d, complete), kind = "approved" => IsApproved(d)', kind = "approved" => complete, kind = "budget" => ~complete,
           \A e \in Docs : IsApproved(e) => IsApproved(e)'
    PROVE  (\A m \in Published : MessageIsTrue(message[m]))'
<1>0. SpendTypeOK /\ \A m \in Published : message[m].doc \in Docs
      BY DEF DecisionsInv, SpendTypeOK, Published, Message
<1>1. \A m \in Published : message'[m] = message[m] => MessageIsTrue(message[m])'
      BY <1>0 DEF ReportInv, MessageIsTrue
<1>2. CASE UNCHANGED message
      BY <1>1, <1>2 DEF Published
<1>3. ASSUME NEW m \in Published',
             m \notin Published, Published' = Published \union {m}, \A i \in Published : message'[i] = message[i],
             message'[m] = [kind |-> kind, doc |-> d, complete |-> complete, at |-> "queued", deliveries |-> 0]
      PROVE  (\A i \in Published : MessageIsTrue(message[i]))'
  <2>1. message'[m].kind = kind /\ message'[m].doc = d /\ message'[m].at = "queued"
        BY <1>3, SMT, SMTT(30)
  <2>2. message'[m].complete = complete
        BY <1>3, SMT, SMTT(30)
  <2>3. MessageIsTrue(message[m])'
        BY <2>1, <2>2 DEF MessageIsTrue
  <2>q. QED BY <1>1, <1>3, <2>3
<1>q. QED BY <1>0, <1>2, <1>3, PublishedIsQueued, SMT, SMTT(30)

\* A new expense is a draft that nothing was reported of.
LEMMA SubmitKeepsReport ==
    ASSUME DecisionsInv, ReportInv, NEW e \in Expenses, SubmitExpense(e)
    PROVE  ReportInv'
<1>0. /\ SpendTypeOK /\ UNCHANGED <<decider, contested, facts>>
      /\ e \in Docs /\ status[e] = "absent" /\ submitted' = submitted \union {e}
      /\ status' = [status EXCEPT ![e] = "draft"] /\ Publish("submitted", e, TRUE)
      BY DEF DecisionsInv, SubmitExpense, projections, Docs, CreateExpense
<1>1. status'[e] = "draft" /\ \A d \in Docs \ {e} : status'[d] = status[d]
      BY <1>0 DEF SpendTypeOK
<1>2. \A d \in Docs : IsApproved(d) => IsApproved(d)'
      BY <1>0, <1>1 DEF IsApproved
<1>3. (\A m \in Published : MessageIsTrue(message[m]))'
      BY <1>0, <1>2, PublishKeepsReport
<1>4. (\A d \in facts : IsApproved(d))'
      BY <1>0, <1>2 DEF ReportInv, SpendTypeOK
<1>5. ASSUME NEW o \in Deciders PROVE ApprovalIsTrue(decider[o])'
  <2>1. decider'[o] = decider[o] /\ ApprovalIsTrue(decider[o])
        BY <1>0 DEF ReportInv
  <2>2. decider[o].at # "idle" => decider[o].doc \in Docs /\ decider[o].doc # e
        BY <1>0 DEF DecisionsInv, CallIsFresh
  <2>q. QED BY <1>0, <1>2, <2>1, <2>2 DEF ApprovalIsTrue
<1>6. (\A d \in submitted : status[d] \in {"draft", "rejected"})'
      BY <1>0, <1>1 DEF ReportInv, SpendTypeOK, Docs
<1>q. QED BY <1>3, <1>4, <1>5, <1>6 DEF ReportInv

\* A call publishes the approval it has written, or nothing.
LEMMA CallOverKeepsReport ==
    ASSUME DecisionsInv, ReportInv, NEW c \in Deciders, DecidePublish(c) \/ DecideFails(c)
    PROVE  ReportInv'
<1>0. /\ SpendTypeOK /\ UNCHANGED <<status, contested, submitted, facts>>
      /\ decider' = [decider EXCEPT ![c] = NoDecision]
      BY DEF DecisionsInv, DecidePublish, DecideFails, projections
<1>1. NoDecision.at = "idle"
      BY DEF NoDecision
<1>2. decider'[c] = NoDecision /\ \A o \in Deciders \ {c} : decider'[o] = decider[o]
      BY <1>0 DEF SpendTypeOK
<1>3. \A d \in Docs : IsApproved(d) <=> IsApproved(d)'
      BY <1>0 DEF IsApproved
<1>4. (\A m \in Published : MessageIsTrue(message[m]))'
  <2>1. CASE DecideFails(c)
    <3>1. UNCHANGED message
          BY <2>1 DEF DecideFails
    <3>q. QED BY <1>0, <1>3, <3>1, ApprovalsStay
  <2>2. CASE DecidePublish(c)
    <3>1. /\ decider[c].doc \in Docs /\ decider[c].at = "publish"
          /\ decider[c].op = "approveExpense" => IsApproved(decider[c].doc)
          BY <2>2 DEF DecisionsInv, CallIsFresh, DecidePublish, ReportInv, ApprovalIsTrue
    <3>2. IF decider[c].op = "approveExpense" THEN Publish("approved", decider[c].doc, TRUE)
          ELSE Publish("budget", decider[c].doc, FALSE)
          BY <2>2 DEF DecidePublish
    <3>q. QED BY <1>3, <3>1, <3>2, PublishKeepsReport
  <2>q. QED BY <2>1, <2>2
<1>5. ASSUME NEW o \in Deciders PROVE ApprovalIsTrue(decider[o])'
  <2>1. decider[o].at = "publish" => decider[o].doc \in Docs
        BY DEF DecisionsInv, CallIsFresh
  <2>q. QED BY <1>0, <1>1, <1>2, <1>3, <2>1, SMT, SMTT(30) DEF ReportInv, ApprovalIsTrue
<1>6. (\A d \in facts : IsApproved(d))' /\ (\A d \in submitted : status[d] \in {"draft", "rejected"})'
      BY <1>0, <1>3 DEF ReportInv, SpendTypeOK
<1>q. QED BY <1>4, <1>5, <1>6 DEF ReportInv

\* The consumer adds to the facts only what an approval event names.
LEMMA ConsumerKeepsReport ==
    ASSUME DecisionsInv, ReportInv, NEW m \in Published, Deliver(m) \/ HandlerStep(m) \/ HandlerFails(m) \/ HandlerAcks(m)
    PROVE  ReportInv'
<1>0. SpendTypeOK /\ UNCHANGED services /\ message[m] \in Message /\ MessageIsTrue(message[m])
      BY DEF DecisionsInv, Deliver, HandlerStep, HandlerFails, HandlerAcks, ReportInv, SpendTypeOK, Published
<1>1. /\ Published' = Published /\ \A i \in Published \ {m} : message'[i] = message[i]
      /\ message'[m].kind = message[m].kind /\ message'[m].doc = message[m].doc
      BY <1>0, MessageMoves, MessageDelivered DEF HandlerStep, HandlerFails, HandlerAcks
<1>c. message'[m].complete = message[m].complete
      BY <1>0, MessageMoves, MessageDelivered DEF HandlerStep, HandlerFails, HandlerAcks
<1>2. \A d \in Docs : IsApproved(d) <=> IsApproved(d)'
      BY <1>0 DEF IsApproved, services
<1>3. MessageIsTrue(message[m])'
  <2>0. message[m].doc \in Docs /\ message[m].deliveries \in Nat
        BY <1>0 DEF Message
  <2>1. CASE Deliver(m)
    <3>1. /\ message'[m].deliveries = message[m].deliveries + 1
          /\ \/ ~message[m].complete /\ message'[m].at = "ack"
             \/ message[m].complete /\ message[m].kind = "submitted" /\ message'[m].at = "pend"
             \/ message[m].complete /\ message[m].kind # "submitted" /\ message'[m].at = "fact"
          BY <1>0, <2>1, MessageDelivered
    <3>2. message'[m].deliveries >= 1
          BY <2>0, <3>1, SMT, SMTT(30)
    <3>3. (message[m].kind = "approved" => message[m].complete) /\ (message[m].kind = "budget" => ~message[m].complete)
          BY <1>0 DEF MessageIsTrue
    <3>4. message[m].kind = "approved" => IsApproved(message[m].doc)'
          BY <1>0, <1>1 DEF MessageIsTrue, IsApproved, services
    <3>q. QED BY <1>1, <1>c, <3>1, <3>2, <3>3, <3>4 DEF MessageIsTrue
  <2>2. CASE HandlerStep(m) \/ HandlerFails(m) \/ HandlerAcks(m)
    <3>1. /\ message'[m].deliveries = message[m].deliveries /\ message[m].at # "queued"
          /\ \/ message'[m].at = "queued"
             \/ message'[m].at = "acked"
             \/ message[m].at \in DOMAIN Following /\ message'[m].at = Following[message[m].at]
          BY ZenonT(40), <1>0, <2>2, MessageMoves DEF HandlerStep, HandlerFails, HandlerAcks, Handling, Following
    <3>2. \/ message'[m].at \in {"queued", "acked"}
          \/ message[m].at \in {"pend", "unpend"} /\ message'[m].at = "ack"
          \/ message[m].at = "fact" /\ message'[m].at = "monthly"
          \/ message[m].at = "monthly" /\ message'[m].at = "category"
          \/ message[m].at = "category" /\ message'[m].at = "unpend"
          BY <3>1, SMT, SMTT(30) DEF Following
    <3>3. (message[m].kind = "approved" => message[m].complete) /\ (message[m].kind = "budget" => ~message[m].complete)
          BY <1>0 DEF MessageIsTrue
    <3>4. message[m].kind = "approved" => IsApproved(message[m].doc)'
          BY <1>0, <1>1 DEF MessageIsTrue, IsApproved, services
    <3>5. message[m].kind = "approved" => message'[m].at # "pend" /\ (message'[m].at = "queued" \/ message'[m].deliveries >= 1)
          BY <1>0, <3>1, <3>2 DEF MessageIsTrue
    <3>6. message[m].kind = "submitted" => message'[m].at \in {"queued", "pend", "ack", "acked"}
          BY <1>0, <3>2 DEF MessageIsTrue
    <3>7. message[m].kind = "budget" => message'[m].at \in {"queued", "ack", "acked"}
          BY <1>0, <3>2 DEF MessageIsTrue
    <3>q. QED BY <1>1, <1>c, <3>3, <3>4, <3>5, <3>6, <3>7 DEF MessageIsTrue
  <2>q. QED BY <2>1, <2>2
<1>4. \A i \in Published : message[i].doc \in Docs
      BY <1>0 DEF SpendTypeOK, Published, Message
<1>5. ASSUME NEW i \in Published \ {m} PROVE MessageIsTrue(message[i])'
      BY <1>1, <1>2, <1>4 DEF ReportInv, MessageIsTrue
<1>6. (\A i \in Published : MessageIsTrue(message[i]))'
      BY <1>1, <1>3, <1>5
<1>7. (\A d \in facts : IsApproved(d))'
  <2>1. facts' = facts \/ (facts' = facts \union {message[m].doc} /\ message[m].at = "fact")
        BY DEF Deliver, HandlerStep, HandlerFails, HandlerAcks, ProjectionWrite, UpsertPendingApproval,
               UpsertExpenseFact, IncrementMonthlySpend, IncrementCategorySpend, DeletePendingApproval, projections
  <2>2. message[m].at = "fact" => IsApproved(message[m].doc)
        BY <1>0 DEF MessageIsTrue, Message
  <2>q. QED BY <1>0, <1>2, <1>4, <2>1, <2>2 DEF ReportInv, SpendTypeOK
<1>8. ASSUME NEW o \in Deciders PROVE ApprovalIsTrue(decider[o])'
  <2>1. decider'[o] = decider[o] /\ submitted' = submitted
        BY <1>0 DEF services
  <2>2. decider[o].at = "publish" => decider[o].doc \in Docs
        BY DEF DecisionsInv, CallIsFresh
  <2>q. QED BY <1>2, <2>1, <2>2 DEF ReportInv, ApprovalIsTrue
<1>9. (\A d \in submitted : status[d] \in {"draft", "rejected"})'
      BY <1>0 DEF ReportInv, services
<1>q. QED BY <1>6, <1>7, <1>8, <1>9 DEF ReportInv

\* Both invariants hold in every state of the services and of the consumer.
THEOREM SpendInvariant == SpendSpec => [](DecisionsInv /\ ReportInv)
<1>1. SpendInit => ReportInv
  <2>1. NoDecision.at = "idle"
        BY DEF NoDecision
  <2>2. SpendInit => Published = {} /\ facts = {} /\ submitted = {} /\ \A c \in Deciders : decider[c] = NoDecision
        BY SMT, SMTT(30) DEF SpendInit, Published
  <2>q. QED BY <2>1, <2>2 DEF ReportInv, ApprovalIsTrue
<1>2. DecisionsInv /\ ReportInv /\ [SpendNext]_spendVars => ReportInv'
  <2>0. SUFFICES ASSUME DecisionsInv, ReportInv, [SpendNext]_spendVars PROVE ReportInv'
        OBVIOUS
  <2>1. CASE UNCHANGED spendVars
    <3>1. \A d : IsApproved(d) <=> IsApproved(d)'
          BY <2>1 DEF spendVars, IsApproved
    <3>2. (\A m \in Published : MessageIsTrue(message[m]))' /\ (\A e \in facts : IsApproved(e))'
          BY <2>0, <2>1, <3>1, ApprovalsStay DEF DecisionsInv, spendVars
    <3>q. QED BY <2>0, <2>1, <3>1, <3>2 DEF spendVars, ReportInv, ApprovalIsTrue
  <2>q. QED BY <2>0, <2>1, SubmitKeepsReport, ReadKeepsReport, WriteKeepsReport, CallOverKeepsReport, ConsumerKeepsReport
            DEF SpendNext
<1>q. QED BY <1>1, <1>2, DecisionsInvInit, DecisionsInvNext, PTL DEF SpendSpec

\* handleExpenseApproved: what reporting counts is an expense that is, and stays, approved,
\* unless two calls decided on it at once.
THEOREM CountedIsApprovedHolds == SpendSpec => []CountedIsApproved
<1>1. ReportInv => CountedIsApproved
      BY DEF ReportInv, IsApproved, CountedIsApproved
<1>q. QED BY <1>1, SpendInvariant, PTL

\* SubmitExpense: what comes in through the API stays a draft or is rejected, and is never counted.
THEOREM SubmittedNeverApprovedHolds == SpendSpec => []SubmittedNeverApproved
<1>1. ReportInv => SubmittedNeverApproved
      BY DEF ReportInv, IsApproved, SubmittedNeverApproved
<1>q. QED BY <1>1, SpendInvariant, PTL

\* The approval events whose handler is past a write.
Past(steps) == {m \in Published : message[m].kind = "approved" /\ message[m].at \in steps}

\* Where a delivery is once a projection has been written.
AfterMonthly == {"category", "unpend", "ack", "acked"}
AfterCategory == {"unpend", "ack", "acked"}

\* No approval event has been delivered a second time, or is about to be.
DeliveredOnce ==
    \A m \in Published : message[m].kind = "approved" =>
        message[m].deliveries <= 1 /\ (message[m].at = "queued" => message[m].deliveries = 0)

\* The inductive invariant of the totals, on top of the other two: they count at least the events
\* past their increment, and exactly those while nothing is delivered twice.
TotalsInv ==
    /\ monthly >= Cardinality(Past(AfterMonthly)) /\ category >= Cardinality(Past(AfterCategory))
    /\ DeliveredOnce => monthly = Cardinality(Past(AfterMonthly)) /\ category = Cardinality(Past(AfterCategory))

\* There are finitely many events.
LEMMA PastIsFinite ==
    ASSUME SpendTypeOK, NEW steps
    PROVE  IsFiniteSet(Past(steps)) /\ Cardinality(Past(steps)) \in Nat
<1>1. PICK n \in Nat : Published = 1 .. n
      BY DEF SpendTypeOK, Published
<1>2. IsFiniteSet(1 .. n)
      BY FS_Interval, SMT, SMTT(30)
<1>3. Past(steps) \subseteq 1 .. n
      BY <1>1 DEF Past
<1>4. IsFiniteSet(Past(steps))
      BY <1>2, <1>3, FS_Subset
<1>q. QED BY <1>4, FS_CardinalityType

\* How a step of one handler changes the number of events past a write.
LEMMA PastChanges ==
    ASSUME SpendTypeOK, NEW steps, NEW m \in Published, Published' = Published,
           \A i \in Published \ {m} : message'[i] = message[i], message'[m].kind = message[m].kind
    PROVE  /\ \/ message[m].kind # "approved"
              \/ message[m].at \in steps /\ message'[m].at \in steps
              \/ message[m].at \notin steps /\ message'[m].at \notin steps
              => Cardinality(Past(steps))' = Cardinality(Past(steps))
           /\ message[m].kind = "approved" /\ message[m].at \notin steps /\ message'[m].at \in steps
              => Cardinality(Past(steps))' = Cardinality(Past(steps)) + 1
           /\ message[m].kind = "approved" /\ message[m].at \in steps /\ message'[m].at \notin steps
              => Cardinality(Past(steps))' = Cardinality(Past(steps)) - 1
<1>0. IsFiniteSet(Past(steps))
      BY PastIsFinite
<1>1. ASSUME \/ message[m].kind # "approved"
             \/ message[m].at \in steps /\ message'[m].at \in steps
             \/ message[m].at \notin steps /\ message'[m].at \notin steps
      PROVE  Past(steps)' = Past(steps)
      BY <1>1 DEF Past
<1>2. ASSUME message[m].kind = "approved", message[m].at \notin steps, message'[m].at \in steps
      PROVE  Cardinality(Past(steps))' = Cardinality(Past(steps)) + 1
  <2>1. Past(steps)' = Past(steps) \union {m} /\ m \notin Past(steps)
        BY <1>2 DEF Past
  <2>q. QED BY <1>0, <2>1, FS_AddElement
<1>3. ASSUME message[m].kind = "approved", message[m].at \in steps, message'[m].at \notin steps
      PROVE  Cardinality(Past(steps))' = Cardinality(Past(steps)) - 1
  <2>1. Past(steps)' = Past(steps) \ {m} /\ m \in Past(steps)
        BY <1>3 DEF Past
  <2>q. QED BY <1>0, <2>1, FS_RemoveElement
<1>q. QED BY <1>1, <1>2, <1>3

\* The services publish events and leave the totals alone.
LEMMA ServicesKeepTotals ==
    ASSUME SpendTypeOK, TotalsInv, UNCHANGED <<monthly, category>>,
           \/ UNCHANGED message
           \/ \E kind \in {"submitted", "approved", "budget"}, d \in Docs, complete \in BOOLEAN : Publish(kind, d, complete)
    PROVE  TotalsInv'
<1>1. CASE UNCHANGED message
      BY <1>1 DEF TotalsInv, Past, Published, DeliveredOnce
<1>2. ASSUME NEW m \in Published', m \notin Published, Published' = Published \union {m},
             \A i \in Published : message'[i] = message[i], message'[m].at = "queued"
      PROVE  TotalsInv'
  <2>1. Past(AfterMonthly)' = Past(AfterMonthly) /\ Past(AfterCategory)' = Past(AfterCategory)
        BY <1>2 DEF Past, AfterMonthly, AfterCategory
  <2>2. DeliveredOnce' => DeliveredOnce
        BY <1>2 DEF DeliveredOnce
  <2>q. QED BY <2>1, <2>2 DEF TotalsInv
<1>3. CASE ~UNCHANGED message
  <2>1. PICK kind \in {"submitted", "approved", "budget"}, d \in Docs, complete \in BOOLEAN : Publish(kind, d, complete)
        BY <1>3
  <2>2. \E m \in Published' :
           /\ m \notin Published /\ Published' = Published \union {m}
           /\ message'[m] = [kind |-> kind, doc |-> d, complete |-> complete, at |-> "queued", deliveries |-> 0]
           /\ \A i \in Published : message'[i] = message[i]
        BY <1>3, <2>1, PublishedIsQueued, SMT, SMTT(30)
  <2>q. QED BY <1>2, <2>2, SMT, SMTT(30)
<1>q. QED BY <1>1, <1>3

\* A count and a total that both stay, or both grow by one, differ by as much as before.
LEMMA MovesAlike == \A n, k \in Nat : n + 1 = n + ((k + 1) - k) /\ n = n + (k - k)
BY SMT, SMTT(30)

\* A total that grows stays above a count that does not.
LEMMA StaysAbove == \A n, k, n2, k2 \in Int : k >= n /\ n2 <= n /\ k2 >= k => k2 >= n2
BY SMT, SMTT(30)

\* A total and a count that move alike stay equal, or in order.
LEMMA StaysLevel == \A n, k, k2 \in Int : (k >= n => k2 >= n + (k2 - k)) /\ (k = n => k2 = n + (k2 - k))
BY SMT, SMTT(30)

\* A natural number is an integer.
LEMMA NatIsInt == \A n \in Nat : n \in Int
BY SMT, SMTT(30)

\* A handler increments a total when it passes the write, and fails only into a second delivery.
LEMMA ConsumerKeepsTotals ==
    ASSUME SpendTypeOK, ReportInv, TotalsInv, NEW m \in Published,
           Deliver(m) \/ HandlerStep(m) \/ HandlerFails(m) \/ HandlerAcks(m)
    PROVE  TotalsInv'
<1>0. /\ message[m] \in Message /\ MessageIsTrue(message[m]) /\ message[m].deliveries \in Nat
      /\ monthly \in Nat /\ category \in Nat
      BY DEF ReportInv, SpendTypeOK, Published, Message
<1>1. /\ Published' = Published /\ \A i \in Published \ {m} : message'[i] = message[i]
      /\ message'[m].kind = message[m].kind
      BY MessageMoves, MessageDelivered DEF HandlerStep, HandlerFails, HandlerAcks
<1>2. /\ Cardinality(Past(AfterMonthly)) \in Nat /\ Cardinality(Past(AfterCategory)) \in Nat
      BY PastIsFinite
<1>3. CASE Deliver(m)
  <2>1. /\ message'[m].deliveries = message[m].deliveries + 1 /\ message[m].at = "queued" /\ UNCHANGED <<monthly, category>>
        /\ message[m].kind = "approved" => message'[m].at = "fact"
        BY <1>0, <1>3, MessageDelivered DEF MessageIsTrue, Deliver, projections
  <2>2. /\ Cardinality(Past(AfterMonthly))' = Cardinality(Past(AfterMonthly))
        /\ Cardinality(Past(AfterCategory))' = Cardinality(Past(AfterCategory))
        BY <1>1, <2>1, PastChanges DEF AfterMonthly, AfterCategory
  <2>3. DeliveredOnce' => DeliveredOnce
    <3>1. message[m].kind = "approved" /\ message'[m].deliveries <= 1 => message[m].deliveries = 0
          BY <1>0, <2>1, SMT, SMTT(30)
    <3>q. QED BY <1>1, <3>1, SMT, SMTT(30) DEF DeliveredOnce
  <2>q. QED BY <2>1, <2>2, <2>3 DEF TotalsInv
<1>4. CASE HandlerFails(m)
  <2>1. /\ message'[m].deliveries = message[m].deliveries /\ message'[m].at = "queued" /\ message[m].at # "queued"
        BY <1>4, MessageMoves DEF HandlerFails, Handling
  <2>2. /\ monthly' = monthly \/ (monthly' = monthly + 1 /\ message[m].at = "monthly")
        /\ category' = category \/ (category' = category + 1 /\ message[m].at = "category")
        BY ZenonT(40), <1>4 DEF HandlerFails, ProjectionWrite, UpsertPendingApproval, UpsertExpenseFact, IncrementMonthlySpend,
                    IncrementCategorySpend, DeletePendingApproval, projections
  <2>3. CASE message[m].kind = "approved"
    <3>1. ~DeliveredOnce'
      <4>1. message[m].deliveries >= 1
            BY <1>0, <2>1, <2>3 DEF MessageIsTrue
      <4>2. message[m].deliveries # 0
            BY <1>0, <4>1, SMT, SMTT(30)
      <4>q. QED BY <1>1, <2>1, <2>3, <4>2 DEF DeliveredOnce
    <3>2. /\ Cardinality(Past(AfterMonthly))' <= Cardinality(Past(AfterMonthly))
          /\ Cardinality(Past(AfterCategory))' <= Cardinality(Past(AfterCategory))
      <4>1. "queued" \notin AfterMonthly /\ "queued" \notin AfterCategory
            BY DEF AfterMonthly, AfterCategory
      <4>q. QED BY <1>1, <1>2, <2>1, <2>3, <4>1, PastChanges, SMT, SMTT(30)
    <3>3. monthly' \in Nat /\ category' \in Nat /\ monthly' >= monthly /\ category' >= category
          BY <1>0, <2>2, SMT, SMTT(30)
    <3>4. Cardinality(Past(AfterMonthly))' \in Int /\ Cardinality(Past(AfterCategory))' \in Int
      <4>1. "queued" \notin AfterMonthly /\ "queued" \notin AfterCategory
            BY DEF AfterMonthly, AfterCategory
      <4>q. QED BY <1>1, <1>2, <2>1, <2>3, <4>1, PastChanges, SMT, SMTT(30)
    <3>q. QED BY <1>0, <1>2, <3>1, <3>2, <3>3, <3>4, StaysAbove, NatIsInt DEF TotalsInv
  <2>4. CASE message[m].kind # "approved"
    <3>1. message[m].at \notin {"monthly", "category"}
          BY <1>0, <2>4 DEF MessageIsTrue, Message
    <3>2. UNCHANGED <<monthly, category>>
          BY <2>2, <3>1
    <3>3. /\ Cardinality(Past(AfterMonthly))' = Cardinality(Past(AfterMonthly))
          /\ Cardinality(Past(AfterCategory))' = Cardinality(Past(AfterCategory))
          BY <1>1, <2>4, PastChanges
    <3>4. DeliveredOnce' => DeliveredOnce
          BY <1>1, <2>4 DEF DeliveredOnce
    <3>q. QED BY <3>2, <3>3, <3>4 DEF TotalsInv
  <2>q. QED BY <2>3, <2>4
<1>5. CASE HandlerStep(m) \/ HandlerAcks(m)
  <2>1. /\ message'[m].deliveries = message[m].deliveries /\ message[m].at # "queued" /\ message'[m].at # "queued"
        /\ \/ message[m].at = "ack" /\ message'[m].at = "acked" /\ UNCHANGED <<monthly, category>>
           \/ message[m].at \in DOMAIN Following /\ message'[m].at = Following[message[m].at] /\ ProjectionWrite(m)
    <3>1. CASE HandlerAcks(m)
      <4>1. message[m].at = "ack" /\ MoveTo(m, "acked") /\ UNCHANGED <<monthly, category>>
            BY <3>1 DEF HandlerAcks, projections
      <4>q. QED BY <4>1, MessageMoves
    <3>2. CASE HandlerStep(m)
      <4>1. message[m].at \in DOMAIN Following /\ MoveTo(m, Following[message[m].at]) /\ ProjectionWrite(m)
            BY <3>2 DEF HandlerStep
      <4>2. message'[m].deliveries = message[m].deliveries /\ message'[m].at = Following[message[m].at]
            BY <4>1, MessageMoves
      <4>3. \A at \in DOMAIN Following : at # "queued" /\ Following[at] # "queued"
            BY SMT, SMTT(30) DEF Following
      <4>q. QED BY <4>1, <4>2, <4>3
    <3>q. QED BY <1>5, <3>1, <3>2
  <2>2. \/ message[m].at = "ack" /\ message'[m].at = "acked" /\ UNCHANGED <<monthly, category>>
        \/ message[m].at \in {"pend", "unpend"} /\ message'[m].at = "ack" /\ UNCHANGED <<monthly, category>>
        \/ message[m].at = "fact" /\ message'[m].at = "monthly" /\ UNCHANGED <<monthly, category>>
        \/ message[m].at = "monthly" /\ message'[m].at = "category" /\ monthly' = monthly + 1 /\ UNCHANGED category
        \/ message[m].at = "category" /\ message'[m].at = "unpend" /\ category' = category + 1 /\ UNCHANGED monthly
        BY <2>1, SMT, SMTT(30) DEF Following, ProjectionWrite, UpsertPendingApproval, UpsertExpenseFact, IncrementMonthlySpend,
                    IncrementCategorySpend, DeletePendingApproval
  <2>3. DeliveredOnce' => DeliveredOnce
        BY <1>1, <2>1 DEF DeliveredOnce
  <2>4. message[m].at \in {"fact", "monthly", "category", "unpend"} => message[m].kind = "approved"
        BY <1>0 DEF MessageIsTrue, Message
  <2>5. message[m].at = "pend" => message[m].kind # "approved"
        BY <1>0 DEF MessageIsTrue
  <2>6. Cardinality(Past(AfterMonthly))' = Cardinality(Past(AfterMonthly)) + (monthly' - monthly)
    <3>1. CASE message[m].at = "monthly"
      <4>1. /\ message[m].kind = "approved" /\ message[m].at \notin AfterMonthly /\ message'[m].at \in AfterMonthly
            /\ monthly' = monthly + 1
            BY <2>2, <2>4, <3>1 DEF AfterMonthly
      <4>2. Cardinality(Past(AfterMonthly))' = Cardinality(Past(AfterMonthly)) + 1
            BY <1>1, <4>1, PastChanges
      <4>q. QED BY <1>0, <1>2, <4>1, <4>2, MovesAlike
    <3>2. CASE message[m].at # "monthly"
      <4>1. /\ monthly' = monthly
            /\ \/ message[m].kind # "approved"
               \/ message[m].at \in AfterMonthly /\ message'[m].at \in AfterMonthly
               \/ message[m].at \notin AfterMonthly /\ message'[m].at \notin AfterMonthly
            BY <2>2, <2>5, <3>2 DEF AfterMonthly
      <4>2. Cardinality(Past(AfterMonthly))' = Cardinality(Past(AfterMonthly))
            BY ZenonT(40), <1>1, <4>1, PastChanges
      <4>q. QED BY <1>0, <1>2, <4>1, <4>2, MovesAlike
    <3>q. QED BY ZenonT(40), <3>1, <3>2
  <2>7. Cardinality(Past(AfterCategory))' = Cardinality(Past(AfterCategory)) + (category' - category)
    <3>1. CASE message[m].at = "category"
      <4>1. /\ message[m].kind = "approved" /\ message[m].at \notin AfterCategory /\ message'[m].at \in AfterCategory
            /\ category' = category + 1
            BY <2>2, <2>4, <3>1 DEF AfterCategory
      <4>2. Cardinality(Past(AfterCategory))' = Cardinality(Past(AfterCategory)) + 1
            BY <1>1, <4>1, PastChanges
      <4>q. QED BY <1>0, <1>2, <4>1, <4>2, MovesAlike
    <3>2. CASE message[m].at # "category"
      <4>1. /\ category' = category
            /\ \/ message[m].kind # "approved"
               \/ message[m].at \in AfterCategory /\ message'[m].at \in AfterCategory
               \/ message[m].at \notin AfterCategory /\ message'[m].at \notin AfterCategory
            BY <2>2, <2>5, <3>2 DEF AfterCategory
      <4>2. Cardinality(Past(AfterCategory))' = Cardinality(Past(AfterCategory))
            BY <1>1, <4>1, PastChanges
      <4>q. QED BY <1>0, <1>2, <4>1, <4>2, MovesAlike
    <3>q. QED BY <3>1, <3>2
  <2>8. monthly' \in Nat /\ category' \in Nat
        BY <1>0, <2>2, SMT, SMTT(30)
  <2>9. /\ monthly >= Cardinality(Past(AfterMonthly)) => monthly' >= Cardinality(Past(AfterMonthly))'
        /\ monthly = Cardinality(Past(AfterMonthly)) => monthly' = Cardinality(Past(AfterMonthly))'
    <3>1. /\ monthly >= Cardinality(Past(AfterMonthly)) => monthly' >= Cardinality(Past(AfterMonthly)) + (monthly' - monthly)
          /\ monthly = Cardinality(Past(AfterMonthly)) => monthly' = Cardinality(Past(AfterMonthly)) + (monthly' - monthly)
          BY <1>0, <1>2, <2>8, StaysLevel, NatIsInt
    <3>q. QED BY <2>6, <3>1
  <2>10. /\ category >= Cardinality(Past(AfterCategory)) => category' >= Cardinality(Past(AfterCategory))'
         /\ category = Cardinality(Past(AfterCategory)) => category' = Cardinality(Past(AfterCategory))'
    <3>1. /\ category >= Cardinality(Past(AfterCategory)) => category' >= Cardinality(Past(AfterCategory)) + (category' - category)
          /\ category = Cardinality(Past(AfterCategory)) => category' = Cardinality(Past(AfterCategory)) + (category' - category)
          BY <1>0, <1>2, <2>8, StaysLevel, NatIsInt
    <3>q. QED BY <2>7, <3>1
  <2>q. QED BY <2>3, <2>9, <2>10 DEF TotalsInv
<1>q. QED BY <1>3, <1>4, <1>5

\* The invariant of the totals holds in every state.
LEMMA TotalsInvariant == SpendSpec => []TotalsInv
<1>1. SpendInit => TotalsInv
  <2>0. SUFFICES ASSUME SpendInit PROVE TotalsInv
        OBVIOUS
  <2>1. Past(AfterMonthly) = {} /\ Past(AfterCategory) = {} /\ monthly = 0 /\ category = 0
        BY <2>0, SMT, SMTT(30) DEF SpendInit, Past, Published
  <2>q. QED BY <2>1, FS_EmptySet, SMT, SMTT(30) DEF TotalsInv
<1>2. DecisionsInv /\ ReportInv /\ TotalsInv /\ [SpendNext]_spendVars => TotalsInv'
  <2>0. SUFFICES ASSUME DecisionsInv, ReportInv, TotalsInv, [SpendNext]_spendVars PROVE TotalsInv'
        OBVIOUS
  <2>1. SpendTypeOK
        BY <2>0 DEF DecisionsInv
  <2>2. CASE \E m \in Published : Deliver(m) \/ HandlerStep(m) \/ HandlerFails(m) \/ HandlerAcks(m)
        BY <2>0, <2>1, <2>2, ConsumerKeepsTotals
  <2>3. ASSUME NEW e \in Expenses, SubmitExpense(e) PROVE TotalsInv'
    <3>1. e \in Docs /\ Publish("submitted", e, TRUE) /\ UNCHANGED <<monthly, category>>
          BY <2>3 DEF SubmitExpense, projections, Docs
    <3>q. QED BY <2>0, <2>1, <3>1, ServicesKeepTotals
  <2>4. ASSUME NEW c \in Deciders, DecidePublish(c) PROVE TotalsInv'
    <3>1. decider[c].doc \in Docs /\ UNCHANGED <<monthly, category>>
          BY <2>0, <2>4 DEF DecisionsInv, CallIsFresh, DecidePublish, projections
    <3>2. Publish("approved", decider[c].doc, TRUE) \/ Publish("budget", decider[c].doc, FALSE)
          BY <2>4 DEF DecidePublish
    <3>q. QED BY <2>0, <2>1, <3>1, <3>2, ServicesKeepTotals
  <2>5. ASSUME NEW c \in Deciders,
               DecideWrite(c) \/ DecideFails(c) \/ \E op \in Operations, d \in Docs : DecideRead(c, op, d)
        PROVE  TotalsInv'
    <3>1. UNCHANGED <<monthly, category, message>>
          BY <2>5 DEF DecideWrite, DecideFails, DecideRead, projections
    <3>q. QED BY <2>0, <2>1, <3>1, ServicesKeepTotals
  <2>6. CASE UNCHANGED spendVars
    <3>1. UNCHANGED <<monthly, category, message>>
          BY <2>6 DEF spendVars
    <3>q. QED BY <2>0, <2>1, <3>1, ServicesKeepTotals
  <2>q. QED BY <2>0, <2>2, <2>3, <2>4, <2>5, <2>6 DEF SpendNext
<1>q. QED BY <1>1, <1>2, SpendInvariant, PTL DEF SpendSpec

\* IncrementMonthlySpend, IncrementCategorySpend: as long as nothing is delivered twice the totals are
\* exactly the approval events past their increment, for any number of events in any interleaving.
THEOREM SpendExactHolds == SpendSpec => []SpendExact
<1>1. TotalsInv => SpendExact
  <2>1. Past(AfterMonthly) = {m \in {i \in Published : message[i].kind = "approved"} :
                                message[m].at \in {"category", "unpend", "ack", "acked"}}
        BY DEF Past, AfterMonthly
  <2>2. Past(AfterCategory) = {m \in {i \in Published : message[i].kind = "approved"} :
                                message[m].at \in {"unpend", "ack", "acked"}}
        BY DEF Past, AfterCategory
  <2>3. DeliveredOnce <=> \A m \in {i \in Published : message[i].kind = "approved"} :
                             message[m].deliveries <= 1 /\ (message[m].at = "queued" => message[m].deliveries = 0)
        BY DEF DeliveredOnce
  <2>q. QED BY <2>1, <2>2, <2>3 DEF TotalsInv, SpendExact
<1>q. QED BY <1>1, TotalsInvariant, PTL

\* The consumer's retries: whatever is redelivered or fails, an acknowledged approval is in both totals.
THEOREM SpendNotUnderstatedHolds == SpendSpec => []SpendNotUnderstated
<1>1. DecisionsInv /\ TotalsInv => SpendNotUnderstated
  <2>0. SUFFICES ASSUME SpendTypeOK, TotalsInv PROVE SpendNotUnderstated
        BY DEF DecisionsInv
  <2>1. Past({"acked"}) = {m \in Published : message[m].kind = "approved" /\ message[m].at = "acked"}
        BY DEF Past
  <2>2. Past({"acked"}) \subseteq Past(AfterMonthly) /\ Past({"acked"}) \subseteq Past(AfterCategory)
        BY DEF Past, AfterMonthly, AfterCategory
  <2>3. /\ Cardinality(Past({"acked"})) <= Cardinality(Past(AfterMonthly))
        /\ Cardinality(Past({"acked"})) <= Cardinality(Past(AfterCategory))
        BY <2>0, <2>2, PastIsFinite, FS_Subset
  <2>4. /\ Cardinality(Past({"acked"})) \in Nat /\ Cardinality(Past(AfterMonthly)) \in Nat
        /\ Cardinality(Past(AfterCategory)) \in Nat /\ monthly \in Nat /\ category \in Nat
        BY <2>0, PastIsFinite DEF SpendTypeOK
  <2>5. monthly >= Cardinality(Past({"acked"})) /\ category >= Cardinality(Past({"acked"}))
        BY <2>0, <2>3, <2>4, SMT, SMTT(30) DEF TotalsInv
  <2>q. QED BY <2>1, <2>5 DEF SpendNotUnderstated
<1>q. QED BY <1>1, SpendInvariant, TotalsInvariant, PTL
=============================================================================
