---------------------------- MODULE Notifications ----------------------------
(***************************************************************************)
(* The notifications service: an event is delivered by JetStream, routed   *)
(* by cmd/notifications/dispatcher.go to one Send of                       *)
(* services/notifications/service.go, and acknowledged or refused by       *)
(* pkg/jetstream/consumer.go.  Every delivery is an attempt of its own,    *)
(* with its own row of notification_log.  An attempt that neither          *)
(* acknowledges nor refuses within AckWait is delivered again beside it.   *)
(***************************************************************************)
EXTENDS Integers, FiniteSets

CONSTANTS
    Events,        \* events on subjects the dispatcher knows
    Senders,       \* the channels with a configured sender
    ChannelOf,     \* the channel the dispatcher picks for an event
    MaxDeliver     \* MaxDeliverAttempts

ASSUME NotificationsAssumption ==
    /\ ChannelOf \in [Events -> {"email", "in_app"}]
    /\ Senders \subseteq {"email", "in_app"}
    /\ MaxDeliver \in Nat \ {0}

VARIABLES
    template,    \* of the event's type and channel: "none", "active", "unrenderable"
    attempt,     \* for each event and number of delivery, how far it is
    row,         \* its row of notification_log
    accepted,    \* whether the provider took the message
    acked,       \* the events JetStream holds an acknowledgement of
    spared       \* history: why an attempt was acknowledged without a send

notificationVars == <<template, attempt, row, accepted, acked, spared>>

Deliveries == Events \X (1 .. MaxDeliver)

NotificationsTypeOK ==
    /\ template \in [Events -> {"none", "active", "unrenderable"}]
    /\ attempt \in [Deliveries -> {"undelivered", "lookup", "insert", "send", "record", "ended"}]
    /\ row \in [Deliveries -> {"none", "pending", "sent", "failed"}]
    /\ accepted \in [Deliveries -> BOOLEAN]
    /\ acked \subseteq Events
    /\ spared \in [Events -> SUBSET {"no template", "lookup failed"}]

NotificationsInit ==
    /\ template \in [Events -> {"none", "active", "unrenderable"}]
    /\ attempt = [d \in Deliveries |-> "undelivered"]
    /\ row = [d \in Deliveries |-> "none"]
    /\ accepted = [d \in Deliveries |-> FALSE]
    /\ acked = {}
    /\ spared = [e \in Events |-> {}]

\* An operator creates or edits the template (CreateTemplate, UpdateTemplate).
UpdateTemplate(e, content) ==
    /\ template' = [template EXCEPT ![e] = content]
    /\ UNCHANGED <<attempt, row, accepted, acked, spared>>

\* JetStream delivers an unacknowledged event, at most MaxDeliver times: the
\* first time, after a refusal, or when AckWait has passed.
DeliverEvent(e, n) ==
    /\ e \notin acked /\ attempt[<<e, n>>] = "undelivered"
    /\ \A k \in 1 .. n - 1 : attempt[<<e, k>>] # "undelivered"
    /\ attempt' = [attempt EXCEPT ![<<e, n>>] = "lookup"]
    /\ UNCHANGED <<template, row, accepted, acked, spared>>

Nak(d) == attempt' = [attempt EXCEPT ![d] = "ended"] /\ UNCHANGED acked

\* The acknowledgement may be lost on its way.
Ack(d) ==
    /\ attempt' = [attempt EXCEPT ![d] = "ended"]
    /\ acked' \in {acked, acked \union {d[1]}}

\* Send's lookup of the template and the rendering.  Any error of the lookup
\* becomes ErrTemplateNotFound, which ignoreTemplateMissing turns into an
\* acknowledgement.
GetActiveTemplate(d) ==
    /\ attempt[d] = "lookup"
    /\ \/ template[d[1]] = "active" /\ attempt' = [attempt EXCEPT ![d] = "insert"] /\ UNCHANGED <<acked, spared>>
       \/ template[d[1]] = "unrenderable" /\ Nak(d) /\ UNCHANGED spared
       \/ template[d[1]] = "none" /\ Ack(d) /\ spared' = [spared EXCEPT ![d[1]] = @ \union {"no template"}]
       \/ Ack(d) /\ spared' = [spared EXCEPT ![d[1]] = @ \union {"lookup failed"}]
    /\ UNCHANGED <<template, row, accepted>>

\* The pending row; when the insert fails the event is refused.
CreateNotification(d) ==
    /\ attempt[d] = "insert"
    /\ \/ row' = [row EXCEPT ![d] = "pending"] /\ attempt' = [attempt EXCEPT ![d] = "send"]
       \/ attempt' = [attempt EXCEPT ![d] = "ended"] /\ UNCHANGED row
    /\ UNCHANGED <<template, accepted, acked, spared>>

\* The provider takes the message or reports an error.  Without a sender there is
\* nothing to call.
ProviderSend(d) ==
    /\ attempt[d] = "send" /\ ChannelOf[d[1]] \in Senders
    /\ attempt' = [attempt EXCEPT ![d] = "record"]
    /\ accepted' \in {accepted, [accepted EXCEPT ![d] = TRUE]}
    /\ UNCHANGED <<template, row, acked, spared>>

\* A channel without a sender: the row is marked failed and the event refused.
NoSenderForChannel(d) ==
    /\ attempt[d] = "send" /\ ChannelOf[d[1]] \notin Senders
    /\ row' \in {row, [row EXCEPT ![d] = "failed"]}
    /\ Nak(d)
    /\ UNCHANGED <<template, accepted, spared>>

\* Mutant: the row is marked failed when the update of a sent one fails.
RecordFailed(d) ==
    /\ attempt[d] = "record"
    /\ row' \in {[row EXCEPT ![d] = "sent"], [row EXCEPT ![d] = "failed"]}
    /\ IF accepted[d] THEN Ack(d) ELSE Nak(d)
    /\ UNCHANGED <<template, accepted, spared>>

\* The outcome is written to the row, an error of that write being dropped, and
\* the event is acknowledged if the provider took it and refused if not.
UpdateNotificationStatus(d) ==
    /\ attempt[d] = "record"
    /\ row' \in {row, [row EXCEPT ![d] = IF accepted[d] THEN "sent" ELSE "failed"]}
    /\ IF accepted[d] THEN Ack(d) ELSE Nak(d)
    /\ UNCHANGED <<template, accepted, spared>>

\* The process stops in the middle of an attempt.
ConsumerStops(d) ==
    /\ attempt[d] \notin {"undelivered", "ended"}
    /\ attempt' = [attempt EXCEPT ![d] = "ended"]
    /\ UNCHANGED <<template, row, accepted, acked, spared>>

NotificationsNext ==
    \/ \E e \in Events, content \in {"active", "unrenderable", "none"} : UpdateTemplate(e, content)
    \/ \E e \in Events, n \in 1 .. MaxDeliver : DeliverEvent(e, n)
    \/ \E d \in Deliveries :
          \/ GetActiveTemplate(d) \/ CreateNotification(d) \/ ProviderSend(d)
          \/ NoSenderForChannel(d) \/ UpdateNotificationStatus(d) \/ ConsumerStops(d)

NotificationsSpec == NotificationsInit /\ [][NotificationsNext]_notificationVars

-----------------------------------------------------------------------------
(* Properties                                                              *)

\* ignoreTemplateMissing: an acknowledged event was taken by the provider in some
\* attempt, or an attempt found no template, or could not read it.  A refusal, a
\* lost acknowledgement or a stop never counts as handled.
AckedIsHandled ==
    \A e \in acked : spared[e] # {} \/ \E n \in 1 .. MaxDeliver : accepted[<<e, n>>]

\* Send: a "sent" or "failed" row tells the truth about its own attempt, whatever
\* the other attempts at the event did, and what the provider took has a row, at
\* worst a pending one left by a stop or a dropped write.
LogTellsTheTruth ==
    \A d \in Deliveries :
        /\ row[d] = "sent" => accepted[d]
        /\ row[d] = "failed" => ~accepted[d]
        /\ accepted[d] => row[d] \in {"pending", "sent"}
=============================================================================
