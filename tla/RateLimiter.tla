----------------------------- MODULE RateLimiter -----------------------------
(***************************************************************************)
(* The fixed-window counter of pkg/ratelimit/ratelimit.go for one client:  *)
(* INCR, then EXPIRE by the request that made the counter, then the        *)
(* comparison with the limit.  Each is a call of its own to Redis that may *)
(* fail, and requests interleave between them.  Time is a countdown of the *)
(* key's expiry.                                                           *)
(***************************************************************************)
EXTENDS Integers

CONSTANTS
    Inbound,      \* requests of the client that may be in progress together
    Limit,        \* Config.Limit
    Window,       \* Config.Window, in ticks
    MaxCount      \* bound: the highest count

ASSUME RateAssumption == Limit \in Nat \ {0} /\ Window \in Nat \ {0} /\ MaxCount \in Nat

VARIABLES
    hits,         \* the counter; 0 when the key does not exist
    expires,      \* ticks until the key expires; 0 when it has no expiry
    inbound,      \* how far each request is, its count, and whether the key that
                  \* gave the count still exists
    admitted,     \* history: requests let through on a count of the present key
    unarmed       \* history: EXPIRE of the present key failed or was not reached

rateVars == <<hits, expires, inbound, admitted, unarmed>>

Absent == [at |-> "absent", count |-> 0, current |-> FALSE]

\* The key, its time to live, and what each request holds.
RateTypeOK ==
    /\ hits \in Nat /\ expires \in Nat /\ admitted \in Nat /\ unarmed \in BOOLEAN
    /\ inbound \in [Inbound -> [at : {"absent", "arm", "compare"}, count : Nat, current : BOOLEAN]]

RateInit ==
    /\ hits = 0 /\ expires = 0 /\ admitted = 0 /\ unarmed = FALSE
    /\ inbound = [q \in Inbound |-> Absent]

\* INCR creates the key or adds to it.  When it fails the request passes and counts
\* for nothing, which changes none of this.
Incr(q) ==
    /\ inbound[q] = Absent /\ hits < MaxCount
    /\ hits' = hits + 1
    /\ inbound' = [inbound EXCEPT ![q] =
          [at |-> IF hits = 0 THEN "arm" ELSE "compare", count |-> hits + 1, current |-> TRUE]]
    /\ UNCHANGED <<expires, admitted, unarmed>>

\* Mutant: only a request that saw the key without its expiry sets one.
ExpireOfOthers(q) ==
    /\ inbound[q].at = "arm"
    /\ \/ expires' = (IF hits > 1 THEN Window ELSE expires) /\ UNCHANGED unarmed
       \/ unarmed' = (inbound[q].current \/ unarmed) /\ UNCHANGED expires
    /\ inbound' = [inbound EXCEPT ![q].at = "compare"]
    /\ UNCHANGED <<hits, admitted>>

\* EXPIRE by the request that saw 1; an error is logged and the request goes on.
\* Redis ignores it when the key is gone, and a late one renews a later key.
Expire(q) ==
    /\ inbound[q].at = "arm"
    /\ \/ expires' = (IF hits = 0 THEN 0 ELSE Window) /\ UNCHANGED unarmed
       \/ unarmed' = (inbound[q].current \/ unarmed) /\ UNCHANGED expires
    /\ inbound' = [inbound EXCEPT ![q].at = "compare"]
    /\ UNCHANGED <<hits, admitted>>

Admits(q, ok) ==
    /\ inbound[q].at = "compare"
    /\ admitted' = IF ok /\ inbound[q].current THEN admitted + 1 ELSE admitted
    /\ inbound' = [inbound EXCEPT ![q] = Absent]
    /\ UNCHANGED <<hits, expires, unarmed>>

\* The comparison: the request is let through or answered 429.
Admit(q) == Admits(q, inbound[q].count <= Limit)

\* The request ends before its EXPIRE: the process stops or its 200 ms are over.
RequestEnds(q) ==
    /\ inbound[q].at = "arm"
    /\ inbound' = [inbound EXCEPT ![q] = Absent]
    /\ unarmed' = (unarmed \/ inbound[q].current)
    /\ UNCHANGED <<hits, expires, admitted>>

\* A tick brings the key closer to its expiry; at the end Redis removes it.
WindowPasses ==
    /\ expires > 0
    /\ expires' = expires - 1
    /\ IF expires = 1
       THEN /\ hits' = 0 /\ admitted' = 0 /\ unarmed' = FALSE
            /\ inbound' = [q \in Inbound |-> [inbound[q] EXCEPT !.current = FALSE]]
       ELSE UNCHANGED <<hits, admitted, unarmed, inbound>>

RateNext == WindowPasses \/ \E q \in Inbound : Incr(q) \/ Expire(q) \/ Admit(q) \/ RequestEnds(q)

RateSpec == RateInit /\ [][RateNext]_rateVars

-----------------------------------------------------------------------------
(* Properties                                                              *)

\* "return 429 once the count exceeds Limit within Window": on one counter no more
\* than Limit requests are let through, however they interleave.
LimitHolds == admitted <= Limit

\* A counter without an expiry would refuse its client for ever once past Limit.
\* There is one only while the request that made it is about to set the expiry, or
\* after that call was lost: "Best-effort TTL on the first hit of a new window".
CountersExpire ==
    hits > 0 /\ expires = 0 =>
        unarmed \/ \E q \in Inbound : inbound[q].at = "arm" /\ inbound[q].current
=============================================================================
