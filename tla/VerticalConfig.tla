--------------------------- MODULE VerticalConfig ---------------------------
(***************************************************************************)
(* The vertical configuration of one tenant: the row in tenant_verticals   *)
(* (pkg/vertical/db, with its cache invalidator attached), the Redis cache *)
(* in front of it and the loader that fills it (pkg/vertical/loader.go).   *)
(*                                                                         *)
(* Every content the configuration ever has is a number, 0 for no binding. *)
(* Time is counted in ticks: cacheTTL and setTimeout bound how long a      *)
(* cached entry and a call to fill the cache may live.                     *)
(***************************************************************************)
EXTENDS Integers

CONSTANTS
    Requests,     \* requests, each with the goroutine it starts
    Editors,      \* calls of the Store's write methods
    MaxEdits,     \* bound on contents
    cacheTTL, setTimeout

ASSUME VerticalAssumption == {cacheTTL, setTimeout} \subseteq Nat \ {0} /\ MaxEdits \in Nat

VARIABLES
    binding,     \* the content in the database
    edits,       \* contents so far
    cache,       \* the cached content and the ticks it has left, 0: not cached
    request,     \* the requests: what they read, and the ticks a Set has left
    editor,      \* "none", or "invalidate" between the write and Invalidate
    superseded,  \* history: ticks since a content was replaced
    spoiled      \* history: an Invalidate failed, or ran while an old content was on its way to the cache

verticalVars == <<binding, edits, cache, request, editor, superseded, spoiled>>

Staleness == cacheTTL + setTimeout + 1   \* where the history stops counting

Outside == [pc |-> "none", content |-> 0, left |-> 0]

\* What a request is doing, with the content and the time of its Set.
RequestRecord == [pc : {"none", "load", "set"}, content : Nat, left : Nat]

\* The binding, the cache entry, and what each call holds.
VerticalTypeOK ==
    /\ edits \in Nat /\ edits <= MaxEdits /\ binding \in Nat /\ binding <= edits
    /\ cache \in [content : Nat, left : Nat]
    /\ request \in [Requests -> RequestRecord]
    /\ editor \in [Editors -> {"none", "invalidate"}]
    /\ superseded \in [1 .. MaxEdits -> Nat] /\ spoiled \in BOOLEAN

VerticalInit ==
    /\ binding = 0 /\ edits = 0 /\ cache = [content |-> 0, left |-> 0]
    /\ request = [r \in Requests |-> Outside]
    /\ editor = [e \in Editors |-> "none"]
    /\ superseded = [n \in 1 .. MaxEdits |-> 0] /\ spoiled = FALSE

-----------------------------------------------------------------------------
(* Loader                                                                  *)

\* GetConfig finds nothing in Redis, or Redis fails; a hit is served as it is
\* and changes nothing.
GetConfig(r) ==
    /\ request[r].pc = "none"
    /\ request' = [request EXCEPT ![r].pc = "load"]
    /\ UNCHANGED <<binding, edits, cache, editor, superseded, spoiled>>

\* The database answers: ErrNotFound, or a content that is returned to the
\* caller and handed to a goroutine for the cache.
LoadFromDB(r) ==
    /\ request[r].pc = "load"
    /\ request' = [request EXCEPT ![r] = IF binding = 0 THEN Outside
                                         ELSE [pc |-> "set", content |-> binding, left |-> setTimeout]]
    /\ UNCHANGED <<binding, edits, cache, editor, superseded, spoiled>>

PopulateCache(r) ==
    /\ request[r].pc = "set"
    /\ cache' = [content |-> request[r].content, left |-> cacheTTL]
    /\ request' = [request EXCEPT ![r] = Outside]
    /\ UNCHANGED <<binding, edits, editor, superseded, spoiled>>

\* Redis refuses, or the goroutine's context expires.
PopulateFails(r) ==
    /\ request[r].pc = "set"
    /\ request' = [request EXCEPT ![r] = Outside]
    /\ UNCHANGED <<binding, edits, cache, editor, superseded, spoiled>>

-----------------------------------------------------------------------------
(* Store                                                                   *)

Replace(new) ==
    /\ binding' = new
    /\ superseded' = IF binding = 0 THEN superseded ELSE [superseded EXCEPT ![binding] = 0]

\* ON CONFLICT DO NOTHING: a bound tenant keeps its vertical.
BindTenant(e) ==
    /\ editor[e] = "none" /\ edits < MaxEdits
    /\ IF binding = 0 THEN edits' = edits + 1 /\ Replace(edits + 1)
       ELSE UNCHANGED <<binding, edits, superseded>>
    /\ editor' = [editor EXCEPT ![e] = "invalidate"]
    /\ UNCHANGED <<cache, request, spoiled>>

\* The UPDATE of a tenant without a binding changes no row.
UpdateOverride(e) ==
    /\ editor[e] = "none" /\ edits < MaxEdits
    /\ IF binding # 0 THEN edits' = edits + 1 /\ Replace(edits + 1)
       ELSE UNCHANGED <<binding, edits, superseded>>
    /\ editor' = [editor EXCEPT ![e] = "invalidate"]
    /\ UNCHANGED <<cache, request, spoiled>>

UnbindTenant(e) ==
    /\ editor[e] = "none"
    /\ Replace(0)
    /\ editor' = [editor EXCEPT ![e] = "invalidate"]
    /\ UNCHANGED <<edits, cache, request, spoiled>>

Invalidate(e) ==
    /\ editor[e] = "invalidate"
    /\ cache' = [content |-> 0, left |-> 0]
    /\ editor' = [editor EXCEPT ![e] = "none"]
    /\ spoiled' = (spoiled \/ \E r \in Requests : request[r].pc = "set" /\ request[r].content # binding)
    /\ UNCHANGED <<binding, edits, request, superseded>>

\* Redis fails, and the error is swallowed; or the process dies first.
InvalidateFails(e) ==
    /\ editor[e] = "invalidate"
    /\ editor' = [editor EXCEPT ![e] = "none"]
    /\ spoiled' = TRUE
    /\ UNCHANGED <<binding, edits, cache, request, superseded>>

-----------------------------------------------------------------------------
Pass(ticks) == IF ticks > 0 THEN ticks - 1 ELSE 0
Aged == [n \in 1 .. MaxEdits |-> IF superseded[n] < Staleness THEN superseded[n] + 1 ELSE Staleness]

\* Mutant: the goroutine's context has no timeout.
TimePassesForCacheOnly ==
    /\ cache' = [content |-> IF cache.left > 1 THEN cache.content ELSE 0, left |-> Pass(cache.left)]
    /\ superseded' = Aged
    /\ UNCHANGED <<binding, edits, request, editor, spoiled>>

\* A Set that has no time left fails before time goes on.
TimePasses ==
    /\ \A r \in Requests : request[r].pc = "set" => request[r].left > 0
    /\ cache' = [content |-> IF cache.left > 1 THEN cache.content ELSE 0, left |-> Pass(cache.left)]
    /\ request' = [r \in Requests |-> [request[r] EXCEPT !.left = Pass(@)]]
    /\ superseded' = Aged
    /\ UNCHANGED <<binding, edits, editor, spoiled>>

VerticalNext ==
    \/ \E r \in Requests : GetConfig(r) \/ LoadFromDB(r) \/ PopulateCache(r) \/ PopulateFails(r)
    \/ \E e \in Editors : BindTenant(e) \/ UpdateOverride(e) \/ UnbindTenant(e) \/ Invalidate(e) \/ InvalidateFails(e)
    \/ TimePasses

VerticalSpec == VerticalInit /\ [][VerticalNext]_verticalVars

-----------------------------------------------------------------------------
(* Properties                                                              *)

\* However writers, loaders and the goroutines that fill the cache interleave,
\* and whichever calls to Redis fail, a replaced content is gone from the cache
\* at most cacheTTL after the last moment a Set of it could still arrive.
StaleIsBounded ==
    cache.left > 0 /\ cache.content # binding =>
        superseded[cache.content] + cache.left <= setTimeout + cacheTTL

\* Store.UpdateOverride: "Calls Invalidate on the cache after a successful DB
\* write so the updated config is served on the next request rather than after
\* the TTL expires".  Between calls the cache holds an old content only if an
\* Invalidate failed, or ran while a Set of an old content was in flight.
UpdatedIsServed ==
    cache.left > 0 /\ cache.content # binding =>
        spoiled \/ \E e \in Editors : editor[e] = "invalidate"
=============================================================================
