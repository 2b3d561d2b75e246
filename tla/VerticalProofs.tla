--------------------------- MODULE VerticalProofs ---------------------------
(***************************************************************************)
(* Proofs about the configuration of a vertical: how long the cache serves *)
(* what was replaced, for any number of readers and writers and all        *)
(* lifetimes, and the search of validatePhaseTransitions for cycles, for   *)
(* every set of phases and transitions.                                    *)
(***************************************************************************)
EXTENDS VerticalConfig, PhaseGraph, SequenceTheorems, TLAPS

\* Most leaves are first-order: Zenon proves them.  Those that need arithmetic cite SMT, with
\* SMTT(30) as a second and longer try; ZenonT(40) gives a leaf more time.
USE Zenon

-----------------------------------------------------------------------------
(* The configuration cache                                                 *)

\* An old content that may still reach the cache, or is there, was replaced not longer ago
\* than its time began; and unless a writer has yet to invalidate, or did so in vain, there
\* is no old content.
VerticalInv ==
    /\ VerticalTypeOK
    /\ cache.left <= cacheTTL /\ (cache.left > 0 => cache.content \in 1 .. edits)
    /\ \A r \in Requests : request[r].pc = "set" => request[r].content \in 1 .. edits /\ request[r].left <= setTimeout
    /\ \A r \in Requests : request[r].pc = "set" /\ request[r].content # binding =>
          superseded[request[r].content] + request[r].left <= setTimeout
    /\ StaleIsBounded
    /\ \A r \in Requests : request[r].pc = "set" /\ request[r].content # binding =>
          spoiled \/ \E e \in Editors : editor[e] = "invalidate"
    /\ UpdatedIsServed

\* A request that changes nothing but itself, and holds no old content it did not hold before.
LEMMA RequestMoves ==
    ASSUME VerticalInv, NEW r \in Requests, NEW k \in RequestRecord,
           request' = [request EXCEPT ![r] = k], UNCHANGED <<binding, edits, editor, superseded, spoiled>>,
           k.pc = "set" => k.content = binding /\ binding # 0 /\ k.left <= setTimeout,
           UNCHANGED cache
    PROVE  VerticalInv'
<1>1. request'[r] = k /\ request' \in [Requests -> RequestRecord] /\ \A p \in Requests \ {r} : request'[p] = request[p]
      BY DEF VerticalInv, VerticalTypeOK
<1>2. VerticalTypeOK'
      BY <1>1 DEF VerticalInv, VerticalTypeOK
<1>3. \A p \in Requests : request'[p].pc = "set" =>
          /\ request'[p].content \in 1 .. edits /\ request'[p].left <= setTimeout
          /\ request'[p].content # binding => p # r
      <2>1. binding # 0 => binding \in 1 .. edits
            BY SMT, SMTT(30) DEF VerticalInv, VerticalTypeOK
      <2>2. QED
            BY <1>1, <2>1 DEF VerticalInv
<1>4. QED
      BY <1>1, <1>2, <1>3 DEF VerticalInv, StaleIsBounded, UpdatedIsServed

\* A call of the loader: it begins, reads the database, fills the cache or fails to.
LEMMA LoaderStep ==
    ASSUME VerticalInv, NEW r \in Requests, GetConfig(r) \/ LoadFromDB(r) \/ PopulateCache(r) \/ PopulateFails(r)
    PROVE  VerticalInv'
<1> USE VerticalAssumption
<1>0. request[r] \in RequestRecord /\ Outside \in RequestRecord /\ Outside.pc = "none"
      BY DEF VerticalInv, VerticalTypeOK, RequestRecord, Outside
<1>1. CASE GetConfig(r)
      <2>1. PICK k : k = [request[r] EXCEPT !.pc = "load"]
            OBVIOUS
      <2>2. k \in RequestRecord /\ k.pc = "load"
            BY <1>0, <2>1 DEF RequestRecord
      <2>3. request' = [request EXCEPT ![r] = k] /\ UNCHANGED <<binding, edits, cache, editor, superseded, spoiled>>
            BY <1>1, <2>1 DEF GetConfig
      <2>4. QED
            BY <2>2, <2>3, RequestMoves
<1>2. CASE LoadFromDB(r)
      <2>1. PICK k : k = IF binding = 0 THEN Outside ELSE [pc |-> "set", content |-> binding, left |-> setTimeout]
            OBVIOUS
      <2>2. k \in RequestRecord /\ (k.pc = "set" => k.content = binding /\ binding # 0 /\ k.left <= setTimeout)
            <3>1. CASE binding = 0
                  BY <1>0, <2>1, <3>1
            <3>2. CASE binding # 0
                  BY <2>1, <3>2, SMT, SMTT(30) DEF VerticalInv, VerticalTypeOK, RequestRecord
            <3>3. QED
                  BY <3>1, <3>2
      <2>3. request' = [request EXCEPT ![r] = k] /\ UNCHANGED <<binding, edits, cache, editor, superseded, spoiled>>
            BY <1>2, <2>1 DEF LoadFromDB
      <2>4. QED
            BY <2>2, <2>3, RequestMoves
<1>3. CASE PopulateFails(r)
      <2>1. request' = [request EXCEPT ![r] = Outside] /\ UNCHANGED <<binding, edits, cache, editor, superseded, spoiled>>
            BY <1>3 DEF PopulateFails
      <2>2. QED
            BY <1>0, <2>1, RequestMoves
<1>4. CASE PopulateCache(r)
      <2>1. /\ request[r].pc = "set" /\ request' = [request EXCEPT ![r] = Outside]
            /\ cache' = [content |-> request[r].content, left |-> cacheTTL]
            /\ UNCHANGED <<binding, edits, editor, superseded, spoiled>>
            BY <1>4 DEF PopulateCache
      <2>2. request'[r].pc = "none" /\ request' \in [Requests -> RequestRecord] /\ \A p \in Requests \ {r} : request'[p] = request[p]
            BY <1>0, <2>1 DEF VerticalInv, VerticalTypeOK
      <2>3. cache' \in [content : Nat, left : Nat] /\ cache'.content = request[r].content /\ cache'.left = cacheTTL
            BY <1>0, <2>1 DEF RequestRecord
      <2>4. VerticalTypeOK'
            BY <2>1, <2>2, <2>3 DEF VerticalInv, VerticalTypeOK
      <2>5. request[r].content \in 1 .. edits /\ request[r].content \in 1 .. MaxEdits
            BY <2>1, SMT, SMTT(30) DEF VerticalInv, VerticalTypeOK
      <2>6. StaleIsBounded'
            <3>1. CASE request[r].content = binding
                  BY <2>1, <2>3, <3>1 DEF StaleIsBounded
            <3>2. CASE request[r].content # binding
                  <4>1. superseded[request[r].content] + request[r].left <= setTimeout
                        BY <2>1, <3>2 DEF VerticalInv
                  <4>2. superseded[request[r].content] \in Nat /\ request[r].left \in Nat
                        BY <1>0, <2>5 DEF VerticalInv, VerticalTypeOK, RequestRecord
                  <4>3. QED
                        BY <2>1, <2>3, <4>1, <4>2, SMT, SMTT(30) DEF StaleIsBounded
            <3>3. QED
                  BY <3>1, <3>2
      <2>7. UpdatedIsServed'
            BY <2>1, <2>3 DEF VerticalInv, UpdatedIsServed
      <2>8. QED
            BY <2>1, <2>2, <2>3, <2>4, <2>5, <2>6, <2>7, SMT, SMTT(30) DEF VerticalInv
<1>5. QED
      BY <1>1, <1>2, <1>3, <1>4

\* A write of the Store: the content of before is old from here on, and the writer has yet
\* to invalidate the cache.
LEMMA WriteStep ==
    ASSUME VerticalInv, NEW e \in Editors, BindTenant(e) \/ UpdateOverride(e) \/ UnbindTenant(e)
    PROVE  VerticalInv'
<1> USE VerticalAssumption
<1>1. editor' = [editor EXCEPT ![e] = "invalidate"] /\ UNCHANGED <<cache, request, spoiled>>
      BY DEF BindTenant, UpdateOverride, UnbindTenant
<1>2. editor' \in [Editors -> {"none", "invalidate"}] /\ editor'[e] = "invalidate"
      BY <1>1 DEF VerticalInv, VerticalTypeOK
<1>3. ASSUME NEW new \in Nat, Replace(new), edits' \in Nat, new <= edits', edits <= edits', edits' <= MaxEdits,
             new = 0 \/ new > edits
      PROVE  VerticalInv'
      <2>1. /\ binding' = new /\ \A n \in 1 .. MaxEdits : superseded'[n] = IF n = binding THEN 0 ELSE superseded[n]
            /\ superseded' \in [1 .. MaxEdits -> Nat]
            <3>1. CASE binding = 0
                  BY <1>3, <3>1, SMT, SMTT(30) DEF Replace, VerticalInv, VerticalTypeOK
            <3>2. CASE binding # 0
                  BY <1>3, <3>2 DEF Replace, VerticalInv, VerticalTypeOK
            <3>3. QED
                  BY <3>1, <3>2
      <2>2. VerticalTypeOK'
            BY <1>1, <1>2, <1>3, <2>1 DEF VerticalInv, VerticalTypeOK
      <2>3. \A n \in 1 .. edits : n \in 1 .. edits' /\ n \in 1 .. MaxEdits /\ n # new
            BY <1>3, SMT, SMTT(30) DEF VerticalInv, VerticalTypeOK
      <2>4. /\ cache.left <= cacheTTL /\ (cache.left > 0 => cache.content \in 1 .. edits')
            /\ \A r \in Requests : request[r].pc = "set" => request[r].content \in 1 .. edits' /\ request[r].left <= setTimeout
            BY <2>3 DEF VerticalInv
      <2>5. ASSUME NEW r \in Requests, request[r].pc = "set"
            PROVE  superseded'[request[r].content] + request[r].left <= setTimeout
            <3>1. request[r].content \in 1 .. MaxEdits /\ request[r].left \in Nat /\ request[r].left <= setTimeout
                  BY <2>3, <2>5 DEF VerticalInv, VerticalTypeOK, RequestRecord
            <3>2. CASE request[r].content = binding
                  BY <2>1, <3>1, <3>2, SMT, SMTT(30)
            <3>3. CASE request[r].content # binding
                  BY <2>1, <2>5, <3>1, <3>3 DEF VerticalInv
            <3>4. QED
                  BY <3>2, <3>3
      <2>6. ASSUME cache.left > 0
            PROVE  superseded'[cache.content] + cache.left <= setTimeout + cacheTTL
            <3>1. cache.content \in 1 .. MaxEdits /\ cache.left \in Nat /\ cache.left <= cacheTTL
                  BY <2>3, <2>6 DEF VerticalInv, VerticalTypeOK
            <3>2. CASE cache.content = binding
                  BY <2>1, <3>1, <3>2, SMT, SMTT(30)
            <3>3. CASE cache.content # binding
                  BY <2>1, <2>6, <3>1, <3>3 DEF VerticalInv, StaleIsBounded
            <3>4. QED
                  BY <3>2, <3>3
      <2>7. QED
            BY <1>1, <1>2, <2>2, <2>4, <2>5, <2>6 DEF VerticalInv, StaleIsBounded, UpdatedIsServed
<1>4. CASE UNCHANGED <<binding, edits, superseded>>
      <2>1. VerticalTypeOK'
            BY <1>1, <1>2, <1>4 DEF VerticalInv, VerticalTypeOK
      <2>2. QED
            BY <1>1, <1>2, <1>4, <2>1 DEF VerticalInv, StaleIsBounded, UpdatedIsServed
<1>5. CASE edits < MaxEdits /\ edits' = edits + 1 /\ Replace(edits + 1)
      <2>1. /\ edits + 1 \in Nat /\ edits' \in Nat /\ edits + 1 <= edits' /\ edits <= edits' /\ edits' <= MaxEdits
            /\ edits + 1 > edits
            BY <1>5, SMT, SMTT(30) DEF VerticalInv, VerticalTypeOK
      <2>2. QED
            BY <1>3, <1>5, <2>1
<1>6. CASE edits' = edits /\ Replace(0)
      <2>1. edits' \in Nat /\ 0 <= edits' /\ edits <= edits' /\ edits' <= MaxEdits
            BY <1>6, SMT, SMTT(30) DEF VerticalInv, VerticalTypeOK
      <2>2. QED
            BY <1>3, <1>6, <2>1
<1>7. QED
      BY <1>4, <1>5, <1>6 DEF BindTenant, UpdateOverride, UnbindTenant

\* Invalidate empties the cache, or leaves it and is remembered.
LEMMA InvalidateStep ==
    ASSUME VerticalInv, NEW e \in Editors, Invalidate(e) \/ InvalidateFails(e)
    PROVE  VerticalInv'
<1>1. editor' \in [Editors -> {"none", "invalidate"}] /\ UNCHANGED <<binding, edits, request, superseded>>
      BY DEF Invalidate, InvalidateFails, VerticalInv, VerticalTypeOK
<1>2. CASE InvalidateFails(e)
      <2>1. spoiled' = TRUE /\ UNCHANGED cache
            BY <1>2 DEF InvalidateFails
      <2>2. VerticalTypeOK'
            BY <1>1, <2>1 DEF VerticalInv, VerticalTypeOK
      <2>3. QED
            BY <1>1, <2>1, <2>2 DEF VerticalInv, StaleIsBounded, UpdatedIsServed
<1>3. CASE Invalidate(e)
      <2>1. cache' = [content |-> 0, left |-> 0]
            BY <1>3 DEF Invalidate
      <2>2. cache' \in [content : Nat, left : Nat] /\ cache'.left = 0
            BY <2>1
      <2>3. spoiled' = (spoiled \/ \E r \in Requests : request[r].pc = "set" /\ request[r].content # binding)
            BY <1>3 DEF Invalidate
      <2>4. spoiled' \in BOOLEAN /\ \A r \in Requests : request[r].pc = "set" /\ request[r].content # binding => spoiled'
            BY <2>3, Zenon
      <2>5. VerticalTypeOK'
            BY <1>1, <2>2, <2>4 DEF VerticalInv, VerticalTypeOK
      <2>6. StaleIsBounded' /\ UpdatedIsServed' /\ cache'.left <= cacheTTL /\ ~(cache'.left > 0)
            BY <2>2, VerticalAssumption, SMT, SMTT(30) DEF StaleIsBounded, UpdatedIsServed
      <2>7. QED
            BY <1>1, <2>4, <2>5, <2>6 DEF VerticalInv
<1>4. QED
      BY <1>2, <1>3

\* A tick takes from the time a content has left as much as it adds to its age.
LEMMA TickStep == ASSUME VerticalInv, TimePasses PROVE VerticalInv'
<1> USE VerticalAssumption
<1>1. /\ \A r \in Requests : request[r].pc = "set" => request[r].left > 0
      /\ cache' = [content |-> IF cache.left > 1 THEN cache.content ELSE 0, left |-> Pass(cache.left)]
      /\ request' = [r \in Requests |-> [request[r] EXCEPT !.left = Pass(request[r].left)]]
      /\ superseded' = Aged /\ UNCHANGED <<binding, edits, editor, spoiled>>
      BY DEF TimePasses
<1>2. \A n \in Nat : Pass(n) \in Nat /\ Pass(n) <= n /\ (n > 0 => Pass(n) = n - 1)
      BY SMT, SMTT(30) DEF Pass
<1>3. /\ superseded' \in [1 .. MaxEdits -> Nat]
      /\ \A n \in 1 .. MaxEdits : superseded'[n] \in Nat /\ superseded'[n] <= superseded[n] + 1
      <2>1. Staleness \in Nat
            BY SMT, SMTT(30) DEF Staleness
      <2>2. \A n \in 1 .. MaxEdits : superseded[n] \in Nat
            BY DEF VerticalInv, VerticalTypeOK
      <2>3. QED
            BY <1>1, <2>1, <2>2, SMT, SMTT(30) DEF Aged
<1>4. /\ request' \in [Requests -> RequestRecord]
      /\ \A r \in Requests : /\ request'[r].pc = request[r].pc /\ request'[r].content = request[r].content
                             /\ request'[r].left \in Nat /\ request[r].left \in Nat /\ request[r].content \in Nat
                             /\ request'[r].left <= request[r].left
                             /\ request[r].pc = "set" => request'[r].left = request[r].left - 1
      BY ZenonT(40), <1>1, <1>2 DEF VerticalInv, VerticalTypeOK, RequestRecord
<1>5. /\ cache' \in [content : Nat, left : Nat] /\ cache.left \in Nat /\ cache'.left <= cache.left
      /\ cache'.left > 0 => cache'.left = cache.left - 1 /\ cache'.content = cache.content /\ cache.left > 0
      BY <1>1, <1>2, SMT, SMTT(30) DEF VerticalInv, VerticalTypeOK
<1>6. VerticalTypeOK'
      BY <1>1, <1>3, <1>4, <1>5 DEF VerticalInv, VerticalTypeOK
<1>7. \A n \in 1 .. edits : n \in 1 .. MaxEdits /\ superseded[n] \in Nat
      BY SMT, SMTT(30) DEF VerticalInv, VerticalTypeOK
<1>8. ASSUME NEW r \in Requests, request'[r].pc = "set", request'[r].content # binding
      PROVE  superseded'[request'[r].content] + request'[r].left <= setTimeout
      <2>1. request[r].pc = "set" /\ request[r].content \in 1 .. edits /\ superseded[request[r].content] + request[r].left <= setTimeout
            BY <1>4, <1>8 DEF VerticalInv
      <2>2. PICK n \in 1 .. edits : n = request[r].content
            BY <2>1
      <2>3. superseded'[n] \in Nat /\ superseded'[n] <= superseded[n] + 1 /\ superseded[n] \in Nat
            BY <1>3, <1>7, <2>2
      <2>4. superseded[n] + request[r].left <= setTimeout /\ request'[r].content = n /\ request'[r].left = request[r].left - 1
            BY <1>4, <2>1, <2>2
      <2>5. QED
            BY <1>4, <2>3, <2>4, SMT, SMTT(30)
<1>9. StaleIsBounded'
      <2> SUFFICES ASSUME cache'.left > 0, cache'.content # binding
                   PROVE  superseded'[cache'.content] + cache'.left <= setTimeout + cacheTTL
          BY <1>1 DEF StaleIsBounded
      <2>1. cache.content \in 1 .. edits /\ superseded[cache.content] + cache.left <= setTimeout + cacheTTL
            BY <1>5 DEF VerticalInv, StaleIsBounded
      <2>2. PICK n \in 1 .. edits : n = cache.content
            BY <2>1
      <2>3. superseded'[n] \in Nat /\ superseded'[n] <= superseded[n] + 1 /\ superseded[n] \in Nat
            BY <1>3, <1>7, <2>2
      <2>4. superseded[n] + cache.left <= setTimeout + cacheTTL /\ cache'.content = n /\ cache'.left = cache.left - 1
            BY <1>5, <2>1, <2>2
      <2>5. QED
            BY <1>5, <2>3, <2>4, SMT, SMTT(30)
<1>10. UpdatedIsServed'
      BY <1>1, <1>5 DEF VerticalInv, UpdatedIsServed
<1>11. /\ cache'.left <= cacheTTL /\ (cache'.left > 0 => cache'.content \in 1 .. edits)
       /\ \A r \in Requests : request'[r].pc = "set" => request'[r].content \in 1 .. edits /\ request'[r].left <= setTimeout
      <2>1. cache'.left <= cacheTTL /\ (cache'.left > 0 => cache'.content \in 1 .. edits)
            BY <1>5, SMT, SMTT(30) DEF VerticalInv, VerticalTypeOK
      <2>2. \A r \in Requests : request'[r].pc = "set" => request'[r].content \in 1 .. edits /\ request'[r].left <= setTimeout
            BY <1>4, SMT, SMTT(30) DEF VerticalInv
      <2>3. QED
            BY <2>1, <2>2
<1>12. \A r \in Requests : request'[r].pc = "set" /\ request'[r].content # binding =>
          spoiled \/ \E e \in Editors : editor[e] = "invalidate"
      BY <1>4 DEF VerticalInv
<1>13. QED
      BY <1>1, <1>6, <1>8, <1>9, <1>10, <1>11, <1>12 DEF VerticalInv

\* The invariant of the configuration cache.
THEOREM VerticalInvariant == VerticalSpec => []VerticalInv
<1>1. VerticalInit => VerticalInv
      <2> SUFFICES ASSUME VerticalInit PROVE VerticalInv
          OBVIOUS
      <2>1. VerticalTypeOK
            <3>1. Outside \in RequestRecord
                  BY DEF RequestRecord, Outside
            <3>2. cache \in [content : Nat, left : Nat] /\ request \in [Requests -> RequestRecord]
                  BY <3>1 DEF VerticalInit
            <3>3. superseded \in [1 .. MaxEdits -> Nat] /\ editor \in [Editors -> {"none", "invalidate"}]
                  BY DEF VerticalInit
            <3>4. spoiled \in BOOLEAN
                  BY Zenon DEF VerticalInit
            <3>5. QED
                  BY <3>2, <3>3, <3>4, VerticalAssumption, SMT, SMTT(30) DEF VerticalInit, VerticalTypeOK
      <2>2. cache.left = 0 /\ \A r \in Requests : request[r].pc = "none"
            BY DEF VerticalInit, Outside
      <2>3. QED
            BY <2>1, <2>2, VerticalAssumption, SMT, SMTT(30) DEF VerticalInv, StaleIsBounded, UpdatedIsServed
<1>2. VerticalInv /\ [VerticalNext]_verticalVars => VerticalInv'
      <2> SUFFICES ASSUME VerticalInv, [VerticalNext]_verticalVars PROVE VerticalInv'
          OBVIOUS
      <2>1. CASE UNCHANGED verticalVars
            BY <2>1 DEF verticalVars, VerticalInv, VerticalTypeOK, StaleIsBounded, UpdatedIsServed
      <2>2. QED
            BY <2>1, LoaderStep, WriteStep, InvalidateStep, TickStep DEF VerticalNext
<1>3. QED
      BY <1>1, <1>2, PTL DEF VerticalSpec

\* The types of the binding, of the cache and of the calls.
THEOREM VerticalTypeCorrect == VerticalSpec => []VerticalTypeOK
<1>1. VerticalInv => VerticalTypeOK
      BY DEF VerticalInv
<1>2. QED
      BY <1>1, VerticalInvariant, PTL

\* A replaced content is gone from the cache at most cacheTTL after the last moment a Set
\* of it could still arrive, whichever calls to Redis fail.
THEOREM StaleIsBoundedHolds == VerticalSpec => []StaleIsBounded
<1>1. VerticalInv => StaleIsBounded
      BY DEF VerticalInv
<1>2. QED
      BY <1>1, VerticalInvariant, PTL

\* Between the calls of the Store's writers the cache holds an old content only if an
\* Invalidate failed, or overtook a Set of it.
THEOREM UpdatedIsServedHolds == VerticalSpec => []UpdatedIsServed
<1>1. VerticalInv => UpdatedIsServed
      BY DEF VerticalInv
<1>2. QED
      BY <1>1, VerticalInvariant, PTL

-----------------------------------------------------------------------------
(* The depth-first search                                                  *)

\* The innermost call of dfs is one of the path.
LEMMA TopOfPath ==
    ASSUME PhaseTypeOK, path # <<>>
    PROVE  Len(path) \in Nat \ {0} /\ Top \in Phases /\ DOMAIN path = 1 .. Len(path)
  BY EmptySeq, LenProperties, ElementOfSeq, SMT, SMTT(30) DEF PhaseTypeOK, Top

\* A path without its innermost call.
LEMMA FrontOfPath ==
    ASSUME NEW S, NEW s \in Seq(S), s # <<>>
    PROVE  /\ SubSeq(s, 1, Len(s) - 1) \in Seq(S)
           /\ Len(SubSeq(s, 1, Len(s) - 1)) = Len(s) - 1
           /\ \A i \in 1 .. Len(s) - 1 : SubSeq(s, 1, Len(s) - 1)[i] = s[i]
<1> DEFINE n == Len(s) - 1
           f == SubSeq(s, 1, n)
<1>1. n \in Nat /\ Len(s) = n + 1
    BY EmptySeq, SMT, SMTT(30)
<1>2. \A i \in 1 .. n : s[i] \in S
    BY <1>1, ElementOfSeq, SMT, SMTT(30)
<1> HIDE DEF n
<1>3. /\ f \in Seq(S) /\ Len(f) = (IF 1 <= n THEN n - 1 + 1 ELSE 0)
      /\ \A i \in 1 .. n - 1 + 1 : f[i] = s[1 + i - 1]
    BY <1>1, <1>2, SubSeqProperties, SMT, SMTT(30)
<1> HIDE DEF f
<1>4. n - 1 + 1 = n /\ Len(f) = n
    BY <1>1, <1>3, SMT, SMTT(30)
<1>5. ASSUME NEW i \in 1 .. n PROVE f[i] = s[i]
  <2>1. 1 + i - 1 = i
      BY <1>1, SMT, SMTT(30)
  <2> QED
      BY <1>3, <1>4, <2>1
<1> QED
    BY <1>3, <1>4, <1>5 DEF f, n

\* Before the first call of dfs every phase is white.
LEMMA SearchBegins == PhaseInit => SearchInv
<1> SUFFICES ASSUME PhaseInit PROVE SearchInv
    OBVIOUS
<1>1. PhaseTypeOK
    BY EmptySeq DEF PhaseInit, PhaseTypeOK
<1>2. Gray = {} /\ Black = {} /\ Len(path) = 0
    BY EmptySeq DEF PhaseInit, Gray, Black
<1>3. PathIsGray /\ PathIsWalk /\ LoopsKeepUp
    BY <1>2, SMT, SMTT(30) DEF PathIsGray, PathIsWalk, LoopsKeepUp, PhaseInit
<1>4. BlackIsAcyclic
    BY <1>2 DEF BlackIsAcyclic, Endless
<1> QED
    BY <1>1, <1>3, <1>4 DEF SearchInv, PhaseInit

\* dfs called on a white phase by the outer loop: the path is that phase.
LEMMA VisitKeeps ==
    ASSUME SearchInv, NEW p \in Phases, Visit(p)
    PROVE  SearchInv'
<1> USE DEF SearchInv
<1>1. /\ ~hasCycle /\ ~hasCycle' /\ Len(path) = 0 /\ Gray = {}
      /\ path' = <<p>> /\ Len(path') = 1 /\ path'[1] = p
    BY EmptySeq, SMT, SMTT(30) DEF Visit, PathIsGray, PhaseTypeOK
<1>2. PhaseTypeOK'
    BY SMT, SMTT(30) DEF Visit, PhaseTypeOK
<1>3. Black' = Black /\ White' = White \ {p} /\ Gray' = {p} /\ p \in White
    BY <1>1 DEF Visit, PhaseTypeOK, Black, White, Gray
<1>4. PathIsGray' /\ PathIsWalk'
    BY <1>1, <1>3, SMT, SMTT(30) DEF PathIsGray, PathIsWalk
<1>5. LoopsKeepUp'
    BY <1>1, <1>3, SMT, SMTT(30) DEF LoopsKeepUp, Visit
<1>6. BlackIsAcyclic'
    BY <1>1, <1>3 DEF BlackIsAcyclic, Visit, Endless
<1> QED
    BY <1>1, <1>2, <1>4, <1>5, <1>6

\* A transition to a phase of the path closes a cycle: the path from that phase on.
LEMMA GrayIsOnACycle ==
    ASSUME PhaseTypeOK, PathIsGray, PathIsWalk, path # <<>>,
           NEW next \in Gray, next \in adj[Top]
    PROVE  \E S \in SUBSET Phases : Endless(S)
<1>1. PICK i \in 1 .. Len(path) : path[i] = next
    BY DEF PathIsGray
<1> DEFINE S == {path[j] : j \in i .. Len(path)}
<1>2. Len(path) \in Nat \ {0} /\ Top \in Phases
    BY TopOfPath
<1>3. S \in SUBSET Phases
    BY <1>2, ElementOfSeq, SMT, SMTT(30) DEF PhaseTypeOK
<1>4. next \in S
    BY <1>1, <1>2, SMT, SMTT(30)
<1>5. ASSUME NEW q \in S PROVE adj[q] \intersect S # {}
  <2>1. PICK j \in i .. Len(path) : q = path[j]
      BY <1>5
  <2>2. CASE j = Len(path)
      BY <1>4, <2>1, <2>2 DEF Top
  <2>3. CASE j # Len(path)
    <3>1. j \in 1 .. Len(path) - 1 /\ j + 1 \in i .. Len(path)
        BY <1>2, <2>1, <2>3, SMT, SMTT(30)
    <3>2. path[j + 1] \in adj[q] /\ path[j + 1] \in S
        BY <2>1, <3>1 DEF PathIsWalk
    <3> QED
        BY <3>2
  <2> QED
      BY <2>2, <2>3
<1> QED
    BY <1>3, <1>4, <1>5 DEF Endless

\* A transition to an unknown or to a finished phase is passed over.
LEMMA PassOverKeeps ==
    ASSUME SearchInv, NEW next \in {Unknown} \union Black, path # <<>>, next \in todo[Top],
           todo' = [todo EXCEPT ![Top] = @ \ {next}], UNCHANGED <<adj, path, color, hasCycle>>
    PROVE  SearchInv'
<1> USE DEF SearchInv
<1>1. ~hasCycle /\ ~hasCycle' /\ Len(path) \in Nat \ {0} /\ Top \in Phases
    BY TopOfPath
<1>2. PhaseTypeOK'
    BY <1>1 DEF PhaseTypeOK
<1>3. Black' = Black /\ White' = White /\ Gray' = Gray
    BY DEF Black, White, Gray
<1>4. PathIsGray' /\ PathIsWalk'
    BY <1>1, <1>3 DEF PathIsGray, PathIsWalk
<1>5. Top \in Gray /\ Top \notin White
    BY <1>1, SMT, SMTT(30) DEF PathIsGray, Top, Gray, White
<1>6. LoopsKeepUp'
  <2>1. \A p \in White' : todo'[p] = adj'[p]
      BY <1>1, <1>3, <1>5 DEF LoopsKeepUp, PhaseTypeOK, White
  <2>2. ASSUME NEW i \in 1 .. Len(path), NEW n \in (adj[path[i]] \ todo'[path[i]]) \intersect Phases
        PROVE  n \in Black \/ (i < Len(path) /\ n = path[i + 1])
    <3>1. CASE n = next
        BY <3>1, PhasesAssumption
    <3>2. CASE n # next
        BY <1>1, <2>2, <3>2, ElementOfSeq DEF LoopsKeepUp, PhaseTypeOK
    <3> QED
        BY <3>1, <3>2
  <2> QED
      BY <1>3, <2>1, <2>2 DEF LoopsKeepUp
<1>7. BlackIsAcyclic'
    BY <1>1, <1>3 DEF BlackIsAcyclic, Endless
<1> QED
    BY <1>1, <1>2, <1>4, <1>6, <1>7

\* A transition to a white phase: dfs is called on it, one deeper.
LEMMA DescendKeeps ==
    ASSUME SearchInv, NEW next \in White, path # <<>>, next \in todo[Top], next \in adj[Top],
           todo' = [todo EXCEPT ![Top] = @ \ {next}], path' = Append(path, next),
           color' = [color EXCEPT ![next] = "gray"], UNCHANGED <<adj, hasCycle>>
    PROVE  SearchInv'
<1> USE DEF SearchInv
<1>1. ~hasCycle /\ ~hasCycle' /\ Len(path) \in Nat \ {0} /\ Top \in Phases /\ next \in Phases
    BY TopOfPath DEF White
<1>2. PhaseTypeOK'
    BY <1>1, SMT, SMTT(30) DEF PhaseTypeOK
<1>3. Black' = Black /\ White' = White \ {next} /\ Gray' = Gray \union {next} /\ next \notin Gray
    BY <1>1 DEF Black, White, Gray, PhaseTypeOK
<1>4. /\ Len(path') = Len(path) + 1 /\ path'[Len(path) + 1] = next
      /\ \A i \in 1 .. Len(path) : path'[i] = path[i] /\ path[i] \in Gray /\ path[i] # next
    BY <1>1, <1>3, SMT, SMTT(30) DEF PhaseTypeOK, PathIsGray
<1>5. PathIsGray'
    BY <1>1, <1>3, <1>4, SMT, SMTT(30) DEF PathIsGray
<1>6. PathIsWalk'
  <2> SUFFICES ASSUME NEW i \in 1 .. Len(path) PROVE path'[i + 1] \in adj[path'[i]]
      BY <1>1, <1>4, SMT, SMTT(30) DEF PathIsWalk
  <2>1. CASE i = Len(path)
      BY <1>1, <1>4, <2>1 DEF Top
  <2>2. CASE i # Len(path)
      BY <1>1, <1>4, <2>2, SMT, SMTT(30) DEF PathIsWalk
  <2> QED
      BY <2>1, <2>2
<1>7. LoopsKeepUp'
  <2>1. \A p \in White' : todo'[p] = adj'[p]
    <3>1. Top \notin White
        BY <1>1, <1>4, SMT, SMTT(30) DEF Top, Gray, White
    <3> QED
        BY <1>1, <1>3, <3>1 DEF LoopsKeepUp, PhaseTypeOK, White
  <2>2. ASSUME NEW i \in 1 .. Len(path) + 1,
               NEW n \in (adj[path'[i]] \ todo'[path'[i]]) \intersect Phases
        PROVE  n \in Black \/ (i < Len(path) + 1 /\ n = path'[i + 1])
    <3>1. CASE i = Len(path) + 1
      <4>1. path'[i] = next /\ todo'[next] = adj[next]
        <5>1. next # Top
            BY <1>1, <1>4, SMT, SMTT(30) DEF Top
        <5> QED
            BY <1>1, <1>4, <3>1, <5>1 DEF LoopsKeepUp, PhaseTypeOK
      <4> QED
          BY <4>1
    <3>2. CASE i \in 1 .. Len(path) /\ path[i] = Top
      <4>1. i = Len(path)
          BY <1>1, <3>2, SMT, SMTT(30) DEF PathIsGray, Top
      <4>2. CASE n = next
          BY <1>1, <1>4, <4>1, <4>2, SMT, SMTT(30)
      <4>3. CASE n # next
        <5>1. n \in (adj[path[i]] \ todo[path[i]]) \intersect Phases
            BY <1>1, <1>4, <2>2, <3>2, <4>3 DEF PhaseTypeOK
        <5> QED
            BY <1>1, <3>2, <4>1, <5>1, SMT, SMTT(30) DEF LoopsKeepUp
      <4> QED
          BY <4>2, <4>3
    <3>3. CASE i \in 1 .. Len(path) /\ path[i] # Top
      <4>1. i < Len(path) /\ i + 1 \in 1 .. Len(path)
          BY <1>1, <3>3, SMT, SMTT(30) DEF Top
      <4>2. n \in (adj[path[i]] \ todo[path[i]]) \intersect Phases
          BY <1>1, <1>4, <2>2, <3>3, ElementOfSeq DEF PhaseTypeOK
      <4> QED
          BY <1>1, <1>4, <3>3, <4>1, <4>2, SMT, SMTT(30) DEF LoopsKeepUp
    <3> QED
        BY <1>1, <3>1, <3>2, <3>3, SMT, SMTT(30)
  <2> QED
      BY <1>3, <1>4, <2>1, <2>2, SMT, SMTT(30) DEF LoopsKeepUp
<1>8. BlackIsAcyclic'
    BY <1>1, <1>3 DEF BlackIsAcyclic, Endless
<1> QED
    BY <1>1, <1>2, <1>5, <1>6, <1>7, <1>8

\* One turn of the loop over a phase's transitions.
LEMMA LookKeeps ==
    ASSUME SearchInv, NEW next \in Phases \union {Unknown}, Look(next)
    PROVE  SearchInv'
<1>1. /\ PhaseTypeOK /\ path # <<>> /\ ~hasCycle /\ Top \in Phases
      /\ next \in todo[Top] /\ next \in adj[Top]
    BY TopOfPath DEF SearchInv, Look, PhaseTypeOK
<1>2. CASE next \in {Unknown} \union Black /\ UNCHANGED <<path, color, hasCycle>>
    BY <1>1, <1>2, PassOverKeeps DEF Look
<1>3. CASE next \in Gray /\ hasCycle' = TRUE /\ path' = <<>> /\ UNCHANGED color
  <2>1. \E S \in SUBSET Phases : Endless(S)
      BY <1>1, <1>3, GrayIsOnACycle DEF SearchInv
  <2>2. \E S \in SUBSET Phases : Endless(S)'
      BY <2>1 DEF Look, Endless
  <2>3. PhaseTypeOK'
      BY <1>1, <1>3, EmptySeq DEF Look, PhaseTypeOK
  <2> QED
      BY <1>3, <2>2, <2>3 DEF SearchInv
<1>4. CASE next \in White /\ path' = Append(path, next)
           /\ color' = [color EXCEPT ![next] = "gray"] /\ UNCHANGED hasCycle
    BY <1>1, <1>4, DescendKeeps DEF Look
<1> QED
    BY <1>2, <1>3, <1>4 DEF Look

\* A phase all of whose transitions lead to finished phases adds no cycle to them.
LEMMA FinishedStayAcyclic ==
    ASSUME PhaseTypeOK, BlackIsAcyclic, NEW p \in Gray, adj[p] \intersect Phases \subseteq Black,
           NEW S \in SUBSET (Black \union {p})
    PROVE  ~Endless(S)
<1>1. p \notin Black /\ p \in Phases /\ Black \subseteq Phases
    BY DEF Gray, Black
<1>2. CASE p \notin S
    BY <1>2 DEF BlackIsAcyclic
<1>3. CASE S = {p}
    BY <1>1, <1>3 DEF Endless
<1>4. CASE p \in S /\ S # {p}
  <2>1. S \ {p} \in SUBSET Black /\ S \ {p} # {}
      BY <1>4
  <2>2. PICK q \in S \ {p} : adj[q] \intersect (S \ {p}) = {}
      BY <2>1 DEF BlackIsAcyclic, Endless
  <2>3. p \notin adj[q]
      BY <1>1, <2>1 DEF BlackIsAcyclic
  <2> QED
      BY <2>2, <2>3 DEF Endless
<1> QED
    BY <1>2, <1>3, <1>4

\* The call of the innermost phase ends, and the phase is finished.
LEMMA LeaveKeeps ==
    ASSUME SearchInv, Leave
    PROVE  SearchInv'
<1> USE DEF SearchInv
<1>1. /\ ~hasCycle /\ ~hasCycle' /\ Len(path) \in Nat \ {0} /\ Top \in Gray /\ Top \in Phases
      /\ Top = path[Len(path)]
    BY TopOfPath, SMT, SMTT(30) DEF Leave, PathIsGray, Top
<1>2. /\ path' \in Seq(Phases) /\ Len(path') = Len(path) - 1
      /\ \A i \in 1 .. Len(path) - 1 : path'[i] = path[i] /\ path[i] \in Phases
  <2>1. \A i \in 1 .. Len(path) - 1 : path[i] \in Phases
      BY <1>1, ElementOfSeq, SMT, SMTT(30) DEF PhaseTypeOK
  <2> QED
      BY <2>1, FrontOfPath DEF Leave, PhaseTypeOK
<1>3. PhaseTypeOK'
    BY <1>1, <1>2 DEF Leave, PhaseTypeOK
<1>4. Black' = Black \union {Top} /\ White' = White /\ Gray' = Gray \ {Top}
    BY <1>1 DEF Leave, Black, White, Gray, PhaseTypeOK
<1>5. PathIsGray'
    BY <1>1, <1>2, <1>4, SMT, SMTT(30) DEF PathIsGray
<1>6. PathIsWalk'
  <2> SUFFICES ASSUME NEW i \in 1 .. Len(path) - 2 PROVE path'[i + 1] \in adj[path'[i]]
      BY <1>1, <1>2, SMT, SMTT(30) DEF PathIsWalk, Leave
  <2>1. path'[i] = path[i] /\ path'[i + 1] = path[i + 1]
      BY <1>1, <1>2, SMT, SMTT(30)
  <2> QED
      BY <1>1, <2>1, SMT, SMTT(30) DEF PathIsWalk
<1>7. LoopsKeepUp'
  <2>1. \A p \in White' : todo'[p] = adj'[p]
      BY <1>1, <1>4 DEF LoopsKeepUp, Leave
  <2>2. ASSUME NEW i \in 1 .. Len(path) - 1, NEW n \in (adj[path[i]] \ todo[path[i]]) \intersect Phases
        PROVE  n \in Black \union {Top} \/ (i < Len(path) - 1 /\ n = path'[i + 1])
    <3>1. CASE i = Len(path) - 1
        BY <1>1, <2>2, <3>1, SMT, SMTT(30) DEF LoopsKeepUp
    <3>2. CASE i # Len(path) - 1
        BY <1>1, <1>2, <2>2, <3>2, SMT, SMTT(30) DEF LoopsKeepUp
    <3> QED
        BY <3>1, <3>2
  <2> QED
      BY <1>1, <1>2, <1>4, <2>1, <2>2, SMT, SMTT(30) DEF LoopsKeepUp, Leave
<1>8. BlackIsAcyclic'
  <2>1. adj[Top] \intersect Phases \subseteq Black
      BY <1>1, SMT, SMTT(30) DEF LoopsKeepUp, Leave
  <2>2. \A p \in Black' : adj'[p] \intersect Phases \subseteq Black'
      BY <1>1, <1>4, <2>1 DEF BlackIsAcyclic, Leave
  <2>3. \A S \in SUBSET Black' : ~Endless(S)
      BY <1>1, <1>4, <2>1, FinishedStayAcyclic
  <2> QED
      BY <2>2, <2>3 DEF BlackIsAcyclic, Endless, Leave
<1> QED
    BY <1>1, <1>3, <1>5, <1>6, <1>7, <1>8

\* The invariant of the depth-first search holds of every vertical's phases.
THEOREM SearchCorrect == PhaseSpec => []SearchInv
<1>1. SearchInv /\ [PhaseNext]_phaseVars => SearchInv'
  <2> SUFFICES ASSUME SearchInv, [PhaseNext]_phaseVars PROVE SearchInv'
      OBVIOUS
  <2>1. CASE \E p \in Phases : Visit(p)
      BY <2>1, VisitKeeps
  <2>2. CASE \E next \in Phases \union {Unknown} : Look(next)
      BY <2>2, LookKeeps
  <2>3. CASE Leave
      BY <2>3, LeaveKeeps
  <2>4. CASE UNCHANGED phaseVars
      BY <2>4, SMT, SMTT(30) DEF phaseVars, SearchInv, PhaseTypeOK, PathIsGray, PathIsWalk, LoopsKeepUp,
                  BlackIsAcyclic, Endless, Gray, Black, White
  <2> QED
      BY <2>1, <2>2, <2>3, <2>4 DEF PhaseNext
<1> QED
    BY <1>1, SearchBegins, PTL DEF PhaseSpec

\* validatePhaseTransitions reports a cycle exactly if the transitions have one.
THEOREM CyclesFound == PhaseSpec => []CyclesAreFound
<1>1. SearchInv => CyclesAreFound
  <2> SUFFICES ASSUME SearchInv, Searched, ~hasCycle, NEW S \in SUBSET Phases PROVE ~Endless(S)
      BY DEF SearchInv, CyclesAreFound
  <2>1. Gray = {} /\ White = {}
      BY EmptySeq, SMT, SMTT(30) DEF Searched, SearchInv, PathIsGray, White
  <2>2. Black = Phases
      BY <2>1 DEF SearchInv, PhaseTypeOK, Gray, White, Black
  <2> QED
      BY <2>2 DEF SearchInv, BlackIsAcyclic
<1> QED
    BY <1>1, SearchCorrect, PTL
=============================================================================
