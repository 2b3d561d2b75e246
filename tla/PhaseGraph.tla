----------------------------- MODULE PhaseGraph -----------------------------
(***************************************************************************)
(* validatePhaseTransitions of pkg/vertical/validator.go: the phase types  *)
(* of a vertical and the transitions each allows, checked for references   *)
(* to unknown phases, for a terminal phase and, by a depth-first search,   *)
(* for cycles.  The search is the state machine, one step for each turn of *)
(* a loop.  Neither the order of the phases nor that of a phase's          *)
(* transitions is fixed: the search is right for every order.              *)
(***************************************************************************)
EXTENDS Integers, Sequences

CONSTANTS
    Phases,      \* the ids of the phase types
    Unknown      \* an id no phase type has

ASSUME PhasesAssumption == Unknown \notin Phases

VARIABLES
    adj,        \* the allowed transitions of each phase
    color,      \* "white", "gray" or "black"
    path,       \* the calls of dfs in progress, outermost first
    todo,       \* the transitions a phase's loop has not looked at
    hasCycle

phaseVars == <<adj, color, path, todo, hasCycle>>

PhaseTypeOK ==
    /\ adj \in [Phases -> SUBSET (Phases \union {Unknown})]
    /\ color \in [Phases -> {"white", "gray", "black"}]
    /\ path \in Seq(Phases)
    /\ todo \in [Phases -> SUBSET (Phases \union {Unknown})]
    /\ \A p \in Phases : todo[p] \subseteq adj[p]
    /\ hasCycle \in BOOLEAN

PhaseInit ==
    /\ adj \in [Phases -> SUBSET (Phases \union {Unknown})]
    /\ color = [p \in Phases |-> "white"]
    /\ path = <<>> /\ todo = adj /\ hasCycle = FALSE

\* The outer loop calls dfs on a white phase.
Visit(p) ==
    /\ path = <<>> /\ ~hasCycle /\ color[p] = "white"
    /\ path' = <<p>>
    /\ color' = [color EXCEPT ![p] = "gray"]
    /\ UNCHANGED <<adj, todo, hasCycle>>

White == {p \in Phases : color[p] = "white"}
Gray == {p \in Phases : color[p] = "gray"}
Black == {p \in Phases : color[p] = "black"}

Top == path[Len(path)]

\* Mutant: any phase seen before is taken for a cycle.
LookSeenIsCycle(next) ==
    /\ path # <<>> /\ next \in todo[Top]
    /\ todo' = [todo EXCEPT ![Top] = @ \ {next}]
    /\ IF next \notin Phases THEN UNCHANGED <<path, color, hasCycle>>
       ELSE IF color[next] = "white"
       THEN path' = Append(path, next) /\ color' = [color EXCEPT ![next] = "gray"] /\ UNCHANGED hasCycle
       ELSE hasCycle' = TRUE /\ path' = <<>> /\ UNCHANGED color
    /\ UNCHANGED adj

\* One turn of the loop over the transitions of the innermost call.  Once a
\* cycle is found every call in progress returns, and the colours they may
\* still write are not read again.
Look(next) ==
    /\ path # <<>> /\ next \in todo[Top]
    /\ todo' = [todo EXCEPT ![Top] = @ \ {next}]
    /\ \/ /\ next \in {Unknown} \union Black
          /\ UNCHANGED <<path, color, hasCycle>>
       \/ /\ next \in Gray
          /\ hasCycle' = TRUE /\ path' = <<>> /\ UNCHANGED color
       \/ /\ next \in White
          /\ path' = Append(path, next)
          /\ color' = [color EXCEPT ![next] = "gray"]
          /\ UNCHANGED hasCycle
    /\ UNCHANGED adj

\* The call of the innermost phase ends.
Leave ==
    /\ path # <<>> /\ todo[Top] = {}
    /\ color' = [color EXCEPT ![Top] = "black"]
    /\ path' = SubSeq(path, 1, Len(path) - 1)
    /\ UNCHANGED <<adj, todo, hasCycle>>

PhaseNext ==
    \/ \E p \in Phases : Visit(p)
    \/ \E next \in Phases \union {Unknown} : Look(next)
    \/ Leave

PhaseSpec == PhaseInit /\ [][PhaseNext]_phaseVars

Searched == path = <<>> /\ (hasCycle \/ \A p \in Phases : p \notin White)

-----------------------------------------------------------------------------
(* Properties                                                              *)

\* A set of phases each of which has a transition into the set: in a finite
\* graph there is one exactly if there is a cycle.
Endless(S) == S # {} /\ \A p \in S : adj[p] \intersect S # {}

\* validatePhaseTransitions "checks for cycles": the search reports one exactly
\* if there is one, whatever the order of phases and transitions.
CyclesAreFound ==
    /\ hasCycle => \E S \in SUBSET Phases : Endless(S)
    /\ Searched /\ ~hasCycle => \A S \in SUBSET Phases : ~Endless(S)

\* The gray phases are the path, each once.
PathIsGray ==
    /\ \A i \in 1 .. Len(path) : path[i] \in Gray
    /\ \A p \in Gray : \E i \in 1 .. Len(path) : path[i] = p
    /\ \A i, j \in 1 .. Len(path) : path[i] = path[j] => i = j

\* Each phase of the path has a transition to the one after it.
PathIsWalk == \A i \in 1 .. Len(path) - 1 : path[i + 1] \in adj[path[i]]

\* No loop has begun for a white phase, and the transitions a loop has dealt with
\* lead to finished phases or to the next phase of the path.
LoopsKeepUp ==
    /\ \A p \in White : todo[p] = adj[p]
    /\ \A i \in 1 .. Len(path) : \A n \in (adj[path[i]] \ todo[path[i]]) \intersect Phases :
          n \in Black \/ (i < Len(path) /\ n = path[i + 1])

\* A finished phase leads to finished phases only, and no cycle is among them.
BlackIsAcyclic ==
    /\ \A p \in Black : adj[p] \intersect Phases \subseteq Black
    /\ \A S \in SUBSET Black : ~Endless(S)

\* What the depth-first search relies on while it runs, the invariant behind
\* CyclesAreFound.
SearchInv ==
    /\ PhaseTypeOK
    /\ hasCycle => path = <<>> /\ \E S \in SUBSET Phases : Endless(S)
    /\ ~hasCycle => PathIsGray /\ PathIsWalk /\ LoopsKeepUp /\ BlackIsAcyclic
=============================================================================
