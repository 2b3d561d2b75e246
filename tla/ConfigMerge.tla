----------------------------- MODULE ConfigMerge -----------------------------
(***************************************************************************)
(* The array overrides of pkg/vertical/merge.go: a section of a vertical's *)
(* configuration and a tenant's override of it, which removes items, then  *)
(* patches items by id and then appends.  The patches are applied in the   *)
(* order of a Go map, which is any order.  The five sections' helpers are  *)
(* one algorithm.  An item is its id and the keys that patched it; a patch *)
(* may set the id itself.                                                  *)
(***************************************************************************)
EXTENDS Integers, Sequences, FiniteSets, SequencesExt

CONSTANTS
    Ids,        \* ids of items
    Section     \* the section of the vertical: distinct ids, in order

ASSUME MergeAssumption == Section \in Seq(Ids) /\ IsInjective(Section)

VARIABLES
    op,         \* the override: remove, override (by id, the id it sets), append
    items,      \* the section being merged
    left,       \* the keys of op.override not yet applied
    merging     \* "remove", "override" or "merged"

mergeVars == <<op, items, left, merging>>

ArrayOverride ==
    [remove : SUBSET Ids, override : UNION {[S -> Ids] : S \in SUBSET Ids},
     append : {<<>>} \union {<<i>> : i \in Ids}]

Base == [i \in DOMAIN Section |-> [id |-> Section[i], by |-> {}]]

MergeInit ==
    /\ op \in ArrayOverride /\ items = Base
    /\ left = DOMAIN op.override /\ merging = "remove"

\* Mutant: an item that is also patched stays.
RemoveUnpatched ==
    /\ merging = "remove" /\ merging' = "override"
    /\ items' = SelectSeq(items, LAMBDA item : item.id \notin op.remove \ DOMAIN op.override)
    /\ UNCHANGED <<op, left>>

\* The items whose id is in the set of removed ids are filtered out.
RemoveItems ==
    /\ merging = "remove" /\ merging' = "override"
    /\ items' = SelectSeq(items, LAMBDA item : item.id \notin op.remove)
    /\ UNCHANGED <<op, left>>

\* A key is applied to the first item that has that id by now, if there is one.
ApplyOverride(key) ==
    /\ merging = "override" /\ key \in left
    /\ LET hits == {i \in DOMAIN items : items[i].id = key}
       IN  items' = IF hits = {} THEN items
                    ELSE [items EXCEPT ![CHOOSE i \in hits : \A j \in hits : i <= j] =
                                         [id |-> op.override[key], by |-> @.by \union {key}]]
    /\ left' = left \ {key}
    /\ UNCHANGED <<op, merging>>

\* The new items are appended, whatever ids they have.
AppendItems ==
    /\ merging = "override" /\ left = {} /\ merging' = "merged"
    /\ items' = items \o [i \in DOMAIN op.append |-> [id |-> op.append[i], by |-> {}]]
    /\ UNCHANGED <<op, left>>

MergeNext == RemoveItems \/ AppendItems \/ \E key \in Ids : ApplyOverride(key)

MergeSpec == MergeInit /\ [][MergeNext]_mergeVars

-----------------------------------------------------------------------------
(* Properties                                                              *)

Renames == \E key \in DOMAIN op.override : op.override[key] # key

\* ArrayOverride "applies append/override/remove operations": as long as no patch
\* sets another id, the result does not depend on the order of the map and is what
\* the three operations say one by one.
MergedAsDeclared ==
    merging = "merged" /\ ~Renames =>
        LET kept == SelectSeq(Section, LAMBDA i : i \notin op.remove)
        IN  items = [i \in DOMAIN kept |->
                        [id |-> kept[i], by |-> {kept[i]} \intersect DOMAIN op.override]]
                    \o [i \in DOMAIN op.append |-> [id |-> op.append[i], by |-> {}]]

=============================================================================
