----------------------------- MODULE GroupCounter -----------------------------
(***************************************************************************)
(* The bounded duplicate counter of src/brain/group.utils.ts over the      *)
(* LruCache of src/brain/lru.utils.ts, as a record of the groups (least    *)
(* recently used first) and the number of groups started.  A group has a   *)
(* key, a count and the number of its start.                               *)
(***************************************************************************)
EXTENDS Naturals, Sequences, SequencesExt

NoGroups == [groups |-> <<>>, started |-> 0]

Has(groups, k) == \E i \in DOMAIN groups : groups[i].key = k
Place(groups, k) == CHOOSE i \in DOMAIN groups : groups[i].key = k

GroupsOf(groups, k) == IF Has(groups, k) THEN <<groups[Place(groups, k)]>> ELSE <<>>
WithoutKey(groups, k) == IF Has(groups, k) THEN RemoveAt(groups, Place(groups, k)) ELSE groups

\* absorb() of a key that has a group: get() makes it the most recently used.
Absorb(gc, k) ==
    LET group == gc.groups[Place(gc.groups, k)]
    IN  [gc EXCEPT !.groups = Append(WithoutKey(@, k), [group EXCEPT !.count = @ + 1])]

\* What set() of a key evicts: the least recently used group of a full cache.
Evicted(gc, k, cap) ==
    LET kept == WithoutKey(gc.groups, k)
    IN  IF Len(kept) >= cap THEN <<Head(kept)>> ELSE <<>>

\* start(): the new group comes last.
Start(gc, k, cap) ==
    LET kept == WithoutKey(gc.groups, k)
    IN  [groups |-> Append(IF Len(kept) >= cap THEN Tail(kept) ELSE kept,
                           [key |-> k, count |-> 1, id |-> gc.started + 1]),
         started |-> gc.started + 1]

\* take() of a key.
Take(gc, k) == [gc EXCEPT !.groups = WithoutKey(@, k)]

\* drain(): every group is visited, oldest first, and removed.
Drain(gc) == [gc EXCEPT !.groups = <<>>]
=============================================================================
