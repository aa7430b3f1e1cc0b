------------------------------- MODULE Groups -------------------------------
(***************************************************************************)
(* The tree of host groups: the rows of the vault and the handlers that    *)
(* change them (src/src/main/store/groups-repo.ts, and setHostGroup() of   *)
(* hosts-repo.ts), with the tree the window draws from those rows          *)
(* (src/src/renderer/lib/group-tree.ts).  Every handler is synchronous:    *)
(* one atomic step each.  Names, colours and the sort order are left out.   *)
(***************************************************************************)
EXTENDS FiniteSets, Naturals

CONSTANTS
  Group,    \* ids of groups
  Host,     \* hosts, each in at most one group
  Top       \* "no group": parent_id or group_id is null

ASSUME GroupsAssumption == Top \notin Group /\ IsFiniteSet(Group)

VARIABLES
  groups,   \* the ids that have a row
  parent,   \* parent_id of each row
  member    \* group_id of each host

vars == <<groups, parent, member>>

Init ==
  /\ groups = {}
  /\ parent = [g \in Group |-> Top]
  /\ member = [h \in Host |-> Top]

\* A set the walk along parent_id never leaves.
Closed(C) == \A g \in C : parent[g] \in C \cup {Top}

\* The ids visited by the walk from p to the root, seen twice or not.
Ancestors(p) == {g \in Group : \A C \in SUBSET Group : p \in C /\ Closed(C) => g \in C}

wouldCycle_SelfOnly(g, p) == p = g    \* mutant: descendants are not looked for
wouldCycle(g, p) == p # Top /\ g \in Ancestors(p)

createGroup(g, p) ==
  /\ g \notin groups /\ p \in groups \cup {Top}
  /\ groups' = groups \cup {g}
  /\ parent' = [parent EXCEPT ![g] = p]
  /\ UNCHANGED member

\* A parent that has no row is refused by the foreign key.
updateGroup(g, p) ==
  /\ g \in groups /\ p \in groups \cup {Top} /\ ~wouldCycle(g, p)
  /\ parent' = [parent EXCEPT ![g] = p]
  /\ UNCHANGED <<groups, member>>

\* ON DELETE SET NULL for its subgroups and for its hosts.
deleteGroup(g) ==
  /\ g \in groups
  /\ groups' = groups \ {g}
  /\ parent' = [x \in Group |-> IF x = g \/ parent[x] = g THEN Top ELSE parent[x]]
  /\ member' = [h \in Host |-> IF member[h] = g THEN Top ELSE member[h]]

setHostGroup(h, g) ==
  /\ g \in groups \cup {Top}
  /\ member' = [member EXCEPT ![h] = g]
  /\ UNCHANGED <<groups, parent>>

Next ==
  \/ \E g \in Group, p \in Group \cup {Top} : createGroup(g, p) \/ updateGroup(g, p)
  \/ \E g \in Group : deleteGroup(g)
  \/ \E h \in Host, g \in Group \cup {Top} : setHostGroup(h, g)

Spec == Init /\ [][Next]_vars

-----------------------------------------------------------------------------
(* What the window makes of the rows *)

\* A parent that is not listed counts as none.
effectiveParent(g) == IF parent[g] \in groups THEN parent[g] ELSE Top

\* buildGroupTree(): the nodes of each depth.
buildGroupTree ==
  LET level[n \in 0..Cardinality(Group)] ==
        IF n = 0 THEN {g \in groups : effectiveParent(g) = Top}
        ELSE {g \in groups : effectiveParent(g) \in level[n - 1]}
  IN level

\* The group and all below it, which the form of a group does not offer as parent.
descendantIds(g) ==
  {x \in groups : \A C \in SUBSET groups :
     g \in C /\ (\A y \in groups : parent[y] \in C => y \in C) => x \in C}

-----------------------------------------------------------------------------
(* Properties *)

TypeOK ==
  /\ groups \in SUBSET Group
  /\ parent \in [Group -> Group \cup {Top}] /\ member \in [Host -> Group \cup {Top}]

\* Every parent and every group of a host names a row, and what has no row has no
\* parent (the foreign keys and ON DELETE SET NULL, db.ts 19, 53).
ReferencesLive ==
  /\ \A g \in Group : parent[g] \in groups \cup {Top}
  /\ \A g \in Group \ groups : parent[g] = Top
  /\ \A h \in Host : member[h] \in groups \cup {Top}

\* However groups are nested, moved and deleted, no group is above itself: every
\* set of groups has one whose parent is outside of it (wouldCycle, groups-repo.ts 36).
Forest == \A S \in SUBSET Group : S # {} => \E g \in S : parent[g] \notin S

\* The form of a group offers exactly the parents that updateGroup() accepts: descendantIds()
\* searches downwards in the window what wouldCycle() searches upwards in the vault
\* (group-tree.ts 68: "used to forbid cyclic re-parenting").
FormOffersParents ==
  \A g \in groups : groups \ descendantIds(g) = {p \in groups : ~wouldCycle(g, p)}

\* Every group is drawn, once, at one depth (group-tree.ts 21).
TreeDrawsAll ==
  \A g \in groups : Cardinality({n \in DOMAIN buildGroupTree : g \in buildGroupTree[n]}) = 1
=============================================================================
