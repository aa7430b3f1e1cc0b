------------------------------ MODULE HostList ------------------------------
(***************************************************************************)
(* The list of hosts in the sidebar (HostList.tsx): the rows it draws of    *)
(* the tree of Groups under a search and collapsed sections, dragging, and  *)
(* the question before a delete.                                            *)
(***************************************************************************)
EXTENDS Groups

CONSTANT None

VARIABLES
  hosts,        \* the hosts there are
  matches,      \* the hosts the query matches; None: there is no query
  collapsed,    \* sections; Top is "Ungrouped"
  dragging,     \* draggingHostId
  confirming    \* confirmingId

ui == <<matches, collapsed, dragging, confirming>>
listVars == <<vars, hosts, ui>>

ListInit ==
  /\ Init /\ hosts = Host
  /\ matches = None /\ collapsed = {} /\ dragging = None /\ confirming = None

-----------------------------------------------------------------------------
(* The rows *)

filtering == matches # None
visible == IF filtering THEN hosts \cap matches ELSE hosts
hostsOf(g) == {h \in visible : member[h] = g}
subtreeCount(g) == Cardinality(UNION {hostsOf(x) : x \in descendantIds(g)})

isCollapsed_Always(key) == key \in collapsed   \* mutant: a search does not open sections
isCollapsed(key) == ~filtering /\ key \in collapsed

\* walk(): a group, then what is below it unless it is collapsed; a branch without a match
\* is left out of a search.
Drawn ==
  LET level[n \in 0..Cardinality(Group)] ==
        {g \in buildGroupTree[n] :
           /\ n > 0 => effectiveParent(g) \in level[n - 1] /\ ~isCollapsed(effectiveParent(g))
           /\ filtering => subtreeCount(g) > 0}
  IN UNION {level[n] : n \in DOMAIN level}

\* The rows of hosts, each under a section; "Ungrouped" takes a host whose group is not listed.
hostRows ==
  {row \in Drawn \X visible : member[row[2]] = row[1] /\ ~isCollapsed(row[1])}
  \cup {<<Top, h>> : h \in {x \in visible : member[x] \notin groups /\ ~isCollapsed(Top)}}
Listed(h) == \E row \in hostRows : row[2] = h

-----------------------------------------------------------------------------
(* Actions *)

\* Every edit of the groups, as the store has it
GroupStep == Next /\ UNCHANGED <<hosts, ui>>

setQuery(S) ==
  /\ matches' = S /\ UNCHANGED <<vars, hosts, collapsed, dragging, confirming>>
\* The headings, which are clicked and dropped on
Sections == Drawn \cup {Top}
toggleGroup(key) ==
  /\ key \in Sections
  /\ collapsed' = (collapsed \ {key}) \cup ({key} \ collapsed)
  /\ UNCHANGED <<vars, hosts, matches, dragging, confirming>>

dragStart(h) ==
  /\ Listed(h) /\ dragging = None /\ dragging' = h
  /\ UNCHANGED <<vars, hosts, matches, collapsed, confirming>>
dragEnd ==
  /\ dragging # None /\ dragging' = None
  /\ UNCHANGED <<vars, hosts, matches, collapsed, confirming>>
dropOnGroup(key) ==
  /\ dragging # None /\ key \in Sections /\ setHostGroup(dragging, key)
  /\ dragging' = None
  /\ UNCHANGED <<hosts, matches, collapsed, confirming>>

onDelete(h) ==    \* a request, or the cross
  /\ Listed(h) /\ dragging = None
  /\ confirming' = IF confirming = h THEN None ELSE h
  /\ UNCHANGED <<vars, hosts, matches, collapsed, dragging>>
confirmDelete(h) ==
  /\ Listed(h) /\ confirming = h /\ dragging = None
  /\ confirming' = None /\ hosts' = hosts \ {h} /\ member' = [member EXCEPT ![h] = Top]
  /\ UNCHANGED <<groups, parent, matches, collapsed, dragging>>

ListNext ==
  \/ GroupStep \/ dragEnd
  \/ \E S \in SUBSET Host \cup {None} : setQuery(S)
  \/ \E key \in Group \cup {Top} : toggleGroup(key) \/ dropOnGroup(key)
  \/ \E h \in Host : dragStart(h) \/ onDelete(h) \/ confirmDelete(h)

ListSpec == ListInit /\ [][ListNext]_listVars

-----------------------------------------------------------------------------
(* Properties *)

ListTypeOK ==
  /\ TypeOK /\ hosts \in SUBSET Host
  /\ (filtering => matches \in SUBSET Host) /\ collapsed \in SUBSET (Group \cup {Top})
  /\ dragging \in Host \cup {None} /\ confirming \in Host \cup {None}

\* A search finds every match wherever it is nested and whatever is collapsed; without one a
\* host is hidden by a collapsed section only; and no host is listed twice (HostList.tsx 447).
Enclosing(h) == {g \in groups : member[h] \in descendantIds(g)}
MatchesAreListed ==
  \A h \in visible :
    /\ Cardinality({row \in hostRows : row[2] = h}) =
         IF ~filtering /\ (Enclosing(h) \cup (IF Enclosing(h) = {} THEN {Top} ELSE {})) \cap collapsed # {}
         THEN 0 ELSE 1
=============================================================================
