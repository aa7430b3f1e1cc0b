----------------------------- MODULE HostsStore -----------------------------
(***************************************************************************)
(* The window's copy of the vault: the stores of hosts, groups and         *)
(* credentials (src/src/renderer/stores/hosts.ts, credentials.ts) against   *)
(* the rows of the main process.                                           *)
(*                                                                         *)
(* The main process serves the calls of a window in the order they were    *)
(* made and each handler is synchronous, so a call is served as it is made; *)
(* its reply comes later, in the same order, and the window goes on         *)
(* meanwhile.                                                               *)
(***************************************************************************)
EXTENDS Sequences, Naturals

CONSTANTS
  HostId, GroupId, CredId,
  None,
  WritesFail,   \* a write may fail for reasons outside of the vault (locked, disk full)
  Hasty,        \* a host is dragged while a call is unanswered
  MaxReplies    \* bound: replies on their way

VARIABLES
  vault,    \* the rows: hosts (group and credential), groups and credentials
  store,    \* what the window holds of them
  replies,  \* the replies on their way
  got,      \* loadAll(): the hosts, while its groups are awaited
  twice     \* hosts the list of the window shows twice

vars == <<vault, store, replies, got, twice>>

Rows == [hosts : [HostId -> [group : GroupId \cup {None}, cred : CredId \cup {None}] \cup {None}],
         groups : SUBSET GroupId, creds : SUBSET CredId]
Empty == [hosts |-> [h \in HostId |-> None], groups |-> {}, creds |-> {}]

Init ==
  /\ vault = Empty /\ store = Empty
  /\ replies = <<>> /\ got = Empty.hosts /\ twice = {}

Shown(h) == store.hosts[h] # None
Idle(n) == Len(replies) + n <= MaxReplies

\* A call: the vault becomes v, or stays as it is and the call is rejected.
Call(v, may, reply) ==
  \/ may /\ vault' = v /\ replies' = Append(replies, reply)
  \/ /\ ~may \/ WritesFail
     /\ UNCHANGED vault
     /\ replies' = Append(replies, [reply EXCEPT !.ok = FALSE])

Reply(op, id, row) == [op |-> op, id |-> id, row |-> row, prev |-> None, ok |-> TRUE]

LoadReplies == <<Reply("hosts.list", None, vault.hosts), Reply("groups.list", None, vault.groups)>>

\* loadAll(): both lists are asked for at once.
loadAll ==
  /\ Idle(2)
  /\ replies' = replies \o LoadReplies
  /\ UNCHANGED <<vault, store, got, twice>>

InVault(row) == row.group \in vault.groups \cup {None} /\ row.cred \in vault.creds \cup {None}
HostRow == [group : store.groups \cup {None}, cred : store.creds \cup {None}]

createHost(h, row) ==
  /\ Idle(1) /\ vault.hosts[h] = None
  /\ Call([vault EXCEPT !.hosts[h] = row], InVault(row), Reply("create", h, row))
  /\ UNCHANGED <<store, got, twice>>

updateHost(h, row) ==
  /\ Idle(1) /\ Shown(h)
  /\ Call([vault EXCEPT !.hosts[h] = row], vault.hosts[h] # None /\ InVault(row),
          Reply("update", h, row))
  /\ UNCHANGED <<store, got, twice>>

\* A drag moves the host in the list at once; the reply settles it.
setHostGroup_NoRollback(h, g) ==   \* mutant: what the host was in is not kept
  /\ Idle(1) /\ Shown(h) /\ store.hosts[h].group # g /\ (Hasty \/ replies = <<>>)
  /\ store' = [store EXCEPT !.hosts[h].group = g]
  /\ LET there == vault.hosts[h] # None
         row == IF there THEN [vault.hosts[h] EXCEPT !.group = g] ELSE None
     IN Call([vault EXCEPT !.hosts[h] = row], there /\ g \in vault.groups \cup {None},
             [Reply("move", h, row) EXCEPT !.prev = g])
  /\ UNCHANGED <<got, twice>>
setHostGroup(h, g) ==
  /\ Idle(1) /\ Shown(h) /\ store.hosts[h].group # g /\ (Hasty \/ replies = <<>>)
  /\ store' = [store EXCEPT !.hosts[h].group = g]
  /\ LET there == vault.hosts[h] # None
         row == IF there THEN [vault.hosts[h] EXCEPT !.group = g] ELSE None
     IN Call([vault EXCEPT !.hosts[h] = row], there /\ g \in vault.groups \cup {None},
             [Reply("move", h, row) EXCEPT !.prev = store.hosts[h].group])
  /\ UNCHANGED <<got, twice>>

deleteHost(h) ==
  /\ Idle(1) /\ Shown(h)
  /\ Call([vault EXCEPT !.hosts[h] = None], TRUE, Reply("remove", h, None))
  /\ UNCHANGED <<store, got, twice>>

createGroup(g) ==
  /\ Idle(1) /\ g \notin vault.groups
  /\ Call([vault EXCEPT !.groups = @ \cup {g}], TRUE, Reply("group", g, None))
  /\ UNCHANGED <<store, got, twice>>

\* ON DELETE SET NULL
WithoutGroup(g) ==
  [vault EXCEPT !.groups = @ \ {g},
     !.hosts = [h \in HostId |-> IF @[h] # None /\ @[h].group = g
                                 THEN [@[h] EXCEPT !.group = None] ELSE @[h]]]
WithoutCred(c) ==
  [vault EXCEPT !.creds = @ \ {c},
     !.hosts = [h \in HostId |-> IF @[h] # None /\ @[h].cred = c
                                 THEN [@[h] EXCEPT !.cred = None] ELSE @[h]]]

deleteGroup(g) ==
  /\ Idle(1) /\ g \in store.groups
  /\ Call(WithoutGroup(g), TRUE, Reply("ungroup", g, None))
  /\ UNCHANGED <<store, got, twice>>

createCredential(c) ==
  /\ Idle(1) /\ c \notin vault.creds
  /\ Call([vault EXCEPT !.creds = @ \cup {c}], TRUE, Reply("cred", c, None))
  /\ UNCHANGED <<store, got, twice>>

deleteCredential(c) ==
  /\ Idle(1) /\ c \in store.creds
  /\ Call(WithoutCred(c), TRUE, Reply("uncred", c, None))
  /\ UNCHANGED <<store, got, twice>>

\* credentials.loadAll(), when the dialog opens
loadCredentials ==
  /\ Idle(1)
  /\ replies' = Append(replies, Reply("creds.list", None, vault.creds))
  /\ UNCHANGED <<vault, store, got, twice>>

\* The first reply arrives.  A deleted group or credential is followed by loadAll().
Replied(r) ==
  /\ got' = IF r.op = "hosts.list" THEN r.row ELSE got
  /\ twice' = IF r.op = "groups.list" THEN {}
              ELSE IF r.op = "create" /\ r.ok /\ Shown(r.id) THEN twice \cup {r.id}
              ELSE IF r.op = "remove" /\ r.ok THEN twice \ {r.id} ELSE twice
  /\ store' =
       CASE r.op = "groups.list" -> [store EXCEPT !.hosts = got, !.groups = r.row]
         [] r.op = "creds.list" -> [store EXCEPT !.creds = r.row]
         [] r.op = "create" /\ r.ok -> [store EXCEPT !.hosts[r.id] = r.row]
         [] r.op \in {"update", "move"} /\ r.ok /\ Shown(r.id) -> [store EXCEPT !.hosts[r.id] = r.row]
         [] r.op = "move" /\ ~r.ok /\ Shown(r.id) -> [store EXCEPT !.hosts[r.id].group = r.prev]
         [] r.op = "remove" /\ r.ok -> [store EXCEPT !.hosts[r.id] = None]
         [] r.op = "group" /\ r.ok -> [store EXCEPT !.groups = @ \cup {r.id}]
         [] r.op = "cred" /\ r.ok -> [store EXCEPT !.creds = @ \cup {r.id}]
         [] r.op = "uncred" /\ r.ok -> [store EXCEPT !.creds = @ \ {r.id}]
         [] OTHER -> store

Applied ==
  /\ replies # <<>>
  /\ LET r == Head(replies)
     IN /\ Replied(r)
        /\ replies' = IF r.op \in {"ungroup", "uncred"} /\ r.ok THEN Tail(replies) \o LoadReplies
                      ELSE Tail(replies)
  /\ UNCHANGED vault

Next ==
  \/ loadAll \/ loadCredentials
  \/ \E h \in HostId :
       \/ \E row \in HostRow : createHost(h, row) \/ updateHost(h, row)
       \/ \E g \in store.groups \cup {None} : setHostGroup(h, g)
       \/ deleteHost(h)
  \/ \E g \in GroupId : createGroup(g) \/ deleteGroup(g)
  \/ \E c \in CredId : createCredential(c) \/ deleteCredential(c)
  \/ Applied

Spec == Init /\ [][Next]_vars

-----------------------------------------------------------------------------
(* Properties *)

TypeOK ==
  /\ vault \in Rows /\ store \in Rows /\ [store EXCEPT !.hosts = got] \in Rows
  /\ Len(replies) <= 2 * MaxReplies /\ twice \subseteq HostId

\* Once every reply has arrived the window shows the vault, each host once: no reply that
\* crossed a later call, no optimistic move and no SET NULL leaves it behind (hosts.ts 76:
\* "reconcile / roll back on failure").  It holds while no host is dragged hastily: the
\* rollback restores what the list showed, which an unanswered call may have made stale.
QuietStoreIsVault == replies = <<>> => store = vault /\ twice = {}
=============================================================================
