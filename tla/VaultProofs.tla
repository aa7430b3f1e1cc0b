---------------------------- MODULE VaultProofs ----------------------------
(***************************************************************************)
(* Theorems of the vault.  The groups: their rows are well typed and name     *)
(* live rows, they stay a forest, and the form offers the parents the vault   *)
(* accepts.  The hosts and credentials, by themselves and under the forms     *)
(* that edit them; the opening of the file; the devices that share it; and    *)
(* the copy of the vault the window shows.                                  *)
(***************************************************************************)
EXTENDS MCVault, Integers, TLAPS, FiniteSetTheorems, WellFoundedInduction

-----------------------------------------------------------------------------
(* The groups *)

IInv == TypeOK /\ ReferencesLive /\ Forest

LEMMA InitIInv == Init => IInv
<1> SUFFICES ASSUME Init PROVE IInv
  OBVIOUS
<1>1. TypeOK
  BY DEF Init, TypeOK
<1>2. ReferencesLive
  BY DEF Init, ReferencesLive
<1>3. Forest
  <2> SUFFICES ASSUME NEW S \in SUBSET Group, S # {} PROVE \E g \in S : parent[g] \notin S
    BY DEF Forest
  <2>1. PICK g \in S : TRUE
    OBVIOUS
  <2>2. parent[g] = Top
    BY <2>1 DEF Init
  <2> QED
    BY <2>1, <2>2, GroupsAssumption
<1> QED
  BY <1>1, <1>2, <1>3 DEF IInv

-----------------------------------------------------------------------------
(* The forest, handler by handler *)

\* A new group has no subgroups yet.
LEMMA CreateForest ==
  ASSUME IInv, NEW g \in Group, NEW p \in Group \cup {Top}, createGroup(g, p)
  PROVE Forest'
<1> SUFFICES ASSUME NEW S \in SUBSET Group, S # {} PROVE \E x \in S : parent'[x] \notin S
  BY DEF Forest
<1>1. parent \in [Group -> Group \cup {Top}] /\ g \notin groups /\ p \in groups \cup {Top}
  BY DEF IInv, TypeOK, createGroup
<1>2. \A x \in Group : parent'[x] = IF x = g THEN p ELSE parent[x]
  BY <1>1 DEF createGroup
<1>3. p \notin {g} /\ \A x \in Group : parent[x] # g
  BY <1>1, GroupsAssumption DEF IInv, ReferencesLive
<1>4. CASE S \ {g} = {}
  BY <1>2, <1>3, <1>4
<1>5. CASE S \ {g} # {}
  <2>1. PICK x \in S \ {g} : parent[x] \notin S \ {g}
    BY <1>5 DEF IInv, Forest
  <2> QED
    BY <2>1, <1>2, <1>3
<1> QED
  BY <1>4, <1>5

\* Were S a loop after the move, p would be in it, and what S shares with the ancestors of p
\* would have been a loop before.
LEMMA UpdateForest ==
  ASSUME IInv, NEW g \in Group, NEW p \in Group \cup {Top}, updateGroup(g, p)
  PROVE Forest'
<1> SUFFICES ASSUME NEW S \in SUBSET Group, S # {}, \A x \in S : parent'[x] \in S PROVE FALSE
  BY DEF Forest
<1>1. parent \in [Group -> Group \cup {Top}]
  BY DEF IInv, TypeOK
<1>2. \A x \in Group : parent'[x] = IF x = g THEN p ELSE parent[x]
  BY <1>1 DEF updateGroup
<1>3. CASE g \notin S
  <2>1. PICK x \in S : parent[x] \notin S
    BY DEF IInv, Forest
  <2> QED
    BY <2>1, <1>2, <1>3
<1>4. CASE g \in S
  <2>1. p \in S
    BY <1>2, <1>4
  <2>2. g \notin Ancestors(p)
    BY <2>1, GroupsAssumption DEF updateGroup, wouldCycle
  <2>3. PICK C \in SUBSET Group : p \in C /\ Closed(C) /\ g \notin C
    BY <2>2, <1>4 DEF Ancestors
  <2>4. S \cap C # {}
    BY <2>1, <2>3
  <2>5. PICK x \in S \cap C : parent[x] \notin S \cap C
    BY <2>4 DEF IInv, Forest
  <2>6. parent[x] \in S
    BY <2>3, <2>5, <1>2
  <2>7. parent[x] \in C
    BY <2>3, <2>5, <2>6, GroupsAssumption DEF Closed
  <2> QED
    BY <2>5, <2>6, <2>7
<1> QED
  BY <1>3, <1>4

LEMMA DeleteForest ==
  ASSUME IInv, NEW g \in Group, deleteGroup(g)
  PROVE Forest'
<1> SUFFICES ASSUME NEW S \in SUBSET Group, S # {} PROVE \E x \in S : parent'[x] \notin S
  BY DEF Forest
<1>1. PICK x \in S : parent[x] \notin S
  BY DEF IInv, Forest
<1>2. parent'[x] \in {Top, parent[x]}
  BY DEF deleteGroup
<1> QED
  BY <1>1, <1>2, GroupsAssumption

-----------------------------------------------------------------------------

LEMMA NextIInv == IInv /\ [Next]_vars => IInv'
<1> SUFFICES ASSUME IInv, [Next]_vars PROVE IInv'
  OBVIOUS
<1> USE GroupsAssumption
<1>1. ASSUME NEW g \in Group, NEW p \in Group \cup {Top}, createGroup(g, p) PROVE IInv'
  <2>1. TypeOK'
    BY <1>1 DEF IInv, TypeOK, createGroup
  <2>2. ReferencesLive'
    BY <1>1 DEF IInv, TypeOK, ReferencesLive, createGroup
  <2> QED
    BY <1>1, <2>1, <2>2, CreateForest DEF IInv
<1>2. ASSUME NEW g \in Group, NEW p \in Group \cup {Top}, updateGroup(g, p) PROVE IInv'
  <2>1. TypeOK'
    BY <1>2 DEF IInv, TypeOK, updateGroup
  <2>2. ReferencesLive'
    BY <1>2 DEF IInv, TypeOK, ReferencesLive, updateGroup
  <2> QED
    BY <1>2, <2>1, <2>2, UpdateForest DEF IInv
<1>3. ASSUME NEW g \in Group, deleteGroup(g) PROVE IInv'
  <2>1. TypeOK'
    BY <1>3 DEF IInv, TypeOK, deleteGroup
  <2>2. ReferencesLive'
    <3>1. \A x \in Group : parent'[x] = IF x = g \/ parent[x] = g THEN Top ELSE parent[x]
      BY <1>3 DEF deleteGroup
    <3>2. \A h \in Host : member'[h] = IF member[h] = g THEN Top ELSE member[h]
      BY <1>3 DEF deleteGroup
    <3>3. groups' = groups \ {g}
      BY <1>3 DEF deleteGroup
    <3> QED
      BY <3>1, <3>2, <3>3 DEF IInv, ReferencesLive
  <2> QED
    BY <1>3, <2>1, <2>2, DeleteForest DEF IInv
<1>4. ASSUME NEW h \in Host, NEW g \in Group \cup {Top}, setHostGroup(h, g) PROVE IInv'
  <2>1. TypeOK' /\ ReferencesLive'
    BY <1>4 DEF IInv, TypeOK, ReferencesLive, setHostGroup
  <2>2. Forest'
    BY <1>4 DEF IInv, Forest, setHostGroup
  <2> QED
    BY <2>1, <2>2 DEF IInv
<1>5. CASE UNCHANGED vars
  BY <1>5 DEF IInv, TypeOK, ReferencesLive, Forest, vars
<1> QED
  BY <1>1, <1>2, <1>3, <1>4, <1>5 DEF Next

LEMMA SpecIInv == Spec => []IInv
  BY InitIInv, NextIInv, PTL DEF Spec

\* The rows are well typed.
THEOREM GroupsTyped == Spec => []TypeOK
<1>1. IInv => TypeOK
  BY DEF IInv
<1> QED
  BY <1>1, SpecIInv, PTL

\* No group and no host names a group that was deleted.
THEOREM GroupsReferencesLive == Spec => []ReferencesLive
<1>1. IInv => ReferencesLive
  BY DEF IInv
<1> QED
  BY <1>1, SpecIInv, PTL

\* However many groups there are, no group ever comes to be above itself.
THEOREM GroupsForest == Spec => []Forest
<1>1. IInv => Forest
  BY DEF IInv
<1> QED
  BY <1>1, SpecIInv, PTL

-----------------------------------------------------------------------------
(* The parents on offer *)

\* What is found downwards from g is what finds g upwards.
LEMMA DescendantIsBelow ==
  ASSUME IInv, NEW g \in groups, NEW p \in groups
  PROVE p \in descendantIds(g) <=> g \in Ancestors(p)
<1>1. groups \subseteq Group
  BY DEF IInv, TypeOK
<1>2. ASSUME p \in descendantIds(g) PROVE g \in Ancestors(p)
  <2> DEFINE D == {x \in groups : g \in Ancestors(x)}
  <2>1. g \in D
    BY <1>1 DEF Ancestors
  <2>2. ASSUME NEW y \in groups, parent[y] \in D PROVE y \in D
    <3>1. g \in Ancestors(parent[y]) /\ parent[y] # Top
      BY <2>2, <1>1, GroupsAssumption
    <3>2. ASSUME NEW C \in SUBSET Group, y \in C, Closed(C) PROVE g \in C
      <4>1. parent[y] \in C
        BY <3>1, <3>2 DEF Closed
      <4> QED
        BY <4>1, <3>1, <3>2 DEF Ancestors
    <3>3. g \in Ancestors(y)
      BY <3>2, <1>1 DEF Ancestors
    <3> QED
      BY <3>3
  <2>3. D \in SUBSET groups
    OBVIOUS
  <2>4. p \in D
    <3> HIDE DEF D
    <3> QED
      BY <1>2, <2>1, <2>2, <2>3 DEF descendantIds
  <2> QED
    BY <2>4
<1>3. ASSUME g \in Ancestors(p) PROVE p \in descendantIds(g)
  <2> SUFFICES ASSUME NEW C \in SUBSET groups, g \in C,
                      \A y \in groups : parent[y] \in C => y \in C,
                      p \notin C
               PROVE FALSE
    BY DEF descendantIds
  <2> DEFINE E == groups \ C
  <2>1. Closed(E)
    BY <1>1 DEF Closed, IInv, ReferencesLive
  <2>2. p \in E /\ E \in SUBSET Group
    BY <1>1
  <2>3. g \in E
    <3> HIDE DEF E
    <3> QED
      BY <1>3, <2>1, <2>2 DEF Ancestors
  <2> QED
    BY <2>3
<1> QED
  BY <1>2, <1>3

LEMMA FormOffers == IInv => FormOffersParents
<1> SUFFICES ASSUME IInv, NEW g \in groups, NEW p \in groups
             PROVE p \notin descendantIds(g) <=> ~wouldCycle(g, p)
  BY DEF FormOffersParents
<1>1. p # Top
  BY GroupsAssumption DEF IInv, TypeOK
<1> QED
  BY <1>1, DescendantIsBelow DEF wouldCycle

\* The two searches for a loop, of the window and of the vault, agree on every tree.
THEOREM GroupsFormOffersParents == Spec => []FormOffersParents
<1> QED
  BY FormOffers, SpecIInv, PTL

-----------------------------------------------------------------------------
(* The rows of hosts, credentials and tunnels *)

\* What a credential holds was entered for it as it is.
CredsFit ==
  \A c \in Rows!CredRows : \A x \in creds[c].secrets :
    x.as = creds[c].type /\ x.what \in Rows!CredAllows(creds[c])

RowsInv == Rows!TypeOK /\ Rows!ReferencesLive /\ Rows!NoMootSecret /\ CredsFit

LEMMA InitRows == Rows!Init => RowsInv
BY DEF Rows!Init, RowsInv, Rows!TypeOK, Rows!ReferencesLive, Rows!NoMootSecret, CredsFit,
       Rows!HostRows, Rows!CredRows

\* A login takes the secrets of one kind, from the credential or from the host.
LEMMA LoginsFit == RowsInv => Rows!NeverCrossUsed
<1> SUFFICES ASSUME RowsInv, NEW h \in Rows!HostRows
    PROVE /\ \A x \in Rows!resolveHostAuth(h).secrets :
               /\ x.as = "ssh"
               /\ x.what = (IF Rows!resolveHostAuth(h).auth = "key" THEN "passphrase" ELSE "password")
          /\ \A x \in Rows!resolveHostVncAuth(h) : x.as = "vnc"
  BY DEF Rows!NeverCrossUsed
<1> DEFINE c == hosts[h].cred
<1>1. hosts[h] \in Rows!HostRowType /\ c \in Rows!CredRows \cup {None}
  BY DEF RowsInv, Rows!TypeOK, Rows!HostRows, Rows!ReferencesLive
<1>2. \A s \in hosts[h].secrets :
        /\ s = "password" => hosts[h].auth = "password"
        /\ s = "passphrase" => hosts[h].auth = "key"
  BY DEF RowsInv, Rows!NoMootSecret, Rows!Allowed
<1>3. c # None => creds[c] \in Rows!CredRowType
  BY <1>1 DEF RowsInv, Rows!TypeOK, Rows!CredRows
<1>4. CASE c # None /\ creds[c].type = "ssh"
  <2>1. Rows!resolveHostAuth(h).secrets = creds[c].secrets /\ Rows!resolveHostAuth(h).auth = creds[c].auth
    BY <1>4 DEF Rows!resolveHostAuth
  <2>2. \A x \in creds[c].secrets : x.as = "ssh" /\ x.what \in Rows!CredAllows(creds[c])
    BY <1>1, <1>4 DEF RowsInv, CredsFit
  <2>3. Rows!resolveHostVncAuth(h) = {[what |-> "password", as |-> "vnc"] : s \in hosts[h].secrets \cap {"vncPassword"}}
    BY <1>4 DEF Rows!resolveHostVncAuth
  <2> QED BY <1>4, <2>1, <2>2, <2>3 DEF Rows!CredAllows
<1>5. CASE ~(c # None /\ creds[c].type = "ssh")
  <2>1. /\ Rows!resolveHostAuth(h).secrets = Rows!Entered(h, "password") \cup Rows!Entered(h, "passphrase")
        /\ Rows!resolveHostAuth(h).auth = hosts[h].auth
    BY <1>5 DEF Rows!resolveHostAuth
  <2>2. \A x \in Rows!resolveHostAuth(h).secrets :
          /\ x.as = "ssh"
          /\ x.what = (IF hosts[h].auth = "key" THEN "passphrase" ELSE "password")
    BY <1>2, <2>1 DEF Rows!Entered
  <2>3. CASE c # None /\ creds[c].type = "vnc"
    BY <1>1, <2>1, <2>2, <2>3 DEF Rows!resolveHostVncAuth, RowsInv, CredsFit
  <2>4. CASE ~(c # None /\ creds[c].type = "vnc")
    BY <2>1, <2>2, <2>4 DEF Rows!resolveHostVncAuth
  <2> QED BY <2>3, <2>4
<1> QED BY <1>4, <1>5

\* A row that is written has what it may have, whatever was stored.
LEMMA HostRowFits ==
  ASSUME NEW i \in Rows!HostInput, NEW S \in SUBSET Rows!Slot
  PROVE  /\ Rows!HostRow(i, S) \in Rows!HostRowType
         /\ Rows!HostRow(i, S).cred = i.cred
         /\ Rows!HostRow(i, S).secrets \subseteq
              Rows!Allowed(i.kind, i.auth, Rows!referencedCredentialType(i.cred))
         /\ Rows!HostRow(i, S).kind = i.kind /\ Rows!HostRow(i, S).auth = i.auth
BY DEF Rows!HostRow, Rows!HostRowType, Rows!HostInput, Rows!Kept, Rows!Allowed

\* What holds of one host row, by itself
Sound(row) ==
  /\ row \in Rows!HostRowType /\ row.cred \in Rows!CredRows \cup {None}
  /\ row.secrets \subseteq Rows!Allowed(row.kind, row.auth, Rows!referencedCredentialType(row.cred))

LEMMA HostWritten ==
  ASSUME RowsInv, NEW h \in HostId, NEW row, Sound(row),
         hosts' = [hosts EXCEPT ![h] = row], UNCHANGED <<creds, tunnels>>
  PROVE  RowsInv'
<1>1. \A x \in HostId : hosts'[x] = IF x = h THEN row ELSE hosts[x]
  BY DEF RowsInv, Rows!TypeOK
<1>2. row # None
  BY VaultAssumption DEF Sound
<1>3. Rows!CredRows' = Rows!CredRows /\ Rows!HostRows' = Rows!HostRows \cup {h}
  BY <1>1, <1>2 DEF Rows!CredRows, Rows!HostRows
<1>4. Rows!TypeOK'
  BY <1>1 DEF RowsInv, Rows!TypeOK, Sound
<1>5. Rows!ReferencesLive'
  BY <1>1, <1>3 DEF RowsInv, Rows!ReferencesLive, Sound
<1>7. Rows!NoMootSecret'
  <2> SUFFICES ASSUME NEW x \in Rows!HostRows'
               PROVE  hosts'[x].secrets \subseteq
                        Rows!Allowed(hosts'[x].kind, hosts'[x].auth, Rows!referencedCredentialType(hosts'[x].cred))
    BY DEF Rows!NoMootSecret, Rows!referencedCredentialType
  <2>1. x \in HostId
    BY DEF Rows!HostRows
  <2>2. CASE x = h
    BY <1>1, <2>1, <2>2 DEF Sound
  <2>3. CASE x # h
    <3>1. x \in Rows!HostRows /\ hosts'[x] = hosts[x]
      BY <1>1, <1>3, <2>1, <2>3
    <3> QED BY <3>1 DEF RowsInv, Rows!NoMootSecret
  <2> QED BY <2>2, <2>3
<1>8. CredsFit'
  BY DEF RowsInv, CredsFit, Rows!CredRows, Rows!CredAllows
<1> QED BY <1>4, <1>5, <1>7, <1>8 DEF RowsInv

LEMMA RowsAreSound == RowsInv => \A h \in Rows!HostRows : Sound(hosts[h])
BY DEF RowsInv, Sound, Rows!TypeOK, Rows!ReferencesLive, Rows!NoMootSecret, Rows!HostRows

LEMMA HostSaved ==
  ASSUME RowsInv, NEW h \in HostId, NEW i \in Rows!HostInput,
         Rows!createHost(h, i) \/ Rows!updateHost(h, i)
  PROVE  RowsInv'
<1>1. Rows!validHostInput(i) /\ UNCHANGED <<creds, tunnels>>
  BY DEF Rows!createHost, Rows!updateHost
<1>2. \A S \in SUBSET Rows!Slot : Sound(Rows!HostRow(i, S))
  BY <1>1, HostRowFits DEF Sound, Rows!validHostInput
<1>3. CASE Rows!createHost(h, i)
  <2>1. {} \in SUBSET Rows!Slot
    OBVIOUS
  <2> QED BY <1>1, <1>2, <1>3, <2>1, HostWritten DEF Rows!createHost
<1>4. CASE Rows!updateHost(h, i)
  <2>1. hosts[h].secrets \in SUBSET Rows!Slot
    BY <1>4 DEF Rows!updateHost, RowsInv, Rows!TypeOK, Rows!HostRowType
  <2> QED BY <1>1, <1>2, <1>4, <2>1, HostWritten DEF Rows!updateHost
<1> QED BY <1>3, <1>4

LEMMA HostDuplicated ==
  ASSUME RowsInv, NEW h \in HostId, NEW copy \in HostId, Rows!duplicateHost(h, copy) PROVE RowsInv'
<1>1. h \in Rows!HostRows
  BY DEF Rows!duplicateHost, Rows!HostRows
<1> QED BY <1>1, RowsAreSound, HostWritten DEF Rows!duplicateHost

\* The tunnels of a host go with it.
LEMMA HostDeleted == ASSUME RowsInv, NEW h \in HostId, Rows!deleteHost(h) PROVE RowsInv'
<1>1. /\ \A x \in HostId : hosts'[x] = IF x = h THEN None ELSE hosts[x]
      /\ creds' = creds
      /\ \A t \in TunnelId : tunnels'[t] = IF tunnels[t] = h THEN None ELSE tunnels[t]
  BY DEF Rows!deleteHost, RowsInv, Rows!TypeOK
<1>2. Rows!CredRows' = Rows!CredRows /\ Rows!HostRows' = Rows!HostRows \ {h}
  BY <1>1 DEF Rows!CredRows, Rows!HostRows
<1>3. Rows!TypeOK'
  BY DEF Rows!deleteHost, RowsInv, Rows!TypeOK
<1>4. Rows!ReferencesLive'
  BY <1>1, <1>2 DEF RowsInv, Rows!ReferencesLive, Rows!HostRows
<1>5. Rows!NoMootSecret'
  BY <1>1, <1>2 DEF RowsInv, Rows!NoMootSecret, Rows!referencedCredentialType, Rows!HostRows
<1>6. CredsFit'
  BY <1>1, <1>2 DEF RowsInv, CredsFit, Rows!CredAllows
<1> QED BY <1>3, <1>4, <1>5, <1>6 DEF RowsInv

\* A credential keeps its type, so that what hosts may hold stays as it is.
LEMMA CredWritten ==
  ASSUME RowsInv, NEW c \in CredId, NEW row \in Rows!CredRowType,
         \A x \in row.secrets : x.as = row.type /\ x.what \in Rows!CredAllows(row),
         creds[c] # None => creds[c].type = row.type,
         creds' = [creds EXCEPT ![c] = row], UNCHANGED <<hosts, tunnels>>
  PROVE  RowsInv'
<1>1. \A x \in CredId : creds'[x] = IF x = c THEN row ELSE creds[x]
  BY DEF RowsInv, Rows!TypeOK
<1>2. row # None
  BY VaultAssumption
<1>3. Rows!CredRows' = Rows!CredRows \cup {c} /\ Rows!HostRows' = Rows!HostRows
  BY <1>1, <1>2 DEF Rows!CredRows, Rows!HostRows
<1>4. Rows!TypeOK'
  BY DEF RowsInv, Rows!TypeOK
<1>5. Rows!ReferencesLive'
  BY <1>3 DEF RowsInv, Rows!ReferencesLive
<1>6. Rows!NoMootSecret'
  <2> SUFFICES ASSUME NEW h \in Rows!HostRows
               PROVE  hosts[h].secrets \subseteq
                        Rows!Allowed(hosts[h].kind, hosts[h].auth, Rows!referencedCredentialType(hosts[h].cred)')
    BY <1>3 DEF Rows!NoMootSecret, Rows!referencedCredentialType, Rows!Allowed
  <2>1. hosts[h].cred \in Rows!CredRows \cup {None}
    BY DEF RowsInv, Rows!ReferencesLive
  <2>2. Rows!referencedCredentialType(hosts[h].cred)' = Rows!referencedCredentialType(hosts[h].cred)
    BY <1>1, <2>1 DEF Rows!referencedCredentialType, Rows!CredRows
  <2> QED BY <2>2 DEF RowsInv, Rows!NoMootSecret
<1>7. CredsFit'
  BY <1>1, <1>3 DEF RowsInv, CredsFit, Rows!CredAllows, Rows!CredRows
<1> QED BY <1>4, <1>5, <1>6, <1>7 DEF RowsInv

LEMMA CredSaved ==
  ASSUME RowsInv, NEW c \in CredId, NEW i \in Rows!CredInput,
         Rows!createCredential(c, i) \/ Rows!updateCredential(c, i)
  PROVE  RowsInv'
<1> DEFINE stored == IF creds[c] = None THEN {} ELSE creds[c].secrets
           row == Rows!CredRow(i, stored)
<1>1. creds' = [creds EXCEPT ![c] = row] /\ UNCHANGED <<hosts, tunnels>>
  BY DEF Rows!createCredential, Rows!updateCredential
<1>2. creds[c] # None => c \in Rows!CredRows /\ creds[c] \in Rows!CredRowType /\ creds[c].type = i.type
  BY DEF Rows!createCredential, Rows!updateCredential, Rows!CredRows, RowsInv, Rows!TypeOK
<1>3. \A x \in stored : x.as = i.type /\ x \in [what : {"password", "passphrase"}, as : {"ssh", "vnc"}]
  BY <1>2 DEF RowsInv, CredsFit, Rows!CredRowType
<1>4. /\ row.type = i.type /\ row.auth = (IF i.type = "vnc" THEN "password" ELSE i.auth)
      /\ row.named = i.named
      /\ row.secrets = {[what |-> s, as |-> i.type] : s \in i.given \cap Rows!CredAllows(i)}
               \cup {x \in stored : x.what \in Rows!CredAllows(i) \ (i.given \cup i.cleared)}
  BY DEF Rows!CredRow
<1>5. Rows!CredAllows(row) = Rows!CredAllows(i)
  BY <1>4 DEF Rows!CredAllows, Rows!CredInput
<1>6. \A x \in row.secrets : x.as = row.type /\ x.what \in Rows!CredAllows(row)
  BY <1>3, <1>4, <1>5
<1>7. row.secrets \subseteq [what : {"password", "passphrase"}, as : {"ssh", "vnc"}]
  BY <1>3, <1>4 DEF Rows!CredInput
<1>8. row \in Rows!CredRowType
  BY <1>4, <1>7 DEF Rows!CredRow, Rows!CredRowType, Rows!CredInput, Rows!Auth
<1> HIDE DEF row
<1> QED BY <1>1, <1>2, <1>4, <1>6, <1>8, CredWritten

\* Its hosts fall back on logins of their own, which the secrets they kept are for.
LEMMA CredDeleted == ASSUME RowsInv, NEW c \in CredId, Rows!deleteCredential(c) PROVE RowsInv'
<1>1. /\ \A x \in CredId : creds'[x] = IF x = c THEN None ELSE creds[x]
      /\ \A h \in HostId : hosts'[h] = IF hosts[h] # None /\ hosts[h].cred = c
                                       THEN [hosts[h] EXCEPT !.cred = None] ELSE hosts[h]
      /\ tunnels' = tunnels
  BY DEF Rows!deleteCredential, RowsInv, Rows!TypeOK
<1>2. \A h \in Rows!HostRows :
        /\ hosts[h] \in Rows!HostRowType /\ hosts'[h] \in Rows!HostRowType
        /\ hosts'[h].kind = hosts[h].kind /\ hosts'[h].auth = hosts[h].auth
        /\ hosts'[h].secrets = hosts[h].secrets
        /\ hosts'[h].cred = IF hosts[h].cred = c THEN None ELSE hosts[h].cred
  <2> SUFFICES ASSUME NEW h \in Rows!HostRows
               PROVE  /\ hosts[h] \in Rows!HostRowType /\ hosts'[h] \in Rows!HostRowType
                      /\ hosts'[h].kind = hosts[h].kind /\ hosts'[h].auth = hosts[h].auth
                      /\ hosts'[h].secrets = hosts[h].secrets
                      /\ hosts'[h].cred = IF hosts[h].cred = c THEN None ELSE hosts[h].cred
    OBVIOUS
  <2>1. hosts[h] \in Rows!HostRowType /\ hosts[h] # None
    BY DEF Rows!HostRows, RowsInv, Rows!TypeOK
  <2>2. hosts'[h] = IF hosts[h].cred = c THEN [hosts[h] EXCEPT !.cred = None] ELSE hosts[h]
    BY <1>1, <2>1 DEF Rows!HostRows
  <2> QED BY <2>1, <2>2 DEF Rows!HostRowType
<1>3. Rows!CredRows' = Rows!CredRows \ {c} /\ Rows!HostRows' = Rows!HostRows
  BY <1>1, <1>2, VaultAssumption DEF Rows!CredRows, Rows!HostRows
<1>4. Rows!TypeOK'
  <2>1. hosts' \in [HostId -> Rows!HostRowType \cup {None}]
    BY <1>1, <1>2 DEF Rows!deleteCredential, Rows!HostRows, RowsInv, Rows!TypeOK
  <2> QED BY <2>1 DEF Rows!deleteCredential, RowsInv, Rows!TypeOK
<1>5. Rows!ReferencesLive'
  BY <1>1, <1>2, <1>3 DEF RowsInv, Rows!ReferencesLive
<1>6. Rows!NoMootSecret'
  <2> SUFFICES ASSUME NEW h \in Rows!HostRows
               PROVE  hosts[h].secrets \subseteq
                        Rows!Allowed(hosts[h].kind, hosts[h].auth,
                                     IF hosts'[h].cred = None THEN None ELSE creds'[hosts'[h].cred].type)
    BY <1>2, <1>3 DEF Rows!NoMootSecret, Rows!referencedCredentialType
  <2>1. hosts[h].secrets \subseteq
          Rows!Allowed(hosts[h].kind, hosts[h].auth, IF hosts[h].cred = None THEN None ELSE creds[hosts[h].cred].type)
    BY DEF RowsInv, Rows!NoMootSecret, Rows!referencedCredentialType
  <2>2. CASE hosts[h].cred = c
    <3>1. hosts'[h].cred = None /\ c # None /\ creds[c] # None /\ creds[c].type \in {"ssh", "vnc"}
      BY <1>2, <2>2, VaultAssumption DEF Rows!deleteCredential, RowsInv, Rows!TypeOK, Rows!CredRowType
    <3>2. Rows!Allowed(hosts[h].kind, hosts[h].auth, creds[c].type)
            \subseteq Rows!Allowed(hosts[h].kind, hosts[h].auth, None)
      BY <3>1, VaultAssumption DEF Rows!Allowed
    <3> QED BY <2>1, <2>2, <3>1, <3>2
  <2>3. CASE hosts[h].cred # c
    <3>1. hosts[h].cred \in CredId \cup {None}
      BY <1>2 DEF Rows!HostRowType
    <3> QED BY <1>1, <1>2, <2>1, <2>3, <3>1
  <2> QED BY <2>2, <2>3
<1>7. CredsFit'
  BY <1>1, <1>3 DEF RowsInv, CredsFit, Rows!CredRows, Rows!CredAllows
<1> QED BY <1>4, <1>5, <1>6, <1>7 DEF RowsInv

LEMMA TunnelSaved ==
  ASSUME RowsInv, NEW t \in TunnelId,
         \/ \E h \in HostId : Rows!createTunnel(t, h) \/ Rows!updateTunnel(t, h)
         \/ Rows!deleteTunnel(t)
  PROVE  RowsInv'
<1>1. PICK h \in Rows!HostRows \cup {None} : tunnels' = [tunnels EXCEPT ![t] = h] /\ UNCHANGED <<hosts, creds>>
  BY DEF Rows!createTunnel, Rows!updateTunnel, Rows!deleteTunnel
<1>2. Rows!CredRows' = Rows!CredRows /\ Rows!HostRows' = Rows!HostRows
  BY <1>1 DEF Rows!CredRows, Rows!HostRows
<1>3. Rows!TypeOK' /\ Rows!ReferencesLive'
  BY <1>1, <1>2 DEF RowsInv, Rows!TypeOK, Rows!ReferencesLive, Rows!HostRows
<1>4. Rows!NoMootSecret' /\ CredsFit'
  BY <1>1, <1>2 DEF RowsInv, Rows!NoMootSecret, CredsFit, Rows!referencedCredentialType, Rows!CredAllows
<1> QED BY <1>3, <1>4 DEF RowsInv

LEMMA RowsNext == RowsInv /\ Rows!Next => RowsInv'
<1> SUFFICES ASSUME RowsInv, Rows!Next PROVE RowsInv'
  OBVIOUS
<1>1. \A h \in HostId, i \in HostInputs : Rows!createHost(h, i) \/ Rows!updateHost(h, i) => RowsInv'
  BY HostSaved, VaultAssumption
<1>2. \A h, copy \in HostId : Rows!duplicateHost(h, copy) => RowsInv'
  BY HostDuplicated
<1>3. \A h \in HostId : Rows!deleteHost(h) => RowsInv'
  BY HostDeleted
<1>4. \A c \in CredId, i \in CredInputs : Rows!createCredential(c, i) \/ Rows!updateCredential(c, i) => RowsInv'
  BY CredSaved, VaultAssumption
<1>5. \A c \in CredId : Rows!deleteCredential(c) => RowsInv'
  BY CredDeleted
<1> QED BY <1>1, <1>2, <1>3, <1>4, <1>5, TunnelSaved DEF Rows!Next

-----------------------------------------------------------------------------
(* The forms over these rows *)

LEMMA FormVault ==
  /\ Form!V!Kind = Rows!Kind /\ Form!V!Auth = Rows!Auth /\ Form!V!Slot = Rows!Slot
  /\ Form!V!HostInput = Rows!HostInput /\ Form!V!CredInput = Rows!CredInput /\ Form!V!CredRows = Rows!CredRows
  /\ \A i : Form!V!validHostInput(i) <=> Rows!validHostInput(i)
  /\ \A k, a, t : Form!V!Allowed(k, a, t) = Rows!Allowed(k, a, t)
  /\ \A c : Form!V!referencedCredentialType(c) = Rows!referencedCredentialType(c)
  /\ \A i, S : Form!V!HostRow(i, S) = Rows!HostRow(i, S)
  /\ \A i, S : Form!V!CredRow(i, S) = Rows!CredRow(i, S)
<1> USE DEF Form!V!Kind, Rows!Kind, Form!V!Auth, Rows!Auth, Form!V!Slot, Rows!Slot,
       Form!V!HostInput, Rows!HostInput, Form!V!CredInput, Rows!CredInput, Form!V!CredRows, Rows!CredRows,
       Form!V!referencedCredentialType, Rows!referencedCredentialType
<1>1. \A i : Form!V!validHostInput(i) <=> Rows!validHostInput(i)
  BY DEF Form!V!validHostInput, Rows!validHostInput
<1>2. \A k, a, t : Form!V!Allowed(k, a, t) = Rows!Allowed(k, a, t)
  BY DEF Form!V!Allowed, Rows!Allowed
<1>3. \A i, S : Form!V!HostRow(i, S) = Rows!HostRow(i, S)
  BY <1>2 DEF Form!V!HostRow, Rows!HostRow, Form!V!Kept, Rows!Kept
<1>4. \A i, S : Form!V!CredRow(i, S) = Rows!CredRow(i, S)
  BY DEF Form!V!CredRow, Rows!CredRow, Form!V!CredAllows, Rows!CredAllows
<1> QED BY <1>1, <1>2, <1>3, <1>4

LEMMA FormActs ==
  /\ \A h, i : Form!V!createHost(h, i) <=> Rows!createHost(h, i)
  /\ \A h, i : Form!V!updateHost(h, i) <=> Rows!updateHost(h, i)
  /\ \A h, x : Form!V!duplicateHost(h, x) <=> Rows!duplicateHost(h, x)
  /\ \A h : Form!V!deleteHost(h) <=> Rows!deleteHost(h)
  /\ \A c, i : Form!V!createCredential(c, i) <=> Rows!createCredential(c, i)
  /\ \A c, i : Form!V!updateCredential(c, i) <=> Rows!updateCredential(c, i)
  /\ \A c : Form!V!deleteCredential(c) <=> Rows!deleteCredential(c)
BY FormVault DEF Form!V!createHost, Rows!createHost, Form!V!updateHost, Rows!updateHost,
   Form!V!duplicateHost, Rows!duplicateHost, Form!V!deleteHost, Rows!deleteHost,
   Form!V!createCredential, Rows!createCredential, Form!V!updateCredential, Rows!updateCredential,
   Form!V!deleteCredential, Rows!deleteCredential

Fields == [kind : Rows!Kind, auth : Rows!Auth, tunnel : BOOLEAN, cred : CredId \cup {None},
           named : BOOLEAN, port : BOOLEAN, desktop : {"blank", "over"},
           typed : SUBSET Rows!Slot, cleared : SUBSET Rows!Slot]
Saves == [host : HostId \cup {None}, input : Rows!HostInput, ranged : BOOLEAN, knew : BOOLEAN]

\* What changes of kind and mode keep of the fields
FieldsFit(g) ==
  /\ g \in Fields /\ (g.kind = "vnc" => ~g.tunnel)
  /\ "vncPassword" \in g.typed \cup g.cleared => g.kind \in {"vnc", "both"}

\* The credentials a form may name: those there are, and those that were deleted under it.
Lived == Rows!CredRows \cup dead \cup {None}

\* What is sent was right when it was sent, and stays so while its credential is there.
SaveFits(s) ==
  s.input.cred \in Rows!CredRows \cup {None} =>
    /\ s.ranged => Rows!validHostInput(s.input)
    /\ s.knew => s.input.given \cup s.input.cleared \subseteq
                   Rows!Allowed(s.input.kind, s.input.auth, Rows!referencedCredentialType(s.input.cred))

SaveInv == save # None => save \in Saves /\ save.input.cred \in Lived /\ SaveFits(save)
FieldsInv ==
  /\ FieldsFit(f) /\ f.cred \in Lived
  /\ listed \in BOOLEAN /\ dlg \in {"closed", "loading", "open"} /\ edits \in 0 .. MaxEdits
  /\ about \in HostId \cup {None}
  /\ dlg # "closed" /\ about # None => about \in Rows!HostRows
  /\ dlg = "closed" => f.typed = {}
DeadInv == dead \subseteq CredId /\ dead \cap Rows!CredRows = {}
FormInv == RowsInv /\ SaveInv /\ FieldsInv /\ DeadInv

\* The form's own properties follow.
LEMMA FormHolds ==
  FormInv => Form!TypeOK /\ Form!FormIsAccepted /\ Form!SecretsMirrorMain /\ Form!ClosedHoldsNoSecret
<1> SUFFICES ASSUME FormInv
    PROVE Form!TypeOK /\ Form!FormIsAccepted /\ Form!SecretsMirrorMain /\ Form!ClosedHoldsNoSecret
  OBVIOUS
<1>1. Form!TypeOK
  BY FormVault DEF Form!TypeOK, FormInv, SaveInv, FieldsInv, DeadInv, FieldsFit, Fields, Saves
<1>2. Form!FormIsAccepted
  BY FormVault DEF Form!FormIsAccepted, FormInv, SaveInv, SaveFits
<1>3. Form!SecretsMirrorMain
  BY FormVault DEF Form!SecretsMirrorMain, FormInv, SaveInv, SaveFits
<1>4. Form!ClosedHoldsNoSecret
  BY DEF Form!ClosedHoldsNoSecret, FormInv, FieldsInv
<1> QED BY <1>1, <1>2, <1>3, <1>4

\* Nothing but the fields changes.
LEMMA FieldsChange ==
  ASSUME FormInv, FieldsInv', UNCHANGED <<hosts, creds, tunnels, save, dead>>
  PROVE  FormInv'
<1>1. RowsInv'
  BY DEF FormInv, RowsInv, Rows!TypeOK, Rows!ReferencesLive, Rows!NoMootSecret, CredsFit, Rows!CredAllows,
         Rows!HostRows, Rows!CredRows, Rows!referencedCredentialType
<1>2. SaveInv' /\ DeadInv'
  BY DEF FormInv, SaveInv, SaveFits, DeadInv, Lived, Rows!CredRows, Rows!referencedCredentialType,
         Rows!validHostInput
<1> QED BY <1>1, <1>2 DEF FormInv

LEMMA FormRowFits ==
  ASSUME NEW i \in MCFormHosts, Rows!validHostInput(i) PROVE Sound(Rows!HostRow(i, {}))
<1>1. i \in Rows!HostInput
  <2>1. PICK k \in {"both", "vnc"}, c \in {None, c1} :
          i = [kind |-> k, auth |-> "password", named |-> TRUE, tunnelled |-> FALSE, cred |-> c,
               given |-> Slots, cleared |-> {}]
    BY DEF MCFormHosts
  <2>2. c \in CredId \cup {None}
    BY <2>1 DEF Rows!validHostInput, Rows!CredRows
  <2> QED BY <2>1, <2>2 DEF Slots, Rows!HostInput, Rows!Kind, Rows!Auth, Rows!Slot
<1>2. {} \in SUBSET Rows!Slot
  OBVIOUS
<1> QED BY <1>1, <1>2, HostRowFits DEF Sound, Rows!validHostInput

LEMMA InitForm == Form!Init => FormInv
<1> SUFFICES ASSUME Form!Init PROVE FormInv
  OBVIOUS
<1>1. \A c \in Rows!CredRows :
        /\ creds[c] \in Rows!CredRowType
        /\ \A x \in creds[c].secrets : x.as = creds[c].type /\ x.what \in Rows!CredAllows(creds[c])
  <2> SUFFICES ASSUME NEW c \in Rows!CredRows
               PROVE  /\ creds[c] \in Rows!CredRowType
                      /\ \A x \in creds[c].secrets : x.as = creds[c].type /\ x.what \in Rows!CredAllows(creds[c])
    OBVIOUS
  <2>1. PICK i \in MCFormCreds : creds[c] = Rows!CredRow(i, {})
    BY FormVault DEF Form!Init, Rows!CredRows
  <2>2. PICK t \in {"ssh", "vnc"} :
          i = [type |-> t, auth |-> "password", named |-> TRUE, given |-> {"password"}, cleared |-> {}]
    BY DEF MCFormCreds
  <2>3. creds[c] = [type |-> t, named |-> TRUE, auth |-> "password", secrets |-> {[what |-> "password", as |-> t]}]
    <3>1. Rows!CredAllows(i) = {"password"}
      BY <2>2 DEF Rows!CredAllows
    <3> QED BY <2>1, <2>2, <3>1 DEF Rows!CredRow
  <2> QED BY <2>2, <2>3 DEF Rows!CredAllows, Rows!CredRowType, Rows!Auth
<1>2. PICK filled \in SUBSET FormHosts : \E i \in [filled -> {i \in MCFormHosts : Rows!validHostInput(i)}] :
        hosts = [h \in HostId |-> IF h \in filled THEN Rows!HostRow(i[h], {}) ELSE None]
  BY FormVault DEF Form!Init
<1>3. \A h \in Rows!HostRows : Sound(hosts[h])
  BY <1>2, FormRowFits DEF Rows!HostRows
<1>4. Rows!TypeOK
  <2>1. creds \in [CredId -> Rows!CredRowType \cup {None}]
    BY <1>1 DEF Form!Init, Rows!CredRows
  <2>2. hosts \in [HostId -> Rows!HostRowType \cup {None}]
    <3>1. \A h \in HostId : hosts[h] \in Rows!HostRowType \cup {None}
      BY <1>3 DEF Rows!HostRows, Sound
    <3> QED BY <1>2, <3>1
  <2> QED BY <2>1, <2>2 DEF Form!Init, Rows!TypeOK
<1>5. Rows!ReferencesLive /\ Rows!NoMootSecret
  BY <1>3 DEF Sound, Rows!ReferencesLive, Rows!NoMootSecret, Form!Init
<1>6. RowsInv
  BY <1>1, <1>4, <1>5 DEF RowsInv, CredsFit
<1>7. FieldsInv
  <2>1. f = Form!Blank /\ listed = FALSE /\ dlg = "closed" /\ about = None /\ edits = 0
    BY DEF Form!Init
  <2>2. FieldsFit(f) /\ f.cred = None /\ f.typed = {}
    BY <2>1 DEF Form!Blank, FieldsFit, Fields, Rows!Kind, Rows!Auth
  <2>3. edits \in 0 .. MaxEdits
    BY <2>1, VaultAssumption
  <2> QED BY <2>1, <2>2, <2>3 DEF FieldsInv, Lived
<1> QED BY <1>6, <1>7 DEF Form!Init, FormInv, SaveInv, DeadInv

-----------------------------------------------------------------------------
(* The fields *)

LEMMA OpenForm == ASSUME FormInv, NEW h \in FormHosts \cup {None}, Form!open(h) PROVE FormInv'
<1>1. FieldsInv'
  BY VaultAssumption DEF Form!open, Form!vault, FormInv, FieldsInv, FieldsFit, Lived, Rows!CredRows, Rows!HostRows
<1> QED BY <1>1, FieldsChange DEF Form!open, Form!vault

\* The fields are those of the row, which is there.
LEMMA ResetForm == ASSUME FormInv, Form!reset PROVE FormInv'
<1>1. CASE about = None
  <2>1. f' = Form!Blank
    BY <1>1 DEF Form!reset, Form!RowFields
  <2>2. FieldsInv'
    BY <1>1, <2>1 DEF Form!reset, Form!vault, FormInv, FieldsInv, FieldsFit, Fields, Lived, Form!Blank,
       Rows!Kind, Rows!Auth, Rows!CredRows
  <2> QED BY <2>2, FieldsChange DEF Form!reset, Form!vault
<1>2. CASE about # None
  <2>1. about \in Rows!HostRows
    BY <1>2 DEF Form!reset, FormInv, FieldsInv
  <2>2. Sound(hosts[about])
    BY <2>1, RowsAreSound DEF FormInv
  <2>3. PICK t \in (IF hosts[about].kind = "vnc" THEN {FALSE} ELSE BOOLEAN) :
          f' = [kind |-> hosts[about].kind, auth |-> hosts[about].auth, tunnel |-> t, cred |-> hosts[about].cred,
                named |-> hosts[about].named, port |-> TRUE, desktop |-> "blank", typed |-> {}, cleared |-> {}]
    BY <1>2 DEF Form!reset, Form!RowFields
  <2>4. FieldsFit(f') /\ f'.cred \in Rows!CredRows \cup {None} /\ f'.typed = {}
    BY <2>2, <2>3 DEF FieldsFit, Fields, Sound, Rows!HostRowType, Rows!CredRows
  <2>5. FieldsInv'
    BY <2>1, <2>4 DEF Form!reset, Form!vault, FormInv, FieldsInv, FieldsFit, Lived, Rows!CredRows, Rows!HostRows
  <2> QED BY <2>5, FieldsChange DEF Form!reset, Form!vault
<1> QED BY <1>1, <1>2

LEMMA CloseForm == ASSUME FormInv, Form!close PROVE FormInv'
<1>1. FieldsInv'
  BY DEF Form!close, Form!Close, Form!vault, FormInv, FieldsInv, FieldsFit, Fields, Lived, Rows!CredRows
<1> QED BY <1>1, FieldsChange DEF Form!close, Form!vault

LEMMA ChangeForm ==
  ASSUME FormInv, NEW g, Form!Change(g), FieldsFit(g), g.cred \in Lived PROVE FormInv'
<1>1. FieldsInv'
  <2>1. edits' \in 0 .. MaxEdits
    BY VaultAssumption DEF Form!Change, Form!Room, Form!Edited, FormInv, FieldsInv
  <2> QED BY <2>1 DEF Form!Change, Form!vault, FormInv, FieldsInv, FieldsFit, Lived, Rows!CredRows, Rows!HostRows
<1> QED BY <1>1, FieldsChange DEF Form!Change, Form!vault

\* A field that is emptied with its mark
LEMMA Dropped ==
  ASSUME NEW g \in Fields, NEW S
  PROVE  LET d == Form!Drop(g, S)
         IN  /\ d \in Fields /\ d.kind = g.kind /\ d.tunnel = g.tunnel /\ d.cred = g.cred
             /\ d.typed = g.typed \ S /\ d.cleared = g.cleared \ S
BY DEF Form!Drop, Fields

LEMMA ChangeFields ==
  ASSUME FormInv,
         \/ \E k \in Rows!Kind : Form!handleKindChange(k)
         \/ \E t \in BOOLEAN : Form!handleVncModeChange(t)
         \/ \E c \in CredId \cup {None} : Form!pickSshCredential(c) \/ Form!pickVncCredential(c)
         \/ \E a \in Auths : Form!setAuthType(a)
         \/ Form!setUsername \/ Form!setPort
         \/ \E d \in {"blank", "over"} : Form!setDesktopPort(d)
         \/ \E s \in Rows!Slot : Form!typeSecret(s) \/ Form!clearSecret(s)
  PROVE  FormInv'
<1> USE DEF FieldsFit
<1>f. FieldsFit(f) /\ f.cred \in Lived /\ None \in Lived
  BY DEF FormInv, FieldsInv, Lived
<1>1. ASSUME NEW k \in Rows!Kind, Form!handleKindChange(k) PROVE FormInv'
  <2> DEFINE g == [f EXCEPT !.kind = k]
             Release(t) == IF Form!selectedType(f.cred) = t THEN None ELSE f.cred
  <2>1. \A t : Release(t) \in Lived /\ Release(t) \in CredId \cup {None}
    BY <1>f DEF Fields
  <2>2. g \in Fields /\ g.kind = k /\ g.tunnel = f.tunnel /\ g.cred = f.cred
    BY <1>f DEF Fields
  <2> HIDE DEF Release, g
  <2>3. CASE k = "vnc"
    <3> DEFINE d == Form!Drop(g, Form!Ssh \cup {"rdpPassword"})
               x == [d EXCEPT !.tunnel = FALSE, !.cred = Release("ssh")]
    <3>1. Form!Change(x)
      BY <1>1, <2>3 DEF Form!handleKindChange, Release, g
    <3>2. d \in Fields /\ d.kind = "vnc"
      BY <2>2, <2>3, Dropped
    <3> HIDE DEF d
    <3>3. FieldsFit(x) /\ x.cred \in Lived
      BY <2>1, <3>2 DEF Fields
    <3> HIDE DEF x
    <3> QED BY <3>1, <3>3, ChangeForm
  <2>4. CASE k = "ssh"
    <3> DEFINE d == Form!Drop(g, {"vncPassword", "rdpPassword"})
               x == [d EXCEPT !.cred = Release("vnc")]
    <3>1. Form!Change(x)
      BY <1>1, <2>4 DEF Form!handleKindChange, Release, g
    <3>2. d \in Fields /\ d.kind = "ssh" /\ "vncPassword" \notin d.typed \cup d.cleared
      BY <2>2, <2>4, Dropped
    <3> HIDE DEF d
    <3>3. FieldsFit(x) /\ x.cred \in Lived
      BY <2>1, <3>2 DEF Fields
    <3> HIDE DEF x
    <3> QED BY <3>1, <3>3, ChangeForm
  <2>5. CASE k = "rdp"
    <3> DEFINE d == Form!Drop(g, Form!Ssh \cup {"vncPassword"})
               x == [d EXCEPT !.cred = None]
    <3>1. Form!Change(x)
      BY <1>1, <2>5 DEF Form!handleKindChange, g
    <3>2. d \in Fields /\ d.kind = "rdp" /\ "vncPassword" \notin d.typed \cup d.cleared
      BY <2>2, <2>5, Dropped
    <3> HIDE DEF d
    <3>3. FieldsFit(x) /\ x.cred \in Lived
      BY <1>f, <3>2 DEF Fields
    <3> HIDE DEF x
    <3> QED BY <3>1, <3>3, ChangeForm
  <2>6. CASE k = "both"
    <3> DEFINE d == Form!Drop(g, {"rdpPassword"})
    <3>1. Form!Change(d)
      BY <1>1, <2>6 DEF Form!handleKindChange, g
    <3>2. d \in Fields /\ d.kind = "both" /\ d.cred = f.cred
      BY <2>2, <2>6, Dropped
    <3> HIDE DEF d
    <3> QED BY <1>f, <3>1, <3>2, ChangeForm
  <2> QED BY <2>3, <2>4, <2>5, <2>6 DEF Rows!Kind
<1>2. ASSUME NEW t \in BOOLEAN, Form!handleVncModeChange(t) PROVE FormInv'
  <2> DEFINE g == [f EXCEPT !.tunnel = t, !.cred = IF t /\ Form!selectedType(f.cred) = "vnc" THEN None ELSE f.cred]
  <2>1. Form!Change(g) /\ (t => f.kind # "vnc")
    BY <1>2 DEF Form!handleVncModeChange
  <2>2. FieldsFit(g) /\ g.cred \in {None, f.cred}
    BY <1>f, <2>1 DEF Fields
  <2> HIDE DEF g
  <2> QED BY <1>f, <2>1, <2>2, ChangeForm
<1>3. ASSUME NEW c \in CredId \cup {None}, Form!pickSshCredential(c) \/ Form!pickVncCredential(c) PROVE FormInv'
  <2> DEFINE g == [f EXCEPT !.cred = c]
  <2>1. Form!Change(g) /\ c \in Lived
    BY <1>3 DEF Form!pickSshCredential, Form!pickVncCredential, Form!Offers, Lived, Rows!CredRows
  <2>2. FieldsFit(g) /\ g.cred = c
    BY <1>f DEF Fields
  <2> HIDE DEF g
  <2> QED BY <2>1, <2>2, ChangeForm
<1>4. ASSUME NEW a \in Auths, Form!setAuthType(a) PROVE FormInv'
  <2> DEFINE g == [f EXCEPT !.auth = a]
  <2>1. Form!Change(g)
    BY <1>4 DEF Form!setAuthType
  <2>2. FieldsFit(g) /\ g.cred = f.cred
    BY <1>f, VaultAssumption DEF Fields
  <2> HIDE DEF g
  <2> QED BY <1>f, <2>1, <2>2, ChangeForm
<1>5. ASSUME Form!setUsername PROVE FormInv'
  <2> DEFINE g == [f EXCEPT !.named = ~f.named]
  <2>1. Form!Change(g)
    BY <1>5 DEF Form!setUsername
  <2>2. FieldsFit(g) /\ g.cred = f.cred
    BY <1>f DEF Fields
  <2> HIDE DEF g
  <2> QED BY <1>f, <2>1, <2>2, ChangeForm
<1>6. ASSUME Form!setPort PROVE FormInv'
  <2> DEFINE g == [f EXCEPT !.port = ~f.port]
  <2>1. Form!Change(g)
    BY <1>6 DEF Form!setPort
  <2>2. FieldsFit(g) /\ g.cred = f.cred
    BY <1>f DEF Fields
  <2> HIDE DEF g
  <2> QED BY <1>f, <2>1, <2>2, ChangeForm
<1>7. ASSUME NEW d \in {"blank", "over"}, Form!setDesktopPort(d) PROVE FormInv'
  <2> DEFINE g == [f EXCEPT !.desktop = d]
  <2>1. Form!Change(g)
    BY <1>7 DEF Form!setDesktopPort
  <2>2. FieldsFit(g) /\ g.cred = f.cred
    BY <1>f DEF Fields
  <2> HIDE DEF g
  <2> QED BY <1>f, <2>1, <2>2, ChangeForm
<1>8. ASSUME NEW s \in Rows!Slot, Form!typeSecret(s) \/ Form!clearSecret(s) PROVE FormInv'
  <2>1. s = "vncPassword" => f.kind \in {"vnc", "both"}
    BY <1>8 DEF Form!typeSecret, Form!clearSecret, Form!FieldShown, Form!VncPasswordShown, Form!VncShown
  <2>2. CASE Form!typeSecret(s)
    <3> DEFINE g == [f EXCEPT !.typed = f.typed \cup {s}]
    <3>1. Form!Change(g)
      BY <2>2 DEF Form!typeSecret
    <3>2. FieldsFit(g) /\ g.cred = f.cred
      BY <1>f, <2>1 DEF Fields
    <3> HIDE DEF g
    <3> QED BY <1>f, <3>1, <3>2, ChangeForm
  <2>3. CASE Form!clearSecret(s) /\ s \in f.cleared
    <3> DEFINE g == [f EXCEPT !.cleared = f.cleared \ {s}]
    <3>1. Form!Change(g)
      BY <2>3 DEF Form!clearSecret
    <3>2. FieldsFit(g) /\ g.cred = f.cred
      BY <1>f, <2>1 DEF Fields
    <3> HIDE DEF g
    <3> QED BY <1>f, <3>1, <3>2, ChangeForm
  <2>4. CASE Form!clearSecret(s) /\ s \notin f.cleared
    <3> DEFINE g == [f EXCEPT !.cleared = f.cleared \cup {s}, !.typed = f.typed \ {s}]
    <3>1. Form!Change(g)
      BY <2>4 DEF Form!clearSecret
    <3>2. FieldsFit(g) /\ g.cred = f.cred
      BY <1>f, <2>1 DEF Fields
    <3> HIDE DEF g
    <3> QED BY <1>f, <3>1, <3>2, ChangeForm
  <2> QED BY <1>8, <2>2, <2>3, <2>4
<1> QED BY <1>1, <1>2, <1>3, <1>4, <1>5, <1>6, <1>7, <1>8

-----------------------------------------------------------------------------
(* Saving, and what changes under the form *)

LEMMA SubmitForm == ASSUME FormInv, Form!handleSubmit PROVE FormInv'
<1> DEFINE i == Form!Input
<1>1. FieldsFit(f) /\ f.cred \in Lived /\ listed \in BOOLEAN /\ about \in HostId \cup {None}
  BY DEF FormInv, FieldsInv
<1>2. /\ i.kind = f.kind /\ i.auth = f.auth /\ i.cred = f.cred
      /\ i.named = (f.named /\ f.kind # "vnc") /\ i.tunnelled = (f.tunnel /\ f.kind # "rdp")
      /\ i.given = (f.typed \ f.cleared) \cap Form!Sent /\ i.cleared = f.cleared \cap Form!Sent
  BY DEF Form!Input
<1>3. i \in Rows!HostInput
  BY <1>1 DEF Form!Input, Rows!HostInput, FieldsFit, Fields
<1>4. i.cred \in Rows!CredRows \cup {None} => Rows!validHostInput(i)
  <2> SUFFICES ASSUME i.cred \in Rows!CredRows \cup {None} PROVE Rows!validHostInput(i)
    OBVIOUS
  <2>1. i.kind # "vnc" /\ i.cred = None => i.named
    BY <1>2, VaultAssumption DEF Form!handleSubmit, Form!validate, Form!selectedType
  <2>2. i.kind \in {"vnc", "rdp"} => ~i.tunnelled
    BY <1>1, <1>2 DEF FieldsFit
  <2> HIDE DEF i
  <2> QED BY <2>1, <2>2 DEF Rows!validHostInput
<1>5. listed /\ i.cred \in Rows!CredRows \cup {None} =>
        i.given \cup i.cleared \subseteq
          Rows!Allowed(i.kind, i.auth, Rows!referencedCredentialType(i.cred))
  <2> SUFFICES ASSUME listed, i.cred \in Rows!CredRows \cup {None}, NEW s \in i.given \cup i.cleared
               PROVE  s \in Rows!Allowed(i.kind, i.auth, Rows!referencedCredentialType(i.cred))
    OBVIOUS
  <2>1. Form!selectedType(f.cred) = Rows!referencedCredentialType(i.cred)
    BY <1>2 DEF Form!selectedType, Rows!referencedCredentialType, Rows!CredRows
  <2>2. s \in Form!Sent /\ s \in f.typed \cup f.cleared
    BY <1>2
  <2> HIDE DEF i
  <2> QED BY <1>1, <1>2, <2>1, <2>2, FormVault DEF FieldsFit, Form!Sent, Rows!Allowed
<1> HIDE DEF i
<1>6. save' = [host |-> about, input |-> i, ranged |-> f.desktop # "over", knew |-> listed]
      /\ UNCHANGED <<hosts, creds, tunnels, listed, dlg, about, f, dead, edits>>
  BY DEF Form!handleSubmit, Form!vault, i
<1>7. SaveInv'
  <2>1. save'.input = i /\ save'.knew = listed /\ save' \in Saves
    BY <1>1, <1>3, <1>6 DEF Saves
  <2>2. Lived' = Lived /\ Rows!CredRows' = Rows!CredRows /\ i.cred \in Lived
    BY <1>1, <1>2, <1>6 DEF Lived, Rows!CredRows
  <2>3. SaveFits(save')
    BY <1>4, <1>5, <2>1 DEF SaveFits
  <2>4. \A s : SaveFits(s)' <=> SaveFits(s)
    BY <1>6 DEF SaveFits, Rows!CredRows, Rows!validHostInput, Rows!referencedCredentialType
  <2>5. SaveFits(save)'
    BY <2>3, <2>4, <1>6 DEF SaveFits, Rows!CredRows, Rows!validHostInput, Rows!referencedCredentialType
  <2> QED BY <2>1, <2>2, <2>5 DEF SaveInv
<1>8. RowsInv' /\ FieldsInv' /\ DeadInv'
  BY <1>6 DEF FormInv, RowsInv, Rows!TypeOK, Rows!ReferencesLive, Rows!NoMootSecret, CredsFit, Rows!CredAllows,
         Rows!HostRows, Rows!CredRows, Rows!referencedCredentialType, FieldsInv, FieldsFit, DeadInv, Lived
<1> QED BY <1>7, <1>8 DEF FormInv

\* Credentials that come are new to the form.
LEMMA SaveStays ==
  ASSUME SaveInv, save' = save, Lived \subseteq Lived',
         \A c \in Rows!CredRows' : (c \in Rows!CredRows /\ creds'[c].type = creds[c].type) \/ c \notin Lived
  PROVE  SaveInv'
<1> SUFFICES ASSUME save # None, save.input.cred \in Rows!CredRows' \cup {None}
    PROVE /\ save.ranged => Rows!validHostInput(save.input)'
          /\ save.knew => save.input.given \cup save.input.cleared \subseteq
               Rows!Allowed(save.input.kind, save.input.auth, Rows!referencedCredentialType(save.input.cred)')
  BY DEF SaveInv, SaveFits, Rows!validHostInput, Rows!referencedCredentialType, Rows!Allowed
<1>1. save.input.cred \in Rows!CredRows \cup {None} /\ SaveFits(save)
  BY DEF SaveInv
<1>2. Rows!referencedCredentialType(save.input.cred)' = Rows!referencedCredentialType(save.input.cred)
  BY <1>1 DEF Rows!referencedCredentialType, SaveInv
<1> QED BY <1>1, <1>2 DEF SaveFits, Rows!validHostInput

\* The vault changes under the form, and keeps the row it is bound to.
LEMMA RowsChange ==
  ASSUME FormInv, RowsInv', save' = save \/ save' = None, UNCHANGED <<creds, dead>>,
         f' = f \/ f' = [f EXCEPT !.typed = {}], dlg' = "closed" => f'.typed = {},
         UNCHANGED <<listed, edits>>, dlg' \in {"closed", dlg},
         about' \in {about, None}, (dlg' # "closed" /\ about' # None) => about' \in Rows!HostRows'
  PROVE  FormInv'
<1>1. SaveInv'
  <2>1. Rows!CredRows' = Rows!CredRows /\ Lived' = Lived
    BY DEF Lived, Rows!CredRows
  <2>2. CASE save' = save
    BY <2>1, <2>2, SaveStays DEF FormInv
  <2> QED BY <2>2 DEF SaveInv
<1>2. DeadInv'
  BY DEF FormInv, DeadInv, Rows!CredRows
<1>3. FieldsFit(f') /\ f'.cred = f.cred
  BY DEF FormInv, FieldsInv, FieldsFit, Fields
<1>4. FieldsInv'
  BY <1>3 DEF FormInv, FieldsInv, FieldsFit, Lived, Rows!CredRows
<1> QED BY <1>1, <1>2, <1>4 DEF FormInv

LEMMA AnswerComes == ASSUME FormInv, Form!Saved \/ Form!Refused PROVE FormInv'
<1>1. CASE Form!Saved
  <2>1. PICK h \in FormHosts : IF save.host = None THEN Rows!createHost(h, save.input)
                                ELSE h = save.host /\ Rows!updateHost(h, save.input)
    BY <1>1, FormActs DEF Form!Saved
  <2>2. save.input \in Rows!HostInput /\ h \in HostId
    BY <1>1, VaultAssumption DEF Form!Saved, FormInv, SaveInv, Saves
  <2>3. RowsInv' /\ creds' = creds
    BY <2>1, <2>2, HostSaved DEF FormInv, Rows!createHost, Rows!updateHost
  <2>4. f' = [f EXCEPT !.typed = {}] /\ f'.typed = {} /\ dlg' = "closed" /\ about' = None /\ save' = None
        /\ UNCHANGED <<listed, dead, edits>>
    BY <1>1 DEF Form!Saved, Form!Close, FormInv, FieldsInv, FieldsFit, Fields
  <2> QED BY <2>3, <2>4, RowsChange
<1>2. CASE Form!Refused
  <2>1. save' = None /\ UNCHANGED <<hosts, creds, tunnels, listed, dlg, about, f, dead, edits>>
    BY <1>2 DEF Form!Refused, Form!vault
  <2>2. RowsInv' /\ FieldsInv' /\ DeadInv'
    BY <2>1 DEF FormInv, RowsInv, Rows!TypeOK, Rows!ReferencesLive, Rows!NoMootSecret, CredsFit, Rows!CredAllows,
         Rows!HostRows, Rows!CredRows, Rows!referencedCredentialType, FieldsInv, FieldsFit, DeadInv, Lived
  <2> QED BY <2>1, <2>2 DEF FormInv, SaveInv
<1> QED BY <1>1, <1>2

LEMMA HostsChange ==
  ASSUME FormInv, NEW h \in FormHosts,
         Form!removeHost(h) \/ \E copy \in FormHosts : Form!duplicate(h, copy)
  PROVE  FormInv'
<1>1. /\ dlg = "closed" /\ UNCHANGED <<listed, dlg, about, f, save, dead, edits>>
      /\ Rows!deleteHost(h) \/ \E copy \in FormHosts : Rows!duplicateHost(h, copy)
  BY FormActs DEF Form!removeHost, Form!duplicate
<1>2. RowsInv' /\ creds' = creds
  BY <1>1, HostDeleted, HostDuplicated, VaultAssumption DEF FormInv, Rows!deleteHost, Rows!duplicateHost
<1>3. f'.typed = {}
  BY <1>1 DEF FormInv, FieldsInv
<1> QED BY <1>1, <1>2, <1>3, RowsChange

LEMMA CredsChange ==
  ASSUME FormInv, NEW c \in CredId, Form!saveCredential(c) \/ Form!confirmDeleteCredential(c)
  PROVE  FormInv'
<1>e. edits' \in 0 .. MaxEdits /\ listed' = TRUE
  BY VaultAssumption DEF Form!saveCredential, Form!confirmDeleteCredential, Form!Room, Form!Edited, FormInv, FieldsInv
<1>1. CASE Form!saveCredential(c)
  <2>1. PICK i \in Form!CredForm : Rows!createCredential(c, i) \/ Rows!updateCredential(c, i)
    BY <1>1, FormActs DEF Form!saveCredential
  <2>2. i \in Rows!CredInput
    BY VaultAssumption DEF Form!CredForm, Rows!CredInput
  <2>3. RowsInv' /\ hosts' = hosts
    BY <2>1, <2>2, CredSaved DEF FormInv, Rows!createCredential, Rows!updateCredential
  <2>4. UNCHANGED <<dlg, about, f, save, dead>> /\ c \notin dead
    BY <1>1 DEF Form!saveCredential
  <2>5. /\ Rows!CredRows \subseteq Rows!CredRows' /\ Rows!CredRows' \subseteq Rows!CredRows \cup {c}
        /\ \A x \in Rows!CredRows : creds'[x].type = creds[x].type
    <3>1. \A x \in CredId \ {c} : creds'[x] = creds[x]
      BY <2>1 DEF Rows!createCredential, Rows!updateCredential, FormInv, RowsInv, Rows!TypeOK
    <3>2. c \in Rows!CredRows => c \in Rows!CredRows' /\ creds'[c].type = creds[c].type
      <4> SUFFICES ASSUME c \in Rows!CredRows PROVE c \in Rows!CredRows' /\ creds'[c].type = creds[c].type
        OBVIOUS
      <4>1. creds'[c] = Rows!CredRow(i, creds[c].secrets) /\ i.type = creds[c].type
        BY <2>1 DEF Rows!createCredential, Rows!updateCredential, FormInv, RowsInv, Rows!TypeOK, Rows!CredRows
      <4>2. creds'[c].type = i.type
        BY <4>1 DEF Rows!CredRow
      <4>3. creds'[c] # None
        <5>1. creds'[c] \in Rows!CredRowType \cup {None}
          BY <2>3 DEF RowsInv, Rows!TypeOK
        <5>2. Rows!CredRow(i, creds[c].secrets) \in Rows!CredRowType
          <6>1. /\ creds[c].secrets \in SUBSET [what : {"password", "passphrase"}, as : {"ssh", "vnc"}]
            BY DEF FormInv, RowsInv, Rows!TypeOK, Rows!CredRows, Rows!CredRowType
          <6> QED BY <2>2, <6>1 DEF Rows!CredRow, Rows!CredRowType, Rows!CredInput, Rows!Auth
        <5> QED BY <4>1, <5>2, VaultAssumption
      <4> QED BY <4>1, <4>2, <4>3 DEF Rows!CredRows
    <3> QED BY <3>1, <3>2 DEF Rows!CredRows
  <2>6. SaveInv'
    <3>1. Lived \subseteq Lived'
      BY <2>4, <2>5 DEF Lived
    <3>2. c \in Rows!CredRows \/ c \notin Lived
      BY <2>4, VaultAssumption DEF Lived
    <3> QED BY <2>4, <2>5, <3>1, <3>2, SaveStays DEF FormInv
  <2>7. DeadInv'
    BY <2>4, <2>5 DEF FormInv, DeadInv
  <2>8. FieldsInv'
    <3>1. Rows!HostRows' = Rows!HostRows /\ Lived \subseteq Lived'
      BY <2>3, <2>4, <2>5 DEF Lived, Rows!HostRows
    <3> QED BY <1>e, <2>4, <3>1 DEF FormInv, FieldsInv, FieldsFit
  <2> QED BY <2>3, <2>6, <2>7, <2>8 DEF FormInv
<1>2. CASE Form!confirmDeleteCredential(c)
  <2>1. Rows!deleteCredential(c) /\ dead' = dead \cup {c} /\ UNCHANGED <<about, f, save>>
        /\ dlg' = (IF dlg = "closed" \/ about = None THEN dlg ELSE "loading")
    BY <1>2, FormActs DEF Form!confirmDeleteCredential, Form!Rebind
  <2>2. RowsInv'
    BY <2>1, CredDeleted DEF FormInv
  <2>3. /\ Rows!CredRows' = Rows!CredRows \ {c} /\ \A x \in Rows!CredRows' : creds'[x] = creds[x]
        /\ Rows!HostRows \subseteq Rows!HostRows'
    <3>1. \A x \in CredId : creds'[x] = IF x = c THEN None ELSE creds[x]
      BY <2>1 DEF Rows!deleteCredential, FormInv, RowsInv, Rows!TypeOK
    <3>2. \A h \in HostId : hosts[h] # None => hosts'[h] # None
      <4> SUFFICES ASSUME NEW h \in HostId, hosts[h] # None PROVE hosts'[h] # None
        OBVIOUS
      <4>1. hosts[h] \in Rows!HostRowType
        BY DEF FormInv, RowsInv, Rows!TypeOK
      <4>2. hosts'[h] \in {hosts[h], [hosts[h] EXCEPT !.cred = None]}
        BY <2>1 DEF Rows!deleteCredential
      <4>3. [hosts[h] EXCEPT !.cred = None] \in Rows!HostRowType
        BY <4>1 DEF Rows!HostRowType
      <4> QED BY <4>2, <4>3, VaultAssumption
    <3> QED BY <3>1, <3>2 DEF Rows!CredRows, Rows!HostRows
  <2>4. SaveInv'
    <3>1. Lived \subseteq Lived'
      BY <2>1, <2>3 DEF Lived
    <3> QED BY <2>1, <2>3, <3>1, SaveStays DEF FormInv
  <2>5. DeadInv'
    BY <2>1, <2>3 DEF FormInv, DeadInv
  <2>6. FieldsInv'
    <3>1. Lived \subseteq Lived'
      BY <2>1, <2>3 DEF Lived
    <3> QED BY <1>e, <2>1, <2>3, <3>1 DEF FormInv, FieldsInv, FieldsFit
  <2> QED BY <2>2, <2>4, <2>5, <2>6 DEF FormInv
<1> QED BY <1>1, <1>2

LEMMA FormNext == FormInv /\ Form!Next => FormInv'
<1> SUFFICES ASSUME FormInv, Form!Next PROVE FormInv'
  OBVIOUS
<1>1. \A h \in FormHosts \cup {None} : Form!open(h) => FormInv'
  BY OpenForm
<1>2. Form!reset \/ Form!close \/ Form!handleSubmit \/ Form!Saved \/ Form!Refused => FormInv'
  BY ResetForm, CloseForm, SubmitForm, AnswerComes
<1>3. \A c \in CredId : Form!saveCredential(c) \/ Form!confirmDeleteCredential(c) => FormInv'
  BY CredsChange
<1>4. \A h \in FormHosts : Form!removeHost(h) \/ (\E copy \in FormHosts : Form!duplicate(h, copy)) => FormInv'
  BY HostsChange
<1> QED BY <1>1, <1>2, <1>3, <1>4, ChangeFields, FormVault DEF Form!Next

-----------------------------------------------------------------------------
(* Opening the file *)

ColumnSet == {Columns[n] : n \in DOMAIN Columns}
Files == [rows : SUBSET Row, cols : SUBSET ColumnSet, check : {"none", "old", "new"}]
Backup == [rows : SUBSET Row, some : BOOLEAN]

DbTypes ==
  /\ file \in Files /\ bak \in [Db!Version -> Backup]
  /\ pc \in [Proc -> Db!Labels] /\ at \in [Proc -> 1 .. (Len(Columns) + 1)] /\ version \in [Proc -> Db!Version]
  /\ warned \subseteq Proc /\ work \in [rows : SUBSET Row, dropped : BOOLEAN]
  /\ writer \in Proc \cup {Free} /\ starts \in 0 .. MaxStarts /\ shared \subseteq Proc

\* The transaction that is open is that of the process in it.
InTransaction == {"copy", "drop", "commit"}
Locked == \A p \in Proc : writer = p <=> pc[p] \in InTransaction

\* The columns before the one it is at are there, all of them afterwards, and an open vault has
\* the constraint of today.
Migrated ==
  \A p \in Proc :
    /\ pc[p] \in {"columns", "alter"} => \A n \in DOMAIN Columns : n < at[p] => Columns[n] \in file.cols
    /\ pc[p] \notin {"closed", "columns", "alter"} => \A n \in DOMAIN Columns : Columns[n] \in file.cols
    /\ pc[p] = "alter" => at[p] \in DOMAIN Columns
    /\ pc[p] = "open" => file.check # "old"

\* Nobody writes the rows that a transaction has copied.
Copied == \A p \in Proc : pc[p] \in {"drop", "commit"} => work.rows = file.rows

MigrateInv == DbTypes /\ Locked /\ Migrated /\ Copied

LEMMA ColumnsAre == DOMAIN Columns = 1 .. Len(Columns) /\ Len(Columns) \in Nat
BY FilesAssumption

LEMMA InitMigrate == Db!Init => MigrateInv
<1> SUFFICES ASSUME Db!Init PROVE MigrateInv
  OBVIOUS
<1>1. file \in Files /\ starts \in 0 .. MaxStarts /\ Versions[1] \in Db!Version
  BY FilesAssumption DEF Db!Init, Files, ColumnSet, Db!Version
<1>2. DbTypes
  BY <1>1, FilesAssumption, ColumnsAre DEF Db!Init, DbTypes, Backup, Db!NoBackup, Db!NoWork, Db!Labels
<1>3. Locked /\ Migrated /\ Copied
  BY FilesAssumption DEF Db!Init, Locked, Migrated, Copied, InTransaction
<1> QED BY <1>2, <1>3 DEF MigrateInv

\* A step that touches neither the file nor a transaction, of a process before its rebuild.
LEMMA MigrateGoesOn ==
  ASSUME MigrateInv, NEW p \in Proc, NEW l \in Db!Labels, Db!Goto(p, l), UNCHANGED <<file, work, writer>>,
         pc[p] \notin InTransaction, l \notin InTransaction,
         bak' \in [Db!Version -> Backup], at' \in [Proc -> 1 .. (Len(Columns) + 1)], version' \in [Proc -> Db!Version],
         warned' \subseteq Proc, starts' \in 0 .. MaxStarts, shared' \subseteq Proc,
         \A q \in Proc \ {p} : at'[q] = at[q],
         l \in {"columns", "alter"} => \A n \in DOMAIN Columns : n < at'[p] => Columns[n] \in file.cols,
         l = "alter" => at'[p] \in DOMAIN Columns,
         l \notin {"closed", "columns", "alter"} => \A n \in DOMAIN Columns : Columns[n] \in file.cols,
         l = "open" => file.check # "old"
  PROVE  MigrateInv'
<1>1. pc' \in [Proc -> Db!Labels] /\ \A q \in Proc : pc'[q] = IF q = p THEN l ELSE pc[q]
  BY DEF Db!Goto, MigrateInv, DbTypes
<1>2. DbTypes'
  BY <1>1 DEF MigrateInv, DbTypes
<1>3. Locked'
  BY <1>1 DEF MigrateInv, Locked
<1>4. Migrated'
  <2> SUFFICES ASSUME NEW q \in Proc
      PROVE /\ pc'[q] \in {"columns", "alter"} =>
                 \A n \in DOMAIN Columns : n < at'[q] => Columns[n] \in file.cols
            /\ pc'[q] \notin {"closed", "columns", "alter"} => \A n \in DOMAIN Columns : Columns[n] \in file.cols
            /\ pc'[q] = "alter" => at'[q] \in DOMAIN Columns
            /\ pc'[q] = "open" => file.check # "old"
    BY DEF Migrated
  <2> QED BY <1>1 DEF MigrateInv, Migrated
<1>5. Copied'
  BY <1>1 DEF MigrateInv, Copied, InTransaction
<1> QED BY <1>2, <1>3, <1>4, <1>5 DEF MigrateInv

LEMMA OpenMigrates == ASSUME MigrateInv, NEW p \in Proc, NEW v \in Db!Version, Db!Open(p, v) PROVE MigrateInv'
<1>1. /\ pc[p] = "closed" /\ Db!Goto(p, "columns") /\ UNCHANGED <<file, bak, work, writer>>
      /\ at' = [at EXCEPT ![p] = 1] /\ version' = [version EXCEPT ![p] = v]
      /\ warned' = warned \ {p} /\ starts' = starts + 1 /\ starts < MaxStarts
  BY DEF Db!Open
<1>2. shared' \subseteq Proc
  BY DEF Db!Open, MigrateInv, DbTypes
<1>3. at' \in [Proc -> 1 .. (Len(Columns) + 1)] /\ at'[p] = 1 /\ \A q \in Proc \ {p} : at'[q] = at[q]
  BY <1>1, ColumnsAre DEF MigrateInv, DbTypes
<1>4. starts' \in 0 .. MaxStarts
  BY <1>1, FilesAssumption DEF MigrateInv, DbTypes
<1>5. \A n \in DOMAIN Columns : n < at'[p] => Columns[n] \in file.cols
  BY <1>3, ColumnsAre
<1>6. bak' \in [Db!Version -> Backup] /\ version' \in [Proc -> Db!Version] /\ warned' \subseteq Proc
  BY <1>1 DEF MigrateInv, DbTypes
<1> QED BY <1>1, <1>2, <1>3, <1>4, <1>5, <1>6, MigrateGoesOn DEF Db!Labels, InTransaction

LEMMA ReadColumnMigrates == ASSUME MigrateInv, NEW p \in Proc, Db!ReadColumn(p) PROVE MigrateInv'
<1>1. /\ pc[p] = "columns" /\ UNCHANGED <<file, bak, version, warned, work, writer, starts, shared>>
      /\ at[p] \in 1 .. (Len(Columns) + 1)
      /\ \A n \in DOMAIN Columns : n < at[p] => Columns[n] \in file.cols
  BY DEF Db!ReadColumn, MigrateInv, DbTypes, Migrated
<1>t. bak' \in [Db!Version -> Backup] /\ version' \in [Proc -> Db!Version] /\ warned' \subseteq Proc
      /\ starts' \in 0 .. MaxStarts /\ shared' \subseteq Proc
  BY <1>1 DEF MigrateInv, DbTypes
<1>2. CASE at[p] > Len(Columns)
  <2>1. Db!Goto(p, "check") /\ at' = at
    BY <1>2 DEF Db!ReadColumn
  <2>2. \A n \in DOMAIN Columns : Columns[n] \in file.cols
    BY <1>1, <1>2, ColumnsAre
  <2>3. at' \in [Proc -> 1 .. (Len(Columns) + 1)]
    BY <2>1 DEF MigrateInv, DbTypes
  <2> QED BY <1>1, <1>t, <2>1, <2>2, <2>3, MigrateGoesOn DEF Db!Labels, InTransaction
<1>3. CASE ~(at[p] > Len(Columns)) /\ Columns[at[p]] \in file.cols
  <2>1. pc' = pc /\ at' = [at EXCEPT ![p] = at[p] + 1]
    BY <1>3 DEF Db!ReadColumn
  <2>2. Db!Goto(p, "columns")
    BY <1>1, <2>1 DEF Db!Goto, MigrateInv, DbTypes
  <2>3. /\ at' \in [Proc -> 1 .. (Len(Columns) + 1)] /\ at'[p] = at[p] + 1
        /\ \A q \in Proc \ {p} : at'[q] = at[q]
    BY <1>1, <1>3, <2>1, ColumnsAre DEF MigrateInv, DbTypes
  <2>4. \A n \in DOMAIN Columns : n < at'[p] => Columns[n] \in file.cols
    BY <1>1, <1>3, <2>3, ColumnsAre
  <2> QED BY <1>1, <1>t, <2>2, <2>3, <2>4, MigrateGoesOn DEF Db!Labels, InTransaction
<1>4. CASE ~(at[p] > Len(Columns)) /\ Columns[at[p]] \notin file.cols
  <2>1. Db!Goto(p, "alter") /\ at' = at
    BY <1>4 DEF Db!ReadColumn
  <2>2. at[p] \in DOMAIN Columns
    BY <1>1, <1>4, ColumnsAre
  <2>3. at' \in [Proc -> 1 .. (Len(Columns) + 1)]
    BY <2>1 DEF MigrateInv, DbTypes
  <2> QED BY <1>1, <1>t, <2>1, <2>2, <2>3, MigrateGoesOn DEF Db!Labels, InTransaction
<1> QED BY <1>2, <1>3, <1>4

\* A column more for all.
LEMMA AddColumnMigrates == ASSUME MigrateInv, NEW p \in Proc, Db!AddColumn(p) PROVE MigrateInv'
<1> DEFINE c == Columns[at[p]]
<1>1. /\ pc[p] = "alter" /\ at[p] \in DOMAIN Columns /\ c \in ColumnSet
      /\ file' = [file EXCEPT !.cols = file.cols \cup {c}]
      /\ at' = [at EXCEPT ![p] = at[p] + 1] /\ pc' = [pc EXCEPT ![p] = "columns"]
      /\ UNCHANGED <<bak, version, warned, work, writer, starts, shared>>
  BY DEF Db!AddColumn, Db!Goto, MigrateInv, Migrated, ColumnSet
<1> HIDE DEF c
<1>2. file' \in Files /\ file'.rows = file.rows /\ file'.check = file.check /\ file'.cols = file.cols \cup {c}
  BY <1>1 DEF MigrateInv, DbTypes, Files
<1>3. /\ pc' \in [Proc -> Db!Labels] /\ \A q \in Proc : pc'[q] = IF q = p THEN "columns" ELSE pc[q]
      /\ at' \in [Proc -> 1 .. (Len(Columns) + 1)] /\ \A q \in Proc : at'[q] = IF q = p THEN at[p] + 1 ELSE at[q]
  BY <1>1, ColumnsAre DEF MigrateInv, DbTypes, Db!Labels
<1>4. DbTypes'
  BY <1>1, <1>2, <1>3 DEF MigrateInv, DbTypes
<1>5. Locked' /\ Copied'
  BY <1>1, <1>2, <1>3 DEF MigrateInv, Locked, Copied, InTransaction
<1>6. Migrated'
  <2> SUFFICES ASSUME NEW q \in Proc
      PROVE /\ pc'[q] \in {"columns", "alter"} => \A n \in DOMAIN Columns : n < at'[q] => Columns[n] \in file'.cols
            /\ pc'[q] \notin {"closed", "columns", "alter"} => \A n \in DOMAIN Columns : Columns[n] \in file'.cols
            /\ pc'[q] = "alter" => at'[q] \in DOMAIN Columns
            /\ pc'[q] = "open" => file'.check # "old"
    BY DEF Migrated
  <2>1. CASE q = p
    <3>1. \A n \in DOMAIN Columns : n < at[p] + 1 => n < at[p] \/ n = at[p]
      BY <1>1, ColumnsAre
    <3> QED BY <1>1, <1>2, <1>3, <2>1, <3>1 DEF MigrateInv, Migrated, c
  <2>2. CASE q # p
    BY <1>2, <1>3, <2>2 DEF MigrateInv, Migrated
  <2> QED BY <2>1, <2>2
<1> QED BY <1>4, <1>5, <1>6 DEF MigrateInv

LEMMA ChecksMigrate ==
  ASSUME MigrateInv, NEW p \in Proc,
         Db!ReadCheck(p) \/ Db!RemoveBackup(p) \/ Db!Vacuum(p) \/ Db!BackupFails(p) \/ Db!Prune(p)
  PROVE  MigrateInv'
<1>1. PICK l \in {"open", "backup", "begin", "vacuum", "prune"} : Db!Goto(p, l) /\ (l = "open" => file.check # "old")
  BY DEF Db!ReadCheck, Db!RemoveBackup, Db!Vacuum, Db!BackupFails, Db!Prune
<1>2. /\ UNCHANGED <<file, at, version, work, writer, starts, shared>>
      /\ pc[p] \in {"check", "backup", "vacuum", "prune"} /\ warned' \subseteq Proc
  BY DEF Db!ReadCheck, Db!RemoveBackup, Db!Vacuum, Db!BackupFails, Db!Prune, MigrateInv, DbTypes
<1>3. bak' \in [Db!Version -> Backup]
  <2>1. Db!NoBackup \in Backup /\ [rows |-> file.rows, some |-> TRUE] \in Backup
    BY DEF Db!NoBackup, Backup, MigrateInv, DbTypes, Files
  <2> QED BY <2>1 DEF Db!ReadCheck, Db!RemoveBackup, Db!Vacuum, Db!BackupFails, Db!Prune, MigrateInv, DbTypes
<1>4. \A n \in DOMAIN Columns : Columns[n] \in file.cols
  BY <1>2 DEF MigrateInv, Migrated
<1>5. /\ at' \in [Proc -> 1 .. (Len(Columns) + 1)] /\ version' \in [Proc -> Db!Version]
      /\ starts' \in 0 .. MaxStarts /\ shared' \subseteq Proc /\ \A q \in Proc \ {p} : at'[q] = at[q]
  BY <1>2 DEF MigrateInv, DbTypes
<1>6. l \in Db!Labels /\ l \notin InTransaction /\ pc[p] \notin InTransaction /\ l \notin {"columns", "alter"}
  BY <1>1, <1>2 DEF Db!Labels, InTransaction
<1> QED BY <1>1, <1>2, <1>3, <1>4, <1>5, <1>6, MigrateGoesOn

\* The rebuild.
LEMMA RebuildMigrates ==
  ASSUME MigrateInv, NEW p \in Proc, Db!Begin(p) \/ Db!CopyRows(p) \/ Db!DropHosts(p) PROVE MigrateInv'
<1>1. PICK l \in InTransaction :
        /\ pc' = [pc EXCEPT ![p] = l]
        /\ \/ pc[p] = "begin" /\ l = "copy"
           \/ pc[p] = "copy" /\ l = "drop"
           \/ pc[p] = "drop" /\ l = "commit"
  BY DEF Db!Begin, Db!CopyRows, Db!DropHosts, Db!Goto, InTransaction
<1>2. /\ UNCHANGED <<file, bak, at, version, warned, starts, shared>> /\ writer' = p
      /\ writer # p => writer = Free
  BY DEF Db!Begin, Db!CopyRows, Db!DropHosts, MigrateInv, Locked, InTransaction
<1>3. /\ work' \in [rows : SUBSET Row, dropped : BOOLEAN]
      /\ l = "drop" => work'.rows = file.rows
      /\ l = "commit" => work'.rows = work.rows
  <2>1. file.rows \in SUBSET Row /\ work \in [rows : SUBSET Row, dropped : BOOLEAN]
    BY DEF MigrateInv, DbTypes, Files
  <2>2. CASE Db!Begin(p)
    <3>1. work' = Db!NoWork /\ pc[p] = "begin"
      BY <2>2 DEF Db!Begin
    <3>2. Db!NoWork \in [rows : SUBSET Row, dropped : BOOLEAN]
      BY DEF Db!NoWork
    <3> QED BY <1>1, <3>1, <3>2
  <2>3. CASE Db!CopyRows(p)
    <3>1. work' = [work EXCEPT !.rows = file.rows] /\ pc[p] = "copy"
      BY <2>3 DEF Db!CopyRows
    <3> QED BY <1>1, <2>1, <3>1
  <2>4. CASE Db!DropHosts(p)
    <3>1. work' = [work EXCEPT !.dropped = TRUE] /\ pc[p] = "drop"
      BY <2>4 DEF Db!DropHosts
    <3> QED BY <1>1, <2>1, <3>1
  <2> QED BY <2>2, <2>3, <2>4
<1>4. pc' \in [Proc -> Db!Labels] /\ \A q \in Proc : pc'[q] = IF q = p THEN l ELSE pc[q]
  BY <1>1 DEF MigrateInv, DbTypes, Db!Labels, InTransaction
<1>5. DbTypes'
  BY <1>2, <1>3, <1>4 DEF MigrateInv, DbTypes
<1>6. Locked'
  BY <1>1, <1>2, <1>4, FilesAssumption DEF MigrateInv, Locked, InTransaction
<1>7. Migrated'
  BY <1>1, <1>2, <1>4 DEF MigrateInv, Migrated, InTransaction
<1>8. Copied'
  <2> SUFFICES ASSUME NEW q \in Proc, pc'[q] \in {"drop", "commit"} PROVE work'.rows = file.rows
    BY <1>2 DEF Copied
  <2>1. q = p
    BY <1>2, <1>6 DEF Locked, InTransaction
  <2> QED BY <1>1, <1>3, <1>4, <2>1 DEF MigrateInv, Copied
<1> QED BY <1>5, <1>6, <1>7, <1>8 DEF MigrateInv

LEMMA CommitMigrates == ASSUME MigrateInv, NEW p \in Proc, Db!Commit(p) PROVE MigrateInv' /\ file'.rows = file.rows
<1>1. /\ pc[p] = "commit" /\ pc' = [pc EXCEPT ![p] = "open"]
      /\ file' = [rows |-> work.rows, cols |-> ColumnSet, check |-> "new"]
      /\ work' = Db!NoWork /\ writer' = Free /\ UNCHANGED <<bak, at, version, warned, starts, shared>>
  BY DEF Db!Commit, Db!Goto, ColumnSet
<1>2. pc' \in [Proc -> Db!Labels] /\ \A q \in Proc : pc'[q] = IF q = p THEN "open" ELSE pc[q]
  BY <1>1 DEF MigrateInv, DbTypes, Db!Labels
<1>3. file'.rows = file.rows /\ file' \in Files
  BY <1>1 DEF MigrateInv, Copied, DbTypes, Files
<1>4. DbTypes'
  BY <1>1, <1>2, <1>3 DEF MigrateInv, DbTypes, Db!NoWork
<1>5. \A q \in Proc : pc'[q] \notin InTransaction
  BY <1>1, <1>2 DEF MigrateInv, Locked, InTransaction
<1>6. Locked' /\ Copied'
  BY <1>1, <1>5, FilesAssumption DEF Locked, Copied, InTransaction
<1>7. Migrated'
  BY <1>1, <1>2 DEF MigrateInv, Migrated, ColumnSet
<1> QED BY <1>3, <1>4, <1>6, <1>7 DEF MigrateInv

\* A rollback.
LEMMA EndMigrates == ASSUME MigrateInv, NEW p \in Proc, Db!Fails(p) \/ Db!Dies(p) PROVE MigrateInv'
<1>1. /\ pc' = [pc EXCEPT ![p] = "closed"]
      /\ writer' = (IF writer = p THEN Free ELSE writer) /\ work' = (IF writer = p THEN Db!NoWork ELSE work)
      /\ UNCHANGED <<file, bak, at, version, warned, starts, shared>>
  BY DEF Db!Fails, Db!Dies, Db!Goto
<1>2. pc' \in [Proc -> Db!Labels] /\ \A q \in Proc : pc'[q] = IF q = p THEN "closed" ELSE pc[q]
  BY <1>1 DEF MigrateInv, DbTypes, Db!Labels
<1>3. DbTypes'
  BY <1>1, <1>2 DEF MigrateInv, DbTypes, Db!NoWork
<1>4. Locked'
  BY <1>1, <1>2, FilesAssumption DEF MigrateInv, Locked, InTransaction
<1>5. Migrated'
  BY <1>1, <1>2 DEF MigrateInv, Migrated
<1>6. Copied'
  BY <1>1, <1>2, FilesAssumption DEF MigrateInv, Locked, Copied, InTransaction
<1> QED BY <1>3, <1>4, <1>5, <1>6 DEF MigrateInv

LEMMA EditMigrates ==
  ASSUME MigrateInv,
         \/ \E p \in Proc, r \in Row : Db!WriteRow(p, r)
         \/ \E v \in Db!Version : Db!Restore(v)
  PROVE  MigrateInv'
<1>1. CASE \E p \in Proc, r \in Row : Db!WriteRow(p, r)
  <2>1. PICK p \in Proc, r \in Row : Db!WriteRow(p, r)
    BY <1>1
  <2>2. PICK R \in SUBSET Row : file' = [file EXCEPT !.rows = R]
    <3>1. file.rows \in SUBSET Row
      BY DEF MigrateInv, DbTypes, Files
    <3>2. file' = [file EXCEPT !.rows = IF r \in file.rows THEN file.rows \ {r} ELSE file.rows \cup {r}]
      BY <2>1 DEF Db!WriteRow
    <3> QED BY <3>1, <3>2
  <2>3. /\ file' \in Files /\ file'.cols = file.cols /\ file'.check = file.check
        /\ UNCHANGED <<bak, pc, at, version, warned, work, writer, starts, shared>>
    BY <2>1, <2>2 DEF Db!WriteRow, MigrateInv, DbTypes, Files
  <2>4. \A q \in Proc : pc[q] \notin InTransaction
    BY <2>1, FilesAssumption DEF Db!WriteRow, Db!MayWrite, MigrateInv, Locked, InTransaction
  <2>5. DbTypes' /\ Locked' /\ Migrated'
    BY <2>3 DEF MigrateInv, DbTypes, Locked, Migrated
  <2>6. Copied'
    BY <2>3, <2>4 DEF Copied, InTransaction
  <2> QED BY <2>5, <2>6 DEF MigrateInv
<1>2. CASE \E v \in Db!Version : Db!Restore(v)
  <2>1. PICK v \in Db!Version : Db!Restore(v)
    BY <1>2
  <2>2. PICK old \in OldFiles : file' = [old EXCEPT !.rows = bak[v].rows]
    BY <2>1 DEF Db!Restore
  <2>3. file' \in Files
    <3>1. old \in Files /\ bak[v].rows \in SUBSET Row
      BY FilesAssumption DEF Files, ColumnSet, MigrateInv, DbTypes, Backup
    <3> QED BY <2>2, <3>1 DEF Files
  <2>4. /\ UNCHANGED <<bak, pc, at, version, warned, work, writer, starts, shared>>
        /\ \A p \in Proc : pc[p] = "closed"
    BY <2>1 DEF Db!Restore
  <2>5. DbTypes'
    BY <2>3, <2>4 DEF MigrateInv, DbTypes
  <2>6. Locked' /\ Migrated' /\ Copied'
    BY <2>4 DEF MigrateInv, Locked, Migrated, Copied
  <2> QED BY <2>5, <2>6 DEF MigrateInv
<1> QED BY <1>1, <1>2

LEMMA MigrateNext == MigrateInv /\ Db!Next => MigrateInv'
<1> SUFFICES ASSUME MigrateInv, Db!Next PROVE MigrateInv'
  OBVIOUS
<1>1. \A p \in Proc, v \in Db!Version : Db!Open(p, v) => MigrateInv'
  BY OpenMigrates
<1>2. \A p \in Proc : Db!ReadColumn(p) \/ Db!AddColumn(p) => MigrateInv'
  BY ReadColumnMigrates, AddColumnMigrates
<1>3. \A p \in Proc :
        Db!ReadCheck(p) \/ Db!RemoveBackup(p) \/ Db!Vacuum(p) \/ Db!BackupFails(p) \/ Db!Prune(p) => MigrateInv'
  BY ChecksMigrate
<1>4. \A p \in Proc : Db!Begin(p) \/ Db!CopyRows(p) \/ Db!DropHosts(p) => MigrateInv'
  BY RebuildMigrates
<1>5. \A p \in Proc : Db!Commit(p) \/ Db!Fails(p) \/ Db!Dies(p) => MigrateInv'
  BY CommitMigrates, EndMigrates
<1> QED BY <1>1, <1>2, <1>3, <1>4, <1>5, EditMigrates DEF Db!Next, Db!Step

\* What a handle is handed out on, and who changes the rows
LEMMA MigrateShows == MigrateInv => Db!OpenIsMigrated
BY DEF MigrateInv, Migrated, Db!OpenIsMigrated

LEMMA RowsAreKept ==
  ASSUME MigrateInv, Db!Next, file'.rows # file.rows
  PROVE  \/ \E p \in Proc, r \in Row : Db!WriteRow(p, r)
         \/ \E v \in Db!Version : Db!Restore(v)
<1>1. \A p \in Proc : Db!Commit(p) => file'.rows = file.rows
  BY CommitMigrates
<1>2. \A p \in Proc : Db!AddColumn(p) => file'.rows = file.rows
  BY DEF Db!AddColumn, MigrateInv, DbTypes, Files
<1>3. \A p \in Proc :
        \/ \E v \in Db!Version : Db!Open(p, v)
        \/ Db!ReadColumn(p) \/ Db!ReadCheck(p) \/ Db!RemoveBackup(p) \/ Db!Vacuum(p)
        \/ Db!BackupFails(p) \/ Db!Prune(p) \/ Db!Begin(p) \/ Db!CopyRows(p) \/ Db!DropHosts(p)
        \/ Db!Fails(p) \/ Db!Dies(p)
        => file' = file
  BY DEF Db!Open, Db!ReadColumn, Db!ReadCheck, Db!RemoveBackup, Db!Vacuum, Db!BackupFails, Db!Prune, Db!Begin,
         Db!CopyRows, Db!DropHosts, Db!Fails, Db!Dies
<1> DEFINE W == \E q \in Proc, r \in Row : Db!WriteRow(q, r)
           R == \E v \in Db!Version : Db!Restore(v)
<1>4. ASSUME NEW p \in Proc, Db!Step(p) PROVE W
  <2>1. \A v \in Db!Version : ~Db!Open(p, v)
    BY <1>3
  <2>2. ~(Db!ReadColumn(p) \/ Db!ReadCheck(p) \/ Db!RemoveBackup(p) \/ Db!Vacuum(p) \/ Db!BackupFails(p)
          \/ Db!Prune(p) \/ Db!Begin(p) \/ Db!CopyRows(p) \/ Db!DropHosts(p) \/ Db!Fails(p) \/ Db!Dies(p))
    BY <1>3
  <2>3. ~Db!Commit(p) /\ ~Db!AddColumn(p)
    BY <1>1, <1>2
  <2> QED BY <1>4, <2>1, <2>2, <2>3 DEF Db!Step
<1> QED BY <1>4 DEF Db!Next

-----------------------------------------------------------------------------
(* The snapshot before a rebuild *)

\* A process that shares the file with none is the only one that has it open.
Alone ==
  \A p \in Proc : pc[p] # "closed" /\ p \notin shared => \A q \in Proc \ {p} : pc[q] = "closed"

\* From the snapshot on it is alone with, the rows are in it, or a later version has one.
Kept(p) == Db!Downgraded(p) \/ bak[version[p]].rows = file.rows
Backed ==
  \A p \in Proc \ (shared \cup warned) :
    /\ pc[p] = "prune" => bak[version[p]].some /\ bak[version[p]].rows = file.rows
    /\ pc[p] \in {"begin", "copy", "drop", "commit"} /\ file.rows # {} => Kept(p)

LEMMA StepMoves ==
  ASSUME MigrateInv, NEW p \in Proc, Db!Step(p)
  PROVE  /\ \A q \in Proc \ {p} : pc'[q] = pc[q]
         /\ \/ pc[p] # "closed" /\ shared' = shared
            \/ \E v \in Db!Version : Db!Open(p, v)
<1>1. pc \in [Proc -> Db!Labels]
  BY DEF MigrateInv, DbTypes
<1>2. CASE \E v \in Db!Version : Db!Open(p, v)
  BY <1>1, <1>2 DEF Db!Open, Db!Goto
<1>3. CASE Db!ReadColumn(p) \/ Db!AddColumn(p) \/ Db!ReadCheck(p)
  BY <1>1, <1>3 DEF Db!ReadColumn, Db!AddColumn, Db!ReadCheck, Db!Goto
<1>4. CASE Db!RemoveBackup(p) \/ Db!Vacuum(p) \/ Db!BackupFails(p) \/ Db!Prune(p)
  BY <1>1, <1>4 DEF Db!RemoveBackup, Db!Vacuum, Db!BackupFails, Db!Prune, Db!Goto
<1>5. CASE Db!Begin(p) \/ Db!CopyRows(p) \/ Db!DropHosts(p) \/ Db!Commit(p)
  BY <1>1, <1>5 DEF Db!Begin, Db!CopyRows, Db!DropHosts, Db!Commit, Db!Goto
<1>6. CASE Db!Fails(p) \/ Db!Dies(p) \/ \E r \in Row : Db!WriteRow(p, r)
  BY <1>1, <1>6 DEF Db!Fails, Db!Dies, Db!WriteRow, Db!Goto
<1> QED BY <1>2, <1>3, <1>4, <1>5, <1>6 DEF Db!Step

\* What moves a process that shares with none is its own step.
LEMMA OnlyOwnSteps ==
  ASSUME MigrateInv, Alone, Db!Next, NEW p \in Proc, pc'[p] # "closed", p \notin shared'
  PROVE  Db!Step(p)
<1>1. ASSUME NEW q \in Proc \ {p}, Db!Step(q) PROVE FALSE
  <2>1. pc[p] # "closed"
    BY <1>1, StepMoves
  <2>2. CASE pc[q] # "closed" /\ shared' = shared
    BY <2>1, <2>2 DEF Alone
  <2>3. CASE \E v \in Db!Version : Db!Open(q, v)
    <3>1. p \in {x \in Proc \ {q} : pc[x] # "closed"}
      BY <2>1
    <3> QED BY <2>3, <3>1 DEF Db!Open
  <2> QED BY <1>1, <2>2, <2>3, StepMoves
<1>2. ASSUME NEW v \in Db!Version, Db!Restore(v) PROVE FALSE
  BY <1>2 DEF Db!Restore
<1> QED BY <1>1, <1>2 DEF Db!Next

LEMMA AloneNext == ASSUME MigrateInv, Alone, Db!Next PROVE Alone'
<1> SUFFICES ASSUME NEW p \in Proc, pc'[p] # "closed", p \notin shared', NEW q \in Proc \ {p}
             PROVE  pc'[q] = "closed"
  BY DEF Alone
<1>1. Db!Step(p) /\ pc'[q] = pc[q]
  BY OnlyOwnSteps, StepMoves
<1>2. CASE pc[p] # "closed" /\ shared' = shared
  BY <1>1, <1>2 DEF Alone
<1>3. CASE \E v \in Db!Version : Db!Open(p, v)
  <2>1. q \notin {x \in Proc \ {p} : pc[x] # "closed"}
    BY <1>3 DEF Db!Open
  <2> QED BY <1>1, <2>1
<1> QED BY <1>1, <1>2, <1>3, StepMoves

LEMMA SameCardinality == \A S : Db!Cardinality(S) = Cardinality(S)
BY DEF Db!Cardinality, Cardinality

\* The last backup in the order of the names is never stale.
LEMMA LastStays ==
  ASSUME MigrateInv, NEW n \in DOMAIN NameOrder, bak[NameOrder[n]].some
  PROVE  \E k \in DOMAIN NameOrder : k >= n /\ bak[NameOrder[k]].some /\ NameOrder[k] \notin Db!Stale
<1> DEFINE S == {k \in DOMAIN NameOrder : bak[NameOrder[k]].some}
           D == {Len(NameOrder) - k : k \in S}
<1>1. DOMAIN NameOrder = 1 .. Len(NameOrder) /\ Len(NameOrder) \in Nat
  BY FilesAssumption
<1>2. D \subseteq Nat /\ Len(NameOrder) - n \in D
  BY <1>1
<1>3. IsWellFoundedOn(OpToRel(<, Nat), Nat)
  BY NatLessThanWellFounded
<1>4. PICK d \in D : \A j \in D : ~(<<j, d>> \in OpToRel(<, Nat))
  <2> HIDE DEF D
  <2> QED BY <1>2, <1>3, WFMin
<1>5. PICK k \in S : d = Len(NameOrder) - k
  BY <1>4
<1>6. \A j \in S : j <= k
  <2> SUFFICES ASSUME NEW j \in S, j > k PROVE FALSE
    BY <1>1, <1>5
  <2>1. Len(NameOrder) - j \in D /\ Len(NameOrder) - j < d
    BY <1>1, <1>5
  <2> QED BY <1>2, <1>4, <2>1 DEF OpToRel
<1>7. NameOrder[k] \notin Db!Stale
  <2> DEFINE later(v) == {m \in DOMAIN NameOrder :
                            bak[NameOrder[m]].some /\ \E i \in 1 .. (m - 1) : NameOrder[i] = v}
  <2>1. later(NameOrder[k]) = {}
    <3> SUFFICES ASSUME NEW m \in S, NEW i \in 1 .. (m - 1), NameOrder[i] = NameOrder[k] PROVE FALSE
      OBVIOUS
    <3>1. i \in DOMAIN NameOrder /\ m \in Nat /\ k \in Nat
      BY <1>1
    <3>2. i = k
      BY <3>1, FilesAssumption
    <3> QED BY <1>6, <3>1, <3>2
  <2>2. Db!Stale = {v \in Db!Version : bak[v].some /\ Db!Cardinality(later(v)) >= MaxBackups}
    BY DEF Db!Stale
  <2> HIDE DEF later
  <2>3. Db!Cardinality(later(NameOrder[k])) = 0
    BY <2>1, FS_EmptySet, SameCardinality
  <2> QED BY <2>2, <2>3, FilesAssumption
<1> QED BY <1>1, <1>5, <1>6, <1>7

LEMMA InitBacked == Db!Init => Alone /\ Backed
BY DEF Db!Init, Alone, Backed

\* pruneBackups() keeps the snapshot, or another of a later name.
LEMMA PruneKeeps ==
  ASSUME MigrateInv, NEW p \in Proc, Db!Prune(p), bak[version[p]].some, bak[version[p]].rows = file.rows
  PROVE  Kept(p)'
<1> DEFINE v == version[p]
<1>1. /\ v \in Db!Version /\ version' = version /\ file' = file
      /\ bak' = [w \in Db!Version |-> IF w \in Db!Stale THEN Db!NoBackup ELSE bak[w]]
  BY DEF Db!Prune, MigrateInv, DbTypes
<1>2. CASE v \notin Db!Stale
  BY <1>1, <1>2 DEF Kept
<1>3. CASE v \in Db!Stale
  <2> DEFINE later(w) == {n \in DOMAIN NameOrder :
                            bak[NameOrder[n]].some /\ \E m \in 1 .. (n - 1) : NameOrder[m] = w}
  <2>1. Db!Stale = {w \in Db!Version : bak[w].some /\ Db!Cardinality(later(w)) >= MaxBackups}
    BY DEF Db!Stale
  <2>2. later(v) # {}
    <3> HIDE DEF later, v
    <3>1. Cardinality(later(v)) >= MaxBackups
      BY <1>3, <2>1, SameCardinality
    <3>2. later(v) = {} => Cardinality(later(v)) = 0
      BY FS_EmptySet
    <3> QED BY <3>1, <3>2, FilesAssumption
  <2>3. PICK n \in DOMAIN NameOrder : bak[NameOrder[n]].some /\ \E m \in 1 .. (n - 1) : NameOrder[m] = v
    BY <2>2
  <2>4. PICK m \in 1 .. (n - 1) : NameOrder[m] = v
    BY <2>3
  <2>5. PICK k \in DOMAIN NameOrder : k >= n /\ bak[NameOrder[k]].some /\ NameOrder[k] \notin Db!Stale
    BY <2>3, LastStays
  <2>6. DOMAIN NameOrder = 1 .. Len(NameOrder) /\ Len(NameOrder) \in Nat /\ NameOrder[k] \in Db!Version
    BY FilesAssumption
  <2>7. bak'[NameOrder[k]].some
    BY <1>1, <2>5, <2>6
  <2>8. m \in DOMAIN NameOrder /\ k > m
    BY <2>5, <2>6
  <2>9. Db!Downgraded(p)'
    BY <1>1, <2>4, <2>7, <2>8 DEF Db!Downgraded
  <2> QED BY <2>9 DEF Kept
<1> QED BY <1>2, <1>3

LEMMA BackedNext == ASSUME MigrateInv, Alone, Backed, Db!Next PROVE Backed'
<1> SUFFICES ASSUME NEW p \in Proc, p \notin shared', p \notin warned',
                    pc'[p] \in {"prune", "begin", "copy", "drop", "commit"}
             PROVE  /\ pc'[p] = "prune" => bak'[version'[p]].some /\ bak'[version'[p]].rows = file'.rows
                    /\ pc'[p] \in {"begin", "copy", "drop", "commit"} /\ file'.rows # {} => Kept(p)'
  BY DEF Backed
<1> DEFINE Goal == /\ pc'[p] = "prune" => bak'[version'[p]].some /\ bak'[version'[p]].rows = file'.rows
                   /\ pc'[p] \in {"begin", "copy", "drop", "commit"} /\ file'.rows # {} => Kept(p)'
<1>1. Db!Step(p) /\ pc \in [Proc -> Db!Labels] /\ version[p] \in Db!Version /\ bak \in [Db!Version -> Backup]
  BY OnlyOwnSteps DEF MigrateInv, DbTypes
<1>2. ~(\E v \in Db!Version : Db!Open(p, v))
  BY <1>1 DEF Db!Open, Db!Goto
<1>3. ~(Db!ReadColumn(p) \/ Db!AddColumn(p) \/ Db!RemoveBackup(p))
  BY <1>1 DEF Db!ReadColumn, Db!AddColumn, Db!RemoveBackup, Db!Goto
<1>4. ~(Db!BackupFails(p) \/ Db!Commit(p) \/ Db!Fails(p) \/ Db!Dies(p) \/ \E r \in Row : Db!WriteRow(p, r))
  BY <1>1 DEF Db!BackupFails, Db!Commit, Db!Fails, Db!Dies, Db!WriteRow, Db!Goto
<1>5. CASE Db!ReadCheck(p)
  BY <1>1, <1>5 DEF Db!ReadCheck, Db!Goto
<1>6. CASE Db!Vacuum(p)
  BY <1>1, <1>6 DEF Db!Vacuum, Db!Goto
<1>7. CASE Db!Prune(p)
  <2>1. /\ pc[p] = "prune" /\ pc'[p] = "begin" /\ p \notin shared /\ p \notin warned
    BY <1>1, <1>7 DEF Db!Prune, Db!Goto
  <2>2. bak[version[p]].some /\ bak[version[p]].rows = file.rows
    BY <2>1 DEF Backed
  <2>3. Kept(p)'
    BY <1>7, <2>2, PruneKeeps
  <2> QED BY <2>1, <2>3
<1>8. CASE Db!Begin(p) \/ Db!CopyRows(p) \/ Db!DropHosts(p)
  <2>1. /\ pc[p] \in {"begin", "copy", "drop"} /\ pc'[p] \in {"copy", "drop", "commit"}
        /\ UNCHANGED <<file, bak, version, warned, shared>>
    BY <1>1, <1>8 DEF Db!Begin, Db!CopyRows, Db!DropHosts, Db!Goto
  <2>2. file.rows # {} => Kept(p)
    BY <2>1 DEF Backed
  <2>3. Kept(p)' <=> Kept(p)
    BY <2>1 DEF Kept, Db!Downgraded
  <2> QED BY <2>1, <2>2, <2>3
<1> QED BY <1>1, <1>2, <1>3, <1>4, <1>5, <1>6, <1>7, <1>8 DEF Db!Step

\* A rebuild is over with its snapshot.
LEMMA RebuildIsBacked ==
  ASSUME MigrateInv, Alone, Backed, Db!Next, NEW p \in Proc, pc[p] = "commit", pc'[p] = "open", file.rows # {}
  PROVE  p \in warned \cup shared \/ Db!Downgraded(p) \/ bak[version[p]].rows = file.rows
BY DEF Backed, Kept

-----------------------------------------------------------------------------
(* The vault of several devices *)

Metas == [contractVersion : {1, 2}, revision : Nat, deviceId : Device]
Vaults == [edit : Int, fields : SUBSET Field]
Named(m, e) == [rev |-> m.revision, by |-> m.deviceId, edit |-> e] \in issued

SyncTypes ==
  /\ meta \in [Device -> Metas] /\ \A d \in Device : meta[d].contractVersion = 1
  /\ local \in [Device -> Vaults]
  /\ baseline \in [Device -> [revision : Nat, deviceId : Device \cup {None}]]
  /\ seen \in [Device -> {None} \cup [meta : Metas \cup {None}, vault : Vaults]]
  /\ {remote, backup} \subseteq [meta : Metas \cup {None}, vault : Vaults]
  /\ faults \in Nat /\ vaultEdits \in Nat /\ synced \in [Device -> Int]
  /\ issued \subseteq [rev : Nat \ {0}, by : Device, edit : Int] /\ overwritten \in BOOLEAN

\* What a device of this contract has stored is an edit it has named so, with its flags.
Honest(s) ==
  /\ s.meta # None /\ s.meta.contractVersion = 1 => Named(s.meta, s.vault.edit)
  /\ s.vault.edit > 0 => Flag \subseteq s.vault.fields
StorageInv ==
  /\ Honest(remote) /\ Honest(backup)
  /\ \A d \in Device : seen[d] # None => Honest(seen[d])
  /\ remote = Sync!Empty => \A d \in Device : seen[d] \in {None, Sync!Empty} /\ synced[d] = 0
  /\ faults = 0 => \A p \in remote.vault.fields : ~Sync!IsSecret(p)

\* A device is at its baseline with the edit it shared, or ahead of it with one that it named.
DeviceInv(d) ==
  /\ meta[d].revision > 0 => Named(meta[d], local[d].edit)
  /\ \/ meta[d].revision > baseline[d].revision
     \/ meta[d].revision = baseline[d].revision /\ local[d].edit = synced[d]
  /\ IF baseline[d].deviceId = None THEN baseline[d].revision = 0 ELSE Named(baseline[d], synced[d])
  /\ (\E p \in local[d].fields : Sync!IsSecret(p)) => Sync!OwnEdit(d)
  /\ local[d].edit > 0 => Flag \subseteq local[d].fields

SyncInv == SyncTypes /\ StorageInv /\ (\A d \in Device : DeviceInv(d)) /\ Sync!NoSilentOverwrite

\* What is stripped holds no secret and keeps every flag.
LEMMA StrippedIs ==
  ASSUME NEW V \in SUBSET Field
  PROVE  /\ Sync!stripSecretFields(V) \subseteq V
         /\ \A p \in Sync!stripSecretFields(V) : ~Sync!IsSecret(p)
         /\ Flag \subseteq V => Flag \subseteq Sync!stripSecretFields(V)
BY SyncAssumption DEF Sync!stripSecretFields, Sync!IsSecret

LEMMA ExportIs ==
  ASSUME NEW v \in Vaults
  PROVE  /\ Sync!buildVaultExport(v) \in Vaults /\ Sync!parseVaultExport(v) = Sync!buildVaultExport(v)
         /\ Sync!buildVaultExport(v).edit = v.edit
         /\ \A p \in Sync!buildVaultExport(v).fields : ~Sync!IsSecret(p)
         /\ Flag \subseteq v.fields => Flag \subseteq Sync!buildVaultExport(v).fields
<1>1. v.fields \in SUBSET Field
  BY DEF Vaults
<1>2. Sync!buildVaultExport(v) = [v EXCEPT !.fields = Sync!stripSecretFields(v.fields)]
  BY DEF Sync!buildVaultExport
<1>3. Sync!parseVaultExport(v) = [v EXCEPT !.fields = Sync!stripSecretFields(v.fields)]
  BY DEF Sync!parseVaultExport
<1> QED BY <1>1, <1>2, <1>3, StrippedIs DEF Vaults

\* What a device does about what it has read
LEMMA Pushes ==
  ASSUME SyncTypes, NEW d \in Device, seen[d] # None, Sync!Action(d) = "push"
  PROVE  \/ seen[d] = Sync!Empty /\ meta[d].revision > 0
         \/ /\ seen[d].meta \in Metas /\ seen[d].meta # None /\ seen[d].meta.contractVersion = 1
            /\ meta[d].revision > baseline[d].revision /\ seen[d].meta.revision = baseline[d].revision
            /\ baseline[d].deviceId # None => seen[d].meta.deviceId = baseline[d].deviceId
<1> DEFINE r == seen[d].meta
           b == baseline[d]
           l == meta[d]
           c == Sync!detectSyncConflict(l, r, b)
<1>1. CASE seen[d] = Sync!Empty
  BY <1>1 DEF Sync!Action
<1>2. CASE seen[d] # Sync!Empty
  <2>1. Sync!Readable(r) /\ Sync!resolveSync(c) = "push"
    BY <1>2 DEF Sync!Action
  <2> HIDE DEF c
  <2>2. c = "local-ahead"
    BY <2>1 DEF Sync!resolveSync
  <2> USE DEF c
  <2>3. /\ Sync!isValidSyncMeta(r) /\ ~(r.revision < b.revision)
        /\ ~(r.revision = b.revision /\ b.deviceId # None /\ r.deviceId # b.deviceId)
        /\ l.revision > b.revision /\ ~(r.revision > b.revision)
    BY <2>2 DEF Sync!detectSyncConflict
  <2>4. r \in Metas /\ b.revision \in Nat
    BY <2>3 DEF SyncTypes, Sync!isValidSyncMeta
  <2>5. r.contractVersion = 1
    BY <2>1, <2>3, <2>4 DEF Sync!Readable, Sync!isCompatibleContract, Sync!SYNC_CONTRACT_VERSION, Metas,
       Sync!isValidSyncMeta
  <2> QED BY <2>3, <2>4, <2>5 DEF Metas, Sync!isValidSyncMeta
<1> QED BY <1>1, <1>2

LEMMA Takes ==
  ASSUME SyncTypes, NEW d \in Device, seen[d] # None,
         Sync!Action(d) = "pull" \/ (Sync!Action(d) = "conflict" /\ Sync!isValidSyncMeta(seen[d].meta))
  PROVE  /\ seen[d] # Sync!Empty /\ seen[d].meta \in Metas /\ seen[d].meta # None
         /\ seen[d].meta.contractVersion = 1
         /\ Sync!Action(d) = "pull" => ~(meta[d].revision > baseline[d].revision)
<1> DEFINE r == seen[d].meta
           c == Sync!detectSyncConflict(meta[d], r, baseline[d])
<1>1. /\ seen[d] # Sync!Empty /\ Sync!Readable(r)
      /\ Sync!Action(d) = "pull" => Sync!resolveSync(c) = "pull"
  BY DEF Sync!Action
<1>2. Sync!Action(d) = "pull" => c = "remote-ahead"
  <2> HIDE DEF c
  <2> QED BY <1>1 DEF Sync!resolveSync
<1>3. Sync!isValidSyncMeta(r) /\ (Sync!Action(d) = "pull" => ~(meta[d].revision > baseline[d].revision))
  BY <1>2 DEF Sync!detectSyncConflict
<1>4. r \in Metas /\ r # None
  BY <1>3 DEF SyncTypes, Sync!isValidSyncMeta
<1>5. r.contractVersion = 1
  BY <1>1, <1>3, <1>4 DEF Sync!Readable, Sync!isCompatibleContract, Sync!SYNC_CONTRACT_VERSION, Metas
<1> QED BY <1>1, <1>3, <1>4, <1>5

LEMMA ConflictIs ==
  ASSUME NEW d \in Device, Sync!Action(d) = "conflict" PROVE seen[d] # Sync!Empty
BY DEF Sync!Action

LEMMA InitSync == Sync!SyncInit => SyncInv
<1> SUFFICES ASSUME Sync!SyncInit PROVE SyncInv
  OBVIOUS
<1> DEFINE m0(d) == [contractVersion |-> 1, revision |-> 0, deviceId |-> d]
<1>1. \A d \in Device : meta[d] = m0(d)
  BY DEF Sync!SyncInit, Sync!makeSyncMeta, Sync!SYNC_CONTRACT_VERSION
<1>2. meta \in [Device -> Metas]
  <2>1. meta = [d \in Device |-> meta[d]]
    BY DEF Sync!SyncInit
  <2>2. \A d \in Device : m0(d) \in Metas
    BY DEF Metas
  <2> QED BY <1>1, <2>1, <2>2
<1>3. Sync!NoVault \in Vaults /\ Sync!NoVault.edit = 0 /\ Sync!NoVault.fields = {}
  BY DEF Sync!NoVault, Vaults
<1>4. Sync!Empty \in [meta : Metas \cup {None}, vault : Vaults] /\ Sync!Empty.meta = None /\ Sync!Empty.vault = Sync!NoVault
  BY <1>3 DEF Sync!Empty
<1>5. SyncTypes
  <2>1. baseline \in [Device -> [revision : Nat, deviceId : Device \cup {None}]]
    BY DEF Sync!SyncInit
  <2>2. seen \in [Device -> {None} \cup [meta : Metas \cup {None}, vault : Vaults]]
    BY DEF Sync!SyncInit
  <2>3. {remote, backup} \subseteq [meta : Metas \cup {None}, vault : Vaults]
    BY <1>4 DEF Sync!SyncInit
  <2>4. local \in [Device -> Vaults] /\ synced \in [Device -> Int]
    BY <1>3 DEF Sync!SyncInit
  <2>5. issued \subseteq [rev : Nat \ {0}, by : Device, edit : Int] /\ overwritten \in BOOLEAN
        /\ faults \in Nat /\ vaultEdits \in Nat
    BY DEF Sync!SyncInit
  <2> QED BY <1>1, <1>2, <2>1, <2>2, <2>3, <2>4, <2>5 DEF SyncTypes
<1>6. StorageInv
  BY <1>3, <1>4 DEF Sync!SyncInit, StorageInv, Honest
<1>7. \A d \in Device : DeviceInv(d)
  <2> SUFFICES ASSUME NEW d \in Device PROVE DeviceInv(d)
    OBVIOUS
  <2>1. baseline[d].revision = 0 /\ baseline[d].deviceId = None /\ synced[d] = 0 /\ local[d] = Sync!NoVault
    BY DEF Sync!SyncInit
  <2>2. meta[d] = m0(d) /\ m0(d).revision = 0
    BY <1>1
  <2> QED BY <1>3, <2>1, <2>2 DEF DeviceInv
<1>8. Sync!NoSilentOverwrite
  BY DEF Sync!SyncInit, Sync!NoSilentOverwrite
<1> QED BY <1>5, <1>6, <1>7, <1>8 DEF SyncInv

\* What was named stays so, and so does a device that nothing is done to.
LEMMA NamedStays ==
  ASSUME issued \subseteq issued'
  PROVE  /\ \A m, e : Named(m, e) => Named(m, e)'
         /\ \A s : Honest(s) => Honest(s)'
         /\ Sync!Reused => Sync!Reused'
BY DEF Named, Honest, Sync!Reused

LEMMA DeviceStays ==
  ASSUME issued \subseteq issued', NEW d \in Device, DeviceInv(d),
         meta'[d] = meta[d], local'[d] = local[d], baseline'[d] = baseline[d], synced'[d] = synced[d]
  PROVE  DeviceInv(d)'
<1>1. meta[d].revision > 0 => Named(meta[d], local[d].edit)'
  BY DEF DeviceInv, Named
<1>2. baseline[d].deviceId # None => Named(baseline[d], synced[d])'
  BY DEF DeviceInv, Named
<1>3. Sync!OwnEdit(d) => Sync!OwnEdit(d)'
  BY DEF Sync!OwnEdit
<1> QED BY <1>1, <1>2, <1>3 DEF DeviceInv, Named

LEMMA EditSyncs == ASSUME SyncInv, NEW d \in Device, Sync!Edit(d) PROVE SyncInv'
<1> DEFINE m == [contractVersion |-> 1, revision |-> meta[d].revision + 1, deviceId |-> d]
           v == [edit |-> vaultEdits + 1, fields |-> Field]
           i == [rev |-> meta[d].revision + 1, by |-> d, edit |-> vaultEdits + 1]
<1>1. /\ vaultEdits' = vaultEdits + 1 /\ meta' = [meta EXCEPT ![d] = m] /\ local' = [local EXCEPT ![d] = v]
      /\ UNCHANGED <<baseline, seen, remote, backup, faults, synced, overwritten>>
  BY DEF Sync!Edit, Sync!makeSyncMeta, Sync!SYNC_CONTRACT_VERSION
<1>2. meta[d] \in Metas /\ meta[d].revision \in Nat /\ vaultEdits \in Nat /\ baseline[d].revision \in Nat
  BY DEF SyncInv, SyncTypes, Metas
<1>3. meta'[d] = m /\ local'[d] = v /\ \A q \in Device \ {d} : meta'[q] = meta[q] /\ local'[q] = local[q]
  BY <1>1 DEF SyncInv, SyncTypes
<1>4. issued' = issued \cup {i}
  BY <1>1, <1>3 DEF Sync!Edit, Sync!Issue
<1>5. m \in Metas /\ v \in Vaults /\ i \in [rev : Nat \ {0}, by : Device, edit : Int]
  BY <1>2 DEF Metas, Vaults
<1>6. SyncTypes'
  <2>1. meta' \in [Device -> Metas] /\ \A q \in Device : meta'[q].contractVersion = 1
    BY <1>1, <1>3, <1>5 DEF SyncInv, SyncTypes
  <2>2. local' \in [Device -> Vaults]
    BY <1>1, <1>5 DEF SyncInv, SyncTypes
  <2>3. issued' \subseteq [rev : Nat \ {0}, by : Device, edit : Int]
    BY <1>4, <1>5 DEF SyncInv, SyncTypes
  <2> QED BY <1>1, <1>2, <2>1, <2>2, <2>3 DEF SyncInv, SyncTypes
<1>7. StorageInv'
  BY <1>1, <1>4, NamedStays DEF SyncInv, StorageInv
<1>8. \A q \in Device \ {d} : DeviceInv(q)'
  BY <1>1, <1>3, <1>4, DeviceStays DEF SyncInv
<1>9. DeviceInv(d)'
  <2>1. Named(meta[d], local[d].edit)'
    BY <1>3, <1>4 DEF Named
  <2>2. meta'[d].revision > baseline'[d].revision
    BY <1>1, <1>2, <1>3 DEF SyncInv, DeviceInv
  <2>3. IF baseline'[d].deviceId = None THEN baseline'[d].revision = 0 ELSE Named(baseline[d], synced[d])'
    BY <1>1, <1>4 DEF SyncInv, DeviceInv, Named
  <2>4. Sync!OwnEdit(d)'
    <3>1. i \in issued' /\ i.edit = local'[d].edit /\ i.by = d
      BY <1>3, <1>4
    <3> HIDE DEF i
    <3> QED BY <3>1 DEF Sync!OwnEdit
  <2>5. Flag \subseteq local'[d].fields
    BY <1>3, SyncAssumption
  <2> QED BY <2>1, <2>2, <2>3, <2>4, <2>5 DEF DeviceInv
<1>10. Sync!NoSilentOverwrite'
  BY <1>1, <1>4, NamedStays DEF SyncInv, Sync!NoSilentOverwrite
<1> QED BY <1>6, <1>7, <1>8, <1>9, <1>10 DEF SyncInv

LEMMA ReadSyncs == ASSUME SyncInv, NEW d \in Device, Sync!Read(d) \/ Sync!Nothing(d) PROVE SyncInv'
<1>1. PICK s \in {None, remote} : seen' = [seen EXCEPT ![d] = s]
  BY DEF Sync!Read, Sync!Nothing, Sync!Over
<1>2. UNCHANGED <<meta, local, baseline, remote, backup, faults, vaultEdits, synced, issued, overwritten>>
  BY DEF Sync!Read, Sync!Nothing
<1>3. \A q \in Device : seen'[q] = IF q = d THEN s ELSE seen[q]
  BY <1>1 DEF SyncInv, SyncTypes
<1>4. SyncTypes'
  <2>1. s \in {None} \cup [meta : Metas \cup {None}, vault : Vaults]
    BY DEF SyncInv, SyncTypes
  <2> QED BY <1>1, <1>2, <2>1 DEF SyncInv, SyncTypes
<1>5. StorageInv'
  BY <1>2, <1>3 DEF SyncInv, StorageInv, Honest, Named
<1>6. \A q \in Device : DeviceInv(q)'
  BY <1>2, DeviceStays DEF SyncInv
<1> QED BY <1>2, <1>4, <1>5, <1>6 DEF SyncInv, Sync!NoSilentOverwrite, Sync!Reused

LEMMA WriteSyncs ==
  ASSUME SyncInv, NEW d \in Device, Sync!Over(d), NEW m \in Metas, m.contractVersion = 1, NEW byUser,
         Sync!Write(d, m, byUser), meta' = [meta EXCEPT ![d] = m], UNCHANGED <<local, faults, vaultEdits>>,
         issued \subseteq issued', issued' \subseteq [rev : Nat \ {0}, by : Device, edit : Int],
         Named(m, local[d].edit)', m = meta[d] \/ m.revision > meta[d].revision,
         remote = seen[d] /\ ~byUser /\ remote.vault.edit # synced[d] => Sync!Reused
  PROVE  SyncInv'
<1> DEFINE v == Sync!buildVaultExport(local[d])
<1>1. /\ meta'[d] = m /\ \A q \in Device \ {d} : meta'[q] = meta[q]
      /\ meta' \in [Device -> Metas] /\ \A q \in Device : meta'[q].contractVersion = 1
  BY DEF SyncInv, SyncTypes
<1>2. /\ seen' = [seen EXCEPT ![d] = None] /\ seen[d] # None
      /\ seen' \in [Device -> {None} \cup [meta : Metas \cup {None}, vault : Vaults]]
      /\ \A q \in Device : seen'[q] = IF q = d THEN None ELSE seen[q]
  BY DEF SyncInv, SyncTypes, Sync!Over
<1>3. local[d] \in Vaults /\ baseline[d].revision \in Nat /\ meta[d].revision \in Nat /\ m.revision \in Nat
  BY DEF SyncInv, SyncTypes, Metas
<1>4. /\ v \in Vaults /\ v.edit = local[d].edit /\ \A p \in v.fields : ~Sync!IsSecret(p)
      /\ Flag \subseteq local[d].fields => Flag \subseteq v.fields
  BY <1>3, ExportIs
<1> HIDE DEF v
<1>5. DeviceInv(d)
  BY DEF SyncInv
<1>6. (\E p \in local'[d].fields : Sync!IsSecret(p)) => Sync!OwnEdit(d)'
  BY <1>5 DEF DeviceInv, Sync!OwnEdit
<1>7. CASE remote = seen[d]
  <2>1. /\ remote' = [meta |-> m, vault |-> v] /\ backup' \in {backup, remote}
        /\ baseline' = [baseline EXCEPT ![d] = [revision |-> m.revision, deviceId |-> m.deviceId]]
        /\ synced' = [synced EXCEPT ![d] = local[d].edit]
        /\ overwritten' = (overwritten \/ (~byUser /\ remote.vault.edit # synced[d]))
    BY <1>7 DEF Sync!Write, Sync!syncBaselineOf, v
  <2>2. /\ baseline'[d].revision = m.revision /\ baseline'[d].deviceId = m.deviceId /\ synced'[d] = local[d].edit
        /\ \A q \in Device \ {d} : baseline'[q] = baseline[q] /\ synced'[q] = synced[q]
    BY <2>1 DEF SyncInv, SyncTypes
  <2>3. SyncTypes'
    <3>1. baseline' \in [Device -> [revision : Nat, deviceId : Device \cup {None}]]
      BY <2>1 DEF SyncInv, SyncTypes, Metas
    <3>2. {remote', backup'} \subseteq [meta : Metas \cup {None}, vault : Vaults]
      BY <1>4, <2>1 DEF SyncInv, SyncTypes
    <3>3. synced' \in [Device -> Int]
      BY <1>3, <2>1 DEF SyncInv, SyncTypes, Vaults
    <3> QED BY <1>1, <1>2, <2>1, <3>1, <3>2, <3>3 DEF SyncInv, SyncTypes
  <2>4. m # None /\ m.deviceId \in Device /\ None \notin Device
    BY SyncAssumption DEF Metas
  <2>5. Honest(remote)'
    BY <1>4, <1>5, <2>1 DEF Honest, DeviceInv, Named
  <2>6. Honest(backup)' /\ \A q \in Device : seen'[q] # None => Honest(seen[q])'
    BY <1>2, <2>1 DEF SyncInv, StorageInv, Honest, Named
  <2>7. StorageInv'
    BY <1>2, <1>4, <2>1, <2>4, <2>5, <2>6 DEF StorageInv, Sync!Empty
  <2>8. DeviceInv(d)'
    <3>1. Named(meta[d], local[d].edit)' /\ Named(baseline[d], synced[d])'
      BY <1>1, <2>2 DEF Named
    <3> QED BY <1>1, <1>5, <1>6, <2>2, <2>4, <3>1 DEF DeviceInv
  <2>9. \A q \in Device \ {d} : DeviceInv(q)'
    BY <1>1, <2>2, DeviceStays DEF SyncInv
  <2>10. Sync!NoSilentOverwrite'
    BY <1>7, <2>1, NamedStays DEF SyncInv, Sync!NoSilentOverwrite
  <2> QED BY <2>3, <2>7, <2>8, <2>9, <2>10 DEF SyncInv
<1>8. CASE remote # seen[d]
  <2>1. UNCHANGED <<remote, backup, baseline, synced, overwritten>>
    BY <1>8 DEF Sync!Write
  <2>2. SyncTypes'
    BY <1>1, <1>2, <2>1 DEF SyncInv, SyncTypes
  <2>3. StorageInv'
    BY <1>2, <2>1 DEF SyncInv, StorageInv, Honest, Named
  <2>4. DeviceInv(d)'
    <3>1. Named(meta[d], local[d].edit)'
      BY <1>1 DEF Named
    <3>2. baseline[d].deviceId # None => Named(baseline[d], synced[d])'
      BY <1>5, <2>1 DEF DeviceInv, Named
    <3>3. \/ meta'[d].revision > baseline'[d].revision
          \/ meta'[d].revision = baseline'[d].revision /\ local'[d].edit = synced'[d]
      BY <1>1, <1>3, <1>5, <2>1 DEF DeviceInv
    <3> QED BY <1>5, <1>6, <2>1, <3>1, <3>2, <3>3 DEF DeviceInv
  <2>5. \A q \in Device \ {d} : DeviceInv(q)'
    BY <1>1, <2>1, DeviceStays DEF SyncInv
  <2>6. Sync!NoSilentOverwrite'
    BY <2>1, NamedStays DEF SyncInv, Sync!NoSilentOverwrite
  <2> QED BY <2>2, <2>3, <2>4, <2>5, <2>6 DEF SyncInv
<1> QED BY <1>7, <1>8

\* A push replaces what the device has seen: the storage's revision is of its baseline.
LEMMA PushSyncs == ASSUME SyncInv, NEW d \in Device, Sync!Push(d) PROVE SyncInv'
<1>1. /\ Sync!Over(d) /\ seen[d] # None /\ Sync!Action(d) = "push" /\ Sync!Write(d, meta[d], FALSE)
      /\ UNCHANGED <<meta, local, issued, faults, vaultEdits>>
  BY DEF Sync!Push, Sync!Over
<1>2. meta[d] \in Metas /\ meta[d].contractVersion = 1 /\ meta' = [meta EXCEPT ![d] = meta[d]]
  BY <1>1 DEF SyncInv, SyncTypes
<1>3. /\ issued' \subseteq [rev : Nat \ {0}, by : Device, edit : Int]
      /\ meta[d].revision \in Nat /\ baseline[d].revision \in Nat
  BY <1>1 DEF SyncInv, SyncTypes, Metas
<1>4. DeviceInv(d)
  BY DEF SyncInv
<1>5. CASE seen[d] = Sync!Empty /\ meta[d].revision > 0
  <2>1. Named(meta[d], local[d].edit)'
    BY <1>1, <1>4, <1>5 DEF DeviceInv, Named
  <2>2. remote = seen[d] => remote.vault.edit = synced[d]
    BY <1>5 DEF SyncInv, StorageInv, Sync!Empty, Sync!NoVault
  <2> QED BY <1>1, <1>2, <1>3, <2>1, <2>2, WriteSyncs
<1>6. CASE /\ seen[d].meta \in Metas /\ seen[d].meta # None /\ seen[d].meta.contractVersion = 1
           /\ meta[d].revision > baseline[d].revision /\ seen[d].meta.revision = baseline[d].revision
           /\ baseline[d].deviceId # None => seen[d].meta.deviceId = baseline[d].deviceId
  <2>1. Named(meta[d], local[d].edit)'
    BY <1>1, <1>3, <1>4, <1>6 DEF DeviceInv, Named
  <2>2. Named(seen[d].meta, seen[d].vault.edit)
    BY <1>1, <1>6 DEF SyncInv, StorageInv, Honest
  <2>3. baseline[d].revision # 0
    BY <1>6, <2>2 DEF SyncInv, SyncTypes, Named
  <2>4. Named(baseline[d], synced[d]) /\ baseline[d].deviceId # None
    BY <1>4, <2>3 DEF DeviceInv
  <2>5. remote = seen[d] /\ remote.vault.edit # synced[d] => Sync!Reused
    BY <1>6, <2>2, <2>4 DEF Named, Sync!Reused
  <2> QED BY <1>1, <1>2, <1>3, <2>1, <2>5, WriteSyncs
<1> QED BY <1>1, <1>5, <1>6, Pushes DEF SyncInv

LEMMA TakeSyncs ==
  ASSUME SyncInv, NEW d \in Device, Sync!Pull(d) \/ Sync!TakeTheirs(d)
  PROVE  SyncInv'
<1>1. PICK byUser \in BOOLEAN :
        /\ Sync!Over(d) /\ Sync!Take(d, byUser) /\ (~byUser => Sync!Action(d) = "pull")
        /\ Sync!Action(d) = "pull" \/ (Sync!Action(d) = "conflict" /\ Sync!isValidSyncMeta(seen[d].meta))
        /\ UNCHANGED <<faults, vaultEdits>>
  <2>1. CASE Sync!Pull(d)
    <3>1. Sync!Over(d) /\ Sync!Action(d) = "pull" /\ Sync!Take(d, FALSE) /\ UNCHANGED <<faults, vaultEdits>>
      BY <2>1 DEF Sync!Pull
    <3> DEFINE P(u) == /\ Sync!Over(d) /\ Sync!Take(d, u) /\ (~u => Sync!Action(d) = "pull")
                       /\ Sync!Action(d) = "pull" \/ (Sync!Action(d) = "conflict" /\ Sync!isValidSyncMeta(seen[d].meta))
                       /\ UNCHANGED <<faults, vaultEdits>>
    <3>2. P(FALSE)
      BY <3>1
    <3> HIDE DEF P
    <3>3. \E u \in BOOLEAN : P(u)
      BY <3>2
    <3> QED BY <3>3 DEF P
  <2>2. CASE Sync!TakeTheirs(d)
    BY <2>2 DEF Sync!TakeTheirs
  <2> QED BY <2>1, <2>2
<1> DEFINE s == seen[d]
           v == Sync!parseVaultExport(s.vault)
<1>2. s # None /\ seen' = [seen EXCEPT ![d] = None]
  BY <1>1 DEF Sync!Over
<1>3. /\ s # Sync!Empty /\ s.meta \in Metas /\ s.meta # None /\ s.meta.contractVersion = 1
      /\ ~byUser => ~(meta[d].revision > baseline[d].revision)
  BY <1>1, <1>2, Takes DEF SyncInv
<1>4. /\ s \in [meta : Metas \cup {None}, vault : Vaults] /\ Honest(s) /\ s.vault \in Vaults
      /\ meta[d].revision \in Nat /\ baseline[d].revision \in Nat
  BY <1>2 DEF SyncInv, SyncTypes, StorageInv, Metas
<1>5. /\ v \in Vaults /\ v.edit = s.vault.edit /\ \A p \in v.fields : ~Sync!IsSecret(p)
      /\ Flag \subseteq s.vault.fields => Flag \subseteq v.fields
  BY <1>4, ExportIs
<1>6. /\ local' = [local EXCEPT ![d] = v] /\ meta' = [meta EXCEPT ![d] = s.meta]
      /\ baseline' = [baseline EXCEPT ![d] = [revision |-> s.meta.revision, deviceId |-> s.meta.deviceId]]
      /\ synced' = [synced EXCEPT ![d] = s.vault.edit]
      /\ overwritten' = (overwritten \/ (~byUser /\ local[d].edit # synced[d]))
      /\ UNCHANGED <<remote, backup, issued, faults, vaultEdits>>
  BY <1>1 DEF Sync!Take, Sync!syncBaselineOf
<1> HIDE DEF v
<1>7. /\ local'[d] = v /\ meta'[d] = s.meta /\ synced'[d] = s.vault.edit
      /\ baseline'[d].revision = s.meta.revision /\ baseline'[d].deviceId = s.meta.deviceId
      /\ \A q \in Device : seen'[q] = IF q = d THEN None ELSE seen[q]
      /\ \A q \in Device \ {d} : /\ local'[q] = local[q] /\ meta'[q] = meta[q]
                                 /\ baseline'[q] = baseline[q] /\ synced'[q] = synced[q]
  BY <1>2, <1>6 DEF SyncInv, SyncTypes
<1>8. SyncTypes'
  <2>1. meta' \in [Device -> Metas] /\ \A q \in Device : meta'[q].contractVersion = 1
    BY <1>3, <1>6, <1>7 DEF SyncInv, SyncTypes
  <2>2. local' \in [Device -> Vaults]
    BY <1>5, <1>6 DEF SyncInv, SyncTypes
  <2>3. baseline' \in [Device -> [revision : Nat, deviceId : Device \cup {None}]]
    BY <1>3, <1>6 DEF SyncInv, SyncTypes, Metas
  <2>4. seen' \in [Device -> {None} \cup [meta : Metas \cup {None}, vault : Vaults]]
    BY <1>2 DEF SyncInv, SyncTypes
  <2>5. synced' \in [Device -> Int]
    BY <1>4, <1>6 DEF SyncInv, SyncTypes, Vaults
  <2>6. overwritten' \in BOOLEAN
    BY <1>6 DEF SyncInv, SyncTypes
  <2> QED BY <1>6, <2>1, <2>2, <2>3, <2>4, <2>5, <2>6 DEF SyncInv, SyncTypes
<1>9. StorageInv'
  <2>1. remote # Sync!Empty
    BY <1>2, <1>3 DEF SyncInv, StorageInv
  <2> QED BY <1>6, <1>7, <2>1 DEF SyncInv, StorageInv, Honest, Named
<1>10. DeviceInv(d)'
  <2>1. Named(meta[d], local[d].edit)' /\ Named(baseline[d], synced[d])'
    BY <1>3, <1>4, <1>5, <1>6, <1>7 DEF Honest, Named
  <2>2. s.meta.deviceId # None
    BY <1>3, SyncAssumption DEF Metas
  <2>3. v.edit > 0 => Flag \subseteq v.fields
    BY <1>4, <1>5 DEF Honest
  <2> QED BY <1>5, <1>7, <2>1, <2>2, <2>3 DEF DeviceInv
<1>11. \A q \in Device \ {d} : DeviceInv(q)'
  BY <1>6, <1>7, DeviceStays DEF SyncInv
<1>12. Sync!NoSilentOverwrite'
  <2>1. DeviceInv(d)
    BY DEF SyncInv
  <2>2. ~byUser => local[d].edit = synced[d]
    BY <1>3, <1>4, <2>1 DEF DeviceInv
  <2> QED BY <1>6, <2>2 DEF SyncInv, Sync!NoSilentOverwrite, Sync!Reused
<1> QED BY <1>8, <1>9, <1>10, <1>11, <1>12 DEF SyncInv

LEMMA KeepSyncs == ASSUME SyncInv, NEW d \in Device, Sync!KeepOurs(d) PROVE SyncInv'
<1> DEFINE s == seen[d].meta
           prev == IF Sync!isValidSyncMeta(s) /\ s.revision > meta[d].revision THEN s.revision ELSE meta[d].revision
           m == [contractVersion |-> 1, revision |-> prev + 1, deviceId |-> d]
           i == [rev |-> prev + 1, by |-> d, edit |-> local[d].edit]
<1>1. /\ Sync!Over(d) /\ Sync!Write(d, m, TRUE) /\ meta' = [meta EXCEPT ![d] = m] /\ issued' = issued \cup {i}
      /\ UNCHANGED <<local, faults, vaultEdits>> /\ seen[d] # None
  BY DEF Sync!KeepOurs, Sync!Over, Sync!Issue, Sync!makeSyncMeta, Sync!SYNC_CONTRACT_VERSION
<1>2. meta[d].revision \in Nat /\ local[d].edit \in Int
  BY DEF SyncInv, SyncTypes, Metas, Vaults
<1>3. Sync!isValidSyncMeta(s) => s.revision \in Nat
  BY <1>1 DEF SyncInv, SyncTypes, Metas, Sync!isValidSyncMeta
<1>4. prev \in Nat /\ prev >= meta[d].revision
  BY <1>2, <1>3
<1> HIDE DEF prev
<1>5. m \in Metas /\ m.contractVersion = 1 /\ m.revision > meta[d].revision
  BY <1>2, <1>4 DEF Metas
<1>6. issued' \subseteq [rev : Nat \ {0}, by : Device, edit : Int]
  BY <1>1, <1>2, <1>4 DEF SyncInv, SyncTypes
<1>7. PICK n \in Metas :
        /\ n.contractVersion = 1 /\ n.revision > meta[d].revision /\ Sync!Write(d, n, TRUE)
        /\ meta' = [meta EXCEPT ![d] = n]
        /\ issued' = issued \cup {[rev |-> n.revision, by |-> n.deviceId, edit |-> local[d].edit]}
  BY <1>1, <1>5
<1>8. Named(n, local[d].edit)'
  BY <1>1, <1>7 DEF Named
<1> HIDE DEF m, i
<1> QED BY <1>1, <1>6, <1>7, <1>8, WriteSyncs

LEMMA FaultSyncs ==
  ASSUME SyncInv, Sync!Restored \/ Sync!Truncated \/ Sync!Smuggled \/ Sync!Newer PROVE SyncInv'
<1>1. PICK r : /\ faults' = faults + 1 /\ Sync!Empty \notin {r, remote} /\ remote' = r
               /\ UNCHANGED <<meta, local, baseline, seen, backup, vaultEdits, synced, issued, overwritten>>
               /\ \/ r = backup
                  \/ r = [remote EXCEPT !.meta = None, !.vault.edit = -1]
                  \/ r = [remote EXCEPT !.vault.fields = Field]
                  \/ /\ remote.meta # None
                     /\ r = [remote EXCEPT !.meta.contractVersion = 2, !.meta.revision = @ + 1, !.vault.edit = -2]
  BY DEF Sync!Restored, Sync!Truncated, Sync!Smuggled, Sync!Newer, Sync!Fault
<1> DEFINE Stored == [meta : Metas \cup {None}, vault : Vaults]
<1>2. remote \in Stored /\ backup \in Stored /\ Honest(remote) /\ Honest(backup) /\ faults \in Nat
  BY DEF SyncInv, SyncTypes, StorageInv
<1>3. r \in Stored /\ Honest(r)
  <2>1. CASE r = backup
    BY <1>2, <2>1
  <2>2. CASE r = [remote EXCEPT !.meta = None, !.vault.edit = -1]
    <3>1. r = [meta |-> None, vault |-> [edit |-> -1, fields |-> remote.vault.fields]]
      BY <1>2, <2>2 DEF Vaults
    <3>2. r.meta = None /\ r.vault.edit = -1 /\ r.vault \in Vaults
      BY <1>2, <3>1 DEF Vaults
    <3>3. r \in Stored
      BY <3>1, <3>2
    <3> QED BY <3>2, <3>3 DEF Honest
  <2>3. CASE r = [remote EXCEPT !.vault.fields = Field]
    <3>1. r.meta = remote.meta /\ r.vault.edit = remote.vault.edit /\ r.vault.fields = Field /\ r \in Stored
      BY <1>2, <2>3 DEF Vaults
    <3> QED BY <1>2, <3>1, SyncAssumption DEF Honest
  <2>4. CASE /\ remote.meta # None
             /\ r = [remote EXCEPT !.meta.contractVersion = 2, !.meta.revision = @ + 1, !.vault.edit = -2]
    <3>1. remote.meta \in Metas /\ remote.vault \in Vaults
      BY <1>2, <2>4
    <3>2. r.meta = [remote.meta EXCEPT !.contractVersion = 2, !.revision = @ + 1]
      BY <1>2, <2>4
    <3>3. r.meta \in Metas /\ r.meta.contractVersion = 2
      <4>1. r.meta = [contractVersion |-> 2, revision |-> remote.meta.revision + 1, deviceId |-> remote.meta.deviceId]
        BY <3>1, <3>2 DEF Metas
      <4> QED BY <3>1, <4>1 DEF Metas
    <3>4. r.vault \in Vaults /\ r.vault.edit = -2
      BY <1>2, <2>4 DEF Vaults
    <3>5. r \in Stored
      BY <1>2, <2>4, <3>3, <3>4
    <3> QED BY <3>3, <3>4, <3>5 DEF Honest
  <2> QED BY <1>1, <2>1, <2>2, <2>3, <2>4
<1>4. SyncTypes'
  BY <1>1, <1>2, <1>3 DEF SyncInv, SyncTypes
<1>5. StorageInv'
  BY <1>1, <1>2, <1>3 DEF SyncInv, StorageInv, Honest, Named
<1>6. \A q \in Device : DeviceInv(q)'
  BY <1>1, DeviceStays DEF SyncInv
<1> QED BY <1>1, <1>4, <1>5, <1>6 DEF SyncInv, Sync!NoSilentOverwrite, Sync!Reused

LEMMA SyncGoesOn == ASSUME SyncInv, Sync!SyncNext PROVE SyncInv'
<1>1. CASE \E d \in Device : Sync!DeviceStep(d)
  <2>1. PICK d \in Device : Sync!DeviceStep(d)
    BY <1>1
  <2> QED BY <2>1, EditSyncs, ReadSyncs, PushSyncs, TakeSyncs, KeepSyncs DEF Sync!DeviceStep
<1>2. CASE Sync!Restored \/ Sync!Truncated \/ Sync!Smuggled \/ Sync!Newer
  BY <1>2, FaultSyncs
<1> QED BY <1>1, <1>2 DEF Sync!SyncNext

LEMMA SyncShows == SyncInv => Sync!NoSilentOverwrite /\ Sync!SecretsAreOwn
<1> SUFFICES ASSUME SyncInv PROVE Sync!SecretsAreOwn
  BY DEF SyncInv
<1>1. \A d \in Device : Sync!isCompatibleContract(meta[d].contractVersion)
  BY DEF SyncInv, SyncTypes, Sync!isCompatibleContract, Sync!SYNC_CONTRACT_VERSION
<1> QED BY <1>1 DEF SyncInv, StorageInv, DeviceInv, Sync!SecretsAreOwn

-----------------------------------------------------------------------------
(* The window's copy of the rows *)

OneRow == [group : GroupId \cup {None}, cred : CredId \cup {None}]
HostMap == [{h1} -> OneRow \cup {None}]
Views == [store : Window!Rows, got : HostMap, twice : SUBSET {h1}]
View == [store |-> store, got |-> got, twice |-> twice]

\* What a reply makes of a view (Replied)
After(r, s) ==
  [got |-> IF r.op = "hosts.list" THEN r.row ELSE s.got,
   twice |-> IF r.op = "groups.list" THEN {}
             ELSE IF r.op = "create" /\ r.ok /\ s.store.hosts[r.id] # None THEN s.twice \cup {r.id}
             ELSE IF r.op = "remove" /\ r.ok THEN s.twice \ {r.id} ELSE s.twice,
   store |->
     IF r.op = "groups.list" THEN [s.store EXCEPT !.hosts = s.got, !.groups = r.row]
     ELSE IF r.op = "creds.list" THEN [s.store EXCEPT !.creds = r.row]
     ELSE IF r.op = "create" /\ r.ok THEN [s.store EXCEPT !.hosts[r.id] = r.row]
     ELSE IF r.op \in {"update", "move"} /\ r.ok /\ s.store.hosts[r.id] # None
       THEN [s.store EXCEPT !.hosts[r.id] = r.row]
     ELSE IF r.op = "move" /\ ~r.ok /\ s.store.hosts[r.id] # None
       THEN [s.store EXCEPT !.hosts[r.id].group = r.prev]
     ELSE IF r.op = "remove" /\ r.ok THEN [s.store EXCEPT !.hosts[r.id] = None]
     ELSE IF r.op = "group" /\ r.ok THEN [s.store EXCEPT !.groups = @ \cup {r.id}]
     ELSE IF r.op = "cred" /\ r.ok THEN [s.store EXCEPT !.creds = @ \cup {r.id}]
     ELSE IF r.op = "uncred" /\ r.ok THEN [s.store EXCEPT !.creds = @ \ {r.id}]
     ELSE s.store]

LEMMA RepliedIs == \A r : Window!Replied(r) => View' = After(r, View)
<1> SUFFICES ASSUME NEW r, Window!Replied(r) PROVE View' = After(r, View)
  OBVIOUS
<1>1. store' = After(r, View).store
  BY DEF Window!Replied, After, View, Window!Shown
<1>2. got' = After(r, View).got /\ twice' = After(r, View).twice
  BY DEF Window!Replied, After, View, Window!Shown
<1> QED BY <1>1, <1>2 DEF View, After

\* The replies there are
Anything ==
  {h1, None} \cup GroupId \cup CredId \cup OneRow \cup HostMap \cup (SUBSET GroupId) \cup (SUBSET CredId)
Fits(r) ==
  /\ r.op \in {"create", "update"} => r.id = h1 /\ r.row \in OneRow
  /\ r.op = "move" => r.id = h1 /\ (r.ok => r.row \in OneRow) /\ r.prev \in GroupId \cup {None}
  /\ r.op = "remove" => r.id = h1
  /\ r.op \in {"group", "ungroup"} => r.id \in GroupId
  /\ r.op \in {"cred", "uncred"} => r.id \in CredId
  /\ r.op = "hosts.list" => r.row \in HostMap
  /\ r.op = "groups.list" => r.row \in SUBSET GroupId
  /\ r.op = "creds.list" => r.row \in SUBSET CredId
Ops == {"hosts.list", "groups.list", "creds.list", "create", "update", "move", "remove", "group", "ungroup", "cred", "uncred"}
AnyReply == [op : Ops, id : Anything, row : Anything, prev : Anything, ok : BOOLEAN]
Replies == {r \in AnyReply : Fits(r)}

LEMMA AnythingIs ==
  /\ h1 \in Anything /\ None \in Anything
  /\ \A x \in GroupId \cup CredId \cup OneRow \cup HostMap : x \in Anything
  /\ \A x \in SUBSET GroupId : x \in Anything
  /\ \A x \in SUBSET CredId : x \in Anything
<1>1. \A x \in SUBSET GroupId : x \in Anything
  BY DEF Anything
<1>2. \A x \in SUBSET CredId : x \in Anything
  BY DEF Anything
<1>3. \A x \in GroupId \cup CredId \cup OneRow \cup HostMap : x \in Anything
  <2>1. (\A x \in GroupId : x \in Anything) /\ (\A x \in CredId : x \in Anything)
    BY DEF Anything
  <2>2. \A x \in OneRow : x \in Anything
    BY DEF Anything
  <2>3. \A x \in HostMap : x \in Anything
    BY DEF Anything
  <2> QED BY <2>1, <2>2, <2>3
<1> QED BY <1>1, <1>2, <1>3 DEF Anything

LEMMA ReplyIs ==
  ASSUME NEW o \in Ops, NEW i \in Anything, NEW w \in Anything, NEW p \in Anything, NEW k \in BOOLEAN,
         Fits([op |-> o, id |-> i, row |-> w, prev |-> p, ok |-> k])
  PROVE  [op |-> o, id |-> i, row |-> w, prev |-> p, ok |-> k] \in Replies
<1> DEFINE r == [op |-> o, id |-> i, row |-> w, prev |-> p, ok |-> k]
<1>1. r \in AnyReply
  BY DEF AnyReply
<1> HIDE DEF r
<1>2. Fits(r)
  BY DEF r
<1>3. r \in Replies
  BY <1>1, <1>2 DEF Replies
<1> QED BY <1>3 DEF r

LEMMA ListReply ==
  /\ \A m \in HostMap : [op |-> "hosts.list", id |-> None, row |-> m, prev |-> None, ok |-> TRUE] \in Replies
  /\ \A G \in SUBSET GroupId :
       [op |-> "groups.list", id |-> None, row |-> G, prev |-> None, ok |-> TRUE] \in Replies
  /\ \A C \in SUBSET CredId :
       [op |-> "creds.list", id |-> None, row |-> C, prev |-> None, ok |-> TRUE] \in Replies
<1>1. \A m \in HostMap : Fits([op |-> "hosts.list", id |-> None, row |-> m, prev |-> None, ok |-> TRUE])
  BY DEF Fits
<1>2. \A G \in SUBSET GroupId : Fits([op |-> "groups.list", id |-> None, row |-> G, prev |-> None, ok |-> TRUE])
  BY DEF Fits
<1>3. \A C \in SUBSET CredId : Fits([op |-> "creds.list", id |-> None, row |-> C, prev |-> None, ok |-> TRUE])
  BY DEF Fits
<1>4. {"hosts.list", "groups.list", "creds.list"} \subseteq Ops /\ TRUE \in BOOLEAN
  BY DEF Ops
<1> QED BY <1>1, <1>2, <1>3, <1>4, AnythingIs, ReplyIs

LEMMA AfterTyped == ASSUME NEW r \in Replies, NEW s \in Views PROVE After(r, s) \in Views
<1> DEFINE t == After(r, s)
<1>1. /\ s.store \in Window!Rows /\ s.got \in HostMap /\ s.twice \in SUBSET {h1} /\ Fits(r) /\ r.ok \in BOOLEAN
      /\ s.store.hosts \in HostMap /\ s.store.groups \in SUBSET GroupId /\ s.store.creds \in SUBSET CredId
  BY DEF Views, Replies, AnyReply, Window!Rows, HostMap, OneRow
<1>2. t.got \in HostMap
  BY <1>1 DEF After, Fits
<1>3. t.twice \in SUBSET {h1}
  BY <1>1 DEF After, Fits
<1>4. t.store \in Window!Rows
  <2>1. CASE r.op = "groups.list"
    BY <1>1, <2>1 DEF After, Fits, Window!Rows, HostMap, OneRow
  <2>2. CASE r.op = "creds.list"
    BY <1>1, <2>2 DEF After, Fits, Window!Rows
  <2>3. CASE r.op \in {"create", "update"}
    <3>1. [s.store EXCEPT !.hosts[r.id] = r.row] \in Window!Rows
      BY <1>1, <2>3 DEF Fits, Window!Rows, HostMap, OneRow
    <3> QED BY <1>1, <2>3, <3>1 DEF After
  <2>4. CASE r.op = "move"
    <3>1. r.ok => [s.store EXCEPT !.hosts[r.id] = r.row] \in Window!Rows
      BY <1>1, <2>4 DEF Fits, Window!Rows, HostMap, OneRow
    <3>2. s.store.hosts[r.id] # None => [s.store EXCEPT !.hosts[r.id].group = r.prev] \in Window!Rows
      BY <1>1, <2>4 DEF Fits, Window!Rows, HostMap, OneRow
    <3> QED BY <1>1, <2>4, <3>1, <3>2 DEF After
  <2>5. CASE r.op = "remove"
    BY <1>1, <2>5 DEF After, Fits, Window!Rows, HostMap, OneRow
  <2>6. CASE r.op \in {"group", "cred", "uncred"}
    BY <1>1, <2>6 DEF After, Fits, Window!Rows
  <2>7. CASE r.op \notin {"groups.list", "creds.list", "create", "update", "move", "remove", "group", "cred", "uncred"}
    BY <1>1, <2>7 DEF After
  <2> QED BY <2>1, <2>2, <2>3, <2>4, <2>5, <2>6, <2>7
<1> QED BY <1>2, <1>3, <1>4 DEF After, Views

\* The replies q make e of s, one after the other.
Chain(q, S) == S \in [0 .. Len(q) -> Views] /\ \A i \in 1 .. Len(q) : S[i] = After(q[i], S[i - 1])
Makes(q, s, e) == \E S : Chain(q, S) /\ S[0] = s /\ S[Len(q)] = e

LEMMA MakesNothing == \A s \in Views : \A e : Makes(<<>>, s, e) <=> s = e
<1> SUFFICES ASSUME NEW s \in Views, NEW e PROVE Makes(<<>>, s, e) <=> s = e
  OBVIOUS
<1>1. Len(<<>>) = 0 /\ 0 .. 0 = {0} /\ 1 .. 0 = {}
  OBVIOUS
<1>2. ASSUME s = e PROVE Makes(<<>>, s, e)
  <2> DEFINE S == [i \in 0 .. 0 |-> s]
  <2>1. Chain(<<>>, S) /\ S[0] = s /\ S[Len(<<>>)] = e
    BY <1>1, <1>2 DEF Chain
  <2> QED BY <2>1 DEF Makes
<1> QED BY <1>1, <1>2 DEF Makes

LEMMA MakesMore ==
  ASSUME NEW q \in Seq(Replies), NEW s, NEW e, NEW r \in Replies, Makes(q, s, e)
  PROVE  Makes(Append(q, r), s, After(r, e))
<1>1. PICK S : Chain(q, S) /\ S[0] = s /\ S[Len(q)] = e
  BY DEF Makes
<1> DEFINE n == Len(q)
           T == [i \in 0 .. (n + 1) |-> IF i <= n THEN S[i] ELSE After(r, e)]
<1>2. n \in Nat /\ Len(Append(q, r)) = n + 1 /\ Append(q, r)[n + 1] = r /\ \A i \in 1 .. n : Append(q, r)[i] = q[i]
  OBVIOUS
<1>3. S \in [0 .. n -> Views] /\ (\A i \in 1 .. n : S[i] = After(q[i], S[i - 1])) /\ e \in Views
  BY <1>1, <1>2 DEF Chain
<1>4. After(r, e) \in Views
  BY <1>3, AfterTyped
<1> HIDE DEF n
<1>5. T \in [0 .. (n + 1) -> Views]
  BY <1>2, <1>3, <1>4
<1>6. ASSUME NEW i \in 1 .. (n + 1) PROVE T[i] = After(Append(q, r)[i], T[i - 1])
  <2>1. CASE i \in 1 .. n
    BY <1>2, <1>3, <2>1
  <2>2. CASE i = n + 1
    BY <1>1, <1>2, <2>2 DEF n
  <2> QED BY <1>2, <2>1, <2>2
<1>7. T[0] = s /\ T[n + 1] = After(r, e)
  BY <1>1, <1>2
<1> HIDE DEF T
<1> QED BY <1>2, <1>5, <1>6, <1>7 DEF Makes, Chain

LEMMA MakesRest ==
  ASSUME NEW q \in Seq(Replies), q # <<>>, NEW s, NEW e, Makes(q, s, e)
  PROVE  Makes(Tail(q), After(Head(q), s), e)
<1>1. PICK S : Chain(q, S) /\ S[0] = s /\ S[Len(q)] = e
  BY DEF Makes
<1> DEFINE n == Len(q)
           T == [i \in 0 .. (n - 1) |-> S[i + 1]]
<1>2. /\ n \in Nat \ {0} /\ Len(Tail(q)) = n - 1 /\ Head(q) = q[1]
      /\ \A i \in 1 .. (n - 1) : Tail(q)[i] = q[i + 1]
  OBVIOUS
<1>3. S \in [0 .. n -> Views] /\ (\A i \in 1 .. n : S[i] = After(q[i], S[i - 1])) /\ S[n] = e
  BY <1>1 DEF Chain
<1> HIDE DEF n
<1>4. T \in [0 .. (n - 1) -> Views]
  BY <1>2, <1>3
<1>5. ASSUME NEW i \in 1 .. (n - 1) PROVE T[i] = After(Tail(q)[i], T[i - 1])
  <2>1. T[i] = S[i + 1] /\ T[i - 1] = S[i] /\ i + 1 \in 1 .. n /\ (i + 1) - 1 = i
    BY <1>2
  <2> QED BY <1>2, <1>3, <2>1
<1>6. T[0] = After(Head(q), s) /\ T[n - 1] = e
  <2>1. S[1] = After(q[1], S[0])
    BY <1>2, <1>3
  <2> QED BY <1>1, <1>2, <1>3, <2>1
<1> HIDE DEF T
<1> QED BY <1>2, <1>4, <1>5, <1>6 DEF Makes, Chain

\* After a group or credential was deleted the lists are loaded again.
Reloads(r) == r.op \in {"ungroup", "uncred"} /\ r.ok
Awaited == \E i \in DOMAIN replies : Reloads(replies[i])

\* When all replies have come, the window will show the vault, or at least its credentials and
\* load the rest.
WindowInv ==
  /\ vault \in Window!Rows /\ View \in Views /\ replies \in Seq(Replies)
  /\ \E e \in Views :
       /\ Makes(replies, View, e) /\ e.store.creds = vault.creds
       /\ Awaited \/ (e.store = vault /\ e.twice = {})

LEMMA InitWindow == Window!Init => WindowInv
<1> SUFFICES ASSUME Window!Init PROVE WindowInv
  OBVIOUS
<1>1. vault \in Window!Rows /\ store = vault /\ replies = <<>> /\ twice = {} /\ got \in HostMap
  BY DEF Window!Init, Window!Empty, Window!Rows, HostMap
<1>2. View \in Views /\ View.store = vault /\ View.twice = {}
  BY <1>1 DEF View, Views
<1>3. Makes(replies, View, View)
  BY <1>1, <1>2, MakesNothing
<1> QED BY <1>1, <1>2, <1>3 DEF WindowInv

LEMMA WindowShows == WindowInv => Window!QuietStoreIsVault
<1> SUFFICES ASSUME WindowInv, replies = <<>> PROVE store = vault /\ twice = {}
  BY DEF Window!QuietStoreIsVault
<1>1. PICK e \in Views : Makes(replies, View, e) /\ (Awaited \/ (e.store = vault /\ e.twice = {}))
  BY DEF WindowInv
<1>2. View = e /\ ~Awaited
  BY <1>1, MakesNothing DEF WindowInv, Awaited
<1> QED BY <1>1, <1>2 DEF View

\* A call whose reply does to the window what it did to the vault
LEMMA Answered ==
  ASSUME WindowInv, UNCHANGED <<store, got, twice>>, NEW r \in Replies, replies' = Append(replies, r),
         vault' \in Window!Rows,
         \A e \in Views : e.store.creds = vault.creds => After(r, e).store.creds = vault'.creds,
         \/ Reloads(r)
         \/ \A e \in Views : e.store = vault /\ e.twice = {} => After(r, e).store = vault' /\ After(r, e).twice = {}
  PROVE  WindowInv'
<1>1. View' = View /\ View \in Views /\ replies \in Seq(Replies)
  BY DEF View, WindowInv
<1>2. PICK e \in Views : /\ Makes(replies, View, e) /\ e.store.creds = vault.creds
                         /\ Awaited \/ (e.store = vault /\ e.twice = {})
  BY DEF WindowInv
<1>3. After(r, e) \in Views
  BY AfterTyped
<1>4. Makes(replies', View', After(r, e))
  BY <1>1, <1>2, MakesMore
<1>5. replies' \in Seq(Replies)
  BY <1>1
<1>6. Awaited \/ Reloads(r) => Awaited'
  <2>1. \A i \in DOMAIN replies : i \in DOMAIN replies' /\ replies'[i] = replies[i]
    BY <1>1
  <2>2. Len(replies) + 1 \in DOMAIN replies' /\ replies'[Len(replies) + 1] = r
    BY <1>1
  <2> QED BY <2>1, <2>2 DEF Awaited
<1>7. After(r, e).store.creds = vault'.creds /\ (Awaited' \/ (After(r, e).store = vault' /\ After(r, e).twice = {}))
  BY <1>2, <1>6
<1> QED BY <1>1, <1>3, <1>4, <1>5, <1>7 DEF WindowInv

LEMMA Rejected ==
  ASSUME WindowInv, UNCHANGED <<vault, store, got, twice>>, NEW r \in Replies, replies' = Append(replies, r),
         ~r.ok, r.op \notin {"hosts.list", "groups.list", "creds.list", "move"}
  PROVE  WindowInv'
<1>1. \A e : After(r, e).store = e.store /\ After(r, e).twice = e.twice
  BY DEF After
<1>2. vault' \in Window!Rows
  BY DEF WindowInv
<1> QED BY <1>1, <1>2, Answered

\* Loading settles all but the credentials.
LEMMA LoadsMeet ==
  ASSUME vault \in Window!Rows, NEW q \in Seq(Replies), NEW s \in Views, NEW e \in Views,
         Makes(q, s, e), e.store.creds = vault.creds
  PROVE  /\ q \o Window!LoadReplies \in Seq(Replies)
         /\ \E t \in Views : Makes(q \o Window!LoadReplies, s, t) /\ t.store = vault /\ t.twice = {}
<1> DEFINE a == Window!Reply("hosts.list", None, vault.hosts)
           b == Window!Reply("groups.list", None, vault.groups)
<1>1. vault.hosts \in HostMap /\ vault.groups \in SUBSET GroupId /\ vault.creds \in SUBSET CredId
  BY DEF Window!Rows, HostMap, OneRow
<1>2. a \in Replies
  BY <1>1, ListReply DEF Window!Reply
<1>3. b \in Replies
  BY <1>1, ListReply DEF Window!Reply
<1>4. Window!LoadReplies = <<a, b>>
  BY DEF Window!LoadReplies
<1> DEFINE y == After(a, e)
           z == After(b, y)
<1>5. y \in Views /\ y.store = e.store /\ y.got = vault.hosts
  BY <1>2, AfterTyped DEF After, Window!Reply
<1>6. z \in Views
  BY <1>3, <1>5, AfterTyped
<1>7. z.twice = {} /\ z.store = [y.store EXCEPT !.hosts = y.got, !.groups = vault.groups]
  BY DEF After, Window!Reply
<1> HIDE DEF a, b, y, z
<1>8. z.store = vault
  <2>1. y.store \in Window!Rows /\ y.store.creds = vault.creds
    BY <1>5 DEF Views
  <2>2. z.store = [hosts |-> vault.hosts, groups |-> vault.groups, creds |-> vault.creds]
    BY <1>5, <1>7, <2>1 DEF Window!Rows
  <2> QED BY <2>2 DEF Window!Rows
<1>9. q \o <<a, b>> = Append(Append(q, a), b) /\ Append(q, a) \in Seq(Replies) /\ q \o <<a, b>> \in Seq(Replies)
  BY <1>2, <1>3
<1>10. Makes(Append(q, a), s, y)
  BY <1>2, MakesMore DEF y
<1>11. Makes(Append(Append(q, a), b), s, z)
  BY <1>3, <1>9, <1>10, MakesMore DEF z
<1> QED BY <1>4, <1>6, <1>7, <1>8, <1>9, <1>11

Ok(o, i, w) == [op |-> o, id |-> i, row |-> w, prev |-> None, ok |-> TRUE]
No(o, i, w) == [op |-> o, id |-> i, row |-> w, prev |-> None, ok |-> FALSE]

\* A call that is not a move: as the vault does it, or rejected.
LEMMA CallIs ==
  ASSUME NEW o, NEW i, NEW w, NEW v, NEW may, Window!Call(v, may, Window!Reply(o, i, w))
  PROVE  \/ may /\ vault' = v /\ replies' = Append(replies, Ok(o, i, w))
         \/ vault' = vault /\ replies' = Append(replies, No(o, i, w))
<1>1. Window!Reply(o, i, w) = Ok(o, i, w)
  BY DEF Window!Reply, Ok
<1>2. [Ok(o, i, w) EXCEPT !.ok = FALSE] = No(o, i, w)
  <2>1. PICK t : t = TRUE
    OBVIOUS
  <2>2. PICK u : u = FALSE
    OBVIOUS
  <2>3. [[op |-> o, id |-> i, row |-> w, prev |-> None, ok |-> t] EXCEPT !.ok = u]
          = [op |-> o, id |-> i, row |-> w, prev |-> None, ok |-> u]
    OBVIOUS
  <2> QED BY <2>1, <2>2, <2>3 DEF Ok, No
<1> QED BY <1>1, <1>2 DEF Window!Call

LEMMA HostsCall ==
  ASSUME WindowInv, NEW row \in OneRow, Window!createHost(h1, row) \/ Window!updateHost(h1, row) \/ Window!deleteHost(h1)
  PROVE  WindowInv'
<1> DEFINE m == vault.hosts
<1>1. /\ vault \in Window!Rows /\ m \in HostMap /\ vault.groups \in SUBSET GroupId /\ vault.creds \in SUBSET CredId
      /\ UNCHANGED <<store, got, twice>>
  BY DEF WindowInv, Window!Rows, HostMap, OneRow, Window!createHost, Window!updateHost, Window!deleteHost
<1>2. PICK o \in {"create", "update", "remove"}, w \in OneRow \cup {None} :
        /\ o # "remove" => w \in OneRow
        /\ o = "remove" => w = None
        /\ \/ /\ vault' = [vault EXCEPT !.hosts[h1] = w] /\ replies' = Append(replies, Ok(o, h1, w))
              /\ o = "create" => m[h1] = None
              /\ o = "update" => m[h1] # None
           \/ vault' = vault /\ replies' = Append(replies, No(o, h1, w))
  <2>1. CASE Window!createHost(h1, row)
    <3>1. Window!Call([vault EXCEPT !.hosts[h1] = row], Window!InVault(row), Window!Reply("create", h1, row))
      BY <2>1 DEF Window!createHost
    <3>2. \/ /\ Window!InVault(row)
             /\ vault' = [vault EXCEPT !.hosts[h1] = row] /\ replies' = Append(replies, Ok("create", h1, row))
          \/ vault' = vault /\ replies' = Append(replies, No("create", h1, row))
      BY <3>1, CallIs
    <3> QED BY <2>1, <3>2 DEF Window!createHost
  <2>2. CASE Window!updateHost(h1, row)
    <3>1. Window!Call([vault EXCEPT !.hosts[h1] = row], vault.hosts[h1] # None /\ Window!InVault(row), Window!Reply("update", h1, row))
      BY <2>2 DEF Window!updateHost
    <3>2. \/ /\ vault.hosts[h1] # None /\ Window!InVault(row)
             /\ vault' = [vault EXCEPT !.hosts[h1] = row] /\ replies' = Append(replies, Ok("update", h1, row))
          \/ vault' = vault /\ replies' = Append(replies, No("update", h1, row))
      BY <3>1, CallIs
    <3> QED BY <2>2, <3>2 DEF Window!updateHost
  <2>3. CASE Window!deleteHost(h1)
    <3>1. Window!Call([vault EXCEPT !.hosts[h1] = None], TRUE, Window!Reply("remove", h1, None))
      BY <2>3 DEF Window!deleteHost
    <3>2. \/ /\ TRUE
             /\ vault' = [vault EXCEPT !.hosts[h1] = None] /\ replies' = Append(replies, Ok("remove", h1, None))
          \/ vault' = vault /\ replies' = Append(replies, No("remove", h1, None))
      BY <3>1, CallIs
    <3> QED BY <2>3, <3>2 DEF Window!deleteHost
  <2> QED BY <2>1, <2>2, <2>3
<1>3. Ok(o, h1, w) \in Replies /\ No(o, h1, w) \in Replies
  <2>1. Fits(Ok(o, h1, w)) /\ Fits(No(o, h1, w))
    BY <1>2 DEF Fits, Ok, No
  <2>2. w \in Anything /\ h1 \in Anything /\ None \in Anything /\ o \in Ops
    BY AnythingIs DEF Ops
  <2> QED BY <2>1, <2>2, ReplyIs DEF Ok, No
<1>4. CASE /\ vault' = [vault EXCEPT !.hosts[h1] = w] /\ replies' = Append(replies, Ok(o, h1, w))
           /\ o = "create" => m[h1] = None
           /\ o = "update" => m[h1] # None
  <2>1. vault' \in Window!Rows /\ vault'.creds = vault.creds
    BY <1>1, <1>4 DEF Window!Rows, HostMap, OneRow
  <2>2. ASSUME NEW e \in Views PROVE After(Ok(o, h1, w), e).store.creds = e.store.creds
    BY <2>2 DEF After, Ok, Views, Window!Rows
  <2>3. ASSUME NEW e \in Views, e.store = vault, e.twice = {}
        PROVE After(Ok(o, h1, w), e).store = vault' /\ After(Ok(o, h1, w), e).twice = {}
    BY <1>2, <1>4, <2>3 DEF After, Ok
  <2> QED BY <1>1, <1>3, <1>4, <2>1, <2>2, <2>3, Answered
<1>5. CASE vault' = vault /\ replies' = Append(replies, No(o, h1, w))
  BY <1>1, <1>3, <1>5, Rejected DEF No
<1> QED BY <1>2, <1>4, <1>5

LEMMA GroupsCall ==
  ASSUME WindowInv, NEW g \in GroupId, Window!createGroup(g) \/ Window!deleteGroup(g)
  PROVE  WindowInv'
<1>1. /\ vault \in Window!Rows /\ vault.hosts \in HostMap /\ vault.groups \in SUBSET GroupId
      /\ vault.creds \in SUBSET CredId /\ UNCHANGED <<store, got, twice>>
  BY DEF WindowInv, Window!Rows, HostMap, OneRow, Window!createGroup, Window!deleteGroup
<1>2. PICK o \in {"group", "ungroup"} :
        \/ /\ replies' = Append(replies, Ok(o, g, None))
           /\ o = "group" => vault' = [vault EXCEPT !.groups = @ \cup {g}]
           /\ o = "ungroup" => vault' = Window!WithoutGroup(g)
        \/ vault' = vault /\ replies' = Append(replies, No(o, g, None))
  <2>1. CASE Window!createGroup(g)
    BY <2>1, CallIs DEF Window!createGroup
  <2>2. CASE Window!deleteGroup(g)
    BY <2>2, CallIs DEF Window!deleteGroup
  <2> QED BY <2>1, <2>2
<1>3. Ok(o, g, None) \in Replies /\ No(o, g, None) \in Replies
  <2>1. Fits(Ok(o, g, None)) /\ Fits(No(o, g, None))
    BY <1>2 DEF Fits, Ok, No
  <2>2. g \in Anything /\ None \in Anything /\ o \in Ops
    BY AnythingIs DEF Ops
  <2> QED BY <2>1, <2>2, ReplyIs DEF Ok, No
<1>4. CASE /\ replies' = Append(replies, Ok(o, g, None))
           /\ o = "group" => vault' = [vault EXCEPT !.groups = @ \cup {g}]
           /\ o = "ungroup" => vault' = Window!WithoutGroup(g)
  <2>1. CASE o = "group"
    <3>1. vault' \in Window!Rows /\ vault'.creds = vault.creds
      BY <1>1, <1>4, <2>1 DEF Window!Rows, HostMap, OneRow
    <3>2. \A e \in Views : After(Ok(o, g, None), e).store.creds = e.store.creds
      BY <2>1 DEF After, Ok, Views, Window!Rows
    <3>3. \A e \in Views : e.store = vault /\ e.twice = {} =>
            After(Ok(o, g, None), e).store = vault' /\ After(Ok(o, g, None), e).twice = {}
      BY <1>4, <2>1 DEF After, Ok
    <3> QED BY <1>1, <1>3, <1>4, <3>1, <3>2, <3>3, Answered
  <2>2. CASE o = "ungroup"
    <3>1. vault' \in Window!Rows /\ vault'.creds = vault.creds
      <4> DEFINE M == [h \in {h1} |-> IF vault.hosts[h] # None /\ vault.hosts[h].group = g
                                     THEN [vault.hosts[h] EXCEPT !.group = None] ELSE vault.hosts[h]]
      <4>1. M \in HostMap
        BY <1>1 DEF HostMap, OneRow
      <4>2. vault' = [vault EXCEPT !.groups = vault.groups \ {g}, !.hosts = M]
        BY <1>4, <2>2 DEF Window!WithoutGroup
      <4> HIDE DEF M
      <4>3. vault' = [hosts |-> M, groups |-> vault.groups \ {g}, creds |-> vault.creds]
        BY <1>1, <4>2 DEF Window!Rows
      <4> QED BY <1>1, <4>1, <4>3 DEF Window!Rows, HostMap, OneRow
    <3>2. \A e \in Views : After(Ok(o, g, None), e).store.creds = e.store.creds
      BY <2>2 DEF After, Ok, Views, Window!Rows
    <3>3. Reloads(Ok(o, g, None))
      BY <2>2 DEF Reloads, Ok
    <3> QED BY <1>1, <1>3, <1>4, <3>1, <3>2, <3>3, Answered
  <2> QED BY <2>1, <2>2
<1>5. CASE vault' = vault /\ replies' = Append(replies, No(o, g, None))
  BY <1>1, <1>3, <1>5, Rejected DEF No
<1> QED BY <1>2, <1>4, <1>5

LEMMA CredsCall ==
  ASSUME WindowInv, NEW c \in CredId, Window!createCredential(c) \/ Window!deleteCredential(c)
  PROVE  WindowInv'
<1>1. /\ vault \in Window!Rows /\ vault.hosts \in HostMap /\ vault.groups \in SUBSET GroupId
      /\ vault.creds \in SUBSET CredId /\ UNCHANGED <<store, got, twice>>
  BY DEF WindowInv, Window!Rows, HostMap, OneRow, Window!createCredential, Window!deleteCredential
<1>2. PICK o \in {"cred", "uncred"} :
        \/ /\ replies' = Append(replies, Ok(o, c, None))
           /\ o = "cred" => vault' = [vault EXCEPT !.creds = @ \cup {c}]
           /\ o = "uncred" => vault' = Window!WithoutCred(c)
        \/ vault' = vault /\ replies' = Append(replies, No(o, c, None))
  <2>1. CASE Window!createCredential(c)
    BY <2>1, CallIs DEF Window!createCredential
  <2>2. CASE Window!deleteCredential(c)
    BY <2>2, CallIs DEF Window!deleteCredential
  <2> QED BY <2>1, <2>2
<1>3. Ok(o, c, None) \in Replies /\ No(o, c, None) \in Replies
  <2>1. Fits(Ok(o, c, None)) /\ Fits(No(o, c, None))
    BY <1>2 DEF Fits, Ok, No
  <2>2. c \in Anything /\ None \in Anything /\ o \in Ops
    BY AnythingIs DEF Ops
  <2> QED BY <2>1, <2>2, ReplyIs DEF Ok, No
<1>4. CASE /\ replies' = Append(replies, Ok(o, c, None))
           /\ o = "cred" => vault' = [vault EXCEPT !.creds = @ \cup {c}]
           /\ o = "uncred" => vault' = Window!WithoutCred(c)
  <2>1. CASE o = "cred"
    <3>1. vault' \in Window!Rows /\ vault'.creds = vault.creds \cup {c}
      BY <1>1, <1>4, <2>1 DEF Window!Rows, HostMap, OneRow
    <3>2. \A e \in Views : After(Ok(o, c, None), e).store.creds = e.store.creds \cup {c}
      BY <2>1 DEF After, Ok, Views, Window!Rows
    <3>3. \A e \in Views : e.store = vault /\ e.twice = {} =>
            After(Ok(o, c, None), e).store = vault' /\ After(Ok(o, c, None), e).twice = {}
      BY <1>4, <2>1 DEF After, Ok
    <3> QED BY <1>1, <1>3, <1>4, <3>1, <3>2, <3>3, Answered
  <2>2. CASE o = "uncred"
    <3>1. vault' \in Window!Rows /\ vault'.creds = vault.creds \ {c}
      <4> DEFINE M == [h \in {h1} |-> IF vault.hosts[h] # None /\ vault.hosts[h].cred = c
                                     THEN [vault.hosts[h] EXCEPT !.cred = None] ELSE vault.hosts[h]]
      <4>1. M \in HostMap
        BY <1>1 DEF HostMap, OneRow
      <4>2. vault' = [vault EXCEPT !.creds = vault.creds \ {c}, !.hosts = M]
        BY <1>4, <2>2 DEF Window!WithoutCred
      <4> HIDE DEF M
      <4>3. vault' = [hosts |-> M, groups |-> vault.groups, creds |-> vault.creds \ {c}]
        BY <1>1, <4>2 DEF Window!Rows
      <4> QED BY <1>1, <4>1, <4>3 DEF Window!Rows, HostMap, OneRow
    <3>2. \A e \in Views : After(Ok(o, c, None), e).store.creds = e.store.creds \ {c}
      BY <2>2 DEF After, Ok, Views, Window!Rows
    <3>3. Reloads(Ok(o, c, None))
      BY <2>2 DEF Reloads, Ok
    <3> QED BY <1>1, <1>3, <1>4, <3>1, <3>2, <3>3, Answered
  <2> QED BY <2>1, <2>2
<1>5. CASE vault' = vault /\ replies' = Append(replies, No(o, c, None))
  BY <1>1, <1>3, <1>5, Rejected DEF No
<1> QED BY <1>2, <1>4, <1>5

LEMMA Loads == ASSUME WindowInv, Window!loadAll \/ Window!loadCredentials PROVE WindowInv'
<1>1. UNCHANGED <<vault, store, got, twice>> /\ View' = View /\ View \in Views /\ vault \in Window!Rows
  BY DEF Window!loadAll, Window!loadCredentials, View, WindowInv
<1>2. CASE Window!loadAll
  <2>1. PICK e \in Views : Makes(replies, View, e) /\ e.store.creds = vault.creds
    BY DEF WindowInv
  <2>2. /\ replies \o Window!LoadReplies \in Seq(Replies)
        /\ \E t \in Views : Makes(replies \o Window!LoadReplies, View, t) /\ t.store = vault /\ t.twice = {}
    BY <1>1, <2>1, LoadsMeet DEF WindowInv
  <2>3. PICK t \in Views : Makes(replies \o Window!LoadReplies, View, t) /\ t.store = vault /\ t.twice = {}
    BY <2>2
  <2>4. Makes(replies', View', t)
    BY <1>1, <1>2, <2>3 DEF Window!loadAll
  <2>5. replies' \in Seq(Replies)
    BY <1>2, <2>2 DEF Window!loadAll
  <2> QED BY <1>1, <2>3, <2>4, <2>5 DEF WindowInv
<1>3. CASE Window!loadCredentials
  <2>1. vault.creds \in SUBSET CredId
    BY <1>1 DEF Window!Rows
  <2>2. PICK C \in SUBSET CredId : C = vault.creds
    BY <2>1
  <2>3. PICK r \in Replies : r = Ok("creds.list", None, C)
    BY ListReply DEF Ok
  <2>4. replies' = Append(replies, r)
    BY <1>3, <2>2, <2>3 DEF Window!loadCredentials, Window!Reply, Ok
  <2>5. \A e \in Views : After(r, e).store = [e.store EXCEPT !.creds = C] /\ After(r, e).twice = e.twice
    BY <2>3 DEF After, Ok
  <2>6. \A e \in Views : After(r, e).store.creds = C
    BY <2>5 DEF Views, Window!Rows
  <2>7. \A e \in Views : e.store = vault => [e.store EXCEPT !.creds = C] = vault
    BY <1>1, <2>2 DEF Window!Rows
  <2> QED BY <1>1, <2>2, <2>4, <2>5, <2>6, <2>7, Answered
<1> QED BY <1>2, <1>3

\* A drag starts in a quiet window.
LEMMA Moves ==
  ASSUME WindowInv, ~Hasty, NEW g \in GroupId \cup {None}, Window!setHostGroup(h1, g) PROVE WindowInv'
<1>1. replies = <<>> /\ vault \in Window!Rows /\ View \in Views /\ got' = got /\ twice' = twice
  BY DEF Window!setHostGroup, WindowInv
<1>2. store = vault /\ twice = {}
  BY <1>1, WindowShows DEF Window!QuietStoreIsVault
<1> DEFINE x == vault.hosts[h1]
           w == [x EXCEPT !.group = g]
           v == [vault EXCEPT !.hosts[h1] = w]
<1>3. vault.hosts \in HostMap /\ x \in OneRow /\ x # None
  BY <1>1, <1>2 DEF Window!setHostGroup, Window!Shown, Window!Rows, HostMap, OneRow
<1>4. w \in OneRow /\ store' = [vault EXCEPT !.hosts[h1].group = g]
  BY <1>2, <1>3 DEF OneRow, Window!setHostGroup
<1>5. store' = v /\ v \in Window!Rows /\ v.creds = vault.creds /\ v.hosts[h1] = w
  BY <1>1, <1>3, <1>4 DEF Window!Rows, HostMap, OneRow
<1>6. w # None /\ v = [hosts |-> [vault.hosts EXCEPT ![h1] = w], groups |-> vault.groups, creds |-> vault.creds]
  BY <1>1, <1>3, <1>4, VaultAssumption DEF Window!Rows, OneRow
<1>7. [v EXCEPT !.hosts[h1].group = x.group] = vault
  <2>1. w = [group |-> g, cred |-> x.cred] /\ [w EXCEPT !.group = x.group] = x
    <3>1. x \in OneRow
      BY <1>3
    <3> HIDE DEF x
    <3>2. w = [group |-> g, cred |-> x.cred]
      BY <3>1 DEF OneRow
    <3>3. x = [group |-> x.group, cred |-> x.cred]
      BY <3>1 DEF OneRow
    <3>4. [[group |-> g, cred |-> x.cred] EXCEPT !.group = x.group] = [group |-> x.group, cred |-> x.cred]
      OBVIOUS
    <3> QED BY <3>2, <3>3, <3>4
  <2>2. [[vault.hosts EXCEPT ![h1] = w] EXCEPT ![h1].group = x.group] = vault.hosts
    BY <1>3, <2>1 DEF HostMap
  <2> HIDE DEF w, v
  <2>3. [v EXCEPT !.hosts[h1].group = x.group] = [hosts |-> vault.hosts, groups |-> vault.groups, creds |-> vault.creds]
    BY <1>6, <2>2
  <2> QED BY <1>1, <2>3 DEF Window!Rows
<1> DEFINE Move(k) == [op |-> "move", id |-> h1, row |-> w, prev |-> x.group, ok |-> k]
<1>8. \/ vault' = v /\ replies' = Append(replies, Move(TRUE))
      \/ vault' = vault /\ replies' = Append(replies, Move(FALSE))
  <2> DEFINE q == [Window!Reply("move", h1, w) EXCEPT !.prev = store.hosts[h1].group]
  <2>1. q = Move(TRUE)
    <3>1. PICK t : t = TRUE
      OBVIOUS
    <3> HIDE DEF w, x
    <3>2. [[op |-> "move", id |-> h1, row |-> w, prev |-> None, ok |-> t] EXCEPT !.prev = x.group] = Move(t)
      OBVIOUS
    <3> QED BY <1>2, <3>1, <3>2 DEF Window!Reply, x
  <2>2. [Move(TRUE) EXCEPT !.ok = FALSE] = Move(FALSE)
    <3>1. PICK t : t = TRUE
      OBVIOUS
    <3>2. PICK u : u = FALSE
      OBVIOUS
    <3>3. [Move(t) EXCEPT !.ok = u] = Move(u)
      OBVIOUS
    <3> QED BY <3>1, <3>2, <3>3
  <2>3. Window!Call(v, vault.hosts[h1] # None /\ g \in vault.groups \cup {None}, q)
    BY <1>3 DEF Window!setHostGroup
  <2> HIDE DEF q, Move, v
  <2> QED BY <2>1, <2>2, <2>3 DEF Window!Call
<1>9. \A k \in BOOLEAN : Move(k) \in Replies
  <2>1. x.group \in GroupId \cup {None}
    BY <1>3 DEF OneRow
  <2>2. w \in Anything /\ h1 \in Anything /\ x.group \in Anything /\ "move" \in Ops
    BY <1>4, <2>1, AnythingIs DEF Ops
  <2> HIDE DEF w, x
  <2>3. \A k \in BOOLEAN : Fits(Move(k))
    BY <1>4, <2>1 DEF Fits
  <2> QED BY <2>2, <2>3, ReplyIs
<1> HIDE DEF v, w, x
<1>10. View' \in Views /\ View'.store = v /\ View'.twice = {}
  BY <1>1, <1>2, <1>5 DEF View, Views
<1>11. PICK b \in Views : b = View'
  BY <1>10
<1>12. Makes(<<>>, b, b)
  BY MakesNothing
<1>13. After(Move(TRUE), b).store = v /\ After(Move(TRUE), b).twice = {}
  <2>1. b.store = v /\ b.twice = {} /\ v.hosts[h1] # None /\ [v EXCEPT !.hosts[h1] = w] = v
    BY <1>5, <1>6, <1>10, <1>11
  <2> QED BY <2>1 DEF After
<1>14. After(Move(FALSE), b).store = vault /\ After(Move(FALSE), b).twice = {}
  <2>1. b.store = v /\ b.twice = {} /\ v.hosts[h1] # None
    BY <1>5, <1>6, <1>10, <1>11
  <2> QED BY <1>7, <2>1 DEF After
<1>15. PICK r \in Replies, z \in Window!Rows :
         replies' = Append(<<>>, r) /\ vault' = z /\ After(r, b).store = z /\ After(r, b).twice = {}
  BY <1>1, <1>5, <1>8, <1>9, <1>13, <1>14
<1>16. Makes(Append(<<>>, r), b, After(r, b)) /\ After(r, b) \in Views
  <2>1. <<>> \in Seq(Replies)
    OBVIOUS
  <2> QED BY <1>12, <2>1, MakesMore, AfterTyped
<1>17. Makes(replies', View', After(r, b)) /\ After(r, b).store.creds = vault'.creds
  BY <1>11, <1>15, <1>16
<1>18. replies' \in Seq(Replies)
  BY <1>15
<1> QED BY <1>10, <1>15, <1>16, <1>17, <1>18 DEF WindowInv

\* The first reply arrives: one link less of the chain.
LEMMA Arrives == ASSUME WindowInv, Window!Applied PROVE WindowInv'
<1>1. /\ replies # <<>> /\ replies \in Seq(Replies) /\ vault' = vault /\ vault \in Window!Rows
      /\ View \in Views
  BY DEF Window!Applied, WindowInv
<1>2. PICK e \in Views : /\ Makes(replies, View, e) /\ e.store.creds = vault.creds
                         /\ Awaited \/ (e.store = vault /\ e.twice = {})
  BY DEF WindowInv
<1>3. PICK r \in Replies : r = Head(replies)
  <2>1. \A S : \A u \in Seq(S) : u # <<>> => Head(u) \in S
    OBVIOUS
  <2> QED BY <1>1, <2>1
<1>4. PICK q \in Seq(Replies) : q = Tail(replies)
  <2>1. \A S : \A u \in Seq(S) : u # <<>> => Tail(u) \in Seq(S)
    OBVIOUS
  <2> QED BY <1>1, <2>1
<1>5. Window!Replied(r) /\ replies' = IF Reloads(r) THEN q \o Window!LoadReplies ELSE q
  BY <1>3, <1>4 DEF Window!Applied, Reloads
<1>6. PICK s \in Views : s = After(r, View)
  BY <1>1, AfterTyped
<1>7. View' = s
  BY <1>5, <1>6, RepliedIs
<1>8. Makes(q, s, e)
  BY <1>1, <1>2, <1>3, <1>4, <1>6, MakesRest
<1>9. CASE Reloads(r)
  <2>1. PICK z \in Views : Makes(q \o Window!LoadReplies, s, z) /\ z.store = vault /\ z.twice = {}
    BY <1>1, <1>2, <1>8, LoadsMeet
  <2>2. q \o Window!LoadReplies \in Seq(Replies)
    BY <1>1, <1>2, <1>8, LoadsMeet
  <2>3. PICK y \in Seq(Replies) : y = q \o Window!LoadReplies
    BY <2>2
  <2>4. replies' = y /\ Makes(y, s, z)
    BY <1>5, <1>9, <2>1, <2>3
  <2>5. Makes(replies', View', z)
    BY <1>7, <2>4
  <2> QED BY <1>1, <1>7, <2>1, <2>4, <2>5 DEF WindowInv
<1>10. CASE ~Reloads(r)
  <2>1. replies' = q
    BY <1>5, <1>10
  <2>2. Awaited => Awaited'
    <3>1. ASSUME NEW i \in DOMAIN replies, Reloads(replies[i]) PROVE Awaited'
      <4>1. i # 1
        BY <1>1, <1>3, <1>10, <3>1
      <4>2. i - 1 \in DOMAIN q /\ q[i - 1] = replies[i]
        BY <1>1, <1>4, <4>1
      <4>3. PICK k \in DOMAIN q : Reloads(q[k])
        BY <3>1, <4>2
      <4> QED BY <2>1, <4>3 DEF Awaited
    <3> QED BY <3>1 DEF Awaited
  <2>3. Makes(replies', View', e)
    BY <1>7, <1>8, <2>1
  <2> QED BY <1>1, <1>2, <1>7, <2>1, <2>2, <2>3 DEF WindowInv
<1> QED BY <1>9, <1>10

LEMMA WindowNext == WindowInv /\ ~Hasty /\ Window!Next => WindowInv'
<1> SUFFICES ASSUME WindowInv, ~Hasty, Window!Next PROVE WindowInv'
  OBVIOUS
<1>1. Window!HostRow \subseteq OneRow /\ store.groups \subseteq GroupId
  <2>1. store \in Window!Rows
    BY DEF WindowInv, View, Views
  <2> QED BY <2>1 DEF Window!Rows, Window!HostRow, OneRow
<1>2. CASE Window!loadAll \/ Window!loadCredentials
  BY <1>2, Loads
<1>3. ASSUME NEW h \in {h1}, \/ \E row \in Window!HostRow : Window!createHost(h, row) \/ Window!updateHost(h, row)
                             \/ \E g \in store.groups \cup {None} : Window!setHostGroup(h, g)
                             \/ Window!deleteHost(h)
      PROVE  WindowInv'
  <2>1. h = h1
    OBVIOUS
  <2>2. \E row \in OneRow : TRUE
    <3>1. [group |-> None, cred |-> None] \in OneRow
      BY DEF OneRow
    <3> QED BY <3>1
  <2> QED BY <1>1, <1>3, <2>1, <2>2, HostsCall, Moves
<1>4. ASSUME NEW g \in GroupId, Window!createGroup(g) \/ Window!deleteGroup(g) PROVE WindowInv'
  BY <1>4, GroupsCall
<1>5. ASSUME NEW c \in CredId, Window!createCredential(c) \/ Window!deleteCredential(c) PROVE WindowInv'
  BY <1>5, CredsCall
<1>6. CASE Window!Applied
  BY <1>6, Arrives
<1> QED BY <1>2, <1>3, <1>4, <1>5, <1>6 DEF Window!Next

LEMMA WindowStays == ASSUME WindowInv, UNCHANGED window PROVE WindowInv'
<1>1. UNCHANGED <<vault, replies>> /\ View' = View
  BY DEF window, View
<1> QED BY <1>1 DEF WindowInv, Awaited

-----------------------------------------------------------------------------
(* The tree the window draws *)

LEMMA AllNumbers == ASSUME NEW B \in SUBSET Nat, 0 \in B, \A n \in B : n + 1 \in B PROVE B = Nat
<1> SUFFICES ASSUME NEW m \in Nat, m \notin B PROVE FALSE
  OBVIOUS
<1>1. IsWellFoundedOn(OpToRel(<, Nat), Nat)
  BY NatLessThanWellFounded
<1>2. PICK d \in Nat \ B : \A j \in Nat \ B : ~(<<j, d>> \in OpToRel(<, Nat))
  <2> DEFINE C == Nat \ B
  <2>1. C \subseteq Nat /\ C # {}
    OBVIOUS
  <2> HIDE DEF C
  <2>2. \E x \in C : \A y \in C : ~(<<y, x>> \in OpToRel(<, Nat))
    BY <1>1, <2>1, WFMin
  <2> QED BY <2>2 DEF C
<1>3. d # 0 /\ d - 1 \in Nat /\ d - 1 < d
  OBVIOUS
<1>4. d - 1 \notin Nat \ B
  BY <1>2, <1>3 DEF OpToRel
<1>5. d - 1 \in B /\ (d - 1) + 1 = d
  BY <1>3, <1>4
<1>6. (d - 1) + 1 \in B
  BY <1>5
<1> QED BY <1>2, <1>5, <1>6

Roots == {g \in groups : effectiveParent(g) = Top}
Under(S) == {g \in groups : effectiveParent(g) \in S}
Depth == Cardinality(Group)
IsTree(h, m) == h = [n \in 0 .. m |-> IF n = 0 THEN Roots ELSE Under(h[n - 1])]

LEMMA TreesAreThere == \A m \in Nat : \E h : IsTree(h, m)
<1> DEFINE B == {m \in Nat : \E h : IsTree(h, m)}
<1>1. 0 \in B
  <2> DEFINE h == [n \in 0 .. 0 |-> Roots]
  <2>1. IsTree(h, 0)
    BY DEF IsTree
  <2> QED BY <2>1
<1>2. ASSUME NEW m \in B PROVE m + 1 \in B
  <2>1. PICK h : IsTree(h, m)
    OBVIOUS
  <2> DEFINE k == [n \in 0 .. (m + 1) |-> IF n <= m THEN h[n] ELSE Under(h[m])]
  <2>2. ASSUME NEW n \in 0 .. (m + 1) PROVE k[n] = IF n = 0 THEN Roots ELSE Under(k[n - 1])
    <3>1. m \in Nat
      OBVIOUS
    <3>2. CASE n <= m
      <4>1. n \in 0 .. m /\ k[n] = h[n]
        BY <3>1, <3>2
      <4>2. h[n] = IF n = 0 THEN Roots ELSE Under(h[n - 1])
        BY <2>1, <4>1 DEF IsTree
      <4>3. n # 0 => k[n - 1] = h[n - 1]
        BY <3>1, <3>2
      <4> HIDE DEF k
      <4> QED BY <4>1, <4>2, <4>3
    <3>3. CASE n = m + 1
      <4>1. n # 0 /\ n - 1 = m /\ ~(n <= m)
        BY <3>1, <3>3
      <4>2. k[n] = Under(h[m]) /\ k[n - 1] = h[m]
        BY <3>1, <3>3, <4>1
      <4> HIDE DEF k
      <4> QED BY <4>1, <4>2
    <3> QED BY <3>1, <3>2, <3>3
  <2>3. k = [n \in 0 .. (m + 1) |-> k[n]]
    OBVIOUS
  <2> HIDE DEF k
  <2>4. IsTree(k, m + 1)
    BY <2>2, <2>3 DEF IsTree
  <2> QED BY <2>4
<1> HIDE DEF B
<1>3. B = Nat
  <2>1. B \in SUBSET Nat
    BY DEF B
  <2> QED BY <1>1, <1>2, <2>1, AllNumbers
<1> QED BY <1>3 DEF B

LEMMA TreeIs == IsTree(buildGroupTree, Depth)
<1>1. Depth \in Nat
  BY GroupsAssumption, FS_CardinalityType DEF Depth
<1>2. \E h : IsTree(h, Depth)
  BY <1>1, TreesAreThere
<1>3. buildGroupTree = CHOOSE h : IsTree(h, Depth)
  BY DEF buildGroupTree, IsTree, Roots, Under, Depth
<1> QED BY <1>2, <1>3

\* Every group is at one depth: what is above it is at the depth before, and a tree of as many
\* depths as there are groups, and one more, has an empty one.
LEMMA EachIsDrawn == TypeOK /\ ReferencesLive /\ Forest => TreeDrawsAll
<1> SUFFICES ASSUME TypeOK, ReferencesLive, Forest PROVE TreeDrawsAll
  OBVIOUS
<1> DEFINE N == Depth
           L == buildGroupTree
<1>1. N \in Nat /\ DOMAIN L = 0 .. N /\ \A n \in 0 .. N : L[n] = IF n = 0 THEN Roots ELSE Under(L[n - 1])
  <2>1. N \in Nat
    BY GroupsAssumption, FS_CardinalityType DEF Depth
  <2>2. L = [n \in 0 .. N |-> IF n = 0 THEN Roots ELSE Under(L[n - 1])]
    BY TreeIs DEF IsTree
  <2> HIDE DEF L, N
  <2> QED BY <2>1, <2>2
<1> HIDE DEF L, N
<1>2. \A n \in 0 .. N : L[n] \subseteq groups
  BY <1>1 DEF Roots, Under
<1>3. \A g \in Group : effectiveParent(g) = parent[g]
  BY DEF ReferencesLive, effectiveParent
<1>4. ASSUME NEW n \in Nat, NEW m \in Nat, n < m, m <= N, NEW g, g \in L[n], g \in L[m] PROVE FALSE
  <2> DEFINE B == {k \in Nat : \A i \in Nat : \A x : i > k /\ i <= N /\ x \in L[i] => x \notin L[k]}
  <2>1. 0 \in B
    <3> SUFFICES ASSUME NEW i \in Nat, NEW x, i > 0, i <= N, x \in L[i], x \in L[0] PROVE FALSE
      OBVIOUS
    <3>1. i \in 0 .. N /\ i - 1 \in 0 .. N /\ 0 \in 0 .. N /\ i # 0
      BY <1>1
    <3>2. x \in Roots /\ x \in Under(L[i - 1])
      BY <1>1, <3>1
    <3>3. Top \in groups
      BY <1>2, <3>1, <3>2 DEF Roots, Under
    <3> QED BY <3>3, GroupsAssumption DEF TypeOK
  <2>2. ASSUME NEW k \in B PROVE k + 1 \in B
    <3> SUFFICES ASSUME NEW i \in Nat, NEW x, i > k + 1, i <= N, x \in L[i], x \in L[k + 1] PROVE FALSE
      OBVIOUS
    <3>1. i \in 0 .. N /\ k + 1 \in 0 .. N /\ i # 0 /\ k + 1 # 0 /\ (k + 1) - 1 = k /\ i - 1 \in Nat
      BY <1>1
    <3>2. x \in Under(L[i - 1]) /\ x \in Under(L[k])
      BY <1>1, <3>1
    <3>3. effectiveParent(x) \in L[i - 1] /\ effectiveParent(x) \in L[k]
      BY <3>2 DEF Under
    <3> QED BY <1>1, <3>1, <3>3
  <2> HIDE DEF B
  <2>3. B = Nat
    <3>1. B \in SUBSET Nat
      BY DEF B
    <3> QED BY <2>1, <2>2, <3>1, AllNumbers
  <2> QED BY <1>4, <2>3 DEF B
<1>5. L[N] = {}
  <2> SUFFICES ASSUME NEW z, z \in L[N] PROVE FALSE
    OBVIOUS
  <2>1. \A n \in 0 .. N : L[n] # {}
    <3> DEFINE B == {k \in Nat : k <= N => L[N - k] # {}}
    <3>1. 0 \in B
      BY <1>1
    <3>2. ASSUME NEW k \in B PROVE k + 1 \in B
      <4> SUFFICES ASSUME k + 1 <= N PROVE L[N - (k + 1)] # {}
        OBVIOUS
      <4>1. k <= N /\ N - k \in 0 .. N /\ N - k # 0 /\ (N - k) - 1 = N - (k + 1)
        BY <1>1
      <4>2. PICK x : x \in L[N - k]
        BY <4>1
      <4>3. L[N - k] = Under(L[N - (k + 1)])
        BY <1>1, <4>1
      <4> QED BY <4>2, <4>3 DEF Under
    <3> HIDE DEF B
    <3>3. B = Nat
      <4>1. B \in SUBSET Nat
        BY DEF B
      <4> QED BY <3>1, <3>2, <4>1, AllNumbers
    <3>4. ASSUME NEW n \in 0 .. N PROVE L[n] # {}
      <4>1. N - n \in Nat /\ N - n <= N /\ N - (N - n) = n
        BY <1>1
      <4>2. N - n \in B
        BY <3>3, <4>1
      <4> QED BY <4>1, <4>2 DEF B
    <3> QED BY <3>4
  <2> DEFINE pick == [n \in 0 .. N |-> CHOOSE x : x \in L[n]]
  <2>2. \A n \in 0 .. N : pick[n] \in L[n]
    BY <2>1
  <2> HIDE DEF pick
  <2>3. \A n \in 0 .. N : pick[n] \in Group
    BY <1>2, <2>2 DEF TypeOK
  <2>4. pick \in [0 .. N -> Group]
    BY <2>3 DEF pick
  <2>5. IsFiniteSet(0 .. N) /\ Cardinality(0 .. N) = N + 1
    BY <1>1, FS_Interval
  <2>6. IsFiniteSet(Group) /\ Cardinality(Group) < Cardinality(0 .. N)
    BY <1>1, <2>5, GroupsAssumption DEF N, Depth
  <2>7. PICK n \in 0 .. N, m \in 0 .. N : n # m /\ pick[n] = pick[m]
    BY <2>4, <2>5, <2>6, FS_PigeonHole
  <2>8. n \in Nat /\ m \in Nat /\ n <= N /\ m <= N /\ (n < m \/ m < n)
    BY <1>1, <2>7
  <2> QED BY <1>4, <2>2, <2>7, <2>8
<1>6. ASSUME NEW g \in groups PROVE \E n \in 0 .. N : g \in L[n]
  <2> DEFINE U == {x \in groups : \A n \in 0 .. N : x \notin L[n]}
  <2> SUFFICES ASSUME U # {} PROVE FALSE
    OBVIOUS
  <2>1. PICK x \in U : parent[x] \notin U
    BY DEF Forest, TypeOK
  <2>2. x \in groups /\ x \in Group /\ effectiveParent(x) = parent[x] /\ parent[x] \in groups \cup {Top}
    BY <1>3 DEF TypeOK, ReferencesLive
  <2>3. CASE parent[x] = Top
    <3>1. 0 \in 0 .. N /\ x \in L[0]
      BY <1>1, <2>2, <2>3 DEF Roots
    <3> QED BY <3>1
  <2>4. CASE parent[x] \in groups
    <3>1. PICK n \in 0 .. N : parent[x] \in L[n]
      BY <2>1, <2>4
    <3>2. n < N
      BY <1>1, <1>5, <3>1
    <3>3. n + 1 \in 0 .. N /\ n + 1 # 0 /\ (n + 1) - 1 = n
      BY <1>1, <3>2
    <3>4. x \in L[n + 1]
      BY <1>1, <2>2, <3>1, <3>3 DEF Under
    <3> QED BY <3>3, <3>4
  <2> QED BY <2>2, <2>3, <2>4
<1>7. ASSUME NEW g \in groups PROVE Cardinality({n \in DOMAIN L : g \in L[n]}) = 1
  <2>1. PICK n \in 0 .. N : g \in L[n]
    BY <1>6
  <2>2. \A m \in 0 .. N : g \in L[m] => m = n
    <3> SUFFICES ASSUME NEW m \in 0 .. N, g \in L[m], m # n PROVE FALSE
      OBVIOUS
    <3>1. n \in Nat /\ m \in Nat /\ n <= N /\ m <= N /\ (n < m \/ m < n)
      BY <1>1
    <3> QED BY <1>4, <2>1, <3>1
  <2>3. {m \in DOMAIN L : g \in L[m]} = {n}
    BY <1>1, <2>1, <2>2
  <2> QED BY <2>3, FS_Singleton
<1> QED BY <1>7 DEF TreeDrawsAll, L

-----------------------------------------------------------------------------
(* The vault as a whole: a step of one part leaves the state of the others *)

VaultNext ==
  TreeStep \/ RowsStep \/ FormStep \/ DbStep \/ WindowStep \/ ImportStep \/ InheritStep \/ SyncStep
vaultVars == <<part, vars, rows, form, db, window, imports, inherit, sync>>

VaultInv ==
  /\ IInv /\ RowsInv /\ (part = "forms" => FormInv)
  /\ MigrateInv /\ Alone /\ Backed /\ SyncInv /\ (~Hasty => WindowInv)

LEMMA InitVault == PartInit => VaultInv
<1> SUFFICES ASSUME PartInit PROVE VaultInv
  OBVIOUS
<1>1. IInv /\ MigrateInv /\ Alone /\ Backed /\ SyncInv /\ WindowInv
  BY InitIInv, InitMigrate, InitBacked, InitSync, InitWindow DEF PartInit
<1>2. CASE part = "forms"
  <2>1. FormInv
    BY <1>2, InitForm DEF PartInit
  <2> QED BY <1>1, <2>1 DEF VaultInv, FormInv
<1>3. CASE part # "forms"
  <2>1. RowsInv
    BY <1>3, InitRows DEF PartInit
  <2> QED BY <1>1, <1>3, <2>1 DEF VaultInv
<1> QED BY <1>2, <1>3

LEMMA RowsStay == ASSUME RowsInv, UNCHANGED rows PROVE RowsInv'
BY DEF rows, RowsInv, Rows!TypeOK, Rows!ReferencesLive, Rows!NoMootSecret, CredsFit, Rows!HostRows, Rows!CredRows,
   Rows!Allowed, Rows!referencedCredentialType, Rows!CredAllows

LEMMA FormStays == ASSUME FormInv, UNCHANGED <<rows, form>> PROVE FormInv'
<1>1. UNCHANGED <<hosts, creds, tunnels, listed, dlg, about, f, save, dead, edits>>
  BY DEF rows, form
<1>2. FieldsInv'
  BY <1>1 DEF FormInv, FieldsInv, Lived, FieldsFit, Rows!CredRows, Rows!HostRows
<1> QED BY <1>1, <1>2, FieldsChange

LEMMA MigrateStays == ASSUME MigrateInv, Alone, Backed, UNCHANGED db PROVE (MigrateInv /\ Alone /\ Backed)'
BY DEF db, MigrateInv, DbTypes, Locked, Migrated, Copied, Alone, Backed, Kept, Db!Downgraded

LEMMA SyncStays == ASSUME SyncInv, UNCHANGED sync PROVE SyncInv'
<1>1. UNCHANGED <<meta, local, baseline, seen, remote, backup, faults, vaultEdits, synced, issued, overwritten>>
  BY DEF sync
<1>2. SyncTypes'
  BY <1>1 DEF SyncInv, SyncTypes
<1>3. StorageInv'
  BY <1>1 DEF SyncInv, StorageInv, Honest, Named
<1>4. \A d \in Device : DeviceInv(d)'
  BY <1>1, DeviceStays DEF SyncInv
<1> QED BY <1>1, <1>2, <1>3, <1>4 DEF SyncInv, Sync!NoSilentOverwrite, Sync!Reused

LEMMA VaultGoesOn == VaultInv /\ [VaultNext]_vaultVars => VaultInv'
<1> SUFFICES ASSUME VaultInv, [VaultNext]_vaultVars PROVE VaultInv'
  OBVIOUS
<1>1. part' = part
  BY DEF VaultNext, vaultVars, TreeStep, RowsStep, FormStep, DbStep, WindowStep, ImportStep, InheritStep, SyncStep
<1>2. IInv'
  <2>1. [Next]_vars
    BY DEF VaultNext, vaultVars, TreeStep, RowsStep, FormStep, DbStep, WindowStep, ImportStep, InheritStep, SyncStep
  <2> QED BY <2>1, NextIInv DEF VaultInv
<1>3. RowsInv' /\ (part = "forms" => FormInv')
  <2>1. CASE FormStep
    BY <2>1, FormNext DEF FormStep, VaultInv, FormInv
  <2>2. CASE RowsStep
    BY <2>2, RowsNext DEF RowsStep, VaultInv
  <2>3. CASE UNCHANGED <<rows, form>>
    BY <2>3, RowsStay, FormStays DEF VaultInv
  <2>4. FormStep \/ RowsStep \/ UNCHANGED <<rows, form>>
    BY DEF VaultNext, vaultVars, TreeStep, DbStep, WindowStep, ImportStep, InheritStep, SyncStep
  <2> QED BY <2>1, <2>2, <2>3, <2>4
<1>4. MigrateInv' /\ Alone' /\ Backed'
  <2>1. Db!Next \/ UNCHANGED db
    BY DEF VaultNext, vaultVars, TreeStep, RowsStep, FormStep, DbStep, WindowStep, ImportStep, InheritStep, SyncStep
  <2> QED BY <2>1, MigrateNext, AloneNext, BackedNext, MigrateStays DEF VaultInv
<1>5. SyncInv'
  <2>1. Sync!SyncNext \/ UNCHANGED sync
    BY DEF VaultNext, vaultVars, TreeStep, RowsStep, FormStep, DbStep, WindowStep, ImportStep, InheritStep, SyncStep
  <2> QED BY <2>1, SyncGoesOn, SyncStays DEF VaultInv
<1>6. ~Hasty => WindowInv'
  <2>1. Window!Next \/ UNCHANGED window
    BY DEF VaultNext, vaultVars, TreeStep, RowsStep, FormStep, DbStep, WindowStep, ImportStep, InheritStep, SyncStep
  <2> QED BY <2>1, WindowNext, WindowStays DEF VaultInv
<1> QED BY <1>1, <1>2, <1>3, <1>4, <1>5, <1>6 DEF VaultInv

LEMMA VaultHolds == VaultSpec => []VaultInv
<1>1. VaultSpec => PartInit /\ [][VaultNext]_vaultVars
  BY DEF VaultSpec, VaultNext, vaultVars
<1> QED BY <1>1, InitVault, VaultGoesOn, PTL

\* No group, host or tunnel ever names a row that is gone, whatever is deleted (groups.ts,
\* hosts.ts, credentials.ts).
THEOREM VaultNothingDangles == VaultSpec => []NothingDangles
<1>1. VaultInv => NothingDangles
  BY DEF VaultInv, IInv, RowsInv, NothingDangles
<1> QED BY <1>1, VaultHolds, PTL

\* A host never holds a secret it has no use for, no login is offered another's secret, and the
\* forms send what main accepts, the secrets it keeps, and keep none (hosts.ts, credentials.ts,
\* HostForm.tsx).
THEOREM VaultSecretsFit == VaultSpec => []SecretsFit
<1>1. VaultInv => SecretsFit
  BY LoginsFit, FormHolds DEF VaultInv, RowsInv, SecretsFit
<1> QED BY <1>1, VaultHolds, PTL

\* A handle is handed out on a migrated vault only (getSqlite).
THEOREM VaultOpenIsMigrated == VaultSpec => []OpenIsMigrated
<1>1. VaultInv => OpenIsMigrated
  BY MigrateShows DEF VaultInv, OpenIsMigrated
<1> QED BY <1>1, VaultHolds, PTL

\* No start, failure or crash loses a row, a rebuild has its snapshot or says that there is none
\* (db.ts), and of two devices none silently replaces what it has not seen, or shares a secret.
THEOREM VaultRowsKept == VaultSpec => RowsKept
<1> DEFINE Rowed ==
             file'.rows # file.rows =>
               \/ \E p \in Proc, r \in Row : Db!WriteRow(p, r)
               \/ \E v \in Db!Version : Db!Restore(v)
           Saved ==
             \A p \in Proc :
               pc[p] = "commit" /\ pc'[p] = "open" /\ file.rows # {} =>
                 p \in warned \cup shared \/ Db!Downgraded(p) \/ bak[version[p]].rows = file.rows
<1>1. VaultInv /\ [VaultNext]_vaultVars => [Rowed]_Db!vars /\ [Saved]_Db!vars
  <2> SUFFICES ASSUME VaultInv, [VaultNext]_vaultVars PROVE [Rowed]_Db!vars /\ [Saved]_Db!vars
    OBVIOUS
  <2>1. CASE UNCHANGED Db!vars
    BY <2>1
  <2>2. CASE Db!Next
    BY <2>2, RowsAreKept, RebuildIsBacked DEF VaultInv
  <2>3. Db!Next \/ UNCHANGED Db!vars
    BY DEF VaultNext, vaultVars, TreeStep, RowsStep, FormStep, DbStep, WindowStep, ImportStep, InheritStep, SyncStep,
       db, Db!vars
  <2> QED BY <2>1, <2>2, <2>3
<1>2. VaultInv => Sync!NoSilentOverwrite /\ Sync!SecretsAreOwn
  BY SyncShows DEF VaultInv
<1>3. VaultSpec => PartInit /\ [][VaultNext]_vaultVars
  BY DEF VaultSpec, VaultNext, vaultVars
<1>4. [][Rowed]_Db!vars => Db!RowsKept
  BY DEF Db!RowsKept
<1>5. [][Saved]_Db!vars => Db!RebuildHasBackup
  BY DEF Db!RebuildHasBackup
<1> QED BY <1>1, <1>2, <1>3, <1>4, <1>5, VaultHolds, PTL DEF RowsKept

\* With no reply on its way the window shows the rows of the vault, each host once, if no host is
\* dragged while a call is unanswered (hosts.ts 76); it draws every group at one depth, and
\* offers it the parents main accepts (group-tree.ts).
THEOREM VaultWindowShows == ASSUME ~Hasty PROVE VaultSpec => []WindowShowsVault
<1>1. VaultInv => WindowShowsVault
  BY WindowShows, EachIsDrawn, FormOffers DEF VaultInv, IInv, WindowShowsVault, QuietStoreIsVault
<1> QED BY <1>1, VaultHolds, PTL

=============================================================================
