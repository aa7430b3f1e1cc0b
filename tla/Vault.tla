-------------------------------- MODULE Vault --------------------------------
(***************************************************************************)
(* Hosts, shared credentials and saved tunnels in the vault, and the login *)
(* a connection resolves from them: src/src/main/store/hosts-repo.ts,      *)
(* credentials-repo.ts, tunnels-repo.ts and the input schemas of            *)
(* src/src/shared/ipc.ts.  Every handler is synchronous: one atomic step.  *)
(*                                                                         *)
(* A stored secret is known here by what its user entered it as, since no  *)
(* property tells two passwords of one purpose apart.                      *)
(***************************************************************************)
EXTENDS FiniteSets

CONSTANTS
  HostId, CredId, TunnelId,
  HostInputs,   \* the payloads of the host form, of HostInput
  CredInputs,   \* the payloads of the credential form, of CredInput
  None

Kind == {"ssh", "vnc", "rdp", "both"}
Auth == {"password", "key", "agent"}
Slot == {"password", "passphrase", "vncPassword", "rdpPassword"}

\* Full payloads; a secret may be given, cleared or left alone.
HostInput == [kind : Kind, auth : Auth, named : BOOLEAN, tunnelled : BOOLEAN,
              cred : CredId \cup {None}, given : SUBSET Slot, cleared : SUBSET Slot]
CredInput == [type : {"ssh", "vnc"}, auth : Auth, named : BOOLEAN,
              given : SUBSET {"password", "passphrase"},
              cleared : SUBSET {"password", "passphrase"}]

VARIABLES
  hosts,    \* the rows of hosts
  creds,    \* the rows of credentials
  tunnels   \* the host of each saved tunnel

vars == <<hosts, creds, tunnels>>

Init ==
  /\ hosts = [h \in HostId |-> None]
  /\ creds = [c \in CredId |-> None]
  /\ tunnels = [t \in TunnelId |-> None]

HostRows == {h \in HostId : hosts[h] # None}
CredRows == {c \in CredId : creds[c] # None}

\* hostInputSchema: an SSH or RDP host has a username or borrows one; only a host with
\* SSH tunnels.  The credential, if any, has a row (foreign key).
validHostInput(i) ==
  /\ i.kind # "vnc" /\ i.cred = None => i.named
  /\ i.kind \in {"vnc", "rdp"} => ~i.tunnelled
  /\ i.cred \in CredRows \cup {None}

referencedCredentialType(c) == IF c = None THEN None ELSE creds[c].type

\* allowsPassword, allowsPassphrase, allowsVncPassword and allowsRdpPassword: the secrets a
\* host may hold by its kind, its way to log in and the type of its credential.
Allowed(kind, auth, type) ==
  {s \in Slot :
     \/ s = "password" /\ type # "ssh" /\ kind # "vnc" /\ auth = "password"
     \/ s = "passphrase" /\ type # "ssh" /\ kind # "vnc" /\ auth = "key"
     \/ s = "vncPassword" /\ type # "vnc" /\ kind \notin {"ssh", "rdp"}
     \/ s = "rdpPassword" /\ kind = "rdp"}

\* A secret that is given replaces the stored one, else the clear flag drops it.
Kept(i, stored) == i.given \cup (stored \ i.cleared)

HostRow(i, stored) ==
  [kind |-> i.kind, auth |-> i.auth, named |-> i.named, cred |-> i.cred,
   secrets |-> Kept(i, stored)
               \cap Allowed(i.kind, i.auth, referencedCredentialType(i.cred))]

createHost(h, i) ==
  /\ hosts[h] = None /\ validHostInput(i)
  /\ hosts' = [hosts EXCEPT ![h] = HostRow(i, {})]
  /\ UNCHANGED <<creds, tunnels>>

updateHost_KeepsOld(h, i) ==   \* mutant: the rules are applied to new secrets only
  /\ hosts[h] # None /\ validHostInput(i)
  /\ hosts' = [hosts EXCEPT ![h] =
                 [HostRow(i, {}) EXCEPT !.secrets = @ \cup (hosts[h].secrets \ i.cleared)]]
  /\ UNCHANGED <<creds, tunnels>>
updateHost(h, i) ==
  /\ hosts[h] # None /\ validHostInput(i)
  /\ hosts' = [hosts EXCEPT ![h] = HostRow(i, hosts[h].secrets)]
  /\ UNCHANGED <<creds, tunnels>>

duplicateHost(h, copy) ==
  /\ hosts[h] # None /\ hosts[copy] = None
  /\ hosts' = [hosts EXCEPT ![copy] = hosts[h]]
  /\ UNCHANGED <<creds, tunnels>>

\* No foreign key cleans up tunnels: the same transaction does.
deleteHost_LeavesTunnels(h) ==   \* mutant: DELETE FROM hosts alone
  /\ hosts[h] # None
  /\ hosts' = [hosts EXCEPT ![h] = None]
  /\ UNCHANGED <<creds, tunnels>>
deleteHost(h) ==
  /\ hosts[h] # None
  /\ hosts' = [hosts EXCEPT ![h] = None]
  /\ tunnels' = [t \in TunnelId |-> IF tunnels[t] = h THEN None ELSE tunnels[t]]
  /\ UNCHANGED creds

\* A VNC credential has a password only, an SSH one the secret of its auth type.
CredAllows(i) ==
  IF i.type = "vnc" \/ i.auth = "password" THEN {"password"}
  ELSE IF i.auth = "key" THEN {"passphrase"} ELSE {}

CredRow(i, stored) ==
  [type |-> i.type, named |-> i.named,
   auth |-> IF i.type = "vnc" THEN "password" ELSE i.auth,
   secrets |-> {[what |-> s, as |-> i.type] : s \in i.given \cap CredAllows(i)}
               \cup {x \in stored : x.what \in CredAllows(i) \ (i.given \cup i.cleared)}]

\* The form of a VNC credential requires a username.
createCredential(c, i) ==
  /\ creds[c] = None /\ (i.type = "vnc" => i.named)
  /\ creds' = [creds EXCEPT ![c] = CredRow(i, {})]
  /\ UNCHANGED <<hosts, tunnels>>

\* The form edits a credential under the type it has.
updateCredential(c, i) ==
  /\ creds[c] # None /\ i.type = creds[c].type /\ (i.type = "vnc" => i.named)
  /\ creds' = [creds EXCEPT ![c] = CredRow(i, creds[c].secrets)]
  /\ UNCHANGED <<hosts, tunnels>>

deleteCredential(c) ==
  /\ creds[c] # None
  /\ creds' = [creds EXCEPT ![c] = None]
  /\ hosts' = [h \in HostId |-> IF hosts[h] # None /\ hosts[h].cred = c
                                THEN [hosts[h] EXCEPT !.cred = None] ELSE hosts[h]]
  /\ UNCHANGED tunnels

\* The dialog of a tunnel offers the hosts there are.
createTunnel(t, h) ==
  /\ tunnels[t] = None /\ h \in HostRows
  /\ tunnels' = [tunnels EXCEPT ![t] = h]
  /\ UNCHANGED <<hosts, creds>>
updateTunnel(t, h) ==
  /\ tunnels[t] # None /\ h \in HostRows
  /\ tunnels' = [tunnels EXCEPT ![t] = h]
  /\ UNCHANGED <<hosts, creds>>
deleteTunnel(t) ==
  /\ tunnels' = [tunnels EXCEPT ![t] = None]
  /\ UNCHANGED <<hosts, creds>>

Next ==
  \/ \E h \in HostId :
       \/ \E i \in HostInputs : createHost(h, i) \/ updateHost(h, i)
       \/ \E copy \in HostId : duplicateHost(h, copy)
       \/ deleteHost(h)
  \/ \E c \in CredId :
       \/ \E i \in CredInputs : createCredential(c, i) \/ updateCredential(c, i)
       \/ deleteCredential(c)
  \/ \E t \in TunnelId :
       \/ \E h \in HostId : createTunnel(t, h) \/ updateTunnel(t, h)
       \/ deleteTunnel(t)

Spec == Init /\ [][Next]_vars

-----------------------------------------------------------------------------
(* The login of a connection *)

\* What a secret of the host row was entered as
Entered(h, slot) ==
  {[what |-> slot, as |-> "ssh"] : s \in hosts[h].secrets \cap {slot}}

\* resolveHostAuth(): an SSH credential's login replaces the host's own.
resolveHostAuth(h) ==
  LET c == hosts[h].cred
  IN IF c # None /\ creds[c].type = "ssh"
     THEN [named |-> creds[c].named \/ hosts[h].named, auth |-> creds[c].auth,
           secrets |-> creds[c].secrets]
     ELSE [named |-> hosts[h].named, auth |-> hosts[h].auth,
           secrets |-> Entered(h, "password") \cup Entered(h, "passphrase")]

\* resolveHostVncAuth(): a VNC credential, else the host's own VNC password.
resolveHostVncAuth(h) ==
  LET c == hosts[h].cred
  IN IF c # None /\ creds[c].type = "vnc"
     THEN creds[c].secrets
     ELSE {[what |-> "password", as |-> "vnc"] : s \in hosts[h].secrets \cap {"vncPassword"}}

-----------------------------------------------------------------------------
(* Properties *)

HostRowType == [kind : Kind, auth : Auth, named : BOOLEAN, cred : CredId \cup {None},
                secrets : SUBSET Slot]
CredRowType == [type : {"ssh", "vnc"}, auth : Auth, named : BOOLEAN,
                secrets : SUBSET [what : {"password", "passphrase"}, as : {"ssh", "vnc"}]]

TypeOK ==
  /\ hosts \in [HostId -> HostRowType \cup {None}]
  /\ creds \in [CredId -> CredRowType \cup {None}]
  /\ tunnels \in [TunnelId -> HostId \cup {None}]

\* A host or a tunnel never names a row that was deleted (the foreign key of
\* credential_id; the transaction of deleteHost, hosts-repo.ts 324, for tunnels).
ReferencesLive ==
  /\ \A h \in HostRows : hosts[h].cred \in CredRows \cup {None}
  /\ \A t \in TunnelId : tunnels[t] \in HostRows \cup {None}

\* A host never keeps a secret for what it no longer is, or for a login its credential
\* replaces, through any series of edits of hosts and credentials (hosts-repo.ts 20-47).
NoMootSecret ==
  \A h \in HostRows :
    hosts[h].secrets \subseteq
      Allowed(hosts[h].kind, hosts[h].auth, referencedCredentialType(hosts[h].cred))

\* No SSH login offers a password entered for VNC and no VNC login one entered for SSH, and
\* the secret fits the way to log in (hosts-repo.ts 359, "never cross-use").
NeverCrossUsed ==
  \A h \in HostRows :
    /\ \A x \in resolveHostAuth(h).secrets :
         x.as = "ssh" /\ x.what = (IF resolveHostAuth(h).auth = "key" THEN "passphrase" ELSE "password")
    /\ \A x \in resolveHostVncAuth(h) : x.as = "vnc"
=============================================================================
