------------------------------ MODULE HostForm ------------------------------
(***************************************************************************)
(* The dialogs that edit the vault: the host form (HostFormDialog.tsx), the *)
(* credentials dialog over it (CredentialsDialog.tsx) and the duplicate     *)
(* dialog (DuplicateHostDialog.tsx), with the vault of main (Vault) behind  *)
(* them.  A text is known by whether it is blank, a port by whether it is   *)
(* in range.                                                                *)
(***************************************************************************)
EXTENDS Naturals, FiniteSets

CONSTANTS
  HostId, CredId, TunnelId, None,   \* as Vault has them
  HostInputs, CredInputs,   \* what the vault was filled from before
  FormHosts,   \* the hosts the dialogs are opened for
  Auths,       \* the ways to log in that are tried
  MaxEdits     \* bound on the changes of fields and credentials

VARIABLES
  hosts, creds, tunnels,   \* the vault; the window's copy of it follows at once
  listed,      \* has the window loaded its list of credentials?
  dlg,         \* the host form: "closed", "loading", "open"
  about,       \* the host it is bound to, None for a new one
  f,           \* its fields
  save,        \* the update of a submitted form that is not answered, None
  dead,        \* the credentials that were deleted: an id is not used again
  edits        \* what was changed so far

vault == <<hosts, creds, tunnels>>
vars == <<vault, listed, dlg, about, f, save, dead, edits>>

V == INSTANCE Vault

Blank == [kind |-> "ssh", auth |-> "password", tunnel |-> TRUE, cred |-> None,
          named |-> FALSE, port |-> TRUE, desktop |-> "blank", typed |-> {}, cleared |-> {}]

Init ==
  /\ creds \in [CredId -> {None} \cup {V!CredRow(i, {}) : i \in CredInputs}]
  /\ \E filled \in SUBSET FormHosts :
       \E i \in [filled -> {i \in HostInputs : V!validHostInput(i)}] :
         hosts = [h \in HostId |-> IF h \in filled THEN V!HostRow(i[h], {}) ELSE None]
  /\ tunnels = [t \in TunnelId |-> None] /\ listed = FALSE /\ dlg = "closed" /\ about = None
  /\ f = Blank /\ save = None /\ dead = {} /\ edits = 0

Room == edits < MaxEdits
Edited == edits' = edits + 1

-----------------------------------------------------------------------------
(* Reading the form *)

\* selectedCredential: looked up in the list the window has.
selectedType(c) == IF c = None \/ ~listed THEN None
                   ELSE IF creds[c] = None THEN None ELSE creds[c].type

\* The parts of the form that are drawn
SshShown == f.kind \in {"ssh", "both"}
VncShown == f.kind \in {"vnc", "both"}
PasswordShown == SshShown /\ f.cred = None /\ f.auth = "password"
PassphraseShown == SshShown /\ f.cred = None /\ f.auth = "key"
VncPasswordShown == VncShown /\ selectedType(f.cred) # "vnc"
RdpPasswordShown == f.kind = "rdp"
FieldShown(s) ==
  \/ s = "password" /\ PasswordShown
  \/ s = "passphrase" /\ PassphraseShown
  \/ s = "vncPassword" /\ VncPasswordShown
  \/ s = "rdpPassword" /\ RdpPasswordShown

\* The fields as the row has them; a mode the model does not keep is any, but a VNC-only
\* host is direct.
RowFields(h) ==
  IF h = None THEN {Blank}
  ELSE {[kind |-> hosts[h].kind, auth |-> hosts[h].auth, tunnel |-> t, cred |-> hosts[h].cred,
         named |-> hosts[h].named, port |-> TRUE, desktop |-> "blank",
         typed |-> {}, cleared |-> {}] :
          t \in IF hosts[h].kind = "vnc" THEN {FALSE} ELSE BOOLEAN}

-----------------------------------------------------------------------------
(* The host form *)

open(h) ==
  /\ dlg = "closed" /\ (h # None => hosts[h] # None)
  /\ dlg' = "loading" /\ about' = h
  /\ UNCHANGED <<vault, listed, f, save, dead, edits>>

\* The effect of [open, resolvedHost]: the list is loaded, or it is not, then the fields are
\* set.  Nothing is typed before that.
reset ==
  /\ dlg = "loading" /\ dlg' = "open"
  /\ listed' \in {listed, TRUE} /\ f' \in RowFields(about)
  /\ UNCHANGED <<vault, about, save, dead, edits>>

\* The hosts are read again: the row is a new object, and the effect runs again.
Rebind == dlg' = (IF dlg = "closed" \/ about = None THEN dlg ELSE "loading")

Close == dlg' = "closed" /\ about' = None /\ f' = [f EXCEPT !.typed = {}]

close == dlg # "closed" /\ Close /\ UNCHANGED <<vault, listed, save, dead, edits>>

Change(g) ==
  /\ dlg = "open" /\ Room /\ Edited /\ f' = g
  /\ UNCHANGED <<vault, listed, dlg, about, save, dead>>

Drop(g, S) == [g EXCEPT !.typed = @ \ S, !.cleared = @ \ S]
Ssh == {"password", "passphrase"}

handleKindChange(k) ==
  LET g == [f EXCEPT !.kind = k]
      Release(t) == IF selectedType(f.cred) = t THEN None ELSE f.cred
  IN Change(CASE k = "vnc" -> [Drop(g, Ssh \cup {"rdpPassword"})
                                 EXCEPT !.tunnel = FALSE, !.cred = Release("ssh")]
              [] k = "ssh" -> [Drop(g, {"vncPassword", "rdpPassword"}) EXCEPT !.cred = Release("vnc")]
              [] k = "rdp" -> [Drop(g, Ssh \cup {"vncPassword"}) EXCEPT !.cred = None]
              [] OTHER -> Drop(g, {"rdpPassword"}))

handleVncModeChange(tunnel) ==
  /\ VncShown /\ (tunnel => f.kind # "vnc")
  /\ Change([f EXCEPT !.tunnel = tunnel,
                      !.cred = IF tunnel /\ selectedType(@) = "vnc" THEN None ELSE @])

\* The two pickers offer the credentials of their type; the one of VNC in direct mode only.
Offers(t, c) == c # None => listed /\ creds[c] # None /\ creds[c].type = t
pickSshCredential(c) == SshShown /\ Offers("ssh", c) /\ Change([f EXCEPT !.cred = c])
pickVncCredential(c) ==
  VncShown /\ ~f.tunnel /\ Offers("vnc", c) /\ Change([f EXCEPT !.cred = c])

setAuthType(a) == SshShown /\ f.cred = None /\ Change([f EXCEPT !.auth = a])
setUsername == f.kind # "vnc" /\ Change([f EXCEPT !.named = ~@])
setPort == SshShown /\ Change([f EXCEPT !.port = ~@])
setDesktopPort(d) == f.kind # "ssh" /\ Change([f EXCEPT !.desktop = d])

typeSecret(s) == FieldShown(s) /\ s \notin f.cleared /\ Change([f EXCEPT !.typed = @ \cup {s}])
\* The box is there when the row has the secret; checking it empties the field.
clearSecret(s) ==
  /\ dlg = "open" /\ FieldShown(s) /\ about # None /\ s \in hosts[about].secrets
  /\ Change(IF s \in f.cleared THEN [f EXCEPT !.cleared = @ \ {s}]
            ELSE [f EXCEPT !.cleared = @ \cup {s}, !.typed = @ \ {s}])

\* validate(): the label and the address are taken as given.
validate ==
  /\ f.port
  /\ \/ f.kind = "vnc" \/ f.named
     \/ selectedType(f.cred) = "ssh" /\ creds[f.cred].named

\* The secrets that are sent: of the kind, and inline only without a credential of the type.
Sent ==
  {s \in V!Slot :
     \/ s = "vncPassword" /\ f.kind # "ssh" /\ selectedType(f.cred) # "vnc"
     \/ s = "password" /\ f.kind # "vnc" /\ selectedType(f.cred) # "ssh" /\ f.auth = "password"
     \/ s = "passphrase" /\ f.kind # "vnc" /\ selectedType(f.cred) # "ssh" /\ f.auth = "key"
     \/ s = "rdpPassword" /\ f.kind = "rdp"}

Input ==
  [kind |-> f.kind, auth |-> f.auth, named |-> f.named /\ f.kind # "vnc",
   tunnelled |-> f.tunnel /\ f.kind # "rdp", cred |-> f.cred,
   given |-> (f.typed \ f.cleared) \cap Sent, cleared |-> f.cleared \cap Sent]

\* The desktop port is not validated: a number out of range is main's to refuse.
handleSubmit ==
  /\ dlg = "open" /\ save = None /\ validate
  /\ save' = [host |-> about, input |-> Input, ranged |-> f.desktop # "over",
             knew |-> listed]
  /\ UNCHANGED <<vault, listed, dlg, about, f, dead, edits>>

Accepts(s) == s.ranged /\ V!validHostInput(s.input)

\* The answer closes the dialog, whichever host it shows by now.
Saved ==
  /\ save # None /\ Accepts(save) /\ save' = None
  /\ \E h \in FormHosts : IF save.host = None THEN V!createHost(h, save.input)
                          ELSE h = save.host /\ V!updateHost(h, save.input)
  /\ Close /\ UNCHANGED <<listed, dead, edits>>
Refused ==
  /\ save # None
  /\ Accepts(save) => save.host # None /\ hosts[save.host] = None
  /\ save' = None /\ UNCHANGED <<vault, listed, dlg, about, f, dead, edits>>

-----------------------------------------------------------------------------
(* The other dialogs *)

\* CredentialForm: what it sends for its type and its way to log in.
CredForm ==
  {[type |-> t, auth |-> a, named |-> n, given |-> g, cleared |-> {}] :
     t \in {"ssh", "vnc"}, a \in Auths, n \in BOOLEAN, g \in SUBSET {"password", "passphrase"}}
CredSent(i) ==
  /\ i.type = "vnc" => i.auth = "password" /\ i.named
  /\ i.given \subseteq (IF i.auth = "password" THEN {"password"}
                        ELSE IF i.auth = "key" THEN {"passphrase"} ELSE {})

\* The store appends or replaces the row the answer carries; a list that was never loaded
\* holds it all the same, and opening the dialog loads it.
saveCredential(c) ==
  /\ Room /\ Edited /\ listed' = TRUE
  /\ \E i \in CredForm : CredSent(i) /\ (V!createCredential(c, i) \/ V!updateCredential(c, i))
  /\ c \notin dead /\ UNCHANGED <<dlg, about, f, save, dead>>

\* Deleting one reads the hosts again; a form for a new host keeps naming it.
confirmDeleteCredential(c) ==
  /\ Room /\ Edited /\ listed' = TRUE
  /\ V!deleteCredential(c) /\ Rebind
  /\ dead' = dead \cup {c} /\ UNCHANGED <<about, f, save>>

duplicate(h, copy) ==
  /\ dlg = "closed" /\ V!duplicateHost(h, copy)
  /\ UNCHANGED <<listed, dlg, about, f, save, dead, edits>>
removeHost(h) ==
  /\ dlg = "closed" /\ V!deleteHost(h)
  /\ UNCHANGED <<listed, dlg, about, f, save, dead, edits>>

Next ==
  \/ \E h \in FormHosts \cup {None} : open(h)
  \/ reset \/ close \/ handleSubmit \/ Saved \/ Refused
  \/ \E k \in V!Kind : handleKindChange(k)
  \/ \E t \in BOOLEAN : handleVncModeChange(t)
  \/ \E c \in CredId \cup {None} : pickSshCredential(c) \/ pickVncCredential(c)
  \/ \E a \in Auths : setAuthType(a)
  \/ setUsername \/ setPort
  \/ \E d \in {"blank", "over"} : setDesktopPort(d)
  \/ \E s \in V!Slot : typeSecret(s) \/ clearSecret(s)
  \/ \E c \in CredId : saveCredential(c) \/ confirmDeleteCredential(c)
  \/ \E h \in FormHosts : \/ removeHost(h)
                         \/ \E copy \in FormHosts : duplicate(h, copy)

Spec == Init /\ [][Next]_vars

-----------------------------------------------------------------------------
(* Properties *)

TypeOK ==
  /\ listed \in BOOLEAN /\ dlg \in {"closed", "loading", "open"} /\ about \in HostId \cup {None}
  /\ f \in [kind : V!Kind, auth : V!Auth, tunnel : BOOLEAN, cred : CredId \cup {None},
           named : BOOLEAN, port : BOOLEAN, desktop : {"blank", "over"},
           typed : SUBSET V!Slot, cleared : SUBSET V!Slot]
  /\ (save # None => save.input \in V!HostInput) /\ dead \in SUBSET CredId
  /\ edits \in 0..MaxEdits

\* A form that passes validate() is refused by main for its desktop port or for a row that is
\* gone, never for a rule of its schema: through all changes of kind, mode and credential the
\* two agree (HostFormDialog.tsx 257-273, ipc.ts 108-136).
FormIsAccepted ==
  save # None /\ save.ranged /\ save.input.cred \in V!CredRows \cup {None}
    => V!validHostInput(save.input)

\* A form that knew the credentials sends the secrets its host may have, and no other
\* (HostFormDialog.tsx 283: "mirroring the server-side enforcement in hosts-repo").
SecretsMirrorMain ==
  save # None /\ save.input.cred \in V!CredRows \cup {None} /\ save.knew
    => save.input.given \cup save.input.cleared
         \subseteq V!Allowed(save.input.kind, save.input.auth,
                           V!referencedCredentialType(save.input.cred))

\* A typed secret does not outlive the dialog, however it was closed (HostFormDialog.tsx 153).
ClosedHoldsNoSecret == dlg = "closed" => f.typed = {}
=============================================================================
