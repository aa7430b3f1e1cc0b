------------------------------ MODULE MCVault ------------------------------
(***************************************************************************)
(* The vault: its tree of groups (Groups), its hosts, credentials and       *)
(* tunnels (Vault), the dialogs that edit them (HostForm), the opening of its *)
(* file (VaultDb), the import of hosts (ConfigImport), the window's copy      *)
(* (HostsStore), what hosts take from folders (HostInheritance) and devices   *)
(* that share it (VaultSync), in one instance.  A behaviour is one of one of them: part    *)
(* says of which.                                                           *)
(***************************************************************************)
EXTENDS Groups, Sequences

CONSTANTS
  h1, h2, c1, t1, g1, g2, g3, g4, p1, p2, r1, r2, ca, cb, va, vb, vc, Free, None,
  HostId, CredId, TunnelId, HostInputs, CredInputs,
  FormHosts, Auths, MaxEdits, GroupId, WritesFail, Hasty, MaxReplies,
  Row, Proc, Columns, Versions, NameOrder, MaxBackups, OldFiles, MaxStarts,
  Device, Field, Secret, Flag, MaxVaultEdits, MaxFaults,
  Unreadable, Star

VARIABLES
  part, hosts, creds, tunnels, listed, dlg, about, f, save, dead, edits,
  file, bak, pc, at, version, warned, work, writer, starts, shared,
  vault, store, replies, got, twice,
  files, own, imported, kind, phase, stack, content, filesRead, capped, picked, read, batch,
  link, start, defaults, ownValue, current, chain, source, tagsOfHost,
  meta, local, baseline, seen, remote, backup, faults, vaultEdits, synced, issued, overwritten

Rows == INSTANCE Vault
rows == <<hosts, creds, tunnels>>

\* Two columns and three versions; a first start finds a file of before RDP or a newer one.
MCColumns == <<ca, cb>>
MCVersions == <<va, vb, vc>>
MCOldFiles == {[rows |-> {r1}, cols |-> {}, check |-> "old"], [rows |-> {}, cols |-> {ca}, check |-> "none"]}
Db == INSTANCE VaultDb
db == <<file, bak, pc, at, version, warned, work, writer, starts, shared>>

Window == INSTANCE HostsStore WITH HostId <- {h1}
window == <<vault, store, replies, got, twice>>

\* Configurations of two files: h1 is named, matched by a pattern or excluded from it, and set
\* twice, in blocks, in Match and in the file that is included, which may include the first.
HostLine(qs) == [k |-> "host", patterns |-> qs]
The(x) == [neg |-> FALSE, is |-> x]
UserLine(v) == [k |-> "user", value |-> v]
Include(t) == [k |-> "include", to |-> t]
MCLines ==
  {HostLine({The(h1)}), HostLine({The(Star), [neg |-> TRUE, is |-> h1]}), UserLine("a"), UserLine("b"),
   Include("conf"), [k |-> "match"]}
MCConfigs ==
  {[root |-> a, conf |-> b] :
     a \in [1 .. 3 -> MCLines],
     b \in {Unreadable, <<UserLine("c")>>, <<HostLine({The(Star)}), UserLine("c")>>, <<Include("conf")>>,
            <<Include("root"), Include("conf"), HostLine({The(h1)})>>}}
  \cup {[root |-> Unreadable, conf |-> <<>>]}
VncFile(h, colons, n, port) == [name |-> h1, host |-> h, colons |-> colons, n |-> n, port |-> port]
MCPicks ==
  {<<VncFile("h", 1, 0, None)>>, <<VncFile("h", 1, 100, None), VncFile("h", 0, 0, 0)>>,
   <<VncFile("h", 2, 65536, None), Unreadable>>, <<VncFile(None, 0, 0, None), VncFile("h", 2, 65536, 5901)>>,
   <<VncFile("h", 0, 0, 65536)>>}
Imports == INSTANCE ConfigImport
  WITH Alias <- {h1}, File <- {"root", "conf"}, Root <- "root", Configs <- MCConfigs, Picks <- MCPicks,
       MAX_DEPTH <- 2, MAX_FILES <- 3, MaxLines <- 5
imports == <<files, own, imported, kind, phase, stack, content, filesRead, capped, picked, read, batch>>

Inherit == INSTANCE HostInheritance
  WITH Folder <- {g1, g2, g3}, Root <- Top, Gone <- None, HostTags <- <<ca>>,
       FolderTags <- [g \in {g1, g2, g3} |-> IF g = g1 THEN <<ca>> ELSE IF g = g2 THEN <<cb, ca>> ELSE <<>>]
inherit == <<link, start, defaults, ownValue, current, chain, source, tagsOfHost>>

\* A name, a flag and two secrets, one of them with its key inside an object
MCField == {<<"name">>, <<"hasPassword">>, <<"creds", "token">>, <<"creds", "key">>}
MCFlag == {<<"hasPassword">>}
Sync == INSTANCE VaultSync
sync == <<meta, local, baseline, seen, remote, backup, faults, vaultEdits, synced, issued, overwritten>>

\* The forms of a host and of a credential: every kind, login and reference, with the
\* secrets the form may send for them.
Slots == {"password", "passphrase", "vncPassword", "rdpPassword"}
Secrets == {[given |-> {}, cleared |-> {}], [given |-> Slots, cleared |-> {}],
            [given |-> {}, cleared |-> {"password", "vncPassword"}]}
MCHostInputs ==
  {[kind |-> k, auth |-> a, named |-> TRUE, tunnelled |-> FALSE, cred |-> c,
    given |-> s.given, cleared |-> s.cleared] :
     k \in {"ssh", "vnc", "rdp", "both"}, a \in {"password", "key"}, c \in CredId \cup {None},
     s \in Secrets}
MCCredInputs ==
  {[type |-> ta[1], auth |-> ta[2], named |-> TRUE, given |-> s, cleared |-> {}] :
     ta \in {<<"ssh", "password">>, <<"ssh", "key">>, <<"vnc", "password">>},
     s \in {{}, {"password", "passphrase"}}}

\* What a form may be opened on: hosts of the kinds with two parts, with every secret, and
\* a credential of either type.
MCFormHosts ==
  {[kind |-> k, auth |-> "password", named |-> TRUE, tunnelled |-> FALSE, cred |-> c,
    given |-> Slots, cleared |-> {}] : k \in {"both", "vnc"}, c \in {None, c1}}
MCFormCreds ==
  {[type |-> t, auth |-> "password", named |-> TRUE, given |-> {"password"}, cleared |-> {}] :
     t \in {"ssh", "vnc"}}
Form == INSTANCE HostForm WITH HostInputs <- MCFormHosts, CredInputs <- MCFormCreds
form == <<listed, dlg, about, f, save, dead, edits>>

ASSUME VaultAssumption ==
  /\ None \notin HostId \cup CredId \cup {"ssh", "vnc"} \cup Rows!HostRowType \cup Rows!CredRowType
  /\ None \notin [group : GroupId \cup {None}, cred : CredId \cup {None}]
  /\ HostInputs \subseteq Rows!HostInput /\ CredInputs \subseteq Rows!CredInput
  /\ FormHosts \subseteq HostId /\ Auths \subseteq Rows!Auth /\ MaxEdits \in Nat

\* Names of backups are sorted, each once; the files found are of versions that had the columns
\* or some of them; and no boolean is kept below a secret.
ASSUME FilesAssumption ==
  /\ Columns \in Seq({Columns[n] : n \in DOMAIN Columns})
  /\ Versions \in Seq(Db!Version) /\ Versions # <<>>
  /\ NameOrder \in Seq(Db!Version) /\ \A m, n \in DOMAIN NameOrder : NameOrder[m] = NameOrder[n] => m = n
  /\ MaxBackups \in Nat \ {0} /\ MaxStarts \in Nat /\ Free \notin Proc
  /\ OldFiles \subseteq [rows : SUBSET Row, cols : SUBSET {Columns[n] : n \in DOMAIN Columns},
                         check : {"none", "old", "new"}]
ASSUME SyncAssumption ==
  /\ None \notin Device \cup [contractVersion : Nat, revision : Nat, deviceId : Device]
  /\ MaxVaultEdits \in Nat /\ MaxFaults \in Nat
  /\ Flag \subseteq Field /\ \A p \in Flag : \A i \in DOMAIN p : p[i] \in Secret => i = Len(p)

PartInit ==
  /\ part \in {"rows", "forms", "tree", "db", "window", "import", "inherit", "sync"}
  /\ Init /\ Db!Init /\ Window!Init /\ Imports!ImportInit /\ Sync!SyncInit
  /\ part # "import" => files.root = Unreadable
  /\ part # "db" => file.check = "none"   \* one file is enough for the others
  /\ IF part = "inherit" THEN Inherit!InhInit
     ELSE /\ link = [g \in {g1, g2, g3} |-> Top] /\ start = Top /\ defaults = {} /\ ownValue = TRUE
          /\ current = Top /\ chain = <<>> /\ source = "unresolved" /\ tagsOfHost = <<>>
  /\ IF part = "forms" THEN Form!Init
     ELSE /\ Rows!Init /\ listed = FALSE /\ dlg = "closed" /\ about = None /\ f = Form!Blank
          /\ save = None /\ dead = {} /\ edits = 0
TreeStep == part = "tree" /\ Next /\ UNCHANGED <<part, rows, form, db, window, imports, inherit, sync>>
RowsStep == part = "rows" /\ Rows!Next /\ UNCHANGED <<part, vars, form, db, window, imports, inherit, sync>>
FormStep == part = "forms" /\ Form!Next /\ UNCHANGED <<part, vars, db, window, imports, inherit, sync>>
DbStep == part = "db" /\ Db!Next /\ UNCHANGED <<part, vars, rows, form, window, imports, inherit, sync>>
WindowStep == part = "window" /\ Window!Next /\ UNCHANGED <<part, vars, rows, form, db, imports, inherit, sync>>
ImportStep == part = "import" /\ Imports!ImportNext /\ UNCHANGED <<part, vars, rows, form, db, window, inherit, sync>>
InheritStep ==
  part = "inherit" /\ Inherit!InhNext /\ UNCHANGED <<part, vars, rows, form, db, window, imports, sync>>
SyncStep == part = "sync" /\ Sync!SyncNext /\ UNCHANGED <<part, vars, rows, form, db, window, imports, inherit>>

VaultSpec ==
  PartInit
  /\ [][TreeStep \/ RowsStep \/ FormStep \/ DbStep \/ WindowStep \/ ImportStep
      \/ InheritStep \/ SyncStep]_
        <<part, vars, rows, form, db, window, imports, inherit, sync>>

\* The type invariants of all
VaultTypeOK == TypeOK /\ Rows!TypeOK /\ Form!TypeOK /\ Db!TypeOK /\ Window!TypeOK /\ Imports!ImportTypeOK
  /\ Inherit!InhTypeOK /\ Sync!SyncTypeOK

\* No row names a row that is gone: a host its group or credential, a group its parent, a
\* tunnel its host.
NothingDangles == ReferencesLive /\ Rows!ReferencesLive

\* A host holds no secret it has no use for, and no login offers another login's secret; a
\* form sends the secrets its host may have, passes every rule of main's it can know, and
\* keeps none of them once it is closed; a host is imported with the value ssh would use, from
\* files that may include each other, and with a port; and takes from the folders above it what
\* the nearest has.
SecretsFit ==
  /\ part \in {"rows", "forms"} => Rows!NoMootSecret /\ Rows!NeverCrossUsed
  /\ part = "forms" => Form!SecretsMirrorMain /\ Form!FormIsAccepted /\ Form!ClosedHoldsNoSecret
HostsFit ==
  /\ SecretsFit
  /\ part = "import" =>
       /\ Imports!ChainIsAPath /\ Imports!ImportsAsSsh /\ Imports!IncludesInPlace /\ Imports!PortsLegal
  /\ part = "inherit" => Inherit!InheritsNearest

\* A handle is handed out on a migrated vault only; no start, failure or crash loses a row,
\* and no rebuild goes without its snapshot unnoticed; no device that shares the vault silently
\* overwrites another's edit, or takes its secrets.
OpenIsMigrated == Db!OpenIsMigrated
RowsKept ==
  /\ Db!RowsKept /\ Db!RebuildHasBackup
  /\ []Sync!NoSilentOverwrite /\ []Sync!SecretsAreOwn

\* With no reply on its way the window holds the vault; and of its groups it draws
\* all, each with the parents it may be given.
QuietStoreIsVault == Window!QuietStoreIsVault
WindowShowsVault == QuietStoreIsVault /\ (part = "tree" => TreeDrawsAll /\ FormOffersParents)
=============================================================================
