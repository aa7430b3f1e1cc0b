------------------------------ MODULE VaultSync ------------------------------
(***************************************************************************)
(* Devices that share one vault by the contract of shared/sync-contract.ts,   *)
(* in the envelope of shared/vault-export.ts.  No client drives them yet: the  *)
(* one here does what the two files ask of it - it compares before it writes,  *)
(* writes on the condition that the storage is still what it read, and asks    *)
(* the user about a conflict.  A vault is its last edit and its fields.        *)
(***************************************************************************)
EXTENDS Integers, Sequences

CONSTANTS
  Device, None,
  Field,      \* paths of the vault: sequences of keys
  Secret,     \* keys that SECRET_KEY_RE matches
  Flag,       \* the fields that hold a boolean
  MaxVaultEdits, MaxFaults   \* bounds

VARIABLES
  meta, local,      \* a device: the SyncMeta of its vault, and the vault
  baseline,         \* SyncBaseline
  seen,             \* what it has read of the storage
  remote, backup,   \* the storage, and an earlier state of it
  faults, vaultEdits,
  synced,           \* history: the edit each device last saw in the storage
  issued,           \* history: each revision a device wrote, with the edit it named
  overwritten       \* history: was an edit replaced by a device that had not seen it?

syncVars == <<meta, local, baseline, seen, remote, backup, faults, vaultEdits, synced, issued, overwritten>>

SYNC_CONTRACT_VERSION == 1

\* A secret key goes with all below it, but a boolean under its name stays.
stripSecretFields(V) ==
  {p \in V : \A i \in DOMAIN p : p[i] \in Secret => i = Len(p) /\ p \in Flag}
buildVaultExport(v) == [v EXCEPT !.fields = stripSecretFields(@)]
parseVaultExport(v) == [v EXCEPT !.fields = stripSecretFields(@)]

makeSyncMeta(prev, d) ==
  [contractVersion |-> SYNC_CONTRACT_VERSION, revision |-> prev + 1, deviceId |-> d]

isCompatibleContract(v) == v \in 1 .. SYNC_CONTRACT_VERSION
isValidSyncMeta(m) == m # None /\ m.contractVersion >= 1 /\ m.revision >= 0 /\ m.deviceId # None
syncBaselineOf(m) == [revision |-> m.revision, deviceId |-> m.deviceId]

detectSyncConflict(l, r, b) ==
  LET localChanged  == l.revision > b.revision
      remoteChanged == r.revision > b.revision IN
  IF \/ ~isValidSyncMeta(l) \/ ~isValidSyncMeta(r)
     \/ r.revision < b.revision
     \/ r.revision = b.revision /\ b.deviceId # None /\ r.deviceId # b.deviceId
     \/ localChanged /\ remoteChanged
  THEN "diverged"
  ELSE IF localChanged THEN "local-ahead" ELSE IF remoteChanged THEN "remote-ahead" ELSE "in-sync"

resolveSync(c) ==
  CASE c = "local-ahead" -> "push" [] c = "remote-ahead" -> "pull" [] c = "diverged" -> "conflict"
    [] OTHER -> "none"

NoVault == [edit |-> 0, fields |-> {}]
Empty   == [meta |-> None, vault |-> NoVault]   \* the storage before the first push

SyncInit ==
  /\ meta = [d \in Device |-> [makeSyncMeta(0, d) EXCEPT !.revision = 0]]
  /\ local = [d \in Device |-> NoVault]
  /\ baseline = [d \in Device |-> [revision |-> 0, deviceId |-> None]]
  /\ seen = [d \in Device |-> None] /\ remote = Empty /\ backup = Empty
  /\ faults = 0 /\ vaultEdits = 0
  /\ synced = [d \in Device |-> 0] /\ issued = {} /\ overwritten = FALSE

-----------------------------------------------------------------------------
(* A device *)

Issue(m, edit) == issued' = issued \cup {[rev |-> m.revision, by |-> m.deviceId, edit |-> edit]}
Edit(d) ==
  /\ vaultEdits < MaxVaultEdits /\ vaultEdits' = vaultEdits + 1
  /\ meta' = [meta EXCEPT ![d] = makeSyncMeta(meta[d].revision, d)]
  /\ local' = [local EXCEPT ![d] = [edit |-> vaultEdits', fields |-> Field]]
  /\ Issue(meta'[d], vaultEdits')
  /\ UNCHANGED <<baseline, seen, remote, backup, faults, synced, overwritten>>

Read(d) ==
  /\ seen[d] = None /\ seen' = [seen EXCEPT ![d] = remote]
  /\ UNCHANGED <<meta, local, baseline, remote, backup, faults, vaultEdits, synced, issued, overwritten>>

\* A newer contract is refused; the first push creates the storage.
Readable(m) == m = None \/ ~isValidSyncMeta(m) \/ isCompatibleContract(m.contractVersion)
Action(d) ==
  IF seen[d] = Empty THEN IF meta[d].revision > 0 THEN "push" ELSE "none"
  ELSE IF ~Readable(seen[d].meta) THEN "none"
  ELSE resolveSync(detectSyncConflict(meta[d], seen[d].meta, baseline[d]))

Write(d, m, byUser) ==
  IF remote = seen[d]
  THEN /\ remote' = [meta |-> m, vault |-> buildVaultExport(local[d])] /\ backup' \in {backup, remote}
       /\ baseline' = [baseline EXCEPT ![d] = syncBaselineOf(m)]
       /\ synced' = [synced EXCEPT ![d] = local[d].edit]
       /\ overwritten' = (overwritten \/ (~byUser /\ remote.vault.edit # synced[d]))
  ELSE UNCHANGED <<remote, backup, baseline, synced, overwritten>>
Take(d, byUser) ==
  /\ local' = [local EXCEPT ![d] = parseVaultExport(seen[d].vault)]
  /\ meta' = [meta EXCEPT ![d] = seen[d].meta]
  /\ baseline' = [baseline EXCEPT ![d] = syncBaselineOf(seen[d].meta)]
  /\ synced' = [synced EXCEPT ![d] = seen[d].vault.edit]
  /\ overwritten' = (overwritten \/ (~byUser /\ local[d].edit # synced[d]))
  /\ UNCHANGED <<remote, backup, issued>>
Over(d) == seen[d] # None /\ seen' = [seen EXCEPT ![d] = None]

Nothing(d) ==
  /\ Over(d) /\ Action(d) = "none"
  /\ UNCHANGED <<meta, local, baseline, remote, backup, faults, vaultEdits, synced, issued, overwritten>>
Push(d) ==
  /\ Over(d) /\ Action(d) = "push" /\ Write(d, meta[d], FALSE)
  /\ UNCHANGED <<meta, local, issued, faults, vaultEdits>>
Pull(d) ==
  Over(d) /\ Action(d) = "pull" /\ Take(d, FALSE) /\ UNCHANGED <<faults, vaultEdits>>

\* The user resolves a conflict: theirs, or ours as a revision above both.
TakeTheirs(d) ==
  /\ Over(d) /\ Action(d) = "conflict" /\ isValidSyncMeta(seen[d].meta) /\ Take(d, TRUE)
  /\ UNCHANGED <<faults, vaultEdits>>
KeepOurs(d) ==
  /\ Over(d) /\ Action(d) = "conflict"
  /\ LET s == seen[d].meta
         m == makeSyncMeta(IF isValidSyncMeta(s) /\ s.revision > meta[d].revision
                           THEN s.revision ELSE meta[d].revision, d) IN
     Write(d, m, TRUE) /\ meta' = [meta EXCEPT ![d] = m] /\ Issue(m, local[d].edit)
  /\ UNCHANGED <<local, faults, vaultEdits>>

-----------------------------------------------------------------------------
(* The storage, which is the user's own *)

Fault(r) ==
  /\ faults < MaxFaults /\ faults' = faults + 1 /\ Empty \notin {r, remote} /\ remote' = r
  /\ UNCHANGED <<meta, local, baseline, seen, backup, vaultEdits, synced, issued, overwritten>>
Restored == Fault(backup)
Truncated == Fault([remote EXCEPT !.meta = None, !.vault.edit = -1])
Smuggled == Fault([remote EXCEPT !.vault.fields = Field])
\* A client of a newer contract writes.
Newer ==
  /\ remote.meta # None
  /\ Fault([remote EXCEPT !.meta.contractVersion = 2, !.meta.revision = @ + 1, !.vault.edit = -2])

DeviceStep(d) == Edit(d) \/ Read(d) \/ Nothing(d) \/ Push(d) \/ Pull(d) \/ TakeTheirs(d) \/ KeepOurs(d)
SyncNext == (\E d \in Device : DeviceStep(d)) \/ Restored \/ Truncated \/ Smuggled \/ Newer
SyncSpec == SyncInit /\ [][SyncNext]_syncVars

-----------------------------------------------------------------------------
\* Types of the state.
SyncTypeOK ==
  /\ \A d \in Device : isValidSyncMeta(meta[d]) /\ local[d].fields \subseteq Field
  /\ remote.vault.fields \subseteq Field /\ overwritten \in BOOLEAN
  /\ faults \in 0 .. MaxFaults /\ vaultEdits \in 0 .. MaxVaultEdits

\* "Conflicts are detected, never silently overwritten" (sync-contract.ts, 12): no push replaces
\* an edit its device has not seen, and no pull an edit that was not pushed, whatever happens to
\* the storage; but where one device wrote two edits under one revision, having taken an older
\* state of the storage for its own.
Reused == \E x, y \in issued : x.rev = y.rev /\ x.by = y.by /\ x.edit # y.edit
NoSilentOverwrite == overwritten => Reused

\* No secret leaves a device or is taken from the storage, also if one was put there: what a
\* device holds of secrets its user gave it for its last edit.  The flags that tell of them travel.
\* And no device takes what a newer contract wrote.
IsSecret(p) == p \notin Flag /\ \E i \in DOMAIN p : p[i] \in Secret
OwnEdit(d) == \E x \in issued : x.edit = local[d].edit /\ x.by = d
SecretsAreOwn ==
  /\ faults = 0 => \A p \in remote.vault.fields : ~IsSecret(p)
  /\ \A d \in Device : (\E p \in local[d].fields : IsSecret(p)) => OwnEdit(d)
  /\ \A d \in Device : local[d].edit > 0 => Flag \subseteq local[d].fields
  /\ \A d \in Device : isCompatibleContract(meta[d].contractVersion)
=============================================================================
