------------------------------ MODULE SftpEdit ------------------------------
(***************************************************************************)
(* SFTP sessions (src/src/main/sftp/sftp-manager.ts) and editing a remote   *)
(* file in place (edit-watch.ts): the file is downloaded into a temp dir of *)
(* its own, opened in an editor, and uploaded again after every save.       *)
(*                                                                         *)
(* One window; its sessions borrow a terminal's connection or own one.  The *)
(* app may quit or crash and start again: files stay, everything else goes. *)
(* The transfer queue is what edits see of it (TransferQueue has the rest): *)
(* uploads start in the order they were queued, at most MaxActive at once.  *)
(***************************************************************************)
EXTENDS Naturals, Sequences, FiniteSets

CONSTANTS
  Sess,       \* SFTP sessions, one per tab
  Edit,       \* calls of editOpen(), each with the temp dir it makes
  MaxActive,  \* MAX_ACTIVE_TRANSFERS
  MaxSaves,   \* bound: saves in all editors
  Overlap,    \* a file is saved while an upload of it has not finished
  Twice,      \* a file is opened again while its first open is under way
  None

VARIABLES
  app,      \* "on", "off", or "sweep" while the startup sweep has not ended
  pc,       \* where each session is
  chan,     \* sessions whose channel is open
  ded,      \* sessions that own a connection which has not been disconnected
  released, \* history: how often each session's own connection was disconnected
  epc,      \* where each edit is
  of,       \* the session of each edit
  watches,  \* the map: per session (and the one path edited through it), the edit
  dirs,     \* temp dirs on disk
  local,    \* version of the copy in each temp dir
  debounce, \* edits whose debounce timer runs
  uploads,  \* the queue: the edit, the version it reads, and whether it streams
  remote,   \* the version on the server of the path each session's edits are of
  failed,   \* edits whose last upload failed
  saves,    \* history: the latest version made
  toSweep   \* the dirs the sweep has listed

session == <<pc, chan, ded, released>>
edit == <<epc, of, watches, dirs, local, debounce, failed>>
transfer == <<uploads, remote>>
vars == <<app, session, edit, transfer, saves, toSweep>>

Init ==
  /\ app = "on"
  /\ pc = [s \in Sess |-> "none"] /\ chan = {} /\ ded = {} /\ released = [s \in Sess |-> 0]
  /\ epc = [e \in Edit |-> "idle"] /\ of = [e \in Edit |-> None]
  /\ watches = [s \in Sess |-> None] /\ dirs = {} /\ local = [e \in Edit |-> 0]
  /\ debounce = {} /\ uploads = <<>> /\ remote = [s \in Sess |-> 0] /\ failed = {} /\ saves = 0 /\ toSweep = {}

Running == app # "off"
Opening == {"connect", "channel", "home", "default"}
Known == {s \in Sess : pc[s] = "open"}       \* the sessions map
EditOpening == {"dir", "download", "editor"}

Goto(s, l) == pc' = [pc EXCEPT ![s] = l]

-----------------------------------------------------------------------------
(* Sessions *)

\* open(): a terminal's client is borrowed, else a dedicated connection is made.
open(s, borrowed) ==
  /\ Running /\ pc[s] = "none"
  /\ Goto(s, IF borrowed THEN "channel" ELSE "connect")
  /\ UNCHANGED <<app, chan, ded, released, edit, transfer, saves, toSweep>>

Connected(s) ==
  /\ pc[s] = "connect"
  /\ ded' = ded \cup {s} /\ Goto(s, "channel")
  /\ UNCHANGED <<app, chan, released, edit, transfer, saves, toSweep>>

ChannelOpened(s) ==
  /\ pc[s] = "channel"
  /\ chan' = chan \cup {s} /\ Goto(s, "home")
  /\ UNCHANGED <<app, ded, released, edit, transfer, saves, toSweep>>

\* realpath('.'), then that of the default path if the host has one, which may fail.
Resolved(s) ==
  /\ \/ pc[s] = "home" /\ s \in chan /\ \E l \in {"default", "open"} : Goto(s, l)
     \/ pc[s] = "default" /\ Goto(s, "open")
  /\ UNCHANGED <<app, chan, ded, released, edit, transfer, saves, toSweep>>

\* sessionManager.disconnect() of the connections owned by the sessions S.
Disconnect(S) ==
  /\ ded' = ded \ S
  /\ released' = [s \in Sess |-> IF s \in S \cap ded THEN released[s] + 1 ELSE released[s]]

\* What was opened on a terminal's connection stays.
OpenFails(s) ==
  /\ pc[s] \in Opening \ {"default"}
  /\ Disconnect({s}) /\ chan' = chan \ (ded \cap {s}) /\ Goto(s, "gone")
  /\ UNCHANGED <<app, edit, transfer, saves, toSweep>>

\* The channel closes on its own; the listener of the session is on it once it is known.
ChannelCloses_Twice(s) ==   \* mutant: 'closed' is not looked at, nor set by close()
  /\ s \in chan
  /\ chan' = chan \ {s}
  /\ released' = [released EXCEPT ![s] = @ + 1] /\ ded' = ded \ {s}
  /\ pc' = [pc EXCEPT ![s] = IF @ = "open" THEN "gone" ELSE @]
  /\ UNCHANGED <<app, edit, transfer, saves, toSweep>>
ChannelCloses(s) ==
  /\ s \in chan
  /\ chan' = chan \ {s}
  /\ IF pc[s] = "open" THEN Disconnect({s}) /\ Goto(s, "gone")
     ELSE UNCHANGED <<pc, ded, released>>
  /\ UNCHANGED <<app, edit, transfer, saves, toSweep>>

-----------------------------------------------------------------------------
(* Edits *)

\* teardown() of the edits E: each deletes the entry of its key, whosever it is.
Teardown(E) ==
  /\ epc' = [e \in Edit |-> IF e \in E THEN "over" ELSE epc[e]]
  /\ watches' = [s \in Sess |-> IF \E e \in E : of[e] = s THEN None ELSE watches[s]]
  /\ debounce' = debounce \ E /\ dirs' = dirs \ E

EGoto(e, l) == epc' = [epc EXCEPT ![e] = l]
Watched(S) == {watches[s] : s \in S} \ {None}

editOpen(e, s) ==
  /\ Running /\ epc[e] = "idle" /\ s \in Known /\ watches[s] = None
  /\ Twice \/ \A x \in Edit : of[x] = s => epc[x] \notin EditOpening
  /\ EGoto(e, "dir") /\ of' = [of EXCEPT ![e] = s]
  /\ UNCHANGED <<app, session, watches, dirs, local, debounce, failed, transfer, saves, toSweep>>

MadeDir(e) ==
  /\ epc[e] = "dir"
  /\ dirs' = dirs \cup {e} /\ EGoto(e, "download")
  /\ UNCHANGED <<app, session, of, watches, local, debounce, failed, transfer, saves, toSweep>>

Downloaded(e) ==
  /\ epc[e] = "download" /\ of[e] \in chan
  /\ local' = [local EXCEPT ![e] = remote[of[e]]] /\ EGoto(e, "editor")
  /\ UNCHANGED <<app, session, of, watches, dirs, debounce, failed, transfer, saves, toSweep>>

\* The download or the editor fails: the dir is removed.
EditFails(e) ==
  /\ epc[e] \in {"download", "editor"}
  /\ EGoto(e, "over") /\ dirs' = dirs \ {e}
  /\ UNCHANGED <<app, session, of, watches, local, debounce, failed, transfer, saves, toSweep>>

\* The editor is up: the dir is watched, whatever became of the session meanwhile.
EditorOpened(e) ==
  /\ epc[e] = "editor"
  /\ EGoto(e, "watch") /\ watches' = [watches EXCEPT ![of[e]] = e]
  /\ UNCHANGED <<app, session, of, dirs, local, debounce, failed, transfer, saves, toSweep>>

Pending(e) == \E n \in DOMAIN uploads : uploads[n].e = e

\* The user saves; each save starts the debounce timer anew.
Save(e) ==
  /\ epc[e] = "watch" /\ saves < MaxSaves /\ (Overlap \/ ~Pending(e))
  /\ saves' = saves + 1
  /\ local' = [local EXCEPT ![e] = saves'] /\ debounce' = debounce \cup {e}
  /\ UNCHANGED <<app, session, epc, of, watches, dirs, failed, transfer, toSweep>>

\* The timer fires: enqueueUploadAs(), or teardown() if the session is gone.
SaveQueued(e) ==
  /\ e \in debounce
  /\ IF of[e] \in Known
     THEN /\ uploads' = Append(uploads, [e |-> e, version |-> None])
          /\ debounce' = debounce \ {e}
          /\ UNCHANGED <<epc, watches, dirs>>
     ELSE Teardown({e}) /\ UNCHANGED uploads
  /\ UNCHANGED <<app, session, of, local, failed, remote, saves, toSweep>>

Streams == {n \in DOMAIN uploads : uploads[n].version # None}
Without(n) == SubSeq(uploads, 1, n - 1) \o SubSeq(uploads, n + 1, Len(uploads))

UploadStarts_Early(n) ==   \* mutant: it has what was saved when the timer was set
  /\ n \in DOMAIN uploads \ Streams /\ (1..(n - 1)) \subseteq Streams
  /\ Cardinality(Streams) < MaxActive
  /\ of[uploads[n].e] \in Known /\ uploads[n].e \in dirs
  /\ uploads' = [uploads EXCEPT ![n].version = remote[of[uploads[n].e]]]
  /\ UNCHANGED <<app, session, edit, remote, saves, toSweep>>
\* The next upload opens the copy: it has what is saved by then.
UploadStarts(n) ==
  /\ n \in DOMAIN uploads \ Streams /\ (1..(n - 1)) \subseteq Streams
  /\ Cardinality(Streams) < MaxActive
  /\ of[uploads[n].e] \in Known /\ uploads[n].e \in dirs
  /\ uploads' = [uploads EXCEPT ![n].version = local[uploads[n].e]]
  /\ UNCHANGED <<app, session, edit, remote, saves, toSweep>>

\* Its temp file is renamed over the remote file.
UploadEnds(n) ==
  /\ n \in Streams /\ of[uploads[n].e] \in chan
  /\ remote' = [remote EXCEPT ![of[uploads[n].e]] = uploads[n].version]
  /\ uploads' = Without(n)
  /\ failed' = failed \ {uploads[n].e}
  /\ UNCHANGED <<app, session, epc, of, watches, dirs, local, debounce, saves, toSweep>>

\* An upload fails, or is cancelled, or finds its session or its file gone.
UploadFails(n) ==
  /\ n \in DOMAIN uploads
  /\ uploads' = Without(n) /\ failed' = failed \cup {uploads[n].e}
  /\ UNCHANGED <<app, session, epc, of, watches, dirs, local, debounce, remote, saves, toSweep>>

-----------------------------------------------------------------------------
(* The ends *)

\* close() of the sessions S, with the connections they own: their channels end later.
CloseSessions(S) ==
  /\ pc' = [s \in Sess |-> IF s \in S THEN "gone" ELSE pc[s]]
  /\ UNCHANGED chan /\ Disconnect(S)

\* sftpClose: the edits of the session, then the session.
sftpClose(s) ==
  /\ s \in Known
  /\ Teardown(Watched({s})) /\ CloseSessions({s})
  /\ UNCHANGED <<app, of, local, failed, transfer, saves, toSweep>>

\* The window is destroyed: its transfers are cancelled, its edits and sessions closed.
\* Another window may be opened then.
OwnerDestroyed ==
  /\ Running
  /\ uploads' = <<>>
  /\ Teardown(Watched(Sess)) /\ CloseSessions(Known)
  /\ UNCHANGED <<app, of, local, failed, remote, saves, toSweep>>

\* before-quit: everything is closed; what is still opening ends with the process.
Ended(E) == [e \in Edit |-> IF e \in E \/ epc[e] # "idle" THEN "over" ELSE "idle"]
Process(E) ==
  /\ app' = "off" /\ uploads' = <<>> /\ debounce' = {} /\ toSweep' = {}
  /\ epc' = Ended(E) /\ dirs' = dirs \ E
  /\ watches' = [s \in Sess |-> None]
  /\ pc' = [s \in Sess |-> IF pc[s] = "none" THEN "none" ELSE "gone"]
  /\ chan' = {} /\ ded' = {} /\ UNCHANGED <<released, of, local, failed, remote, saves>>
Quit == Running /\ Process(Watched(Sess))
Crash == Running /\ Process({})

\* The next start sweeps what is left of the temp dirs, without waiting for it.
Start ==
  /\ app = "off" /\ app' = "sweep" /\ toSweep' = dirs
  /\ UNCHANGED <<session, edit, transfer, saves>>
sweepOrphanedEditDirs ==
  /\ app = "sweep"
  /\ dirs' = dirs \ toSweep /\ app' = "on" /\ toSweep' = {}
  /\ UNCHANGED <<session, epc, of, watches, local, debounce, failed, transfer, saves>>

Next ==
  \/ \E s \in Sess :
       \/ \E b \in BOOLEAN : open(s, b)
       \/ Connected(s) \/ ChannelOpened(s) \/ Resolved(s) \/ OpenFails(s) \/ ChannelCloses(s)
       \/ sftpClose(s)
  \/ \E e \in Edit :
       \/ \E s \in Sess : editOpen(e, s)
       \/ MadeDir(e) \/ Downloaded(e) \/ EditFails(e) \/ EditorOpened(e)
       \/ Save(e) \/ SaveQueued(e)
  \/ \E n \in DOMAIN uploads : UploadStarts(n) \/ UploadEnds(n) \/ UploadFails(n)
  \/ OwnerDestroyed \/ Quit \/ Crash \/ Start \/ sweepOrphanedEditDirs

Spec == Init /\ [][Next]_vars

-----------------------------------------------------------------------------
(* Properties *)

TypeOK ==
  /\ app \in {"on", "off", "sweep"}
  /\ pc \in [Sess -> Opening \cup {"none", "open", "gone"}]
  /\ chan \in SUBSET Sess /\ ded \in SUBSET Sess /\ released \in [Sess -> Nat]
  /\ epc \in [Edit -> EditOpening \cup {"idle", "watch", "over"}]
  /\ of \in [Edit -> Sess \cup {None}] /\ watches \in [Sess -> Edit \cup {None}]
  /\ dirs \in SUBSET Edit /\ toSweep \in SUBSET Edit /\ debounce \in SUBSET Edit
  /\ local \in [Edit -> 0..MaxSaves] /\ remote \in [Sess -> 0..MaxSaves] /\ saves \in 0..MaxSaves
  /\ uploads \in Seq([e : Edit, version : 0..MaxSaves \cup {None}]) /\ failed \in SUBSET Edit

\* A connection of a session's own is held exactly while the session opens or is known, and
\* is disconnected once, whether the tab, the server, the window or an error ends it first
\* (sftp-manager.ts 95-104: "only act when the channel closed on its own").
OwnConnectionEndsOnce ==
  /\ \A s \in Sess : released[s] <= 1
  /\ \A s \in ded : pc[s] \in Opening \cup {"open"}

\* A plaintext copy of a remote file is on disk only while its edit opens or is in the
\* watches, from where each of the ends reaches it, whatever was closed while it was opened;
\* what a quit or a crash leaves, the next start removes (edit-watch.ts 30-39).
CopiesAreReachable ==
  \A e \in dirs :
    \/ app = "off" \/ e \in toSweep
    \/ epc[e] \in EditOpening
    \/ epc[e] = "watch" /\ watches[of[e]] = e

\* Once nothing of it is on its way, the server has what the user saved last
\* (edit-watch.ts 12: "auto-upload ... whenever the local copy is saved").
SavesArrive ==
  \A e \in Edit :
    epc[e] = "watch" /\ of[e] \in Known /\ e \notin debounce \cup failed /\ ~Pending(e)
    => remote[of[e]] = local[e]
=============================================================================
