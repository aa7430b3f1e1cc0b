------------------------------ MODULE Updater ------------------------------
(***************************************************************************)
(* The updater of main (src/src/main/updater.ts), the window's mirror of    *)
(* its state (src/src/renderer/stores/updates.ts) and the banner over it    *)
(* (UpdateBanner.tsx).  The library (electron-updater) has at most one      *)
(* check and one download under way; a call for a second joins the first.   *)
(***************************************************************************)
EXTENDS Naturals, Sequences

CONSTANTS
  MaxVersion,  \* versions 1..MaxVersion are released one after the other
  MaxMsgs,     \* bound on the messages on their way
  None

Version == 0..MaxVersion     \* 0 is the one that runs

VARIABLES
  feed,      \* the latest release
  checking,  \* is the library at it?
  found,     \* the version its last check found, 0 before
  downloading, staged,     \* the version it loads, the one that waits for the app to quit
  state,     \* main: status and version
  manual,    \* manualUpdateCheck
  owed,      \* history: a menu click has not been answered
  dialogs,   \* history: the last check result was put in a dialog, and was it asked for
  toWindow,  \* state events, and the reply to getState()
  update, dismissed, inited,   \* the store
  asked      \* history: the user has asked for a download

main == <<state, manual, owed, dialogs>>
lib == <<feed, checking, found, downloading, staged>>
window == <<update, dismissed, inited, asked>>
vars == <<main, lib, toWindow, window>>

State(s, v) == [status |-> s, version |-> v]
Idle == State("idle", 0)

Init ==
  /\ feed = 0 /\ checking = FALSE /\ found = 0 /\ downloading = None /\ staged = None
  /\ state = Idle /\ manual = FALSE /\ owed = FALSE /\ dialogs = "none"
  /\ toWindow = <<>> /\ update = Idle /\ dismissed = FALSE /\ inited = FALSE /\ asked = FALSE

\* setState(): broadcast to every window.
setState(s) == state' = s /\ toWindow' = Append(toWindow, s)
Room == Len(toWindow) < MaxMsgs

-----------------------------------------------------------------------------
(* Main *)

Release ==
  /\ feed < MaxVersion /\ feed' = feed + 1
  /\ UNCHANGED <<main, checking, found, downloading, staged, toWindow, window>>

\* The timers: after the launch and every six hours.
check ==
  /\ ~checking /\ checking' = TRUE
  /\ UNCHANGED <<main, feed, found, downloading, staged, toWindow, window>>

manualCheckForUpdates ==
  /\ Room /\ manual' = TRUE /\ owed' = TRUE
  /\ IF checking THEN UNCHANGED <<checking, state, toWindow>>
     ELSE checking' = TRUE /\ setState([state EXCEPT !.status = "checking"])
  /\ UNCHANGED <<dialogs, feed, found, downloading, staged, window>>

\* The results of a check; what is not asked for is not put in a dialog.
UpdateAvailable_KeepsFlag ==   \* mutant: the flag waits for the next result
  /\ Room /\ checking /\ feed > 0 /\ checking' = FALSE /\ manual' = manual /\ owed' = FALSE
  /\ found' = feed /\ setState(State("available", feed))
  /\ UNCHANGED <<dialogs, feed, downloading, staged, window>>
UpdateAvailable ==
  /\ Room /\ checking /\ feed > 0 /\ checking' = FALSE /\ manual' = FALSE /\ owed' = FALSE
  /\ found' = feed /\ setState(State("available", feed))
  /\ UNCHANGED <<dialogs, feed, downloading, staged, window>>

Surface ==
  /\ setState([state EXCEPT !.status = "idle"]) /\ manual' = FALSE
  /\ dialogs' = IF ~manual THEN dialogs ELSE IF owed THEN "asked" ELSE "unasked"

UpdateNotAvailable ==
  /\ Room /\ checking /\ feed = 0 /\ checking' = FALSE /\ Surface /\ owed' = FALSE
  /\ UNCHANGED <<feed, found, downloading, staged, window>>

\* 'error' is of the check or of the download: the handler is one.
CheckFails ==
  /\ Room /\ checking /\ checking' = FALSE /\ Surface /\ owed' = FALSE
  /\ UNCHANGED <<feed, found, downloading, staged, window>>
DownloadFails ==
  /\ Room /\ downloading # None /\ downloading' = None /\ Surface /\ owed' = FALSE
  /\ UNCHANGED <<feed, checking, found, staged, window>>

DownloadProgress ==
  /\ Room /\ downloading # None /\ setState([state EXCEPT !.status = "downloading"])
  /\ UNCHANGED <<manual, owed, dialogs, lib, window>>

UpdateDownloaded ==
  /\ Room /\ downloading # None /\ downloading' = None
  /\ staged' = downloading /\ setState(State("downloaded", downloading))
  /\ UNCHANGED <<manual, owed, dialogs, feed, checking, found, window>>

-----------------------------------------------------------------------------
(* The window *)

\* init(): subscribes, and asks for what was sent before; the two keep their order.
init ==
  /\ ~inited /\ inited' = TRUE /\ toWindow' = <<state>>
  /\ UNCHANGED <<main, lib, update, dismissed, asked>>

\* Events before the subscription are not heard.
onEvent ==
  /\ toWindow # <<>> /\ toWindow' = Tail(toWindow)
  /\ IF inited
     THEN LET next == Head(toWindow)
              reshow == \/ next.version # update.version
                        \/ next.status = "downloaded" /\ update.status # "downloaded"
          IN update' = next /\ dismissed' = (dismissed /\ ~reshow)
     ELSE UNCHANGED <<update, dismissed>>
  /\ UNCHANGED <<main, lib, inited, asked>>

\* The banner
Visible == ~dismissed /\ update.status \in {"available", "downloading", "downloaded"}

dismiss ==   \* Later, or the cross, which a running download does not have
  /\ Visible /\ update.status # "downloading" /\ dismissed' = TRUE
  /\ UNCHANGED <<main, lib, toWindow, update, inited, asked>>

download ==   \* updatesDownload: what the library's last check found
  /\ Visible /\ update.status = "available"
  /\ downloading' = (IF downloading = None THEN found ELSE downloading) /\ asked' = TRUE
  /\ UNCHANGED <<main, feed, checking, found, staged, toWindow, update, dismissed, inited>>

\* updatesInstall: the app quits into the version that is staged; a new life begins.
install ==
  /\ Visible /\ update.status = "downloaded" /\ staged # None
  /\ feed' = 0 /\ checking' = FALSE /\ found' = 0 /\ downloading' = None /\ staged' = None
  /\ state' = Idle /\ manual' = FALSE /\ owed' = FALSE /\ dialogs' = "none"
  /\ toWindow' = <<>> /\ update' = Idle /\ dismissed' = FALSE /\ inited' = FALSE /\ asked' = FALSE

Next ==
  \/ Release \/ check \/ manualCheckForUpdates
  \/ UpdateAvailable \/ UpdateNotAvailable \/ CheckFails
  \/ DownloadProgress \/ UpdateDownloaded \/ DownloadFails
  \/ init \/ onEvent \/ dismiss \/ download \/ install

Spec == Init /\ [][Next]_vars

-----------------------------------------------------------------------------
(* Properties *)

Status == {"idle", "checking", "available", "downloading", "downloaded"}
TypeOK ==
  /\ feed \in Version /\ checking \in BOOLEAN /\ found \in Version
  /\ downloading \in Version \cup {None}
  /\ staged \in Version \cup {None} /\ manual \in BOOLEAN /\ owed \in BOOLEAN
  /\ state.status \in Status /\ update.status \in Status /\ dismissed \in BOOLEAN
  /\ inited \in BOOLEAN /\ dialogs \in {"none", "asked", "unasked"} /\ asked \in BOOLEAN

\* A dialog about a check comes only to a user who asked for one and has not been answered,
\* whichever checks and downloads overlap (updater.ts 48, 147, 157).
NoDialogUnasked == dialogs # "unasked"

\* With nothing on its way the window mirrors main, however late it has subscribed
\* (updater.ts 50: "replayed to windows that subscribe late").
WindowMirrors == inited /\ toWindow = <<>> => update = state

\* Nothing waits to be installed when the app quits that nobody asked for: every check leaves
\* it to the banner (updater.ts 112-113).
StagedWasAsked == staged # None => asked

-----------------------------------------------------------------------------
(* What comments of the code say and the code does not do *)

\* updates.ts 28-30: "the restart prompt should always surface": a background check's result
\* takes its place.
RestartStays == staged # None /\ inited /\ toWindow = <<>> => update.status = "downloaded"
=============================================================================
