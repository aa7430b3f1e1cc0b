------------------------------ MODULE MCWindow ------------------------------
(***************************************************************************)
(* The window, in one instance: the hooks of a terminal tab (SshTab) and of   *)
(* an SFTP tab (SftpTab), the tabs of a local shell (LocalTerminals), of a    *)
(* VNC and of an RDP host (VncTab, RdpTab) and of automation (AutomationTab),  *)
(* the store of the tabs and what opens them (Tabs), the                      *)
(* output of a terminal (TerminalOutput), the drawer of the transfers          *)
(* (TransfersDrawer), the list of hosts (HostList) and the dialog of its       *)
(* groups (GroupsDialog), prompts and routines (PromptBook), the tunnels       *)
(* (TunnelsPanel), the settings (Settings) and the updates (Updater).  They    *)
(* share no state but the tabs, and the groups; a behaviour is one of one of   *)
(* them: part says of which.                                                  *)
(***************************************************************************)
EXTENDS SshTab, FiniteSets

CONSTANTS
  None, Top,
  Tab, Pinned, Reopen, StripTab, Single, StripHost, StripDir, MaxDirs,
  Dir, Name, Start, MaxOpens, MaxLists, MaxActions, TransferId, MaxEvents, Group, Host, MaxGroupCalls,
  MaxVersion, MaxMsgs, MaxOut, Cap, MaxShells, JobHost, JobGroup, Below, Script, MaxCalls,
  Ws, MaxPatches, Bad, Absent, Prompt, Routine, MaxBody, MaxQueue, Rfb, Element, Tunnel, MaxActs

ASSUME NoneAssumption == None \notin Tab \cup StripTab \cup {"horizontal", "vertical"} \cup Rfb \cup Element \cup Group \cup {Top}
ASSUME NoJobAssumption == None \notin Script /\ None \notin [command : Script, hosts : SUBSET JobHost]
ASSUME BoundsAssumption == {MaxShells, MaxOpens, MaxOut, Cap, MaxCalls} \subseteq Nat \ {0} /\ MaxVersion \in Nat
ASSUME StartAssumption == Start \in Dir
ASSUME TopAssumption == Top \notin Group
ASSUME FiniteAssumption == IsFiniteSet(Group) /\ IsFiniteSet(Host)
ASSUME NoStatusAssumption ==
  None \notin {"queued", "active", "running", "loop", "lan"} /\ None \notin [Tunnel -> {"running", "stopped", "error", None}]

\* A group of jobs has none below it.
OnlyItself == [g \in JobGroup |-> {g}]

VARIABLES
  part,
  tabs, activeTabId, secondaryTabId, splitDirection, focusedPane,
  asked, live, sftpStatus, sftpRef, aborted, sftpMount, path, entries, listError, lists,
  dialog, actions, acted, remote, calm,
  main, events, drawerCalls, transfers, order, wiped,
  groups, parent, member, hosts, matches, collapsed, dragging, confirming,
  feed, checking, found, downloading, staged, state, manual, owed, dialogs, toWindow,
  update, dismissed, inited, wanted,
  kind, out, session, attached, preAttach, toScreen, attaches, view, shown, dropped,
  pty, sessions, owner, opens, opening, shell, shellAlive, shellMount, shellStatus,
  shellShown, ran, typing, typed, shellCalls, shellEvents,
  jobHosts, groupOf, selected, command, editing, busy, rows, made, jobs, runs, current,
  jobCalls, answers, asks, meant,
  file, cached, committed, settings, loaded, form, prefCalls, prefAnswers,
  hostKind, about,
  savedPrompts, savedRoutines, prompts, routines, listsLoaded, bookCalls, bookAnswers, bodies,
  promptForm, routineForm, agent, ranRoutine,
  vncMount, vncAlive, vncStarted, vncAborted, cleanup, vncOpens, rfb, vncRef, watchdog, verifying,
  vncStatus, overtaken,
  rdpMount, rdpAlive, rdpStarted, rdpCleanup, rdpOpens, loading, element, elementRef, uiRef,
  rdpStatus, rdpListed, rdpOvertaken,
  defs, running, starting, tunnelCalls, tunnelAnswers, saved, tunnelStatus, listing, tunnelForm, acts,
  lost, raced,
  shownGroups, shownParent, editedGroup, parentId, submitting, calmGroups, groupCalls, groupAnswers

Store == INSTANCE Tabs WITH Host <- StripHost, Dir <- StripDir
store == <<tabs, activeTabId, secondaryTabId, splitDirection, focusedPane>>

Sftp == INSTANCE SftpTab
  WITH status <- sftpStatus, ref <- sftpRef, mount <- sftpMount
sftp == <<asked, live, sftpStatus, sftpRef, aborted, sftpMount, path, entries, listError, lists,
          dialog, actions, acted, remote, calm>>

Drawer == INSTANCE TransfersDrawer WITH Id <- TransferId, calls <- drawerCalls
drawer == <<main, events, drawerCalls, transfers, order, wiped>>

List == INSTANCE HostList
list == <<groups, parent, member, hosts, matches, collapsed, dragging, confirming>>

Upd == INSTANCE Updater WITH asked <- wanted
upd == <<feed, checking, found, downloading, staged, state, manual, owed, dialogs, toWindow,
         update, dismissed, inited, wanted>>

Output == INSTANCE TerminalOutput WITH toWindow <- toScreen, toMain <- attaches
output == <<kind, out, session, attached, preAttach, toScreen, attaches, view, shown, dropped>>

Shells == INSTANCE LocalTerminals
  WITH asked <- opens, ref <- shell, alive <- shellAlive, mount <- shellMount, status <- shellStatus,
       shown <- shellShown, timer <- typing, toMain <- shellCalls, toTab <- shellEvents
shellTab == <<pty, sessions, owner, opens, opening, shell, shellAlive, shellMount, shellStatus,
              shellShown, ran, typing, typed, shellCalls, shellEvents>>

Jobs == INSTANCE AutomationTab
  WITH Host <- JobHost, Group <- JobGroup, Vnc <- {}, live <- jobHosts, calls <- jobCalls
jobTab == <<jobHosts, groupOf, selected, command, editing, busy, rows, made, jobs, runs, current,
            jobCalls, answers, asks, meant>>

Prefs == INSTANCE Settings WITH MaxQueue <- MaxPatches, calls <- prefCalls, answers <- prefAnswers
prefs == <<file, cached, committed, settings, loaded, form, prefCalls, prefAnswers>>

ASSUME SettingsAssumption ==
  /\ \A x \in {Bad, Absent} : x \notin Prefs!Theme /\ x \notin Prefs!Program /\ x \notin BOOLEAN
                         /\ \A S \in SUBSET Ws : x # S
  /\ None \notin Prefs!SettingsType

Strip == INSTANCE Tabs
  WITH Tab <- StripTab, Pinned <- {}, Reopen <- TRUE, Host <- StripHost, Dir <- StripDir
stripTabs == <<hostKind, about>>

Book == INSTANCE PromptBook
  WITH loaded <- listsLoaded,
       calls <- bookCalls, answers <- bookAnswers, ran <- ranRoutine
book == <<savedPrompts, savedRoutines, prompts, routines, listsLoaded, bookCalls, bookAnswers, bodies,
          promptForm, routineForm, agent, ranRoutine>>

Vnc == INSTANCE VncTab
  WITH mount <- vncMount, alive <- vncAlive, started <- vncStarted,
       aborted <- vncAborted, opens <- vncOpens, ref <- vncRef, status <- vncStatus
vncTab == <<vncMount, vncAlive, vncStarted, vncAborted, cleanup, vncOpens, rfb, vncRef, watchdog,
            verifying, vncStatus, overtaken>>

Rdp == INSTANCE RdpTab
  WITH mount <- rdpMount, alive <- rdpAlive, started <- rdpStarted,
       cleanup <- rdpCleanup, opens <- rdpOpens, status <- rdpStatus, listed <- rdpListed,
       overtaken <- rdpOvertaken
rdpTab == <<rdpMount, rdpAlive, rdpStarted, rdpCleanup, rdpOpens, loading, element, elementRef, uiRef,
            rdpStatus, rdpListed, rdpOvertaken>>

Panel == INSTANCE TunnelsPanel
  WITH calls <- tunnelCalls, answers <- tunnelAnswers,
       status <- tunnelStatus, form <- tunnelForm
panel == <<defs, running, starting, tunnelCalls, tunnelAnswers, saved, tunnelStatus, listing, tunnelForm,
           acts, lost, raced>>

\* The groups are those of the list.
Folders == INSTANCE GroupsDialog
  WITH shown <- shownGroups,
       editing <- editedGroup, calm <- calmGroups
folders == <<shownGroups, shownParent, editedGroup, parentId, submitting, calmGroups, groupCalls, groupAnswers>>

all == <<part, vars, store, sftp, drawer, list, upd, output, shellTab, jobTab, prefs, stripTabs, book,
         vncTab, rdpTab, panel, folders>>

Part == {"terminal", "tabs", "sftp", "transfers", "hosts", "updates", "output", "shell",
         "automation", "settings", "strip", "book", "vnc", "rdp", "tunnels", "groups"}

WindowInit ==
  /\ part \in Part
  /\ Init /\ Store!Init /\ Sftp!Init /\ Drawer!Init /\ List!ListInit /\ Upd!Init
  /\ Output!Init /\ (part # "output" => kind = "ssh") /\ Shells!Init
  /\ Jobs!Init /\ (part # "automation" => \A h \in JobHost : groupOf[h] = Top)
  /\ Prefs!SettingsInit /\ (part # "settings" => file = None)
  /\ hostKind = [h \in StripHost |-> "ssh"] /\ about = [t \in StripTab |-> Strip!NoTab]
  /\ Book!BookInit /\ (part # "book" => savedPrompts = prompts /\ savedRoutines = routines)
  /\ Vnc!VncInit /\ Rdp!RdpInit
  /\ Panel!PanelInit /\ (part # "tunnels" => defs = saved) /\ Folders!DialogInit

\* The parts but x stay as they are.
Keep(x, v) == IF part = x THEN TRUE ELSE UNCHANGED v

TerminalStep == part = "terminal" /\ Next
TabsStep == part = "tabs" /\ Store!Next
SftpStep == part = "sftp" /\ Sftp!Next
DrawerStep == part = "transfers" /\ Drawer!Next
ListStep == part = "hosts" /\ List!ListNext
UpdStep == part = "updates" /\ Upd!Next
OutputStep == part = "output" /\ Output!Next
ShellStep == part = "shell" /\ Shells!Next
JobsStep == part = "automation" /\ Jobs!Next
PrefsStep == part = "settings" /\ Prefs!SettingsNext
StripStep == part = "strip" /\ Strip!StripNext
BookStep == part = "book" /\ Book!BookNext
VncStep == part = "vnc" /\ Vnc!VncNext
RdpStep == part = "rdp" /\ Rdp!RdpNext
PanelStep == part = "tunnels" /\ Panel!PanelNext
FoldersStep == part = "groups" /\ Folders!DialogNext /\ UNCHANGED <<hosts, matches, collapsed, dragging, confirming>>
WindowNext ==
  /\ \/ TerminalStep \/ TabsStep \/ SftpStep \/ DrawerStep \/ ListStep \/ UpdStep \/ OutputStep
     \/ ShellStep \/ JobsStep \/ PrefsStep \/ StripStep \/ BookStep \/ VncStep \/ RdpStep
     \/ PanelStep \/ FoldersStep
  /\ UNCHANGED part
  /\ Keep("terminal", vars) /\ (part \in {"tabs", "strip"} \/ UNCHANGED store)
  /\ Keep("sftp", sftp) /\ Keep("transfers", drawer) /\ (part \in {"hosts", "groups"} \/ UNCHANGED list) /\ Keep("updates", upd)
  /\ Keep("output", output) /\ Keep("shell", shellTab) /\ Keep("automation", jobTab)
  /\ Keep("settings", prefs) /\ Keep("strip", stripTabs) /\ Keep("book", book)
  /\ Keep("vnc", vncTab) /\ Keep("rdp", rdpTab) /\ Keep("tunnels", panel)
  /\ Keep("groups", folders)

WindowSpec == WindowInit /\ [][WindowNext]_all /\ (part = "terminal" => Fairness)

\* The type invariants of all
WindowTypeOK ==
  /\ TypeOK /\ Store!TypeOK /\ Sftp!TypeOK /\ Drawer!TypeOK /\ List!ListTypeOK /\ Upd!TypeOK
  /\ Output!TypeOK /\ Shells!TypeOK /\ Jobs!TypeOK /\ Prefs!SettingsTypeOK
  /\ (part = "strip" => Strip!StripTypeOK) /\ Book!BookTypeOK /\ Vnc!VncTypeOK /\ Rdp!RdpTypeOK /\ Panel!PanelTypeOK
  /\ Folders!DialogTypeOK

\* A session that a terminal, an SFTP or a shell tab has asked for is held by it or on its way to be
\* held or closed: no order of aborts, retries and closings leaves one that nobody closes.  The
\* desktop of a VNC or an RDP tab is the one it holds, unless Reconnect overtook an attempt.
TabSessionsAreHeld ==
  /\ SessionsAreHeld /\ Sftp!TabHoldsSessions /\ Shells!ShellsAreHeld
  /\ Vnc!RfbIsHeld /\ Rdp!RdpIsHeld

\* What a tab shows as open is the session it holds; an SFTP action is on the row it was
\* asked for; the browser shows the directory it names; a terminal shows
\* the output of its session, each chunk once; a desktop tab shows Connected of a connection
\* that is up, and does not show Connecting for ever; the form of a job, a prompt or a routine
\* is disabled for a call that is answered; the form of a group offers what main accepts.
TabsShowWhatTheyHold ==
  /\ ShownIsOpen /\ Sftp!ActsOnItsRow /\ Sftp!ShowsItsPath
  /\ Output!EachByteOnce /\ Shells!ConnectedHasShell /\ Jobs!BusyIsAnswered
  /\ Vnc!NeverSpins /\ Vnc!ConnectedIsUp /\ Rdp!RdpShowsItsSession /\ Book!BusyFormIsAnswered
  /\ Folders!FreshIsAccepted

\* Whatever is opened, closed, split and swapped: no tab is twice in the strip, both panes
\* show open tabs, and the split is whole.
PanesAreRight ==
  /\ Store!TabsDistinct /\ Store!PanesAreOpen /\ Store!SplitIsWhole
  /\ part = "strip" => Strip!PanesShowTwo

\* With nothing on its way the drawer has every transfer, the list every match, the banner
\* the update, the automation tab every job and the panels every prompt, routine, tunnel and group as
\* main has them.
ListsShowMain ==
  /\ Drawer!DrawerIsMain /\ List!MatchesAreListed /\ Upd!WindowMirrors
  /\ Jobs!QuietTabIsVault /\ Prefs!WindowHasSettings /\ Prefs!RestartKeepsSettings
  /\ Book!QuietBookIsMain /\ Panel!QuietPanelIsMain
  /\ (part = "groups" => Folders!QuietGroupsAreMain)

\* Nothing happens behind the user's back: no reconnect is planned for a tab whose connection
\* nobody wants any more, no command typed twice, no result is shown and no update left that
\* nobody asked for; a saved job is what the user last saved, and a routine that is due runs with
\* the prompt as it is saved.
NothingUnasked ==
  /\ RetryIsWanted /\ Shells!CommandTypedOnce /\ Upd!NoDialogUnasked /\ Upd!StagedWasAsked
  /\ Jobs!JobsAreAsSaved /\ Book!DueRunsTheSavedPrompt
=============================================================================
