-------------------------------- MODULE Tabs --------------------------------
(***************************************************************************)
(* The tab strip and its split (src/src/renderer/stores/tabs.ts), one       *)
(* reducer per operation; and everything in the window that calls them: the  *)
(* rows of the host list, the command palette, the side bar, the saved        *)
(* directories and workspaces (renderer/lib/local-terminal), the strip itself *)
(* (SessionTabs) and the shortcuts of AppLayout.  A tab of a host or a         *)
(* directory gets a fresh id, the tabs of Single have one of their own and are *)
(* opened again while they are open.  Choosing a folder is modal to the        *)
(* window, so it is one step with what follows.  Titles, their renaming and    *)
(* the split ratio are left out.                                             *)
(***************************************************************************)
EXTENDS Naturals, Sequences, Functions, FiniteSets

CONSTANTS
  Tab,       \* tab ids; one id is one host's terminal, or the logs, ...
  Pinned,    \* those that are not closable
  Reopen,    \* may a tab that is open be opened again (the side bar does)?
  None,
  Single,    \* automation, logs, ai-activity
  Host, Dir,
  MaxDirs    \* bound: directories of a workspace

VARIABLES
  tabs, activeTabId, secondaryTabId, splitDirection, focusedPane,
  hostKind,  \* host -> its protocols, as the window lists it
  about      \* tab -> the kind of an open tab and its host or directory

-----------------------------------------------------------------------------
(* The store *)

split == <<secondaryTabId, splitDirection>>
vars  == <<tabs, activeTabId, split, focusedPane>>

Direction == {"horizontal", "vertical"}
Open      == Range(tabs)
IndexOf(id) == CHOOSE n \in DOMAIN tabs : tabs[n] = id

Init ==
  /\ tabs = <<>> /\ activeTabId = None
  /\ secondaryTabId = None /\ splitDirection = None /\ focusedPane = "primary"

\* Array.filter and Array.find, with the tabs of S.
Kept(S) ==
  LET kept[n \in 0..Len(tabs)] ==
        IF n = 0 THEN <<>> ELSE IF tabs[n] \in S THEN Append(kept[n - 1], tabs[n]) ELSE kept[n - 1]
  IN kept[Len(tabs)]
First(S) == tabs[CHOOSE n \in DOMAIN tabs : tabs[n] \in S /\ \A m \in 1..(n - 1) : tabs[m] \notin S]

Unsplit == secondaryTabId' = None /\ splitDirection' = None

\* openTab(): a tab that is open is only activated.
openTab(id) ==
  /\ Reopen \/ id \notin Open
  /\ tabs' = IF id \in Open THEN tabs ELSE Append(tabs, id)
  /\ activeTabId' = id /\ focusedPane' = "primary"
  /\ UNCHANGED split

\* closeTab(): the other pane is promoted, or else the tab that takes the place.
closeTab_Index(id) ==   \* mutant: the index is not clamped to the tabs that stay
  /\ id \in Open \ Pinned
  /\ LET rest == Kept(Open \ {id})
         next == Append(rest, "undefined")[IndexOf(id)]
     IN  /\ tabs' = rest
         /\ IF id \in {activeTabId, secondaryTabId}
            THEN Unsplit /\ focusedPane' = "primary" ELSE UNCHANGED <<split, focusedPane>>
         /\ activeTabId' = IF id # activeTabId THEN activeTabId
                           ELSE IF secondaryTabId \notin {None, id} THEN secondaryTabId ELSE next
closeTab(id) ==
  /\ id \in Open \ Pinned
  /\ LET rest == Kept(Open \ {id})
         n    == IF IndexOf(id) <= Len(rest) THEN IndexOf(id) ELSE Len(rest)
         both == id = activeTabId /\ secondaryTabId # None
     IN  /\ tabs' = rest
         /\ IF id = secondaryTabId \/ both
            THEN Unsplit /\ focusedPane' = "primary" ELSE UNCHANGED <<split, focusedPane>>
         /\ activeTabId' = IF id # activeTabId THEN activeTabId
                           ELSE IF secondaryTabId \notin {None, id} THEN secondaryTabId
                           ELSE IF rest = <<>> THEN None ELSE rest[n]

\* setActiveTab(): choosing the tab of the other pane swaps the panes.
setActiveTab(id) ==
  /\ id \in Open /\ activeTabId' = id /\ focusedPane' = "primary"
  /\ secondaryTabId' = IF id = secondaryTabId /\ activeTabId # None
                       THEN activeTabId ELSE secondaryTabId
  /\ UNCHANGED <<tabs, splitDirection>>

splitWithTab(id, direction) ==
  /\ id \in Open \ Pinned /\ id # activeTabId
  /\ splitDirection' = direction /\ secondaryTabId' = id /\ focusedPane' = "primary"
  /\ UNCHANGED <<tabs, activeTabId>>

\* toggleSplit(): the same direction closes the split; otherwise the first other
\* closable tab takes the second pane.
toggleSplit(direction) ==
  /\ UNCHANGED <<tabs, activeTabId>> /\ focusedPane' = "primary"
  /\ \/ splitDirection = direction /\ Unsplit
     \/ LET others == Open \ (Pinned \cup {activeTabId})
        IN  /\ splitDirection # direction /\ others # {}
            /\ splitDirection' = direction /\ secondaryTabId' = First(others)

closeSplit == Unsplit /\ focusedPane' = "primary" /\ UNCHANGED <<tabs, activeTabId>>

\* A pane is focused by what happens in it; the second one exists when split.
setFocusedPane(pane) ==
  /\ pane = "secondary" => secondaryTabId # None
  /\ focusedPane' = pane /\ UNCHANGED <<tabs, activeTabId, split>>

Next ==
  \/ \E id \in Tab : openTab(id) \/ closeTab(id) \/ setActiveTab(id)
  \/ \E id \in Tab, d \in Direction : splitWithTab(id, d)
  \/ \E d \in Direction : toggleSplit(d)
  \/ closeSplit
  \/ \E p \in {"primary", "secondary"} : setFocusedPane(p)

Spec == Init /\ [][Next]_vars

-----------------------------------------------------------------------------
(* What calls it *)

strip == <<vars, hostKind, about>>

HostKind == {"ssh", "vnc", "both", "rdp"}
NoTab    == [kind |-> None, of |-> None]
About    ==
  {NoTab} \cup [kind : {"terminal", "sftp", "vnc", "rdp"}, of : Host]
    \cup [kind : {"local-terminal"}, of : Dir \cup {None}] \cup [kind : {"single"}, of : {None}]
Fresh    == Tab \ (Single \cup Open)

StripInit == Init /\ hostKind \in [Host -> HostKind] /\ about = [t \in Tab |-> NoTab]

\* What a row of the list offers, its icons and its menu.
ListKinds(h) ==
  (IF hostKind[h] \in {"ssh", "both"} THEN {"terminal", "sftp"} ELSE {})
    \cup (IF hostKind[h] \in {"vnc", "both"} THEN {"vnc"} ELSE {})
    \cup (IF hostKind[h] = "rdp" THEN {"rdp"} ELSE {})

\* What the palette offers: every host that is not "vnc" a terminal and files, an
\* RDP host too; every host that is not "ssh" a VNC desktop.
PaletteKinds(h) ==
  (IF hostKind[h] # "vnc" THEN {"terminal", "sftp"} ELSE {})
    \cup (IF hostKind[h] # "ssh" THEN {"vnc"} ELSE {})

New(id, kind, of) ==
  /\ id \in Fresh /\ openTab(id) /\ about' = [about EXCEPT ![id] = [kind |-> kind, of |-> of]]
  /\ UNCHANGED hostKind

openFromList(h, id)    == \E k \in ListKinds(h) : New(id, k, h)
openFromPalette(h, id) == \E k \in PaletteKinds(h) : New(id, k, h)

openSingle(id) ==
  /\ id \in Single /\ openTab(id) /\ about' = [about EXCEPT ![id] = [kind |-> "single", of |-> None]]
  /\ UNCHANGED hostKind

\* The + of the strip, a folder that is picked, a prompt or a routine in its folder.
openLocalTerminalTab(d, id) == New(id, "local-terminal", d)

\* A saved directory: the first tab of its directory, or else a new one.
openOrFocusLocalTerminalTab(d, id) ==
  LET same == {t \in Open : about[t] = [kind |-> "local-terminal", of |-> d]}
  IN  IF same # {} THEN setActiveTab(First(same)) /\ UNCHANGED <<hostKind, about>>
      ELSE openLocalTerminalTab(d, id)

duplicateLocalTerminal(id) ==
  /\ activeTabId # None /\ about[activeTabId].kind = "local-terminal"
  /\ openLocalTerminalTab(about[activeTabId].of, id)

\* One terminal for each directory; the second beside the first.
openLocalTerminalsSideBySide(ids, dirs) ==
  /\ ids # <<>> /\ Range(ids) \subseteq Fresh
  /\ tabs' = tabs \o ids /\ activeTabId' = ids[1] /\ focusedPane' = "primary"
  /\ IF Len(ids) = 1 THEN UNCHANGED split
     ELSE secondaryTabId' = ids[2] /\ splitDirection' = "horizontal"
  /\ about' = [t \in Tab |-> IF t \in Range(ids)
                             THEN [kind |-> "local-terminal", of |-> dirs[CHOOSE n \in DOMAIN ids : ids[n] = t]]
                             ELSE about[t]]
  /\ UNCHANGED hostKind

Close(id) == closeTab(id) /\ about' = [about EXCEPT ![id] = NoTab] /\ UNCHANGED hostKind

\* A click in the strip; with Alt the tab goes to the second pane.
activateTab(id, alt) ==
  /\ IF alt /\ id \notin Pinned
     THEN splitWithTab(id, IF splitDirection = None THEN "horizontal" ELSE splitDirection)
     ELSE setActiveTab(id)
  /\ UNCHANGED <<hostKind, about>>

canSplit == Cardinality(Open \ Pinned) >= 2
splitButton(d) == canSplit /\ toggleSplit(d) /\ UNCHANGED <<hostKind, about>>
splitCommand   == toggleSplit("horizontal") /\ UNCHANGED <<hostKind, about>>   \* the palette's
unsplitButton  == secondaryTabId # None /\ closeSplit /\ UNCHANGED <<hostKind, about>>

\* Something in a tab that is visible gets the focus.
paneFocused(id) ==
  /\ id \in {activeTabId, secondaryTabId} \ {None}
  /\ setFocusedPane(IF id = secondaryTabId THEN "secondary" ELSE "primary")
  /\ UNCHANGED <<hostKind, about>>

\* The shortcuts: a number, 9 for the last tab; Ctrl+Tab; Cmd+W, whatever pane has the focus.
selectTabByIndex(n) ==
  /\ n \in DOMAIN tabs /\ setActiveTab(tabs[n]) /\ UNCHANGED <<hostKind, about>>
cycleTab(dir) ==
  /\ tabs # <<>>
  /\ LET i == IF activeTabId \in Open THEN IndexOf(activeTabId) ELSE 1
     IN  setActiveTab(tabs[1 + ((i - 1 + dir + Len(tabs)) % Len(tabs))])
  /\ UNCHANGED <<hostKind, about>>
closeShortcut == activeTabId \in Open /\ Close(activeTabId)

\* A host is edited; its tabs stay as they are.
editHost(h) == \E k \in HostKind : hostKind' = [hostKind EXCEPT ![h] = k] /\ UNCHANGED <<vars, about>>

StripNext ==
  \/ \E h \in Host, id \in Tab : openFromList(h, id) \/ openFromPalette(h, id)
  \/ \E id \in Tab : openSingle(id) \/ duplicateLocalTerminal(id) \/ Close(id) \/ paneFocused(id)
  \/ \E d \in Dir, id \in Tab : openOrFocusLocalTerminalTab(d, id)
  \/ \E d \in Dir \cup {None}, id \in Tab : openLocalTerminalTab(d, id)
  \/ \E n \in 0..MaxDirs : \E ids \in [1..n -> Tab \ Single], dirs \in [1..MaxDirs -> Dir] :
       IsInjective(ids) /\ openLocalTerminalsSideBySide(ids, dirs)
  \/ \E id \in Tab, alt \in BOOLEAN : activateTab(id, alt)
  \/ \E d \in Direction : splitButton(d)
  \/ splitCommand \/ unsplitButton \/ closeShortcut
  \/ \E n \in 1..9 : selectTabByIndex(n)
  \/ \E dir \in {-1, 1} : cycleTab(dir)
  \/ \E h \in Host : editHost(h)

StripSpec == StripInit /\ [][StripNext]_strip

-----------------------------------------------------------------------------
(* Properties *)

TypeOK ==
  /\ tabs \in Seq(Tab) /\ activeTabId \in Tab \cup {None}
  /\ secondaryTabId \in Tab \cup {None} /\ splitDirection \in Direction \cup {None}
  /\ focusedPane \in {"primary", "secondary"}

\* Panes show open tabs: whatever is closed, and in which order, the active tab
\* is one of the tabs, there is one when there are tabs, and so is the second.
PanesAreOpen ==
  /\ activeTabId \in Open \/ (activeTabId = None /\ tabs = <<>>)
  /\ secondaryTabId \in Open \cup {None}

\* The split is whole: a direction and a second pane come and go together, and
\* only then can the second pane have the focus.
SplitIsWhole ==
  /\ splitDirection = None <=> secondaryTabId = None
  /\ focusedPane = "secondary" => secondaryTabId # None

\* No tab twice in the strip: React mounts a session for each entry.
TabsDistinct == IsInjective(tabs)

\* 32, "Second pane when split; must differ from activeTabId".
PanesDiffer == secondaryTabId # None => secondaryTabId # activeTabId

StripTypeOK ==
  /\ TypeOK /\ hostKind \in [Host -> HostKind] /\ about \in [Tab -> About]
  /\ \A t \in Tab : t \in Open <=> about[t] # NoTab

\* The two panes show two tabs, but for a tab of Single that is opened again while it
\* is in the second pane: no session is in both panes, so each pane that is shown has
\* the size and the focus of its own.
PanesShowTwo == activeTabId = secondaryTabId => activeTabId \in Single \cup {None}
=============================================================================
