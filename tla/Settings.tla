------------------------------ MODULE Settings ------------------------------
(***************************************************************************)
(* The settings: the file and its cache in main (main/store/settings), the  *)
(* handlers (main/ipc/settings, mcp), the copy of the window                *)
(* (renderer/stores/settings) and what edits it: the settings dialog, the    *)
(* workspaces, the MCP panel, the palette and the welcome.  Five fields      *)
(* stand for the twenty: one that the dialog edits, the terminal program      *)
(* with the toggle it replaces, a list and the MCP switch.                   *)
(***************************************************************************)
EXTENDS Naturals, Sequences, Functions

CONSTANTS
  Ws,        \* workspaces
  None,
  Bad,       \* a value this version of the program does not accept
  Absent,    \* undefined
  MaxQueue   \* bound: calls of the window that have not been answered

VARIABLES
  file,       \* settings.json: a settings object, of any version, or None
  cached,     \* main's parsed settings, None until they are first read
  settings, loaded,   \* the window's store
  calls, answers,     \* invokes to main and their answers, in order
  form,       \* the settings dialog: [open, theme]
  committed   \* history: the settings of the last write that took effect

mainVars == <<file, cached, committed>>
winVars  == <<settings, loaded, form>>
setVars  == <<mainVars, winVars, calls, answers>>

Theme   == {"dark", "light"}
Program == {"default", "tmux"}
Fields  == {"theme", "terminalProgram", "tmuxEnabled", "terminalWorkspaces", "mcpEnabled"}

SettingsType ==
  [theme : Theme, terminalProgram : Program, tmuxEnabled : BOOLEAN,
   terminalWorkspaces : SUBSET Ws, mcpEnabled : BOOLEAN]
DEFAULTS ==
  [theme |-> "dark", terminalProgram |-> "default", tmuxEnabled |-> FALSE,
   terminalWorkspaces |-> {}, mcpEnabled |-> FALSE]

\* parseSettingsResilient(): a field that is absent or refused costs only itself.
parseSettingsResilient(raw) ==
  [f \in Fields |-> IF raw[f] \in {Bad, Absent} THEN DEFAULTS[f] ELSE raw[f]]

\* What the file says: nothing, when it is missing or no JSON; the old tmux toggle
\* becomes the program when the file is older than that.
readSettings ==
  IF file = None THEN DEFAULTS
  ELSE LET parsed == parseSettingsResilient(file)
       IN  IF file.terminalProgram = Absent /\ file.tmuxEnabled = TRUE
           THEN [parsed EXCEPT !.terminalProgram = "tmux"] ELSE parsed
getSettings == IF cached # None THEN cached ELSE readSettings

\* A file this version wrote, or one of another version with a field it does not know.
Files ==
  {[theme |-> t, terminalProgram |-> g, tmuxEnabled |-> x, terminalWorkspaces |-> Ws, mcpEnabled |-> FALSE] :
     t \in Theme \cup {Bad}, g \in Program \cup {Bad, Absent}, x \in BOOLEAN}
Kept(raw, f) == IF raw[f] \in {Bad, Absent} THEN DEFAULTS[f] ELSE raw[f]

NoForm == [open |-> FALSE, theme |-> "dark"]

SettingsInit ==
  /\ file \in Files \cup {None} /\ cached = None
  /\ settings = DEFAULTS /\ loaded = FALSE /\ calls = <<>> /\ answers = <<>> /\ form = NoForm
  /\ committed = IF file = None THEN DEFAULTS
                 ELSE [f \in Fields |->
                        IF f = "terminalProgram" /\ file[f] = Absent /\ file.tmuxEnabled
                        THEN "tmux" ELSE Kept(file, f)]

Room == Len(calls) + Len(answers) < MaxQueue
Call(m) == calls' = Append(calls, m)

-----------------------------------------------------------------------------
(* Main *)

\* A patch over settings
Merged(patch, over) == [f \in Fields |-> IF f \in DOMAIN patch THEN patch[f] ELSE over[f]]

\* updateSettings(): written beside the file and renamed over it, then cached.
updateSettings(patch) ==
  LET next == Merged(patch, getSettings)
  IN  file' = next /\ committed' = next

\* settings:set: the parse of a patch fills every field that it does not name;
\* mcp:set-enabled patches its one field.
settingsPatch(patch) == Merged(patch, DEFAULTS)
Patch == IF Head(calls).op = "set" THEN settingsPatch(Head(calls).patch) ELSE Head(calls).patch
Writing == calls # <<>> /\ Head(calls).op \in {"set", "enable"}

HandleGet ==
  /\ calls # <<>> /\ Head(calls).op = "get"
  /\ cached' = getSettings /\ answers' = Append(answers, [op |-> "get", is |-> getSettings])
  /\ calls' = Tail(calls) /\ UNCHANGED <<file, committed, winVars>>

\* mcp:set-enabled does not answer with settings.
HandleSet ==
  /\ Writing /\ updateSettings(Patch) /\ cached' = Merged(Patch, getSettings)
  /\ answers' = IF Head(calls).op = "enable" THEN answers
                ELSE Append(answers, [op |-> Head(calls).by, is |-> cached'])
  /\ calls' = Tail(calls) /\ UNCHANGED winVars

\* The write fails: the staging file goes, file and cache stay, the call is rejected.
FailSet ==
  /\ Writing /\ cached' = getSettings
  /\ answers' = IF Head(calls).op = "enable" THEN answers
                ELSE Append(answers, [op |-> Head(calls).by, is |-> None])
  /\ calls' = Tail(calls) /\ UNCHANGED <<file, committed, winVars>>

\* The application ends, also in a write, before or after the rename, and starts again.
Restart ==
  /\ cached' = None /\ settings' = DEFAULTS /\ loaded' = FALSE /\ form' = NoForm
  /\ calls' = <<>> /\ answers' = <<>>
EndInWrite == Writing /\ updateSettings(Patch) /\ Restart
Quit == Restart /\ UNCHANGED <<file, committed>>

-----------------------------------------------------------------------------
(* The window *)

update(patch, by) == Room /\ Call([op |-> "set", patch |-> patch, by |-> by])

\* Once, when the window is mounted.
load ==
  /\ ~loaded /\ \A m \in Range(calls) \cup Range(answers) : m.op # "get"
  /\ Room /\ Call([op |-> "get"]) /\ UNCHANGED <<mainVars, winVars, answers>>

toggleTheme ==
  /\ update([theme |-> IF settings.theme = "dark" THEN "light" ELSE "dark"], "palette")
  /\ UNCHANGED <<mainVars, winVars, answers>>

\* A workspace is added or removed in the list as the window has it.
saveWorkspaces ==
  /\ \E w \in Ws : \E next \in {settings.terminalWorkspaces \cup {w}, settings.terminalWorkspaces \ {w}} :
       update([terminalWorkspaces |-> next], "workspaces")
  /\ UNCHANGED <<mainVars, winVars, answers>>

\* The checkbox shows the window's copy and asks for its opposite.
setEnabled ==
  /\ Room /\ Call([op |-> "enable", patch |-> [mcpEnabled |-> ~settings.mcpEnabled]])
  /\ UNCHANGED <<mainVars, winVars, answers>>

\* The dialog takes its fields from the store when it opens and whenever that changes.
Fill(s) == [open |-> TRUE, theme |-> s.theme]
openDialog  == ~form.open /\ form' = Fill(settings) /\ UNCHANGED <<mainVars, settings, loaded, calls, answers>>
closeDialog == form.open /\ form' = NoForm /\ UNCHANGED <<mainVars, settings, loaded, calls, answers>>
edit ==
  /\ form.open /\ \E t \in Theme : form' = [form EXCEPT !.theme = t]
  /\ UNCHANGED <<mainVars, settings, loaded, calls, answers>>
handleSave == form.open /\ update([theme |-> form.theme], "dialog") /\ UNCHANGED <<mainVars, winVars, answers>>

\* An answer replaces the store's settings; the dialog closes after its own, and
\* fills its fields again at any other.  A call that is rejected changes nothing.
Answer ==
  /\ answers # <<>> /\ answers' = Tail(answers)
  /\ LET m == Head(answers)
     IN  IF m.is = None THEN UNCHANGED winVars
         ELSE /\ settings' = m.is /\ loaded' = (loaded \/ m.op = "get")
              /\ form' = IF form.open /\ m.op # "dialog" THEN Fill(m.is) ELSE NoForm
  /\ UNCHANGED <<mainVars, calls>>

SettingsNext ==
  \/ HandleGet \/ HandleSet \/ FailSet \/ EndInWrite \/ Quit
  \/ load \/ toggleTheme \/ saveWorkspaces \/ setEnabled
  \/ openDialog \/ closeDialog \/ edit \/ handleSave \/ Answer

SettingsSpec == SettingsInit /\ [][SettingsNext]_setVars

-----------------------------------------------------------------------------
(* Properties *)

SettingsTypeOK ==
  /\ cached \in SettingsType \cup {None} /\ settings \in SettingsType
  /\ committed \in SettingsType /\ loaded \in BOOLEAN
  /\ form \in [open : BOOLEAN, theme : Theme]

\* Whenever the application ends, in a write too, what it reads at its next start is what
\* was last written whole: a value this version refuses costs its own field only, and
\* the cache never differs from the file.
RestartKeepsSettings == readSettings = committed /\ cached \in {None, committed}

\* With nothing on its way the window has main's settings, in whatever order calls were
\* made, answered and rejected; but for the MCP switch, whose call does not answer with
\* them.
WindowHasSettings ==
  loaded /\ calls = <<>> /\ answers = <<>> =>
    \A f \in Fields \ {"mcpEnabled"} : settings[f] = cached[f]

\* src/main/store/settings.test.ts:128, "merges patches instead of replacing the whole
\* object": a write changes only the fields its patch names.
MergesPatches ==
  [][committed' # committed =>
       \A f \in Fields \ DOMAIN Head(calls).patch : committed'[f] = committed[f]]_setVars
=============================================================================
