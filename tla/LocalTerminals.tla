--------------------------- MODULE LocalTerminals ---------------------------
(***************************************************************************)
(* A local terminal tab: the hook that owns its shell                       *)
(* (src/src/renderer/hooks/useLocalTerminalSession.ts), the command a        *)
(* workspace runs in it (components/terminal/LocalTerminalTab.tsx), and the *)
(* manager of the PTYs (main/terminal/local-terminal-manager.ts).  Messages *)
(* of a window travel in order, in both directions.  The double mount of    *)
(* StrictMode is one step of the renderer that leaves no trace (startedRef, *)
(* and a deferred cleanup that finds the tab alive).                        *)
(***************************************************************************)
EXTENDS Naturals, Sequences, FiniteSets

CONSTANTS
  MaxShells   \* bound on the shells the tab asks for

Shell == 1..MaxShells

VARIABLES
  pty,       \* of each shell: "none", "running", "killed" or "exited"
  sessions,  \* shells in the map of main
  owner,     \* is the window there?
  asked,     \* open() calls made
  opening, ref, alive,
  mount,     \* "mounted", "leaving" (the deferred cleanup is pending), "over"
  status, shown,   \* of the tab in the sessions store: its status and session
  ran, timer, typed,   \* ranRef, the shell the 400 ms timer is for, where the command went
  toMain, toTab

shells == <<pty, sessions, owner>>
hook == <<asked, opening, ref, alive, mount, status, shown>>
command == <<ran, timer, typed>>
vars == <<shells, hook, command, toMain, toTab>>

Msg(k, s) == [kind |-> k, id |-> s]

Init ==
  /\ pty = [s \in Shell |-> "none"] /\ sessions = {} /\ owner = TRUE
  /\ asked = 1 /\ opening = TRUE /\ ref = 0 /\ alive = TRUE /\ mount = "mounted"
  /\ status = "connecting" /\ shown = 0
  /\ ran = FALSE /\ timer = 0 /\ typed = <<>>
  /\ toMain = <<Msg("open", 1)>> /\ toTab = <<>>

-----------------------------------------------------------------------------
(* Main *)

\* open(): the shell runs, or its directory is missing and the call is rejected.
open(s) ==
  \/ /\ pty' = [pty EXCEPT ![s] = "running"] /\ sessions' = sessions \cup {s}
     /\ toTab' = Append(toTab, Msg("opened", s))
  \/ toTab' = Append(toTab, Msg("failed", s)) /\ UNCHANGED <<pty, sessions>>

Kill(S) == pty' = [s \in Shell |-> IF s \in S /\ pty[s] = "running" THEN "killed" ELSE pty[s]]

close(s) ==
  Kill({s} \cap sessions) /\ sessions' = sessions \ {s} /\ UNCHANGED toTab

MainHears ==
  /\ owner /\ toMain # <<>> /\ toMain' = Tail(toMain)
  /\ LET m == Head(toMain) IN IF m.kind = "open" THEN open(m.id) ELSE close(m.id)
  /\ UNCHANGED <<owner, hook, command>>

\* A shell ends by itself, or as it was killed: the window is told in either case.
onExit(s) ==
  /\ pty[s] \in {"running", "killed"} /\ pty' = [pty EXCEPT ![s] = "exited"]
  /\ sessions' = sessions \ {s}
  /\ toTab' = IF owner THEN Append(toTab, Msg("exit", s)) ELSE toTab
  /\ UNCHANGED <<owner, hook, command, toMain>>

destroyAll ==   \* the window is closed, or the application quits
  /\ owner /\ owner' = FALSE /\ Kill(sessions) /\ sessions' = {}
  /\ alive' = FALSE /\ mount' = "over" /\ toMain' = <<>> /\ toTab' = <<>>
  /\ UNCHANGED <<asked, opening, ref, status, shown, command>>

-----------------------------------------------------------------------------
(* The tab *)

\* The effect of the workspace command, on a change of session or status: its cleanup
\* clears the timer, and the command is planned once.
Planned(s, st) ==
  IF s # 0 /\ st = "connected" /\ ~ran THEN ran' = TRUE /\ timer' = s ELSE ran' = ran /\ timer' = 0

Opened(s) ==
  IF alive
  THEN /\ ref' = s /\ shown' = s /\ status' = "connected" /\ Planned(s, "connected")
       /\ UNCHANGED <<typed, toMain>>
  ELSE toMain' = Append(toMain, Msg("close", s)) /\ UNCHANGED <<ref, shown, status, command>>

Exited(s) ==
  IF s = ref /\ mount = "mounted"
  THEN /\ ref' = 0 /\ shown' = 0 /\ status' = "disconnected" /\ Planned(0, "disconnected")
       /\ UNCHANGED <<typed, toMain>>
  ELSE UNCHANGED <<ref, shown, status, command, toMain>>

TabHears ==
  /\ toTab # <<>> /\ toTab' = Tail(toTab)
  /\ LET m == Head(toTab)
     IN CASE m.kind = "opened" -> Opened(m.id) /\ opening' = FALSE
          [] m.kind = "failed" ->
               /\ opening' = FALSE /\ status' = IF alive THEN "error" ELSE status
               /\ UNCHANGED <<ref, shown, command, toMain>>
          [] m.kind = "exit" -> Exited(m.id) /\ UNCHANGED opening
  /\ UNCHANGED <<shells, asked, alive, mount>>

restart ==   \* offered when the shell has exited
  /\ alive /\ status = "disconnected" /\ asked < MaxShells
  /\ ref' = 0
  /\ IF opening THEN UNCHANGED <<asked, opening, status, toMain>>
     ELSE /\ opening' = TRUE /\ status' = "connecting" /\ asked' = asked + 1
          /\ toMain' = Append(toMain, Msg("open", asked + 1))
  /\ UNCHANGED <<shells, alive, mount, shown, command, toTab>>

TimerFires ==
  /\ timer # 0 /\ typed' = Append(typed, timer) /\ timer' = 0
  /\ UNCHANGED <<shells, hook, ran, toMain, toTab>>

Unmount ==
  /\ mount = "mounted" /\ alive' = FALSE /\ mount' = "leaving" /\ timer' = 0
  /\ UNCHANGED <<shells, asked, opening, ref, status, shown, ran, typed, toMain, toTab>>
Cleanup ==   \* setTimeout 0 after the unmount
  /\ mount = "leaving" /\ mount' = "over" /\ ref' = 0 /\ status' = "cleared" /\ shown' = 0
  /\ toMain' = IF ref # 0 THEN Append(toMain, Msg("close", ref)) ELSE toMain
  /\ UNCHANGED <<shells, asked, opening, alive, command, toTab>>

Next ==
  \/ MainHears \/ destroyAll \/ TabHears \/ restart \/ TimerFires
  \/ Unmount \/ Cleanup
  \/ \E s \in Shell : onExit(s)

Spec == Init /\ [][Next]_vars

-----------------------------------------------------------------------------
(* Properties *)

TypeOK ==
  /\ pty \in [Shell -> {"none", "running", "killed", "exited"}] /\ sessions \in SUBSET Shell
  /\ owner \in BOOLEAN /\ asked \in 0..MaxShells /\ opening \in BOOLEAN /\ ref \in 0..MaxShells
  /\ alive \in BOOLEAN /\ mount \in {"mounted", "leaving", "over"} /\ shown \in 0..MaxShells
  /\ status \in {"connecting", "connected", "disconnected", "error", "cleared"}
  /\ ran \in BOOLEAN /\ timer \in 0..MaxShells /\ typed \in Seq(Shell)

Sent(q, k, s) == \E n \in DOMAIN q : q[n] = Msg(k, s)

\* A shell that runs is the tab's, or its reply or its end is on the way: no order of
\* exits, restarts and closings leaves one that nobody ends.
ShellsAreHeld ==
  \A s \in Shell :
    pty[s] = "running" => (s = ref /\ mount # "over") \/ Sent(toTab, "opened", s) \/ Sent(toMain, "close", s)

\* A tab shown as connected has a shell, or hears of its end.
ConnectedHasShell ==
  mount = "mounted" /\ status = "connected"
  => ref = shown /\ (ref \in sessions \/ Sent(toTab, "exit", ref))

\* The command of a workspace is typed at most once, whatever is restarted, and into the
\* shell the tab shows.
CommandTypedOnce == Len(typed) <= 1 /\ (timer # 0 => timer = shown /\ ran /\ typed = <<>>)
=============================================================================
