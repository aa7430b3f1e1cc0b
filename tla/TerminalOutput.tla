--------------------------- MODULE TerminalOutput ---------------------------
(***************************************************************************)
(* The output of one terminal on its way to the screen: the process (a      *)
(* local PTY, main/terminal/local-terminal-manager.ts, or the shell of an   *)
(* SSH session, main/ssh/session-manager.ts), the buffer kept until the     *)
(* renderer attaches, the messages to the window, and the view             *)
(* (components/terminal/TerminalView.tsx).  Output is numbered chunks.      *)
(***************************************************************************)
EXTENDS Naturals, Sequences

CONSTANTS
  MaxOut,   \* bound on the chunks of a behaviour
  Cap       \* chunks the buffer holds

VARIABLES
  kind,       \* "ssh" or "local"
  out,        \* chunks the process has written
  session,    \* "open" (in the map of main) or "over"
  attached, preAttach,
  toWindow,   \* what main has sent: the reply of open, chunks, the end
  toMain,     \* attach messages
  view,       \* "none", "mounted", or "gone" (the tab shows no terminal any more)
  shown,      \* chunks on the screen
  dropped     \* chunks the full buffer let go

Opened == 0          \* the reply of open()
End == MaxOut + 1    \* the event of the end

vars == <<kind, out, session, attached, preAttach, toWindow, toMain, view, shown, dropped>>

Init ==
  /\ kind \in {"ssh", "local"} /\ out = 0 /\ session = "open"
  /\ attached = FALSE /\ preAttach = <<>> /\ toWindow = <<Opened>> /\ toMain = 0
  /\ view = "none" /\ shown = <<>> /\ dropped = 0

-----------------------------------------------------------------------------
(* Main *)

\* The oldest chunks go when the buffer is over its cap.
buffer(n) ==
  LET all  == Append(preAttach, n)
      over == IF Len(all) > Cap THEN Len(all) - Cap ELSE 0
  IN preAttach' = SubSeq(all, over + 1, Len(all)) /\ dropped' = dropped + over

\* The process writes: the session streams, or keeps it for attach().
onData ==
  /\ session = "open" /\ out < MaxOut /\ out' = out + 1
  /\ IF attached THEN toWindow' = Append(toWindow, out + 1) /\ UNCHANGED <<preAttach, dropped>>
     ELSE buffer(out + 1) /\ UNCHANGED toWindow
  /\ UNCHANGED <<kind, session, attached, toMain, view, shown>>

\* attach(): the buffer is sent, once.  Of an SSH session a second one does nothing.
attach ==
  /\ toMain > 0 /\ toMain' = toMain - 1
  /\ IF session = "open" /\ ~(kind = "ssh" /\ attached)
     THEN toWindow' = toWindow \o preAttach /\ preAttach' = <<>> /\ attached' = TRUE
     ELSE UNCHANGED <<toWindow, preAttach, attached>>
  /\ UNCHANGED <<kind, out, session, view, shown, dropped>>

\* The shell exits, the connection drops or the session is closed.
onExit ==
  /\ session = "open" /\ session' = "over" /\ toWindow' = Append(toWindow, End)
  /\ UNCHANGED <<kind, out, attached, preAttach, toMain, view, shown, dropped>>

-----------------------------------------------------------------------------
(* The window *)

\* The tab has its session: the view subscribes, then attaches; StrictMode runs the
\* effect twice, so that the first subscription is gone and two messages are sent.
TerminalView ==
  \E n \in {1, 2} : view' = "mounted" /\ toMain' = toMain + n /\ shown' = <<>>

Receive ==
  /\ toWindow # <<>> /\ toWindow' = Tail(toWindow)
  /\ LET m == Head(toWindow)
     IN CASE m = Opened /\ view = "none" -> TerminalView
          [] m = End -> view' = "gone" /\ UNCHANGED <<toMain, shown>>
          [] m \in 1..MaxOut /\ view = "mounted" -> shown' = Append(shown, m) /\ UNCHANGED <<view, toMain>>
          [] OTHER -> UNCHANGED <<view, toMain, shown>>
  /\ UNCHANGED <<kind, out, session, attached, preAttach, dropped>>

\* The tab is closed: the subscription ends.
CloseTab ==
  /\ view # "gone" /\ view' = "gone"
  /\ UNCHANGED <<kind, out, session, attached, preAttach, toWindow, toMain, shown, dropped>>

Next == onData \/ attach \/ onExit \/ Receive \/ CloseTab
Spec == Init /\ [][Next]_vars

-----------------------------------------------------------------------------
(* Properties *)

TypeOK ==
  /\ kind \in {"ssh", "local"} /\ out \in 0..MaxOut /\ session \in {"open", "over"}
  /\ attached \in BOOLEAN /\ preAttach \in Seq(1..MaxOut) /\ Len(preAttach) <= Cap
  /\ toMain \in 0..2 /\ view \in {"none", "mounted", "gone"} /\ shown \in Seq(1..MaxOut)
  /\ dropped \in 0..MaxOut

Chunks(q) ==
  LET chunks[n \in 0..Len(q)] ==
        IF n = 0 THEN <<>> ELSE IF q[n] \in 1..MaxOut THEN Append(chunks[n - 1], q[n]) ELSE chunks[n - 1]
  IN chunks[Len(q)]

\* What is on the screen, on its way and in the buffer is the whole output, each chunk once
\* and in its order, whatever the moment of the subscription; only a buffer over its cap
\* has lost its oldest.  A session that is over before its view attached is not shown.
EachByteOnce ==
  view # "gone" /\ (session = "open" \/ attached)
  => shown \o Chunks(toWindow) \o preAttach = [n \in 1..(out - dropped) |-> n + dropped]
=============================================================================
