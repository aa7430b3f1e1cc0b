----------------------------- MODULE Automation -----------------------------
(***************************************************************************)
(* A command fanned out over many hosts: the runner                        *)
(* (src/src/main/automation/automation-runner.ts), the command on one host  *)
(* (src/src/main/ssh/command-runner.ts) and the store of one window that    *)
(* shows the results (src/src/renderer/stores/automation.ts).              *)
(*                                                                         *)
(* A command is "queued", then "connecting" if no terminal's connection is  *)
(* borrowed, then "exec" until the server has opened its channel: only then *)
(* does it listen for a cancel and have a timer ("running").                *)
(***************************************************************************)
EXTENDS Naturals, Sequences, SequencesExt

CONSTANTS
  Host,
  Run,            \* calls of start()
  MaxConcurrent,  \* MAX_CONCURRENT
  None

VARIABLES
  st,       \* where the command of each run is on each host
  outcome,  \* how it ended
  aborted,  \* runs whose controller is aborted
  ded,      \* the run and host of each dedicated connection that is open
  window,   \* is the owner not destroyed?
  events,   \* automation events on their way to it
  replies,  \* runs whose id is on its way to startRun()
  rows,     \* the store: the status of each host row of each run
  shown     \* the store: currentRunId

cmd == <<st, outcome, ded>>
store == <<rows, shown>>
vars == <<cmd, aborted, window, events, replies, store>>

Started == {"connecting", "exec", "running"}
Outcome == {"success", "failed", "error", "cancelled"}
Active(r) == {h \in Host : st[r][h] \in Started}
InRun(r) == {h \in Host : st[r][h] # "none"}

Init ==
  /\ st = [r \in Run |-> [h \in Host |-> "none"]]
  /\ outcome = [r \in Run |-> [h \in Host |-> None]]
  /\ aborted = {} /\ ded = {} /\ window = TRUE /\ events = <<>> /\ replies = {}
  /\ rows = [r \in Run |-> [h \in Host |-> None]] /\ shown = None

\* emit(): nothing is sent to a window that is gone.
Event(r, h, e) == [run |-> r, host |-> h, status |-> e]
Emit(es) == events' = IF window THEN events \o es ELSE events

Goto(r, h, l) == st' = [st EXCEPT ![r][h] = l]

\* The command on h is over: what was opened for it is disconnected, its event sent.
Finish(r, h, o) ==
  /\ Goto(r, h, "done") /\ outcome' = [outcome EXCEPT ![r][h] = o]
  /\ ded' = ded \ {<<r, h>>} /\ Emit(<<Event(r, h, o)>>)

-----------------------------------------------------------------------------
(* Main *)

\* start(): the id goes back, the lanes go to work.
Start(r, S) ==
  /\ window /\ \A h \in Host : st[r][h] = "none"
  /\ st' = [st EXCEPT ![r] = [h \in Host |-> IF h \in S THEN "queued" ELSE "none"]]
  /\ replies' = replies \cup {r}
  /\ UNCHANGED <<outcome, aborted, ded, window, events, store>>

\* A lane takes the next host: runOne() up to its await, on a borrowed connection up to exec.
Take(r, h, borrowed) ==
  /\ st[r][h] = "queued" /\ Cardinality(Active(r)) < MaxConcurrent
  /\ IF ~window THEN Goto(r, h, "done") /\ UNCHANGED <<outcome, events>>
     ELSE IF r \in aborted
     THEN /\ Goto(r, h, "done") /\ outcome' = [outcome EXCEPT ![r][h] = "cancelled"]
          /\ Emit(<<Event(r, h, "running"), Event(r, h, "cancelled")>>)
     ELSE /\ Goto(r, h, IF borrowed THEN "exec" ELSE "connecting")
          /\ Emit(<<Event(r, h, "running")>>) /\ UNCHANGED outcome
  /\ UNCHANGED <<ded, aborted, window, replies, store>>

\* connectDedicated() answers; a cancel meanwhile is seen now.
Connected_Leaks(r, h) ==   \* mutant: a cancelled run returns without disconnecting
  /\ st[r][h] = "connecting"
  /\ IF r \in aborted
     THEN /\ Goto(r, h, "done") /\ outcome' = [outcome EXCEPT ![r][h] = "cancelled"]
          /\ ded' = ded \cup {<<r, h>>} /\ Emit(<<Event(r, h, "cancelled")>>)
     ELSE Goto(r, h, "exec") /\ ded' = ded \cup {<<r, h>>} /\ UNCHANGED <<outcome, events>>
  /\ UNCHANGED <<aborted, window, replies, store>>
Connected(r, h) ==
  /\ st[r][h] = "connecting"
  /\ \/ r \in aborted /\ Finish(r, h, "cancelled")
     \/ Finish(r, h, "error")
     \/ /\ r \notin aborted /\ window
        /\ Goto(r, h, "exec") /\ ded' = ded \cup {<<r, h>>} /\ UNCHANGED <<outcome, events>>
  /\ UNCHANGED <<aborted, window, replies, store>>

\* exec() calls back: with an error, or with the channel that is listened to from now on.
ExecAnswered(r, h) ==
  /\ st[r][h] = "exec"
  /\ \/ Finish(r, h, "error")
     \/ Goto(r, h, "running") /\ UNCHANGED <<outcome, ded, events>>
  /\ UNCHANGED <<aborted, window, replies, store>>

\* The channel closes with what exit said; or fails, or its output exceeds the cap.
ChannelEnds(r, h) ==
  /\ st[r][h] = "running"
  /\ \E o \in {"success", "failed", "error"} : Finish(r, h, o)
  /\ UNCHANGED <<aborted, window, replies, store>>
TimesOut(r, h) ==
  /\ st[r][h] = "running" /\ Finish(r, h, "error")
  /\ UNCHANGED <<aborted, window, replies, store>>

Output(r, h) ==
  /\ st[r][h] = "running" /\ Event(r, h, "output") \notin ToSet(events)
  /\ Emit(<<Event(r, h, "output")>>) /\ UNCHANGED <<cmd, aborted, window, replies, store>>

\* cancel(): whatever listens ends at once; the rest sees it at its next check, if any.
Cancel(r) ==
  /\ window /\ shown = r /\ r \notin aborted
  /\ \E h \in InRun(r) : rows[r][h] \in {"running", "pending"}
  /\ IF \A h \in Host : st[r][h] \in {"none", "done"}
     THEN UNCHANGED <<cmd, aborted, events>>
     ELSE LET S == {h \in Host : st[r][h] = "running"}
          IN /\ aborted' = aborted \cup {r}
             /\ st' = [st EXCEPT ![r] = [h \in Host |-> IF h \in S THEN "done" ELSE @[h]]]
             /\ outcome' = [outcome EXCEPT ![r] = [h \in Host |-> IF h \in S THEN "cancelled" ELSE @[h]]]
             /\ ded' = ded \ ({r} \X S)
             /\ Emit(SetToSeq({Event(r, h, "cancelled") : h \in S}))
  /\ UNCHANGED <<window, replies, store>>

\* The window closes: its connections are closed (sessionManager.destroyForOwner), which
\* ends the commands on them; the run itself goes on.
WindowCloses ==
  /\ window /\ window' = FALSE /\ events' = <<>> /\ replies' = {} /\ ded' = {}
  /\ UNCHANGED <<st, outcome, aborted, store>>

-----------------------------------------------------------------------------
(* The window *)

\* startRun() has its id: the rows it has no event of yet are pending.
RunNamed_Clobbers(r) ==   \* mutant: the rows start anew
  /\ r \in replies /\ replies' = replies \ {r} /\ shown' = r
  /\ rows' = [rows EXCEPT ![r] = [h \in Host |-> IF h \in InRun(r) THEN "pending" ELSE None]]
  /\ UNCHANGED <<cmd, aborted, window, events>>
RunNamed(r) ==
  /\ r \in replies /\ replies' = replies \ {r} /\ shown' = r
  /\ rows' = [rows EXCEPT ![r] =
       [h \in Host |-> IF h \in InRun(r) /\ @[h] = None THEN "pending" ELSE @[h]]]
  /\ UNCHANGED <<cmd, aborted, window, events>>

applyEvent ==
  /\ events # <<>> /\ events' = Tail(events)
  /\ LET e == Head(events)
     IN rows' = [rows EXCEPT ![e.run][e.host] =
          IF e.status # "output" THEN e.status
          ELSE IF @ \in {None, "pending"} THEN "running" ELSE @]
  /\ UNCHANGED <<cmd, aborted, window, replies, shown>>

Next ==
  \/ \E r \in Run :
       \/ \E S \in SUBSET Host \ {{}} : Start(r, S)
       \/ Cancel(r) \/ RunNamed(r)
       \/ \E h \in Host :
            \/ \E b \in BOOLEAN : Take(r, h, b)
            \/ Connected(r, h) \/ ExecAnswered(r, h) \/ ChannelEnds(r, h) \/ TimesOut(r, h)
            \/ Output(r, h)
  \/ WindowCloses \/ applyEvent

Spec == Init /\ [][Next]_vars

\* Lanes take hosts, connects and execs are answered, timers fire; a command itself may
\* never end.
Fairness ==
  \A r \in Run, h \in Host :
    /\ WF_vars(\E b \in BOOLEAN : Take(r, h, b))
    /\ WF_vars(Connected(r, h)) /\ WF_vars(ExecAnswered(r, h)) /\ WF_vars(TimesOut(r, h))

-----------------------------------------------------------------------------
(* Properties *)

TypeOK ==
  /\ st \in [Run -> [Host -> Started \cup {"none", "queued", "done"}]]
  /\ outcome \in [Run -> [Host -> Outcome \cup {None}]]
  /\ aborted \in SUBSET Run /\ replies \in SUBSET Run /\ ded \in SUBSET (Run \X Host)
  /\ window \in BOOLEAN /\ shown \in Run \cup {None}
  /\ rows \in [Run -> [Host -> Outcome \cup {"pending", "running", None}]]
  /\ \A r \in Run : Cardinality(Active(r)) <= MaxConcurrent

\* A connection opened for a command is open only while the command is on it, whichever of
\* a cancel, a timer, an error and the server ends it (command-runner.ts 143-146).
ConnectionsEnd == \A rh \in ded : st[rh[1]][rh[2]] \in {"exec", "running"}

\* With nothing on its way, every row of a run shows how its host stands or ended, though
\* events may come before the run has its name (stores/automation.ts 90: "Don't clobber
\* events that may already have arrived").
ResultsShown ==
  window /\ events = <<>> =>
    \A r \in Run \ replies : \A h \in InRun(r) :
      rows[r][h] = CASE st[r][h] = "queued" -> "pending"
                     [] st[r][h] = "done" -> outcome[r][h]
                     [] OTHER -> "running"

\* Every run ends, whatever its servers do with the commands (command-runner.ts 12-17).
RunsEnded == \A r \in Run, h \in Host : st[r][h] \in {"none", "done"}
RunEnds == []<>RunsEnded
=============================================================================
