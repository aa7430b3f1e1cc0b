---------------------------- MODULE TunnelsPanel ----------------------------
(***************************************************************************)
(* The panel of the tunnels and its dialog (renderer/components/tunnels),     *)
(* the store they show (stores/tunnels) and the handlers they call            *)
(* (ipc/tunnels, tunnels-repo).  What the manager makes of a start or a stop  *)
(* is module Tunnels; here a start takes its time and a tunnel may go down.   *)
(* A tunnel is the address it listens on: "loop" or "lan".                     *)
(***************************************************************************)
EXTENDS Naturals, Sequences, SequencesExt

CONSTANTS
  Tunnel, None,
  MaxActs    \* bound: clicks of the user, and tunnels that go down

VARIABLES
  defs,               \* main's rows
  running, starting,  \* main's active map; the start() calls that wait
  calls, answers,     \* invokes to main; answers and status events to the window, in order
  saved, status,      \* the store
  listing,            \* the rows that load() waits with for the statuses
  form,               \* the dialog: what it edits and the address in it
  acts,               \* how many of MaxActs were made
  lost, raced         \* history: told while remove() held a copy; started twice or removed meanwhile

mainVars  == <<defs, running, starting>>
storeVars == <<saved, status, listing>>
panelVars == <<mainVars, calls, answers, storeVars, form, acts, lost, raced>>

Addr   == {"loop", "lan"}
NoForm == [open |-> FALSE, of |-> None, listenHost |-> "loop"]

PanelInit ==
  /\ defs \in [Tunnel -> {"loop", None}] /\ running = {} /\ starting = <<>>
  /\ calls = <<>> /\ answers = <<>>
  /\ saved = [t \in Tunnel |-> None] /\ status = [t \in Tunnel |-> None] /\ listing = None
  /\ form = NoForm /\ acts = 0 /\ lost = {} /\ raced = {}

Acts    == acts < MaxActs /\ acts' = acts + 1
Call(m) == calls' = Append(calls, m)
Tells(ms) == answers' = answers \o ms
Served(op) == calls # <<>> /\ Head(calls).op = op /\ calls' = Tail(calls)
Is(t, s) == [op |-> "status", id |-> t, is |-> s]

-----------------------------------------------------------------------------
(* Main *)

listTunnels ==
  /\ Served("list")
  /\ Tells(<<[op |-> "list", is |-> defs, then |-> Head(calls).then, copy |-> Head(calls).copy]>>)
  /\ UNCHANGED <<mainVars, storeVars, form, acts, lost, raced>>
HandleStatus ==
  /\ Served("statuses")
  /\ Tells(<<[op |-> "statuses", is |-> [t \in Tunnel |-> IF t \in running THEN "running" ELSE None]]>>)
  /\ UNCHANGED <<mainVars, storeVars, form, acts, lost, raced>>

\* The schema accepts what the dialog lets through.
SaveTunnel ==
  /\ Served("save")
  /\ LET m == Head(calls) IN
     IF m.new \/ defs[m.id] # None
     THEN defs' = [defs EXCEPT ![m.id] = m.listenHost] /\ Tells(<<[op |-> "saved"]>>)
     ELSE UNCHANGED defs /\ Tells(<<[op |-> "refused"]>>)
  /\ UNCHANGED <<running, starting, storeVars, form, acts, lost, raced>>

\* stop() looks in the active map only.
StopIn(t) == running' = running \ {t}
Stopped(t) == IF t \in running THEN <<Is(t, "stopped")>> ELSE <<>>
DeleteTunnel ==
  /\ Served("remove")
  /\ LET t == Head(calls).id IN
     /\ StopIn(t) /\ defs' = [defs EXCEPT ![t] = None]
     /\ Tells(Stopped(t) \o <<[op |-> "removed", id |-> t]>>)
     /\ raced' = IF t \in ToSet(starting) THEN raced \cup {t} ELSE raced
  /\ UNCHANGED <<starting, storeVars, form, acts, lost>>
HandleStop ==
  /\ Served("stop")
  /\ LET t == Head(calls).id IN
     StopIn(t) /\ Tells(Stopped(t) \o <<[op |-> "stopped", id |-> t]>>)
  /\ UNCHANGED <<defs, starting, storeVars, form, acts, lost, raced>>

HandleStart ==
  /\ Served("start")
  /\ LET t == Head(calls).id IN
     CASE t \in running -> Tells(<<Is(t, "running")>>) /\ UNCHANGED <<starting, raced>>
       [] t \notin running /\ defs[t] = None -> Tells(<<Is(t, "error")>>) /\ UNCHANGED <<starting, raced>>
       [] OTHER -> /\ starting' = Append(starting, t) /\ UNCHANGED answers
                   /\ raced' = IF t \in ToSet(starting) THEN raced \cup {t} ELSE raced
  /\ UNCHANGED <<defs, running, storeVars, form, acts, lost>>

\* The start is over: its event and its answer, or an error; its twin holds the port.
StartEnds ==
  /\ \E i \in DOMAIN starting : LET t == starting[i] IN
       /\ starting' = RemoveAt(starting, i)
       /\ \/ t \notin running /\ running' = running \cup {t} /\ Tells(<<Is(t, "running"), Is(t, "running")>>)
          \/ UNCHANGED running /\ Tells(<<Is(t, "error")>>)
  /\ UNCHANGED <<defs, calls, storeVars, form, acts, lost, raced>>

\* The connection or the listener is lost; every two seconds a tunnel tells its counters.
GoesDown ==
  /\ Acts /\ \E t \in running : StopIn(t) /\ Tells(<<Is(t, "error")>>)
  /\ UNCHANGED <<defs, starting, calls, storeVars, form, lost, raced>>
Refresh ==
  /\ answers = <<>> /\ \E t \in running : status[t] # "running" /\ Tells(<<Is(t, "running")>>)
  /\ UNCHANGED <<mainVars, calls, storeVars, form, acts, lost, raced>>

-----------------------------------------------------------------------------
(* The store *)

Comes(op) == answers # <<>> /\ Head(answers).op = op /\ answers' = Tail(answers)
Copies == {m.copy : m \in {x \in ToSet(calls) \cup ToSet(answers) : x.op = "list"}} \ {None}

applyStatus ==
  /\ Comes("status") /\ status' = [status EXCEPT ![Head(answers).id] = Head(answers).is]
  /\ lost' = IF Copies # {} THEN lost \cup {Head(answers).id} ELSE lost \ {Head(answers).id}
  /\ UNCHANGED <<mainVars, calls, saved, listing, form, acts, raced>>

\* load() sets both lists at once; the others only that of the rows, and remove() the statuses as
\* they were when it was told.
Listed ==
  /\ Comes("list")
  /\ LET m == Head(answers) IN
     IF m.then = "load" THEN listing' = m.is /\ UNCHANGED <<saved, status, form>>
     ELSE /\ saved' = m.is /\ UNCHANGED listing
          /\ status' = IF m.then = "removed" THEN m.copy ELSE status
          /\ form' = IF m.then = "saved" THEN NoForm ELSE form
  /\ UNCHANGED <<mainVars, calls, acts, lost, raced>>
Loaded ==
  /\ Comes("statuses") /\ saved' = listing /\ status' = Head(answers).is /\ listing' = None
  /\ UNCHANGED <<mainVars, calls, form, acts, lost, raced>>

ListNext(then, copy) == calls' = Append(calls, [op |-> "list", then |-> then, copy |-> copy])
Saved ==
  /\ Comes("saved") /\ ListNext("saved", None)
  /\ UNCHANGED <<mainVars, storeVars, form, acts, lost, raced>>
Refused ==
  Comes("refused") /\ UNCHANGED <<mainVars, calls, storeVars, form, acts, lost, raced>>
Removed ==
  /\ Comes("removed") /\ ListNext("removed", [status EXCEPT ![Head(answers).id] = None])
  /\ UNCHANGED <<mainVars, storeVars, form, acts, lost, raced>>
StopAnswered ==
  /\ Comes("stopped")
  /\ status' = [status EXCEPT ![Head(answers).id] = IF @ = "running" THEN "stopped" ELSE @]
  /\ UNCHANGED <<mainVars, calls, saved, listing, form, acts, lost, raced>>

-----------------------------------------------------------------------------
(* The panel and its dialog *)

load ==
  /\ saved = [t \in Tunnel |-> None] /\ listing = None /\ calls = <<>> /\ answers = <<>>
  /\ calls' = <<[op |-> "list", then |-> "load", copy |-> None], [op |-> "statuses"]>>
  /\ UNCHANGED <<mainVars, answers, storeVars, form, acts, lost, raced>>

\* The button of a row starts or stops; the other removes.
rowButtons ==
  /\ ~form.open /\ Acts
  /\ \E t \in Tunnel :
       /\ saved[t] # None
       /\ \/ Call([op |-> IF status[t] = "running" THEN "stop" ELSE "start", id |-> t])
          \/ Call([op |-> "remove", id |-> t])
  /\ UNCHANGED <<mainVars, answers, storeVars, form, lost, raced>>

openForm ==
  /\ ~form.open /\ Acts
  /\ \E t \in Tunnel \cup {None} :
       /\ t # None => saved[t] # None
       /\ form' = [open |-> TRUE, of |-> t, listenHost |-> IF t = None THEN "loop" ELSE saved[t]]
  /\ UNCHANGED <<mainVars, calls, answers, storeVars, lost, raced>>

editForm ==
  /\ form.open /\ \E h \in Addr : form' \in {[form EXCEPT !.listenHost = h], NoForm}
  /\ UNCHANGED <<mainVars, calls, answers, storeVars, acts, lost, raced>>

\* For an address of the network the box beside it is ticked.  Nothing disables the button while
\* a save is on its way; main gives the row of a new tunnel an id of its own.
Taken == {t \in Tunnel : defs[t] # None \/ saved[t] # None} \cup running \cup ToSet(starting)
         \cup {m.id : m \in {x \in ToSet(calls) \cup ToSet(answers) : "id" \in DOMAIN x}}
handleSave ==
  /\ form.open /\ Acts
  /\ \E t \in (IF form.of = None THEN Tunnel \ Taken ELSE {form.of}) :
       Call([op |-> "save", new |-> form.of = None, id |-> t, listenHost |-> form.listenHost])
  /\ UNCHANGED <<mainVars, answers, storeVars, form, lost, raced>>

PanelNext ==
  \/ listTunnels \/ HandleStatus \/ SaveTunnel \/ DeleteTunnel \/ HandleStop \/ HandleStart
  \/ StartEnds \/ GoesDown \/ Refresh \/ applyStatus \/ Listed \/ Loaded \/ Saved \/ Refused
  \/ Removed \/ StopAnswered \/ load \/ rowButtons \/ openForm \/ editForm \/ handleSave

PanelSpec == PanelInit /\ [][PanelNext]_panelVars

-----------------------------------------------------------------------------
\* Types of the state.
PanelTypeOK ==
  /\ defs \in [Tunnel -> Addr \cup {None}] /\ saved \in [Tunnel -> Addr \cup {None}]
  /\ running \subseteq Tunnel /\ ToSet(starting) \subseteq Tunnel
  /\ status \in [Tunnel -> {"running", "stopped", "error", None}]
  /\ form \in [open : BOOLEAN, of : Tunnel \cup {None}, listenHost : Addr]
  /\ acts \in 0 .. MaxActs
  /\ lost \subseteq Tunnel /\ raced \subseteq Tunnel

\* With nothing on its way the panel lists main's tunnels, shows as running only those that run,
\* and lists every tunnel that runs; but for what was told while remove() held its copy of the
\* statuses, and for a tunnel started twice or removed while it was started.
QuietPanelIsMain ==
  calls = <<>> /\ answers = <<>> /\ (\E t \in Tunnel : saved[t] # None) =>
    /\ saved = defs
    /\ \A t \in Tunnel : status[t] = "running" /\ saved[t] # None => t \in running \cup lost
    /\ \A t \in running : defs[t] # None \/ t \in raced
=============================================================================
