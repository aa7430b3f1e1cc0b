---------------------------- MODULE AutomationTab ----------------------------
(***************************************************************************)
(* The automation tab (src/src/renderer/components/automation/              *)
(* AutomationTab.tsx): the hosts it ticks, the form of a job, and the saved *)
(* jobs, in the store of the window (renderer/stores/automation.ts) and in  *)
(* the vault (main/store/automation-repo.ts).  Calls and their answers keep *)
(* their order; a handler of main is one step.  What a run does is the      *)
(* module Automation; names, searches and messages are left out.            *)
(***************************************************************************)
EXTENDS Naturals, Sequences

CONSTANTS
  Host, Group, Below,   \* Below[g]: the group and the groups nested in it
  Vnc,       \* the hosts that are VNC only
  None, Top,
  Script,    \* commands
  MaxCalls   \* bound on what the user asks of main

VARIABLES
  live,      \* the hosts of the vault; the window's copy follows at once
  groupOf,   \* their group, or Top
  selected, command, editing,   \* the form: hosts, command, the job it was loaded from
  busy,
  rows,      \* the jobs of the vault, by id
  made,      \* ids given so far: 1, 2, ...
  jobs,      \* the window's list
  runs, current,   \* runs started, and the one in the results pane
  calls, answers,  \* to main and back
  asks,
  meant      \* of each job what the user last saved, None once deleted

world == <<live, groupOf>>
form == <<selected, command, editing>>
vault == <<rows, made, runs>>
vars == <<world, form, busy, vault, jobs, current, calls, answers, asks, meant>>

Id == 1..MaxCalls
Job(c, H) == [command |-> c, hosts |-> H]
Call(op, id, c, H) == [op |-> op, id |-> id, command |-> c, hosts |-> H]

Init ==
  /\ live = Host /\ groupOf \in [Host -> Group \cup {Top}]
  /\ selected = {} /\ command = None /\ editing = 0 /\ busy = FALSE
  /\ rows = [j \in Id |-> None] /\ made = 0 /\ jobs = {} /\ runs = 0 /\ current = 0
  /\ calls = <<>> /\ answers = <<>> /\ asks = 0 /\ meant = rows

-----------------------------------------------------------------------------
(* The form *)

sshHosts == live \ Vnc
groupHostIds(g) == {h \in sshHosts : groupOf[h] \in Below[g]}

Tick(H) == selected' = H /\ UNCHANGED <<command, editing>>
toggleHost(h) ==
  h \in sshHosts /\ Tick(IF h \in selected THEN selected \ {h} ELSE selected \cup {h})
\* All of the group and of those below it, or none once all are ticked.
toggleGroup(g) ==
  /\ groupHostIds(g) # {}
  /\ Tick(IF groupHostIds(g) \subseteq selected THEN selected \ groupHostIds(g)
          ELSE selected \cup groupHostIds(g))
TickAll == Tick(sshHosts)
TickNone == Tick({})
setCommand(c) == command' = c /\ UNCHANGED <<selected, editing>>
resetForm == editing' = 0 /\ command' = None /\ selected' = {}
loadJobIntoForm(j) == editing' = j.id /\ command' = j.command /\ selected' = j.hosts

FormStep ==
  /\ \/ \E h \in Host : toggleHost(h)
     \/ \E g \in Group : toggleGroup(g)
     \/ \E c \in Script \cup {None} : setCommand(c)
     \/ \E j \in jobs : loadJobIntoForm(j)
     \/ TickAll \/ TickNone \/ resetForm
  /\ UNCHANGED <<world, busy, vault, jobs, current, calls, answers, asks, meant>>

-----------------------------------------------------------------------------
(* Buttons *)

Ask(m) == asks < MaxCalls /\ asks' = asks + 1 /\ calls' = Append(calls, m)

handleRun ==
  /\ ~busy /\ command # None /\ selected # {}
  /\ busy' = TRUE /\ Ask(Call("run", 0, command, selected)) /\ UNCHANGED meant
RunJob(j) ==   \* in the list, not disabled by a call of the form
  Ask(Call("runJob", 0, j.command, j.hosts)) /\ UNCHANGED <<busy, meant>>

\* The job that the form was loaded from is updated; a new one is created, and the form
\* is not bound to it.
handleSave ==
  /\ ~busy /\ command # None /\ busy' = TRUE
  /\ IF editing = 0 THEN Ask(Call("create", 0, command, selected)) /\ UNCHANGED meant
     ELSE /\ Ask(Call("update", editing, command, selected))
          /\ meant' = [meant EXCEPT ![editing] = IF @ = None THEN None ELSE Job(command, selected)]

deleteJob(j) ==
  Ask(Call("delete", j.id, None, {})) /\ meant' = [meant EXCEPT ![j.id] = None] /\ UNCHANGED busy

ButtonStep ==
  /\ handleRun \/ handleSave \/ \E j \in jobs : RunJob(j) \/ deleteJob(j)
  /\ UNCHANGED <<world, form, vault, jobs, current, answers>>

-----------------------------------------------------------------------------
(* Main *)

Answer(m, ok, list, run) ==
  answers' = Append(answers, [op |-> m.op, id |-> m.id, ok |-> ok, list |-> list, run |-> run])
Done(m) == Answer(m, TRUE, {}, 0)

\* The row keeps ids of hosts that are gone; the list leaves them out.
listAutomationJobs(m) ==
  /\ Answer(m, TRUE, {[id |-> j, command |-> rows[j].command, hosts |-> rows[j].hosts \cap live] :
                        j \in {j \in Id : rows[j] # None}}, 0)
  /\ UNCHANGED <<vault, meant>>
createAutomationJob(m) ==
  /\ made' = made + 1 /\ rows' = [rows EXCEPT ![made + 1] = Job(m.command, m.hosts)]
  /\ meant' = [meant EXCEPT ![made + 1] = Job(m.command, m.hosts)] /\ Done(m) /\ UNCHANGED runs
updateAutomationJob(m) ==
  /\ rows' = [rows EXCEPT ![m.id] = IF @ = None THEN None ELSE Job(m.command, m.hosts)]
  /\ Answer(m, rows[m.id] # None, {}, 0) /\ UNCHANGED <<made, runs, meant>>
deleteAutomationJob(m) ==
  rows' = [rows EXCEPT ![m.id] = None] /\ Done(m) /\ UNCHANGED <<made, runs, meant>>
automationRun(m) == runs' = runs + 1 /\ Answer(m, TRUE, {}, runs + 1) /\ UNCHANGED <<rows, made, meant>>

MainHears ==
  /\ calls # <<>> /\ calls' = Tail(calls)
  /\ LET m == Head(calls)
     IN \/ m.op = "create" /\ createAutomationJob(m)
        \/ m.op = "update" /\ updateAutomationJob(m)
        \/ m.op = "delete" /\ deleteAutomationJob(m)
        \/ m.op \in {"list", "listForForm"} /\ listAutomationJobs(m)
        \/ m.op \in {"run", "runJob"} /\ automationRun(m)
  /\ UNCHANGED <<world, form, busy, jobs, current, asks>>

-----------------------------------------------------------------------------
(* The store *)

loadJobs(op) == calls' = Append(calls, Call(op, 0, None, {})) /\ UNCHANGED <<busy, jobs, current>>

\* A change that went well is followed by a reading of the list; the form is free again
\* after that, or at once when it was refused.
Answered ==
  /\ answers # <<>> /\ answers' = Tail(answers)
  /\ LET m == Head(answers)
     IN \/ m.op \in {"create", "update"} /\ m.ok /\ loadJobs("listForForm")
        \/ m.op = "update" /\ ~m.ok /\ busy' = FALSE /\ UNCHANGED <<jobs, current, calls>>
        \/ m.op = "delete" /\ loadJobs("list")
        \/ m.op = "listForForm" /\ jobs' = m.list /\ busy' = FALSE /\ UNCHANGED <<current, calls>>
        \/ m.op = "list" /\ jobs' = m.list /\ UNCHANGED <<busy, current, calls>>
        \/ m.op = "run" /\ current' = m.run /\ busy' = FALSE /\ UNCHANGED <<jobs, calls>>
        \/ m.op = "runJob" /\ current' = m.run /\ UNCHANGED <<busy, jobs, calls>>
  /\ UNCHANGED <<world, form, vault, asks, meant>>

\* A host is deleted or moved elsewhere in the window, whatever is ticked here.
HostChanges ==
  /\ \E h \in live :
       \/ live' = live \ {h} /\ UNCHANGED groupOf
       \/ \E g \in Group \cup {Top} : groupOf' = [groupOf EXCEPT ![h] = g] /\ UNCHANGED live
  /\ UNCHANGED <<form, busy, vault, jobs, current, calls, answers, asks, meant>>

Next == FormStep \/ ButtonStep \/ MainHears \/ Answered \/ HostChanges
Spec == Init /\ [][Next]_vars

-----------------------------------------------------------------------------
(* Properties *)

JobRow == [command : Script, hosts : SUBSET Host]
TypeOK ==
  /\ live \subseteq Host /\ groupOf \in [Host -> Group \cup {Top}] /\ selected \subseteq Host
  /\ command \in Script \cup {None} /\ editing \in 0..MaxCalls /\ busy \in BOOLEAN
  /\ \A j \in Id : rows[j] \in JobRow \cup {None} /\ meant[j] \in JobRow \cup {None}
  /\ made \in 0..MaxCalls /\ runs \in 0..MaxCalls /\ current \in 0..runs

OnTheWay(ops, q) == \E n \in DOMAIN q : q[n].op \in ops
Quiet == calls = <<>> /\ answers = <<>>

\* With nothing on its way the list is that of the vault, but for hosts deleted since, and
\* the results are those of the run asked for last (loadJobs after every change, store
\* lines 71-84; startRun 86-98).
QuietTabIsVault ==
  Quiet => /\ current = runs
           /\ {[id |-> j.id, command |-> j.command, hosts |-> j.hosts \cap live] : j \in jobs}
              = {[id |-> j, command |-> rows[j].command, hosts |-> rows[j].hosts \cap live] :
                   j \in {j \in Id : rows[j] # None}}

\* A job is what the user last saved from a form loaded with it, and a deleted one stays
\* deleted, though forms loaded from it may still be open (repo lines 70-90).
JobsAreAsSaved ==
  ~OnTheWay({"update", "delete"}, calls) => rows = meant

\* The form is disabled only while an answer is on its way.
BusyIsAnswered ==
  busy => OnTheWay({"create", "update", "run", "listForForm"}, calls \o answers)
=============================================================================
