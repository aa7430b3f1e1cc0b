---------------------------- MODULE GroupsDialog ----------------------------
(***************************************************************************)
(* The dialog of the groups (GroupsDialog.tsx) over the window's copy of     *)
(* them (stores/hosts) and the handlers of Groups.  Calls are handled, and    *)
(* answers arrive, in the order they were sent in.  Of the form of a group    *)
(* its parent is kept.                                                      *)
(***************************************************************************)
EXTENDS Groups, Sequences, Functions

CONSTANTS
  None,
  MaxGroupCalls   \* bound: calls and answers on their way

VARIABLES
  shown, shownParent,      \* groups of the store, and their parents
  editing, parentId,       \* the group of the form, Top for a new one, None for the list; its parent
  submitting,              \* of the form
  calm,                    \* history: was nothing on its way when the form was opened?
  groupCalls, groupAnswers

store      == <<shown, shownParent>>
dialog     == <<editing, parentId, submitting, calm>>
dialogVars == <<vars, store, dialog, groupCalls, groupAnswers>>

Window == INSTANCE Groups WITH groups <- shown, parent <- shownParent

DialogInit ==
  /\ Init /\ shown = {} /\ shownParent = [g \in Group |-> Top]
  /\ editing = None /\ parentId = Top /\ submitting = FALSE /\ calm = TRUE
  /\ groupCalls = <<>> /\ groupAnswers = <<>>

Quiet == groupCalls = <<>> /\ groupAnswers = <<>>
Call(op, g, p, inForm) ==
  /\ Len(groupCalls) + Len(groupAnswers) < MaxGroupCalls
  /\ groupCalls' = Append(groupCalls, [op |-> op, id |-> g, parent |-> p, inForm |-> inForm, fresh |-> calm /\ Quiet])

-----------------------------------------------------------------------------
(* Main *)

Served(op) == groupCalls # <<>> /\ Head(groupCalls).op = op /\ groupCalls' = Tail(groupCalls)
Answer(op, g, p) ==
  groupAnswers' = Append(groupAnswers, [Head(groupCalls) EXCEPT !.op = op, !.id = g, !.parent = p])

Create ==
  /\ Served("create")
  /\ LET to == Head(groupCalls).parent IN
     \/ \E g \in Group \ shown : createGroup(g, to) /\ Answer("created", g, to)
     \/ to \notin groups \cup {Top} /\ UNCHANGED vars /\ Answer("refused", None, Top)
  /\ UNCHANGED <<store, dialog>>
Update ==
  /\ Served("update")
  /\ LET g == Head(groupCalls).id
         to == Head(groupCalls).parent
         legal == g \in groups /\ to \in groups \cup {Top} /\ ~wouldCycle(g, to) IN
     \/ updateGroup(g, to) /\ Answer("updated", g, to)
     \/ ~legal /\ UNCHANGED vars /\ Answer("refused", None, Top)
  /\ UNCHANGED <<store, dialog>>
Delete ==
  /\ Served("delete") /\ Answer("deleted", None, Top)
  /\ IF Head(groupCalls).id \in groups THEN deleteGroup(Head(groupCalls).id) ELSE UNCHANGED vars
  /\ UNCHANGED <<store, dialog>>
List == Served("list") /\ Answer("list", groups, parent) /\ UNCHANGED <<vars, store, dialog>>

-----------------------------------------------------------------------------
(* The window *)

First(op) == groupAnswers # <<>> /\ Head(groupAnswers).op = op
Comes(op) == First(op) /\ groupAnswers' = Tail(groupAnswers)

\* The answer of a form that is gone comes to no form, or to the next one.
Left(q) == [n \in DOMAIN q |-> [q[n] EXCEPT !.inForm = FALSE]]

\* onDone() closes whatever form is open by now.
Close(answers) ==
  /\ editing' = None /\ submitting' = FALSE /\ UNCHANGED calm
  /\ groupCalls' = Left(groupCalls) /\ groupAnswers' = Left(answers)
Created ==
  /\ First("created") /\ Close(Tail(groupAnswers))
  /\ LET m == Head(groupAnswers) IN
     shown' = shown \cup {m.id} /\ shownParent' = [shownParent EXCEPT ![m.id] = m.parent]
  /\ UNCHANGED <<vars, parentId>>
Updated ==
  /\ First("updated") /\ Close(Tail(groupAnswers))
  /\ LET m == Head(groupAnswers) IN
     shownParent' = [shownParent EXCEPT ![m.id] = IF m.id \in shown THEN m.parent ELSE @]
  /\ UNCHANGED <<vars, shown, parentId>>
Refused ==
  /\ Comes("refused") /\ submitting' = (submitting /\ ~Head(groupAnswers).inForm)
  /\ UNCHANGED <<vars, store, editing, parentId, calm, groupCalls>>
Deleted ==
  /\ Comes("deleted")
  /\ groupCalls' = Append(groupCalls, [Head(groupAnswers) EXCEPT !.op = "list"])
  /\ UNCHANGED <<vars, store, dialog>>
Listed ==
  /\ Comes("list") /\ shown' = Head(groupAnswers).id /\ shownParent' = Head(groupAnswers).parent
  /\ UNCHANGED <<vars, dialog, groupCalls>>

OpenForm ==
  /\ editing = None /\ editing' \in shown \cup {Top}
  /\ parentId' = IF editing' = Top THEN Top ELSE shownParent[editing']
  /\ calm' = Quiet
  /\ UNCHANGED <<vars, store, submitting, groupCalls, groupAnswers>>

\* The group and what is below it are not offered.
parentOptions == (shown \ (IF editing = Top THEN {} ELSE Window!descendantIds(editing))) \cup {Top}
PickParent ==
  /\ editing # None /\ parentId' \in parentOptions
  /\ UNCHANGED <<vars, store, editing, submitting, calm, groupCalls, groupAnswers>>

handleSubmit ==
  /\ editing # None /\ ~submitting /\ submitting' = TRUE
  /\ Call(IF editing = Top THEN "create" ELSE "update", editing, parentId, TRUE)
  /\ UNCHANGED <<vars, store, editing, parentId, calm, groupAnswers>>

\* Cancel, or the dialog is closed.
Cancel == editing # None /\ Close(groupAnswers) /\ UNCHANGED <<vars, store, parentId>>

DeleteRow ==
  /\ editing = None /\ \E g \in shown : Call("delete", g, Top, FALSE)
  /\ UNCHANGED <<vars, store, dialog, groupAnswers>>

DialogNext ==
  \/ Create \/ Update \/ Delete \/ List \/ Created \/ Updated \/ Refused \/ Deleted \/ Listed
  \/ OpenForm \/ PickParent \/ handleSubmit \/ Cancel \/ DeleteRow

DialogSpec == DialogInit /\ [][DialogNext]_dialogVars

-----------------------------------------------------------------------------
\* Types of the state.
DialogTypeOK ==
  /\ TypeOK /\ shown \subseteq Group /\ shownParent \in [Group -> Group \cup {Top}]
  /\ editing \in Group \cup {Top, None} /\ parentId \in Group \cup {Top} /\ submitting \in BOOLEAN

\* With nothing on its way the window has main's groups.
QuietGroupsAreMain ==
  Quiet => shown = groups /\ \A g \in groups : shownParent[g] = parent[g]

\* The form offers what main accepts: it refuses only a form that was opened or sent while a
\* delete or another form was on its way.  Then the error is shown, and the button comes back.
FreshIsAccepted ==
  /\ \A m \in Range(groupAnswers) : m.op = "refused" => ~m.fresh
  /\ submitting => \E m \in Range(groupCalls) \cup Range(groupAnswers) : m.inForm
=============================================================================
