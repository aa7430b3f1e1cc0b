----------------------------- MODULE PromptBook -----------------------------
(***************************************************************************)
(* Prompts and routines: their rows in main (prompts-repo, routines-repo),   *)
(* the window's lists of them (stores/prompts, stores/routines), the two     *)
(* panels, their forms, and the runs: a routine run from the panel or when   *)
(* it is due, a prompt run in an agent.  A body is the number of the edit     *)
(* that wrote it; a routine is the prompt it runs.                            *)
(***************************************************************************)
EXTENDS Naturals, Sequences, Functions

CONSTANTS
  Prompt, Routine,
  None,
  MaxBody,    \* bound: edits of a prompt
  MaxQueue    \* bound: calls of the window that have not been answered

VARIABLES
  savedPrompts, savedRoutines,   \* rows: a body; a prompt
  prompts, routines, loaded,     \* the stores
  calls, answers,                \* invokes to main; answers and triggers to the window, in order
  bodies,                        \* how many bodies were written
  promptForm, routineForm,       \* the dialogs
  agent,                         \* the dialog that runs a prompt: its body, or None
  ran                            \* history: the last run

rows     == <<savedPrompts, savedRoutines>>
stores   == <<prompts, routines, loaded>>
dialogs  == <<promptForm, routineForm, agent>>
bookVars == <<rows, stores, calls, answers, bodies, dialogs, ran>>

Closed == [open |-> FALSE, of |-> None, busy |-> FALSE]
ClosedRoutine == [open |-> FALSE, of |-> None, busy |-> FALSE, promptId |-> None]

BookInit ==
  /\ bodies = 1 /\ savedPrompts \in [Prompt -> {1, None}]
  /\ savedRoutines \in [Routine -> Prompt \cup {None}]
  /\ prompts = [q \in Prompt |-> None] /\ routines = [r \in Routine |-> None] /\ loaded = {}
  /\ calls = <<>> /\ answers = <<>>
  /\ promptForm = Closed /\ routineForm = ClosedRoutine /\ agent = None
  /\ ran = [by |-> "nobody", body |-> 0, due |-> 0]

Room == Len(calls) + Len(answers) < MaxQueue
Pending(op) == \E m \in Range(calls) \cup Range(answers) : m.op = op
Call(m) == Room /\ calls' = Append(calls, m)

-----------------------------------------------------------------------------
(* Main *)

Answer(m) == /\ answers' = Append(answers, m) /\ calls' = Tail(calls)
             /\ UNCHANGED <<stores, bodies, dialogs, ran>>
Served(op) == calls # <<>> /\ Head(calls).op = op

listPrompts ==
  /\ \/ Served("prompts") /\ Answer([op |-> "prompts", is |-> savedPrompts])
     \/ Served("due") /\ Answer([op |-> "due", is |-> savedPrompts, promptId |-> Head(calls).promptId,
                                 due |-> Head(calls).due])
  /\ UNCHANGED rows
listRoutines ==
  Served("routines") /\ Answer([op |-> "routines", is |-> savedRoutines]) /\ UNCHANGED rows

\* create or update: an update of a row that is gone is an error.
SavePrompt ==
  /\ Served("savePrompt")
  /\ LET m == Head(calls) IN
     IF m.new \/ savedPrompts[m.id] # None
     THEN /\ savedPrompts' = [savedPrompts EXCEPT ![m.id] = m.is]
          /\ Answer([op |-> "savedPrompt", id |-> m.id, is |-> m.is])
     ELSE UNCHANGED savedPrompts /\ Answer([op |-> "failed", form |-> "prompt"])
  /\ UNCHANGED savedRoutines
SaveRoutine ==
  /\ Served("saveRoutine")
  /\ LET m == Head(calls) IN
     IF m.new \/ savedRoutines[m.id] # None
     THEN /\ savedRoutines' = [savedRoutines EXCEPT ![m.id] = m.is]
          /\ Answer([op |-> "savedRoutine", id |-> m.id, is |-> m.is])
     ELSE UNCHANGED savedRoutines /\ Answer([op |-> "failed", form |-> "routine"])
  /\ UNCHANGED savedPrompts

\* Deleting a prompt leaves the routines that run it.
deletePrompt ==
  /\ Served("removePrompt") /\ savedPrompts' = [savedPrompts EXCEPT ![Head(calls).id] = None]
  /\ Answer([op |-> "removedPrompt", id |-> Head(calls).id]) /\ UNCHANGED savedRoutines
deleteRoutine ==
  /\ Served("removeRoutine") /\ savedRoutines' = [savedRoutines EXCEPT ![Head(calls).id] = None]
  /\ Answer([op |-> "removedRoutine", id |-> Head(calls).id]) /\ UNCHANGED savedPrompts

\* The database refuses: a load and a removal set the store's error, a save the form's.
Fails ==
  /\ calls # <<>>
  /\ Answer([op |-> "failed", form |-> CASE Head(calls).op = "savePrompt" -> "prompt"
                                         [] Head(calls).op = "saveRoutine" -> "routine"
                                         [] OTHER -> "none"])
  /\ UNCHANGED rows

\* The scheduler sends a routine that is due.
Trigger ==
  /\ Room /\ ~Pending("trigger") /\ ~Pending("due")
  /\ \E r \in Routine :
       /\ savedRoutines[r] # None
       /\ answers' = Append(answers, [op |-> "trigger", promptId |-> savedRoutines[r]])
  /\ UNCHANGED <<rows, stores, calls, bodies, dialogs, ran>>

-----------------------------------------------------------------------------
(* The stores *)

AnswerIs(op) == answers # <<>> /\ Head(answers).op = op /\ answers' = Tail(answers)

\* A list replaces; the answer to a save or a removal patches its row.
PromptsArrive ==
  /\ \/ AnswerIs("prompts") /\ prompts' = Head(answers).is /\ loaded' = loaded \cup {"prompts"}
     \/ AnswerIs("savedPrompt") /\ UNCHANGED loaded
        /\ prompts' = [prompts EXCEPT ![Head(answers).id] = Head(answers).is]
     \/ AnswerIs("removedPrompt") /\ UNCHANGED loaded
        /\ prompts' = [prompts EXCEPT ![Head(answers).id] = None]
  /\ promptForm' = IF Head(answers).op = "savedPrompt" THEN Closed ELSE promptForm
  /\ UNCHANGED <<rows, routines, calls, bodies, routineForm, agent, ran>>
RoutinesArrive ==
  /\ \/ AnswerIs("routines") /\ routines' = Head(answers).is /\ loaded' = loaded \cup {"routines"}
     \/ AnswerIs("savedRoutine") /\ UNCHANGED loaded
        /\ routines' = [routines EXCEPT ![Head(answers).id] = Head(answers).is]
     \/ AnswerIs("removedRoutine") /\ UNCHANGED loaded
        /\ routines' = [routines EXCEPT ![Head(answers).id] = None]
  /\ routineForm' = IF Head(answers).op = "savedRoutine" THEN ClosedRoutine ELSE routineForm
  /\ UNCHANGED <<rows, prompts, calls, bodies, promptForm, agent, ran>>

\* An error leaves the lists; the form stays open, for another try.
Refused ==
  /\ AnswerIs("failed")
  /\ promptForm' = IF Head(answers).form = "prompt" THEN [promptForm EXCEPT !.busy = FALSE] ELSE promptForm
  /\ routineForm' = IF Head(answers).form = "routine" THEN [routineForm EXCEPT !.busy = FALSE] ELSE routineForm
  /\ UNCHANGED <<rows, stores, calls, bodies, agent, ran>>

-----------------------------------------------------------------------------
(* The panels and the forms *)

NoDialog == ~promptForm.open /\ ~routineForm.open /\ agent = None

\* The panels load both lists when they are mounted.
load ==
  /\ "routines" \notin loaded /\ ~Pending("routines") /\ ~Pending("prompts")
  /\ Len(calls) + Len(answers) + 1 < MaxQueue
  /\ calls' = calls \o <<[op |-> "routines"], [op |-> "prompts"]>>
  /\ UNCHANGED <<rows, stores, answers, bodies, dialogs, ran>>

\* A new row is one that neither side has.
Unused(saved, shown, id) ==
  saved[id] = None /\ shown[id] = None
  /\ \A m \in Range(calls) \cup Range(answers) : "id" \in DOMAIN m => m.id # id
openPrompt ==
  /\ NoDialog /\ promptForm' \in [open : {TRUE}, of : {None} \cup {q \in Prompt : prompts[q] # None}, busy : {FALSE}]
  /\ UNCHANGED <<rows, stores, calls, answers, bodies, routineForm, agent, ran>>

\* The routine form takes its fields from the row and asks for the prompts again.
openRoutine ==
  /\ NoDialog /\ Call([op |-> "prompts"])
  /\ \/ routineForm' = [ClosedRoutine EXCEPT !.open = TRUE]
     \/ \E r \in Routine :
          /\ routines[r] # None
          /\ routineForm' = [open |-> TRUE, of |-> r, busy |-> FALSE, promptId |-> routines[r]]
  /\ UNCHANGED <<rows, stores, answers, bodies, promptForm, agent, ran>>
choosePrompt ==
  /\ routineForm.open
  /\ \E q \in Prompt : prompts[q] # None /\ routineForm' = [routineForm EXCEPT !.promptId = q]
  /\ UNCHANGED <<rows, stores, calls, answers, bodies, promptForm, agent, ran>>

\* Escape, Cancel: also while the form's save is on its way.
close ==
  /\ ~NoDialog /\ promptForm' = Closed /\ routineForm' = ClosedRoutine /\ agent' = None
  /\ UNCHANGED <<rows, stores, calls, answers, bodies, ran>>

submitPrompt ==
  /\ promptForm.open /\ ~promptForm.busy /\ bodies < MaxBody
  /\ \E q \in Prompt :
       /\ IF promptForm.of = None THEN Unused(savedPrompts, prompts, q) ELSE q = promptForm.of
       /\ Call([op |-> "savePrompt", new |-> promptForm.of = None, id |-> q, is |-> bodies + 1])
  /\ bodies' = bodies + 1 /\ promptForm' = [promptForm EXCEPT !.busy = TRUE]
  /\ UNCHANGED <<rows, stores, answers, routineForm, agent, ran>>
submitRoutine ==
  /\ routineForm.open /\ ~routineForm.busy /\ routineForm.promptId # None
  /\ \E r \in Routine :
       /\ IF routineForm.of = None THEN Unused(savedRoutines, routines, r) ELSE r = routineForm.of
       /\ Call([op |-> "saveRoutine", new |-> routineForm.of = None, id |-> r, is |-> routineForm.promptId])
  /\ routineForm' = [routineForm EXCEPT !.busy = TRUE]
  /\ UNCHANGED <<rows, stores, answers, bodies, promptForm, agent, ran>>

\* Confirmed in the row.
remove ==
  /\ NoDialog
  /\ \/ \E q \in Prompt : prompts[q] # None /\ Call([op |-> "removePrompt", id |-> q])
     \/ \E r \in Routine : routines[r] # None /\ Call([op |-> "removeRoutine", id |-> r])
  /\ UNCHANGED <<rows, stores, answers, bodies, dialogs, ran>>

-----------------------------------------------------------------------------
(* Runs *)

Run(by, body, due) == ran' = [by |-> by, body |-> body, due |-> due]

\* In the panel: with the prompt as the list has it, and not at all without one.
runNow ==
  /\ NoDialog
  /\ \E r \in Routine : /\ routines[r] # None /\ prompts[routines[r]] # None
                       /\ Run("panel", prompts[routines[r]], 0)
  /\ UNCHANGED <<rows, stores, calls, answers, bodies, dialogs>>

\* A routine that is due runs with the prompt as main has it then.
onTrigger ==
  /\ AnswerIs("trigger")
  /\ LET q == Head(answers).promptId IN
     calls' = Append(calls, [op |-> "due", promptId |-> q,
                             due |-> IF savedPrompts[q] = None THEN 0 ELSE savedPrompts[q]])
  /\ UNCHANGED <<rows, stores, bodies, dialogs, ran>>
runDue ==
  /\ AnswerIs("due")
  /\ LET m == Head(answers) IN
     IF m.is[m.promptId] = None THEN UNCHANGED ran ELSE Run("trigger", m.is[m.promptId], m.due)
  /\ UNCHANGED <<rows, stores, calls, bodies, dialogs>>

openAgent ==
  /\ NoDialog /\ \E q \in Prompt : prompts[q] # None /\ agent' = prompts[q]
  /\ UNCHANGED <<rows, stores, calls, answers, bodies, promptForm, routineForm, ran>>
runInAgent ==
  /\ agent # None /\ Run("agent", agent, 0) /\ agent' = None
  /\ UNCHANGED <<rows, stores, calls, answers, bodies, promptForm, routineForm>>

BookNext ==
  \/ listPrompts \/ listRoutines \/ SavePrompt \/ SaveRoutine \/ deletePrompt \/ deleteRoutine
  \/ Fails \/ Trigger \/ PromptsArrive \/ RoutinesArrive \/ Refused
  \/ load \/ openPrompt \/ openRoutine \/ choosePrompt \/ close \/ submitPrompt \/ submitRoutine
  \/ remove \/ runNow \/ onTrigger \/ runDue \/ openAgent \/ runInAgent

BookSpec == BookInit /\ [][BookNext]_bookVars

-----------------------------------------------------------------------------
\* Types of the state.
BookTypeOK ==
  /\ savedPrompts \in [Prompt -> (0 .. MaxBody) \cup {None}] /\ prompts \in [Prompt -> (0 .. MaxBody) \cup {None}]
  /\ savedRoutines \in [Routine -> Prompt \cup {None}] /\ routines \in [Routine -> Prompt \cup {None}]
  /\ loaded \subseteq {"prompts", "routines"} /\ bodies \in 0 .. MaxBody
  /\ agent \in (0 .. MaxBody) \cup {None}
  /\ promptForm \in [open : BOOLEAN, of : Prompt \cup {None}, busy : BOOLEAN]
  /\ routineForm \in [open : BOOLEAN, of : Routine \cup {None}, busy : BOOLEAN, promptId : Prompt \cup {None}]
  /\ Len(calls) + Len(answers) <= MaxQueue

\* With nothing on its way a list that was loaded is the rows of main: no order of loads, saves,
\* removals and refusals leaves the window with a row that is gone or with an old text.
QuietBookIsMain ==
  calls = <<>> /\ answers = <<>> =>
    /\ "prompts" \in loaded => prompts = savedPrompts
    /\ "routines" \in loaded => routines = savedRoutines

\* A form that is disabled waits for its own answer, and will be enabled again.
BusyFormIsAnswered ==
  /\ promptForm.busy => Pending("savePrompt") \/ Pending("savedPrompt") \/ Pending("failed")
  /\ routineForm.busy => Pending("saveRoutine") \/ Pending("savedRoutine") \/ Pending("failed")

\* A routine that is due runs with a prompt no older than the one saved when the window heard of it,
\* whatever the window's own list still shows.
DueRunsTheSavedPrompt == ran.by = "trigger" => ran.body >= ran.due
=============================================================================
