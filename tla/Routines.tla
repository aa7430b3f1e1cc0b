------------------------------ MODULE Routines ------------------------------
(***************************************************************************)
(* Scheduled routines (src/src/main/routine-scheduler.ts and schedule.ts,   *)
(* the table in store/routines-repo.ts, the window's listener and           *)
(* run-routine.ts).  Time is counted in minutes until a run, as the         *)
(* difference of nextRunAt and the clock; a run that is due, however long   *)
(* ago, is 0 minutes away.  A schedule is the set of the delays that        *)
(* computeNextRun() may answer: {} for manual, {n} for an interval, a range *)
(* for daily and cron, {None} for a cron expression that never matches.     *)
(***************************************************************************)
EXTENDS Naturals

CONSTANTS
  Routine,
  Schedule,   \* the schedules a routine may be saved with
  Period,     \* their longest delay, and how far back a run is remembered
  MaxSaves,   \* bound: creations and updates of one routine
  MaxQueue,   \* bound: triggers of one routine on their way or waiting
  None

ASSUME PeriodAssumption == Period \in Nat \ {0}
ASSUME QueueAssumption == MaxQueue \in Nat /\ MaxSaves \in Nat
ASSUME ScheduleAssumption == Schedule \subseteq SUBSET ((1..Period) \cup {None})
ASSUME NoneAssumption == None \notin Nat

VARIABLES
  life,       \* of each row: "new" before, "saved", "deleted"
  sched, enabled,
  next,       \* minutes until nextRunAt, None while it is null
  saves,
  runnable,   \* routines whose prompt and agent still exist
  setting,    \* routineSchedulerEnabled
  app,        \* is the program running?
  win,        \* its window: "none", "loading" or "ready" (its listener is mounted)
  inbox,      \* triggers sent to the window, counted
  fetching,   \* triggers it received that wait for prompts.list()
  history,    \* routines with rows in routine_runs
  since,      \* minutes since a routine was last triggered, up to Period; None if never
  lastRun     \* minutes since lastRunAt, likewise

vars == <<life, sched, enabled, next, saves, runnable, setting, app, win, inbox,
          fetching, history, since, lastRun>>
table == <<life, sched, enabled, saves>>
host  == <<runnable, setting>>
mail  == <<inbox, fetching>>
runs  == <<history, lastRun>>

Init ==
  /\ life = [r \in Routine |-> "new"] /\ sched = [r \in Routine |-> {}] /\ enabled = {}
  /\ next = [r \in Routine |-> None] /\ saves = [r \in Routine |-> 0]
  /\ runnable = Routine /\ setting = TRUE /\ app = FALSE /\ win = "none"
  /\ inbox = [r \in Routine |-> 0] /\ fetching = [r \in Routine |-> 0]
  /\ history = {} /\ since = [r \in Routine |-> None] /\ lastRun = [r \in Routine |-> None]

-----------------------------------------------------------------------------
(* The table.  Its handlers run in the main process, one at a time. *)

Saved == {r \in Routine : life[r] = "saved"}

Save(r, s, on) ==
  /\ win = "ready" /\ saves[r] < MaxSaves /\ saves' = [saves EXCEPT ![r] = @ + 1]
  /\ sched' = [sched EXCEPT ![r] = s]
  /\ enabled' = IF on THEN enabled \cup {r} ELSE enabled \ {r}

createRoutine(r, s, on) ==
  /\ life[r] = "new" /\ Save(r, s, on) /\ life' = [life EXCEPT ![r] = "saved"]
  /\ UNCHANGED <<next, host, app, win, mail, runs, since>>

updateRoutine_Keeps(r, s, on) ==   \* mutant: nextRunAt is kept
  /\ r \in Saved /\ Save(r, s, on)
  /\ UNCHANGED <<next, life, host, app, win, mail, runs, since>>
updateRoutine(r, s, on) ==
  /\ r \in Saved /\ Save(r, s, on) /\ next' = [next EXCEPT ![r] = None]
  /\ UNCHANGED <<life, host, app, win, mail, runs, since>>

deleteRoutine(r) ==
  /\ win = "ready" /\ r \in Saved
  /\ life' = [life EXCEPT ![r] = "deleted"] /\ next' = [next EXCEPT ![r] = None]
  /\ lastRun' = [lastRun EXCEPT ![r] = None] /\ history' = history \ {r}
  /\ UNCHANGED <<sched, enabled, saves, host, app, win, mail, since>>

\* The setting, and the prompts and agents that routines refer to
Toggle == win = "ready" /\ setting' = ~setting
          /\ UNCHANGED <<table, next, runnable, app, win, mail, runs, since>>
PromptChanges(r) ==
  /\ win = "ready" /\ runnable' = IF r \in runnable THEN runnable \ {r} ELSE runnable \cup {r}
  /\ UNCHANGED <<table, next, setting, app, win, mail, runs, since>>

-----------------------------------------------------------------------------
(* The scheduler *)

Scheduled == {r \in Saved : r \in enabled /\ sched[r] # {}}
dueRoutines == {r \in Scheduled : next[r] = 0}

\* Next runs after a pass: those that were null, and those of routines it fired, are
\* computed from now.
computeNextRun_AtOnce ==   \* mutant: a routine without a next run is due at once
  {n \in [Routine -> 0..Period \cup {None}] :
     \A r \in Routine : IF r \in dueRoutines THEN n[r] \in sched[r]
                        ELSE IF r \in Scheduled /\ next[r] = None THEN n[r] = 0 ELSE n[r] = next[r]}
computeNextRun ==
  {n \in [Routine -> 0..Period \cup {None}] :
     \A r \in Routine : IF r \in Scheduled /\ next[r] \in {0, None} THEN n[r] \in sched[r]
                        ELSE n[r] = next[r]}

\* triggerRoutine() sends to every window, and there is at most one.
triggerRoutine_Kept(r) == IF r \in dueRoutines THEN 1 ELSE 0   \* mutant: kept for a later window
triggerRoutine(r) == IF r \in dueRoutines /\ win # "none" THEN 1 ELSE 0
tickRoutines ==
  IF setting
  THEN /\ next' \in computeNextRun
       /\ since' = [r \in Routine |-> IF r \in dueRoutines THEN 0 ELSE since[r]]
       /\ inbox' = [r \in Routine |-> inbox[r] + triggerRoutine(r)]
  ELSE UNCHANGED <<next, since, inbox>>

\* whenReady: startRoutineScheduler() makes its first pass, then createWindow().
Launch ==
  /\ ~app /\ app' = TRUE /\ tickRoutines /\ win' = "loading"
  /\ UNCHANGED <<table, host, fetching, runs>>
\* The timer, once a minute
Tick ==
  /\ app /\ \A r \in dueRoutines : inbox[r] + fetching[r] < MaxQueue
  /\ tickRoutines /\ UNCHANGED <<table, host, app, win, fetching, runs>>

\* A minute passes, the program running or not.
Older(age) == [r \in Routine |-> IF age[r] \in {None, Period} THEN age[r] ELSE age[r] + 1]
Minute ==
  /\ next' = [r \in Routine |-> IF next[r] \in {0, None} THEN next[r] ELSE next[r] - 1]
  /\ since' = Older(since) /\ lastRun' = Older(lastRun)
  /\ UNCHANGED <<table, host, app, win, mail, history>>

-----------------------------------------------------------------------------
(* The window *)

NoMail == inbox' = [r \in Routine |-> 0] /\ fetching' = [r \in Routine |-> 0]
Same == UNCHANGED <<table, next, host, runs, since>>

Mount == win = "loading" /\ win' = "ready" /\ UNCHANGED <<app, mail>> /\ Same
Reload == win = "ready" /\ win' = "loading" /\ fetching' = [r \in Routine |-> 0]
          /\ UNCHANGED <<app, inbox>> /\ Same
\* On macOS the program goes on without a window until activate creates one.
CloseWindow == win # "none" /\ win' = "none" /\ NoMail /\ UNCHANGED app /\ Same
Activate == app /\ win = "none" /\ win' = "loading" /\ UNCHANGED <<app, mail>> /\ Same
Quit == app /\ app' = FALSE /\ win' = "none" /\ NoMail /\ Same

\* onTrigger(): a message that comes before the listener is mounted is lost.
onTrigger(r) ==
  /\ inbox[r] > 0 /\ inbox' = [inbox EXCEPT ![r] = @ - 1]
  /\ fetching' = IF win = "ready" THEN [fetching EXCEPT ![r] = @ + 1] ELSE fetching
  /\ UNCHANGED <<app, win>> /\ Same

\* runRoutineInteractive() and, in the main process, recordRun()
runRoutine(r) ==
  /\ history' = history \cup {r}
  /\ lastRun' = IF r \in Saved THEN [lastRun EXCEPT ![r] = 0] ELSE lastRun

\* prompts.list() answers: without a prompt or an agent nothing runs.
Prompted(r) ==
  /\ fetching[r] > 0 /\ fetching' = [fetching EXCEPT ![r] = @ - 1]
  /\ IF r \in runnable THEN runRoutine(r) ELSE UNCHANGED runs
  /\ UNCHANGED <<table, next, host, app, win, inbox, since>>

runNow(r) ==
  /\ win = "ready" /\ r \in Saved \cap runnable /\ runRoutine(r)
  /\ UNCHANGED <<table, next, host, app, win, mail, since>>

-----------------------------------------------------------------------------
Window == Mount \/ Reload \/ CloseWindow \/ Activate \/ Quit
Next ==
  \/ \E r \in Routine, s \in Schedule, on \in BOOLEAN :
       createRoutine(r, s, on) \/ updateRoutine(r, s, on)
  \/ \E r \in Routine : deleteRoutine(r) \/ PromptChanges(r) \/ runNow(r)
  \/ \E r \in Routine : onTrigger(r) \/ Prompted(r)
  \/ Toggle \/ Launch \/ Tick \/ Minute \/ Window

Spec == Init /\ [][Next]_vars

\* Time passes, the timer of a running program fires, messages arrive and are answered.
Live == WF_vars(Minute) /\ WF_vars(Tick)
        /\ \A r \in Routine : WF_vars(onTrigger(r)) /\ WF_vars(Prompted(r))
FairSpec == Spec /\ Live

-----------------------------------------------------------------------------
(* Properties *)

\* The type invariant.  A program that is not running has no window, and nothing is on
\* its way without one.
Ages == 0..Period \cup {None}
TypeOK ==
  /\ life \in [Routine -> {"new", "saved", "deleted"}]
  /\ sched \in [Routine -> Schedule \cup {{}}]
  /\ enabled \subseteq Routine /\ next \in [Routine -> Ages] /\ saves \in [Routine -> Nat]
  /\ runnable \subseteq Routine /\ setting \in BOOLEAN /\ app \in BOOLEAN
  /\ win \in {"none", "loading", "ready"} /\ (win # "none" => app)
  /\ inbox \in [Routine -> Nat] /\ fetching \in [Routine -> Nat]
  /\ \A r \in Routine : win = "none" => inbox[r] = 0 /\ fetching[r] = 0
  /\ history \subseteq Routine /\ since \in [Routine -> Ages] /\ lastRun \in [Routine -> Ages]

\* A routine's next trigger is at least the shortest delay of its schedule, as it is now,
\* after its last trigger: no edit, restart, toggle of the setting or long absence makes a
\* routine fire in a burst.
NextRunIsSpaced ==
  \A r \in Routine : next[r] # None /\ since[r] # None =>
    \E d \in sched[r] \ {None} : d <= since[r] + next[r]

\* A next run belongs to the schedule that is saved now: an edited routine never waits
\* for a slot of its old schedule, and one made manual waits for none.
NextRunOfSchedule ==
  \A r \in Routine : next[r] # None => \E d \in sched[r] \ {None} : next[r] <= d

\* A routine that stays scheduled, in a program that stays open with its window and with
\* the scheduler on, runs again and again.
Steady(r) == /\ win = "ready" /\ setting /\ r \in Scheduled \cap runnable
             /\ None \notin sched[r]
RunsAgain == \A r \in Routine : <>[]Steady(r) => []<>(lastRun[r] = 0)

\* "A run missed while the app was closed is caught up once on the next launch": the pass
\* of the launch moves a missed run on only if a window is asked to run it.
CaughtUp(r) == r \in dueRoutines /\ ~app /\ app' /\ next'[r] # 0 => inbox'[r] > 0
MissedRunIsCaughtUp == [][\A r \in Routine : CaughtUp(r)]_vars

\* "Deletes a routine and, in the same transaction, its run history": there is no history
\* of a routine that was deleted.
NoHistoryOfDeleted == \A r \in history : life[r] = "saved"
=============================================================================
