-------------------------- MODULE TransfersDrawer --------------------------
(***************************************************************************)
(* The drawer of the transfers (src/src/renderer/components/sftp/          *)
(* TransfersDrawer.tsx) over its store (stores/transfers.ts), fed by the    *)
(* events of main, which arrive in order, while the user's calls travel the *)
(* other way.  Main is what TransferQueue does to the status of a transfer. *)
(***************************************************************************)
EXTENDS Naturals, Sequences, FiniteSets

CONSTANTS
  Id,         \* transfers
  MaxEvents,  \* bound on the events and calls on their way
  None

Status == {"queued", "active", "done", "error", "cancelled"}
Unfinished == {"queued", "active"}
Again == {"error", "cancelled"}

VARIABLES
  main,       \* the status of each transfer in main
  events,     \* transfer events on their way
  calls,      \* cancel and retry calls on their way
  transfers,  \* the store: the status last heard of each, for the ids in order
  order,      \* the store: the ids, as they came
  wiped       \* history: what the user cleared, in which state it was then

vars == <<main, events, calls, transfers, order, wiped>>

Init ==
  /\ main = [t \in Id |-> None] /\ events = <<>> /\ calls = <<>>
  /\ transfers = [t \in Id |-> None] /\ order = <<>> /\ wiped = [t \in Id |-> None]

InOrder == {order[n] : n \in DOMAIN order}
Emit(t, s) == events' = Append(events, [id |-> t, status |-> s])
Room == Len(events) < MaxEvents /\ Len(calls) < MaxEvents

\* enqueue(), pump() and the end of a run
MainMoves(t, s) ==
  /\ Room
  /\ \/ main[t] = None /\ s = "queued"
     \/ main[t] = "queued" /\ s = "active"
     \/ main[t] = "active" /\ s \in {"active", "done", "error"}   \* progress is "active" again
     \/ main[t] \in Unfinished /\ s = "cancelled"                 \* the session is gone
  /\ main' = [main EXCEPT ![t] = s] /\ Emit(t, s)
  /\ UNCHANGED <<calls, transfers, order, wiped>>

\* The buttons a row offers follow the status last heard.
Click(t, c) ==
  /\ Room /\ t \in InOrder
  /\ transfers[t] \in (IF c = "cancel" THEN Unfinished ELSE Again)
  /\ calls' = Append(calls, [id |-> t, call |-> c])
  /\ UNCHANGED <<main, events, transfers, order, wiped>>

\* transferManager.cancel() and retry() look at what the transfer is by then.
MainCalled ==
  /\ calls # <<>> /\ calls' = Tail(calls)
  /\ LET t == Head(calls).id
         s == IF Head(calls).call = "cancel" THEN "cancelled" ELSE "queued"
     IN IF main[t] \in (IF s = "cancelled" THEN Unfinished ELSE Again)
        THEN main' = [main EXCEPT ![t] = s] /\ Emit(t, s)
        ELSE UNCHANGED <<main, events>>
  /\ UNCHANGED <<transfers, order, wiped>>

\* upsert()
Heard ==
  /\ events # <<>> /\ events' = Tail(events)
  /\ LET e == Head(events)
     IN /\ transfers' = [transfers EXCEPT ![e.id] = e.status]
        /\ order' = IF e.id \in InOrder THEN order ELSE Append(order, e.id)
        /\ wiped' = [wiped EXCEPT ![e.id] = None]
  /\ UNCHANGED <<main, calls>>

\* Array.filter, with the transfers of S
Kept(S) ==
  LET kept[n \in 0..Len(order)] ==
        IF n = 0 THEN <<>> ELSE IF order[n] \in S THEN Append(kept[n - 1], order[n]) ELSE kept[n - 1]
  IN kept[Len(order)]

clearFinished ==
  /\ order # <<>>
  /\ LET gone == {t \in InOrder : transfers[t] \notin Unfinished}
     IN /\ order' = Kept(Id \ gone)
        /\ transfers' = [t \in Id |-> IF t \in gone THEN None ELSE transfers[t]]
        /\ wiped' = [t \in Id |-> IF t \in gone THEN transfers[t] ELSE wiped[t]]
  /\ UNCHANGED <<main, events, calls>>

\* The totals of the bar: whether any row is unfinished.
Busy == \E t \in InOrder : transfers[t] \in Unfinished

Next ==
  \/ \E t \in Id, s \in Status : MainMoves(t, s)
  \/ \E t \in Id, c \in {"cancel", "retry"} : Click(t, c)
  \/ MainCalled \/ Heard \/ clearFinished

Spec == Init /\ [][Next]_vars

-----------------------------------------------------------------------------
(* Properties *)

TypeOK ==
  /\ main \in [Id -> Status \cup {None}] /\ transfers \in [Id -> Status \cup {None}]
  /\ wiped \in [Id -> Status \cup {None}] /\ order \in Seq(Id)
  /\ Cardinality(InOrder) = Len(order)

\* With nothing on its way, the drawer shows every transfer as main has it, but for those the
\* user cleared, which had ended and still are what they were: a retry that crosses the
\* clearing brings its row back, and no running transfer is without a row to cancel it.
DrawerIsMain ==
  events = <<>> =>
    \A t \in Id :
      IF t \in InOrder THEN transfers[t] = main[t]
      ELSE main[t] = wiped[t] /\ main[t] \notin Unfinished
=============================================================================
