---------------------------- MODULE SftpProofs ----------------------------
(***************************************************************************)
(* Proofs about SFTP in main: the sessions and the edits on them, for any   *)
(* sessions, edits and saves; and the slots of the transfer queue, for any   *)
(* transfers, windows, number of slots and length of files.                 *)
(***************************************************************************)
EXTENDS MCSftp, SequenceTheorems, FiniteSetTheorems, WellFoundedInduction,
        TLAPS

-----------------------------------------------------------------------------
(* The lanes of the transfer queue                                          *)

Status == {"none", "queued", "active", "done", "error", "cancelled"}
Starting == {"stat", "mkdir", "open"}    \* before a run has opened its temp file
Run == [t : Transfer, pc : Awaits, pos : 0..Chunks, file : {"temp", "dest", "lost"}]
NewRun(t, at) == [t |-> t, pc |-> at, pos |-> 0, file |-> "lost"]

\* The numbers of the lanes and of the queue have a least one.
LEMMA LeastIsIn ==
  ASSUME NEW S \in SUBSET Nat, S # {}
  PROVE  Least(S) \in S /\ \A j \in S : Least(S) <= j
<1>1. IsWellFoundedOn(OpToRel(<, Nat), Nat)
  BY NatLessThanWellFounded
<1>2. PICK i \in S : \A j \in S : ~(<<j, i>> \in OpToRel(<, Nat))
  BY <1>1, WFMin
<1>3. \A j \in S : ~(j < i)
  BY <1>2 DEF OpToRel
<1>4. \A j \in S : i <= j
  BY <1>3
<1> QED BY <1>4 DEF Least

\* A run is not a free lane; what waits in an await is a run.
LEMMA RunIsNotFree == Free \notin Run
BY DEF Free, Run, Awaits
LEMMA WaitingIsRun ==
  ASSUME NEW ln \in [Lane -> Run \cup {Free}], NEW l \in Lane, ln[l].pc \in Awaits
  PROVE  ln[l] \in Run
BY DEF Free, Awaits

LEMMA BusyIsFinite ==
  ASSUME NEW ln
  PROVE  /\ IsFiniteSet(Busy(ln)) /\ Cardinality(Busy(ln)) \in Nat
         /\ Cardinality(Busy(ln)) <= MaxActive => \E l \in Lane : ln[l] = Free
<1>1. /\ IsFiniteSet(Lane) /\ Cardinality(Lane) = MaxActive + 1 /\ MaxActive \in Nat
  <2>1. MaxActive \in Nat /\ MaxActive + 1 \in Int /\ 1 \in Int
    BY TransferAssumption
  <2> QED BY <2>1, FS_Interval DEF Lane
<1>2. Busy(ln) \subseteq Lane
  BY DEF Busy
<1>3. IsFiniteSet(Busy(ln))
  BY <1>1, <1>2, FS_Subset
<1>4. Cardinality(Busy(ln)) \in Nat
  BY <1>3, FS_CardinalityType
<1>5. (\A l \in Lane : ln[l] # Free) => Busy(ln) = Lane
  BY DEF Busy
<1> QED BY <1>1, <1>3, <1>4, <1>5

\* A free lane is taken; a lane is freed.
LEMMA OneMore ==
  ASSUME NEW ln, NEW l \in Lane, ln[l] = Free, DOMAIN ln = Lane, NEW r, r # Free
  PROVE  Cardinality(Busy([ln EXCEPT ![l] = r])) = Cardinality(Busy(ln)) + 1
<1>1. Busy([ln EXCEPT ![l] = r]) = Busy(ln) \cup {l} /\ l \notin Busy(ln)
  BY DEF Busy
<1> QED BY <1>1, BusyIsFinite, FS_AddElement
LEMMA OneLess ==
  ASSUME NEW ln, NEW l \in Lane, ln[l] # Free, DOMAIN ln = Lane
  PROVE  Cardinality(Busy([ln EXCEPT ![l] = Free])) = Cardinality(Busy(ln)) - 1
<1>1. Busy([ln EXCEPT ![l] = Free]) = Busy(ln) \ {l} /\ l \in Busy(ln)
  BY DEF Busy
<1> QED BY <1>1, BusyIsFinite, FS_RemoveElement

\* What pump() makes of the records, the lanes and the counter: it may fail queued
\* transfers, and starts one at most, in a free lane, if there is room.
MayFail(t, st, st2) == st2[t] = st[t] \/ (st[t] = "queued" /\ st2[t] = "error")
Pumped(st, ln, act, st2, ln2, act2) ==
  \/ ln2 = ln /\ act2 = act /\ \A t \in Transfer : MayFail(t, st, st2)
  \/ \E l \in Lane, t \in Transfer, at \in Starting :
       /\ act < MaxActive /\ ln[l] = Free /\ st[t] = "queued" /\ st2[t] = "active"
       /\ \A x \in Transfer : x # t => MayFail(x, st, st2)
       /\ ln2 = [ln EXCEPT ![l] = NewRun(t, at)] /\ act2 = act + 1

LEMMA PumpShape ==
  ASSUME NEW ord \in Seq(Transfer), NEW st \in [Transfer -> Status], NEW ln,
         NEW ab \in [Transfer -> {0} \cup Lane], NEW act \in Nat,
         act = Cardinality(Busy(ln)), Pump(ord, st, ln, act, ab)
  PROVE  /\ Pumped(st, ln, act, status', lane', active')
         /\ status' \in [Transfer -> Status] /\ abort' \in [Transfer -> {0} \cup Lane]
<1> DEFINE q     == Queued(ord, st)
           alive == {i \in q : Answers(ord[i])}
           dead  == {ord[i] : i \in {i \in q : \A j \in alive : i < j}}
           st2   == [t \in Transfer |-> IF t \in dead THEN "error" ELSE st[t]]
           ab2   == [t \in Transfer |-> IF t \in dead THEN 0 ELSE ab[t]]
           t     == ord[Least(alive)]
           l     == Least({i \in Lane : ln[i] = Free})
           at    == IF Kind[t] = "upload" THEN "open" ELSE IF t \in sized THEN "mkdir" ELSE "stat"
<1>1. /\ alive \subseteq Nat /\ alive \subseteq q
      /\ \A i \in q : ord[i] \in Transfer /\ st[ord[i]] = "queued"
  <2>1. \A i \in 1..Len(ord) : ord[i] \in Transfer
    BY ElementOfSeq
  <2> QED BY <2>1, LenProperties DEF Queued
<1>2. dead \subseteq {x \in Transfer : st[x] = "queued"}
  BY <1>1
<1>3. /\ st2 \in [Transfer -> Status] /\ ab2 \in [Transfer -> {0} \cup Lane]
      /\ \A x \in Transfer : MayFail(x, st, st2)
  <2> HIDE DEF q, alive, dead
  <2> QED BY <1>2 DEF Status, MayFail
<1>4. CASE act >= MaxActive
  <2>1. status' = st /\ lane' = ln /\ active' = act /\ abort' = ab
    BY <1>4 DEF Pump
  <2>2. \A x \in Transfer : MayFail(x, st, status')
    BY <2>1 DEF MayFail
  <2> QED BY <2>1, <2>2 DEF Pumped
<1>5. CASE act < MaxActive /\ alive = {}
  <2>1. status' = st2 /\ lane' = ln /\ active' = act /\ abort' = ab2
    BY <1>5, TransferAssumption DEF Pump
  <2> QED BY <1>3, <2>1 DEF Pumped
<1>6. CASE act < MaxActive /\ alive # {}
  <2>1. status' = [st2 EXCEPT ![t] = "active"] /\ active' = act + 1 /\ Start(t, ln, ab2)
    BY <1>6, TransferAssumption DEF Pump
  <2>2. t \in Transfer /\ st[t] = "queued"
    <3>1. Least(alive) \in alive
      BY <1>1, <1>6, LeastIsIn
    <3> QED BY <1>1, <3>1
  <2>3. l \in Lane /\ ln[l] = Free
    <3> DEFINE F == {i \in Lane : ln[i] = Free}
    <3>0. Cardinality(Busy(ln)) <= MaxActive
      BY <1>6, TransferAssumption
    <3>1. F # {} /\ F \in SUBSET Nat
      BY <3>0, BusyIsFinite DEF Lane
    <3> HIDE DEF F
    <3>2. Least(F) \in F
      BY <3>1, LeastIsIn
    <3> QED BY <3>2 DEF F
  <2>4. at \in Starting
    BY DEF Starting
  <2>a. ASSUME NEW x, NEW y PROVE [Free EXCEPT !.t = x, !.pc = y] = NewRun(x, y)
    <3> HIDE DEF q, alive, dead, st2, ab2, t, l, at
    <3>1. [Free EXCEPT !.t = x] = [t |-> x, pc |-> "free", pos |-> 0, file |-> "lost"]
      BY DEF Free
    <3>2. [[t |-> x, pc |-> "free", pos |-> 0, file |-> "lost"] EXCEPT !.pc = y]
          = [t |-> x, pc |-> y, pos |-> 0, file |-> "lost"]
      OBVIOUS
    <3>3. [Free EXCEPT !.t = x, !.pc = y] = [[Free EXCEPT !.t = x] EXCEPT !.pc = y]
      OBVIOUS
    <3> QED BY <3>1, <3>2, <3>3 DEF NewRun
  <2>5. /\ lane' = [ln EXCEPT ![l] = [Free EXCEPT !.t = t, !.pc = at]]
        /\ abort' = [ab2 EXCEPT ![t] = IF at = "open" THEN l ELSE @]
    BY <2>1 DEF Start
  <2>6. [Free EXCEPT !.t = t, !.pc = at] = NewRun(t, at)
    BY <2>a
  <2> HIDE DEF q, alive, dead, st2, ab2, t, l, at
  <2>7. abort' \in [Transfer -> {0} \cup Lane] /\ status' \in [Transfer -> Status]
    BY <1>3, <2>1, <2>2, <2>3, <2>5 DEF Status
  <2>8. status'[t] = "active" /\ \A x \in Transfer : x # t => MayFail(x, st, status')
    BY <1>3, <2>1, <2>2 DEF MayFail
  <2>9. lane' = [ln EXCEPT ![l] = NewRun(t, at)]
    BY <2>5, <2>6
  <2> QED BY <1>6, <2>1, <2>2, <2>3, <2>4, <2>7, <2>8, <2>9 DEF Pumped
<1>7. act >= MaxActive \/ act < MaxActive
  BY TransferAssumption
<1> QED BY <1>4, <1>5, <1>6, <1>7

\* Whoever calls pump() with a count of the lanes that is right has it right after.
LanesCounted(ln, act) ==
  /\ ln \in [Lane -> Run \cup {Free}] /\ act \in Nat
  /\ act = Cardinality(Busy(ln)) /\ act <= MaxActive
LEMMA PumpedCounts ==
  ASSUME NEW st, NEW ln, NEW act, NEW st2, NEW ln2, NEW act2,
         LanesCounted(ln, act), Pumped(st, ln, act, st2, ln2, act2)
  PROVE  LanesCounted(ln2, act2)
<1>1. CASE ln2 = ln /\ act2 = act
  BY <1>1
<1>2. CASE \E l \in Lane, t \in Transfer, at \in Starting :
             /\ act < MaxActive /\ ln[l] = Free
             /\ ln2 = [ln EXCEPT ![l] = NewRun(t, at)] /\ act2 = act + 1
  <2>1. PICK l \in Lane, t \in Transfer, at \in Starting :
             /\ act < MaxActive /\ ln[l] = Free
             /\ ln2 = [ln EXCEPT ![l] = NewRun(t, at)] /\ act2 = act + 1
    BY <1>2
  <2>2. NewRun(t, at) \in Run
    BY TransferAssumption DEF NewRun, Run, Starting, Awaits
  <2>3. NewRun(t, at) # Free
    BY <2>2, RunIsNotFree
  <2>4. DOMAIN ln = Lane /\ act \in Nat /\ act = Cardinality(Busy(ln))
    BY DEF LanesCounted
  <2>5. Cardinality(Busy(ln2)) = act + 1
    BY <2>1, <2>3, <2>4, OneMore
  <2>6. ln2 \in [Lane -> Run \cup {Free}]
    BY <2>1, <2>2 DEF LanesCounted
  <2> QED BY <2>1, <2>4, <2>5, <2>6, TransferAssumption DEF LanesCounted
<1> QED BY <1>1, <1>2 DEF Pumped

\* The types of the queue, and that the slots in use are the runs.
RecordTypes ==
  /\ order \in Seq(Transfer) /\ status \in [Transfer -> Status]
  /\ doneBytes \in [Transfer -> Nat] /\ sized \in SUBSET Transfer
  /\ abort \in [Transfer -> {0} \cup Lane]
FileTypes == exists \in SUBSET File /\ content \in [File -> SUBSET (0..Chunks)]
RestTypes == up \in SUBSET Session /\ walking \in BOOLEAN /\ retries \in 0..MaxRetries
QueueInv == RecordTypes /\ FileTypes /\ RestTypes /\ LanesCounted(lane, active)

LEMMA QueueInvIs == QueueInv <=> TypeOK /\ SlotsAccounted
BY DEF QueueInv, RecordTypes, FileTypes, RestTypes, LanesCounted, TypeOK, SlotsAccounted, Run, Status

\* pump() is called with the lanes counted; a run that is over gives its slot back.
LEMMA PumpCalled ==
  ASSUME NEW ord \in Seq(Transfer), NEW st \in [Transfer -> Status], NEW ln,
         NEW ab \in [Transfer -> {0} \cup Lane], NEW act,
         LanesCounted(ln, act), Pump(ord, st, ln, act, ab)
  PROVE  /\ Pumped(st, ln, act, status', lane', active')
         /\ status' \in [Transfer -> Status] /\ abort' \in [Transfer -> {0} \cup Lane]
         /\ LanesCounted(lane', active')
<1>1. act \in Nat /\ act = Cardinality(Busy(ln))
  BY DEF LanesCounted
<1>2. /\ Pumped(st, ln, act, status', lane', active')
      /\ status' \in [Transfer -> Status] /\ abort' \in [Transfer -> {0} \cup Lane]
  BY <1>1, PumpShape
<1> QED BY <1>2, PumpedCounts
LEMMA SettleCalled ==
  ASSUME RecordTypes, NEW ln, LanesCounted(ln, active), NEW l \in Lane, ln[l] \in Run,
         NEW outcome \in {"done", "error"}, Settle(ln, l, outcome), lane[l].t \in Transfer
  PROVE  /\ Pumped([status EXCEPT ![lane[l].t] = IF @ = "active" THEN outcome ELSE @],
                   [ln EXCEPT ![l] = Free], active - 1, status', lane', active')
         /\ status' \in [Transfer -> Status] /\ abort' \in [Transfer -> {0} \cup Lane]
         /\ LanesCounted(lane', active')
<1> DEFINE st  == [status EXCEPT ![lane[l].t] = IF @ = "active" THEN outcome ELSE @]
           ab  == [abort EXCEPT ![lane[l].t] = 0]
           ln2 == [ln EXCEPT ![l] = Free]
<1>1. st \in [Transfer -> Status] /\ ab \in [Transfer -> {0} \cup Lane]
      /\ order \in Seq(Transfer)
  BY DEF RecordTypes, Status
<1>2. LanesCounted(ln2, active - 1)
  <2>1. ln \in [Lane -> Run \cup {Free}] /\ active \in Nat /\ active <= MaxActive
        /\ active = Cardinality(Busy(ln))
    BY DEF LanesCounted
  <2>2. ln2 \in [Lane -> Run \cup {Free}]
    BY <2>1
  <2>3. Cardinality(Busy(ln2)) = active - 1
    BY <2>1, RunIsNotFree, OneLess
  <2>4. Cardinality(Busy(ln2)) \in Nat
    BY BusyIsFinite
  <2> HIDE DEF ln2
  <2> QED BY <2>1, <2>2, <2>3, <2>4, TransferAssumption DEF LanesCounted
<1>3. Pump(order, st, ln2, active - 1, ab)
  BY DEF Settle
<1> HIDE DEF st, ab, ln2
<1>4. /\ Pumped(st, ln2, active - 1, status', lane', active')
      /\ status' \in [Transfer -> Status] /\ abort' \in [Transfer -> {0} \cup Lane]
      /\ LanesCounted(lane', active')
  BY <1>1, <1>2, <1>3, PumpCalled
<1> QED BY <1>4 DEF st, ln2

\* Lanes of which none is taken or freed; the next await of one of them.
LEMMA SameLanes ==
  ASSUME NEW ln, NEW ln2 \in [Lane -> Run \cup {Free}], LanesCounted(ln, active),
         \A l \in Lane : ln2[l] = Free <=> ln[l] = Free
  PROVE  LanesCounted(ln2, active)
<1>1. Busy(ln2) = Busy(ln)
  BY DEF Busy
<1> QED BY <1>1 DEF LanesCounted
LEMMA GoesOn ==
  ASSUME LanesCounted(lane, active), NEW l \in Lane, lane[l] \in Run, NEW at \in Awaits,
         Go(l, at), active' = active
  PROVE  /\ LanesCounted(lane', active')
         /\ lane'[l] \in Run /\ lane'[l].t = lane[l].t /\ lane'[l].pc = at
         /\ lane'[l].pos = lane[l].pos /\ lane'[l].file = lane[l].file
         /\ \A m \in Lane : m # l => lane'[m] = lane[m]
<1>1. lane \in [Lane -> Run \cup {Free}]
  BY DEF LanesCounted
<1>2. lane' = [lane EXCEPT ![l] = [lane[l] EXCEPT !.pc = at]]
  BY DEF Go
<1> DEFINE r == [lane[l] EXCEPT !.pc = at]
<1>3. r \in Run /\ r.t = lane[l].t /\ r.pc = at /\ r.pos = lane[l].pos /\ r.file = lane[l].file
  BY DEF Run
<1> HIDE DEF r
<1>4. lane' = [lane EXCEPT ![l] = r]
  BY <1>2 DEF r
<1>5. lane' \in [Lane -> Run \cup {Free}] /\ lane'[l] = r
      /\ \A m \in Lane : m # l => lane'[m] = lane[m]
  BY <1>1, <1>3, <1>4
<1>6. \A m \in Lane : lane'[m] = Free <=> lane[m] = Free
  BY <1>3, <1>5, RunIsNotFree
<1>7. LanesCounted(lane', active)
  BY <1>5, <1>6, SameLanes
<1> QED BY <1>3, <1>5, <1>7

\* The streams that rec.abort destroys; the files that moved under the runs of a transfer.
LEMMA AbortedLanes ==
  ASSUME LanesCounted(lane, active), NEW S
  PROVE  /\ LanesCounted(Aborted(S), active)
         /\ \A l \in Lane :
              \/ Aborted(S)[l] = lane[l]
              \/ /\ lane[l] \in Run /\ Aborted(S)[l] \in Run
                 /\ Aborted(S)[l].pc = "cleanup" /\ Aborted(S)[l].t = lane[l].t
                 /\ Aborted(S)[l].file = lane[l].file
<1>1. lane \in [Lane -> Run \cup {Free}]
  BY DEF LanesCounted
<1>2. ASSUME NEW l \in Lane, Aborted(S)[l] # lane[l]
      PROVE  /\ lane[l] \in Run /\ Aborted(S)[l] \in Run
             /\ Aborted(S)[l].pc = "cleanup" /\ Aborted(S)[l].t = lane[l].t
             /\ Aborted(S)[l].file = lane[l].file
  <2>1. Aborted(S)[l] = [lane[l] EXCEPT !.pc = "cleanup"] /\ lane[l].pc \in {"open", "stream"}
    BY <1>2 DEF Aborted
  <2>2. lane[l] \in Run
    BY <1>1, <2>1, WaitingIsRun DEF Awaits
  <2> QED BY <2>1, <2>2 DEF Run, Awaits
<1>3. Aborted(S) \in [Lane -> Run \cup {Free}]
  <2>1. Aborted(S) = [l \in Lane |-> Aborted(S)[l]]
    BY DEF Aborted
  <2>2. \A l \in Lane : Aborted(S)[l] \in Run \cup {Free}
    BY <1>1, <1>2
  <2> QED BY <2>1, <2>2
<1>4. \A l \in Lane : Aborted(S)[l] = Free <=> lane[l] = Free
  BY <1>2, RunIsNotFree
<1>5. LanesCounted(Aborted(S), active)
  BY <1>3, <1>4, SameLanes
<1> QED BY <1>2, <1>5
LEMMA MovedLanes ==
  ASSUME NEW ln, LanesCounted(ln, active), NEW t \in Transfer, NEW move,
         DOMAIN move \subseteq {"temp", "dest"},
         \A x \in DOMAIN move : move[x] \in {"temp", "dest", "lost"}
  PROVE  /\ LanesCounted(Moved(ln, t, move), active)
         /\ \A l \in Lane :
              \/ Moved(ln, t, move)[l] = ln[l]
              \/ /\ ln[l] \in Run /\ Moved(ln, t, move)[l] \in Run /\ ln[l].t = t
                 /\ Moved(ln, t, move)[l].pc = ln[l].pc /\ Moved(ln, t, move)[l].t = t
<1>1. ln \in [Lane -> Run \cup {Free}]
  BY DEF LanesCounted
<1>2. ASSUME NEW l \in Lane, Moved(ln, t, move)[l] # ln[l]
      PROVE  /\ ln[l] \in Run /\ Moved(ln, t, move)[l] \in Run /\ ln[l].t = t
             /\ Moved(ln, t, move)[l].pc = ln[l].pc /\ Moved(ln, t, move)[l].t = t
  <2>1. /\ Moved(ln, t, move)[l] = [ln[l] EXCEPT !.file = move[ln[l].file]]
        /\ ln[l].t = t /\ ln[l].file \in DOMAIN move
    BY <1>2 DEF Moved
  <2>2. ln[l] \in Run
    BY <1>1, <2>1, TransferAssumption DEF Free
  <2>3. move[ln[l].file] \in {"temp", "dest", "lost"}
    BY <2>1
  <2> QED BY <2>1, <2>2, <2>3 DEF Run
<1>3. Moved(ln, t, move) \in [Lane -> Run \cup {Free}]
  <2>1. Moved(ln, t, move) = [l \in Lane |-> Moved(ln, t, move)[l]]
    BY DEF Moved
  <2>2. \A l \in Lane : Moved(ln, t, move)[l] \in Run \cup {Free}
    BY <1>1, <1>2
  <2> QED BY <2>1, <2>2
<1>4. \A l \in Lane : Moved(ln, t, move)[l] = Free <=> ln[l] = Free
  BY <1>2, RunIsNotFree
<1>5. LanesCounted(Moved(ln, t, move), active)
  BY <1>3, <1>4, SameLanes
<1> QED BY <1>2, <1>5

\* The files of a transfer, wherever a run of it writes.
LEMMA FilesOfTransfer ==
  ASSUME NEW t \in Transfer
  PROVE  Temp(t) \in File /\ Dest(t) \in File /\ <<t, "temp">> \in File /\ <<t, "dest">> \in File
BY DEF Temp, Dest, File

LEMMA QueueInvNext == QueueInv /\ [Next]_vars => QueueInv'
<1> SUFFICES ASSUME QueueInv, [Next]_vars PROVE QueueInv'
  OBVIOUS
<1>0. RecordTypes /\ FileTypes /\ RestTypes /\ LanesCounted(lane, active)
      /\ lane \in [Lane -> Run \cup {Free}]
  BY DEF QueueInv, LanesCounted
<1>a. ASSUME NEW l \in Lane, lane[l].pc \in Awaits
      PROVE  lane[l] \in Run /\ lane[l].t \in Transfer /\ lane[l].pos \in 0..Chunks
  BY <1>0, <1>a, WaitingIsRun DEF Run
<1>b. UNCHANGED files => FileTypes'
  BY <1>0 DEF files, FileTypes
<1>c. UNCHANGED <<up, walking, retries>> => RestTypes'
  BY <1>0 DEF RestTypes
<1>d. UNCHANGED <<order, status, doneBytes, sized, abort>> => RecordTypes'
  BY <1>0 DEF RecordTypes
<1>e. UNCHANGED <<lane, active>> => LanesCounted(lane', active')
  BY <1>0
<1>1. ASSUME NEW t \in Transfer, Enqueue(t) PROVE QueueInv'
  <2> DEFINE st == [status EXCEPT ![t] = "queued"]
  <2>1. /\ order' = Append(order, t) /\ Pump(order', st, lane, active, abort)
        /\ UNCHANGED <<doneBytes, sized, walking, retries, files, up>>
    BY <1>1 DEF Enqueue
  <2>2. order' \in Seq(Transfer) /\ st \in [Transfer -> Status] /\ abort \in [Transfer -> {0} \cup Lane]
    BY <1>0, <2>1, AppendProperties DEF RecordTypes, Status
  <2> HIDE DEF st
  <2>3. /\ status' \in [Transfer -> Status] /\ abort' \in [Transfer -> {0} \cup Lane]
        /\ LanesCounted(lane', active')
    BY <1>0, <2>1, <2>2, PumpCalled
  <2>4. RecordTypes'
    BY <1>0, <2>1, <2>2, <2>3 DEF RecordTypes
  <2> QED BY <1>b, <1>c, <2>1, <2>3, <2>4 DEF QueueInv
<1>2. ASSUME NEW t \in Transfer, BatchEnqueue(t) PROVE QueueInv'
  <2>1. /\ order' = Append(order, t) /\ status' = [status EXCEPT ![t] = "queued"]
        /\ UNCHANGED <<doneBytes, sized, abort, active, lane, files, up, walking, retries>>
    BY <1>2 DEF BatchEnqueue
  <2>2. order' \in Seq(Transfer)
    BY <1>0, <2>1, AppendProperties DEF RecordTypes
  <2>3. RecordTypes'
    BY <1>0, <2>1, <2>2 DEF RecordTypes, Status
  <2> QED BY <1>b, <1>c, <1>e, <2>1, <2>3 DEF QueueInv
<1>3. CASE (\E t \in Transfer : Cancel(t)) \/ (\E S : CancelAndClose(S))
  <2>1. PICK S : Cancelling(S)
    BY <1>3 DEF Cancel, CancelAndClose
  <2>2. UNCHANGED <<queue, abort, active, files>> /\ up' \subseteq up
    BY <1>3 DEF Cancel, CancelAndClose
  <2>3. LanesCounted(lane', active')
    BY <1>0, <2>1, <2>2, AbortedLanes DEF Cancelling
  <2>4. status' \in [Transfer -> Status]
    BY <1>0, <2>1 DEF Cancelling, RecordTypes, Status
  <2>5. RecordTypes' /\ RestTypes'
    BY <1>0, <2>2, <2>4 DEF RecordTypes, RestTypes, queue
  <2> QED BY <1>b, <2>2, <2>3, <2>5 DEF QueueInv
<1>4. ASSUME NEW t \in Transfer, Retry(t) PROVE QueueInv'
  <2> DEFINE st == [status EXCEPT ![t] = "queued"]
  <2>1. /\ Pump(order, st, lane, active, abort) /\ doneBytes' = [doneBytes EXCEPT ![t] = 0]
        /\ retries < MaxRetries /\ retries' = retries + 1
        /\ UNCHANGED <<order, sized, walking, files, up>>
    BY <1>4 DEF Retry
  <2>2. order \in Seq(Transfer) /\ st \in [Transfer -> Status] /\ abort \in [Transfer -> {0} \cup Lane]
    BY <1>0 DEF RecordTypes, Status
  <2> HIDE DEF st
  <2>3. /\ status' \in [Transfer -> Status] /\ abort' \in [Transfer -> {0} \cup Lane]
        /\ LanesCounted(lane', active')
    BY <1>0, <2>1, <2>2, PumpCalled
  <2>4. RecordTypes'
    BY <1>0, <2>1, <2>2, <2>3 DEF RecordTypes
  <2>5. retries' \in 0..MaxRetries
    BY <1>0, <2>1, TransferAssumption DEF RestTypes
  <2>6. RestTypes'
    BY <1>0, <2>1, <2>5 DEF RestTypes
  <2> QED BY <1>b, <2>1, <2>3, <2>4, <2>6 DEF QueueInv
<1>5. CASE BatchDone
  <2>1. order \in Seq(Transfer) /\ status \in [Transfer -> Status] /\ abort \in [Transfer -> {0} \cup Lane]
    BY <1>0 DEF RecordTypes
  <2>2. /\ status' \in [Transfer -> Status] /\ abort' \in [Transfer -> {0} \cup Lane]
        /\ LanesCounted(lane', active')
    BY <1>0, <1>5, <2>1, PumpCalled DEF BatchDone
  <2>3. RecordTypes' /\ RestTypes'
    BY <1>0, <1>5, <2>2 DEF BatchDone, RecordTypes, RestTypes
  <2> QED BY <1>b, <1>5, <2>2, <2>3 DEF QueueInv, BatchDone
<1>6. CASE BatchStart \/ BatchFails \/ (\E s \in Session : SessionCloses(s)) \/ Done \/ UNCHANGED vars
  <2>1. /\ UNCHANGED <<order, status, doneBytes, sized, abort>> /\ UNCHANGED <<lane, active>>
        /\ UNCHANGED files /\ retries' = retries /\ up' \subseteq up
        /\ walking' = TRUE \/ walking' = FALSE \/ walking' = walking
    BY <1>6 DEF BatchStart, BatchFails, SessionCloses, Done, vars, queue, files
  <2>2. RestTypes'
    BY <1>0, <2>1 DEF RestTypes
  <2> QED BY <1>b, <1>d, <1>e, <2>1, <2>2 DEF QueueInv
<1>7. ASSUME NEW l \in Lane, NEW at \in Awaits, Go(l, at), lane[l].pc \in Awaits, active' = active
      PROVE  LanesCounted(lane', active')
  BY <1>0, <1>7, <1>a, GoesOn
<1>8. ASSUME NEW l \in Lane,
             \/ StreamClosed(l) \/ StreamFails(l) \/ RenameFails(l) \/ Rename2Fails(l)
      PROVE  QueueInv'
  <2>1. /\ UNCHANGED <<queue, status, abort, active, files, up>> /\ lane[l].pc \in Awaits
        /\ \E at \in Awaits : Go(l, at)
    BY <1>8 DEF StreamClosed, StreamFails, RenameFails, Rename2Fails, At, Awaits
  <2> QED BY <1>7, <1>b, <1>c, <1>d, <2>1 DEF QueueInv, queue
<1>9. ASSUME NEW l \in Lane, StatAnswered(l) PROVE QueueInv'
  <2>1. /\ lane[l].pc \in Awaits /\ "mkdir" \in Awaits /\ Go(l, "mkdir")
        /\ sized' = sized \/ sized' = sized \cup {lane[l].t}
        /\ UNCHANGED <<order, status, doneBytes, abort, active, files, up, walking, retries>>
    BY <1>9 DEF StatAnswered, At, Awaits
  <2>2. RecordTypes'
    BY <1>0, <1>a, <2>1 DEF RecordTypes
  <2> QED BY <1>7, <1>b, <1>c, <2>1, <2>2 DEF QueueInv
<1>10. ASSUME NEW l \in Lane, Mkdir(l) PROVE QueueInv'
  <2>1. /\ lane[l].pc \in Awaits /\ "open" \in Awaits /\ Go(l, "open")
        /\ abort' = [abort EXCEPT ![lane[l].t] = l]
        /\ UNCHANGED <<queue, status, active, files, up>>
    BY <1>10 DEF Mkdir, At, Awaits
  <2>2. RecordTypes'
    BY <1>0, <2>1 DEF RecordTypes, queue
  <2> QED BY <1>7, <1>b, <1>c, <2>1, <2>2 DEF QueueInv, queue
<1>11. ASSUME NEW ln, LanesCounted(ln, active), NEW l \in Lane, ln[l] \in Run, lane[l].pc \in Awaits,
              NEW outcome \in {"done", "error"}, Settle(ln, l, outcome), FileTypes',
              UNCHANGED <<queue, up>>
       PROVE  QueueInv'
  <2>1. /\ status' \in [Transfer -> Status] /\ abort' \in [Transfer -> {0} \cup Lane]
        /\ LanesCounted(lane', active')
    BY <1>0, <1>11, <1>a, SettleCalled
  <2>2. RecordTypes'
    BY <1>0, <1>11, <2>1 DEF RecordTypes, queue
  <2> QED BY <1>c, <1>11, <2>1, <2>2 DEF QueueInv, queue
<1>12. ASSUME NEW l \in Lane, MkdirFails(l) PROVE QueueInv'
  <2>1. lane[l].pc \in Awaits /\ Settle(lane, l, "error") /\ UNCHANGED <<queue, files, up>>
    BY <1>12 DEF MkdirFails, At, Awaits
  <2> QED BY <1>0, <1>11, <1>a, <1>b, <2>1
<1>13. ASSUME NEW l \in Lane, Open(l) PROVE QueueInv'
  <2>1. /\ lane[l].pc = "open"
        /\ lane' = [lane EXCEPT ![l].pc = "stream", ![l].file = "temp"]
        /\ exists' = exists \cup {Temp(lane[l].t)}
        /\ content' = [content EXCEPT ![Temp(lane[l].t)] = {}]
        /\ UNCHANGED <<queue, status, abort, active, up>>
    BY <1>13 DEF Open, At
  <2>2. lane[l] \in Run /\ Temp(lane[l].t) \in File
    BY <1>a, <2>1, FilesOfTransfer DEF Awaits
  <2>3. FileTypes'
    BY <1>0, <2>1, <2>2 DEF FileTypes
  <2>4. [[lane[l] EXCEPT !.pc = "stream"] EXCEPT !.file = "temp"] \in Run
    BY <2>2 DEF Run, Awaits
  <2>5. lane' = [lane EXCEPT ![l] = [[lane[l] EXCEPT !.pc = "stream"] EXCEPT !.file = "temp"]]
    BY <1>0, <2>1
  <2>6. lane' \in [Lane -> Run \cup {Free}] /\ \A m \in Lane : lane'[m] = Free <=> lane[m] = Free
    BY <1>0, <2>2, <2>4, <2>5, RunIsNotFree
  <2>7. LanesCounted(lane', active')
    BY <1>0, <2>1, <2>6, SameLanes
  <2> QED BY <1>c, <1>d, <2>1, <2>3, <2>7 DEF QueueInv, queue
<1>14. ASSUME NEW l \in Lane, Copy(l) PROVE QueueInv'
  <2> DEFINE p == lane[l].pos + 1
  <2>1. /\ lane[l].pc = "stream" /\ p <= Chunks
        /\ doneBytes' = [doneBytes EXCEPT ![lane[l].t] = @ + 1]
        /\ lane' = [lane EXCEPT ![l].pos = p]
        /\ content' = IF lane[l].file = "lost" THEN content
                      ELSE [content EXCEPT ![<<lane[l].t, lane[l].file>>] = @ \cup {p}]
        /\ UNCHANGED <<order, status, sized, abort, active, exists, up, walking, retries>>
    BY <1>14 DEF Copy, At
  <2>2. lane[l] \in Run /\ lane[l].t \in Transfer /\ lane[l].pos \in 0..Chunks
    BY <1>a, <2>1 DEF Awaits
  <2>3. p \in 0..Chunks
    BY <2>1, <2>2, TransferAssumption
  <2>4. [lane[l] EXCEPT !.pos = p] \in Run
    BY <2>2, <2>3 DEF Run
  <2>5. lane' = [lane EXCEPT ![l] = [lane[l] EXCEPT !.pos = p]]
    BY <2>1
  <2>6. lane' \in [Lane -> Run \cup {Free}] /\ \A m \in Lane : lane'[m] = Free <=> lane[m] = Free
    BY <1>0, <2>2, <2>4, <2>5, RunIsNotFree
  <2>7. LanesCounted(lane', active')
    BY <1>0, <2>1, <2>6, SameLanes
  <2>8. lane[l].file = "lost" \/ <<lane[l].t, lane[l].file>> \in File
    BY <2>2 DEF Run, File
  <2> HIDE DEF p
  <2>9. FileTypes'
    BY <1>0, <2>1, <2>3, <2>8 DEF FileTypes
  <2>10. RecordTypes'
    BY <1>0, <2>1, <2>2 DEF RecordTypes
  <2> QED BY <1>c, <2>1, <2>7, <2>9, <2>10 DEF QueueInv
<1>15. ASSUME NEW l \in Lane, Rename(l) \/ Rename2(l) PROVE QueueInv'
  <2> DEFINE t  == lane[l].t
             ln == Moved(lane, t, [temp |-> "dest", dest |-> "lost"])
  <2>1. /\ exists' = (exists \ {Temp(t)}) \cup {Dest(t)}
        /\ content' = [content EXCEPT ![Dest(t)] = content[Temp(t)], ![Temp(t)] = {}]
        /\ Settle(ln, l, "done") /\ UNCHANGED <<queue, up>> /\ lane[l].pc \in Awaits
    BY <1>15 DEF Rename, Rename2, Promote, At, Awaits
  <2>2. t \in Transfer /\ Temp(t) \in File /\ Dest(t) \in File /\ lane[l] \in Run
    BY <1>a, <2>1, FilesOfTransfer
  <2>3. /\ DOMAIN [temp |-> "dest", dest |-> "lost"] \subseteq {"temp", "dest"}
        /\ \A x \in DOMAIN [temp |-> "dest", dest |-> "lost"] :
             [temp |-> "dest", dest |-> "lost"][x] \in {"temp", "dest", "lost"}
    OBVIOUS
  <2>4. LanesCounted(ln, active) /\ ln[l] \in Run
    BY <1>0, <2>2, <2>3, MovedLanes
  <2> HIDE DEF t, ln
  <2>5. FileTypes'
    BY <1>0, <2>1, <2>2 DEF FileTypes
  <2> QED BY <1>11, <2>1, <2>4, <2>5
<1>16. ASSUME NEW l \in Lane, UnlinkDest(l) PROVE QueueInv'
  <2> DEFINE t  == lane[l].t
             ln == [lane EXCEPT ![l].pc = "rename2"]
  <2>1. /\ lane[l].pc = "unlink" /\ UNCHANGED <<queue, status, abort, active, up>>
        /\ \/ /\ exists' = exists \ {Dest(t)} /\ content' = [content EXCEPT ![Dest(t)] = {}]
              /\ lane' = Moved(ln, t, [dest |-> "lost"])
           \/ Go(l, "rename2") /\ UNCHANGED files
    BY <1>16 DEF UnlinkDest, At
  <2>2. t \in Transfer /\ Dest(t) \in File /\ lane[l] \in Run
    BY <1>a, <2>1, FilesOfTransfer DEF Awaits
  <2>3. FileTypes'
    BY <1>0, <1>b, <2>1, <2>2 DEF FileTypes
  <2>4. LanesCounted(ln, active)
    <3>1. [lane[l] EXCEPT !.pc = "rename2"] \in Run
      BY <2>2 DEF Run, Awaits
    <3>2. ln = [lane EXCEPT ![l] = [lane[l] EXCEPT !.pc = "rename2"]]
      OBVIOUS
    <3>3. ln \in [Lane -> Run \cup {Free}] /\ \A m \in Lane : ln[m] = Free <=> lane[m] = Free
      BY <1>0, <2>2, <3>1, <3>2, RunIsNotFree
    <3> HIDE DEF ln
    <3> QED BY <1>0, <3>3, SameLanes
  <2>5. /\ DOMAIN [dest |-> "lost"] \subseteq {"temp", "dest"}
        /\ \A x \in DOMAIN [dest |-> "lost"] : [dest |-> "lost"][x] \in {"temp", "dest", "lost"}
    OBVIOUS
  <2>6. LanesCounted(Moved(ln, t, [dest |-> "lost"]), active)
    <3> HIDE DEF t, ln
    <3> QED BY <2>2, <2>4, <2>5, MovedLanes
  <2>7. Go(l, "rename2") => lane' = ln
    BY DEF Go
  <2> HIDE DEF t, ln
  <2> QED BY <1>c, <1>d, <2>1, <2>3, <2>4, <2>6, <2>7 DEF QueueInv, queue
<1>17. ASSUME NEW l \in Lane, Cleanup(l) PROVE QueueInv'
  <2> DEFINE t  == lane[l].t
             ln == Moved(lane, t, [temp |-> "lost"])
  <2>1. /\ lane[l].pc \in Awaits /\ UNCHANGED <<queue, up>>
        /\ \/ /\ exists' = exists \ {Temp(t)} /\ content' = [content EXCEPT ![Temp(t)] = {}]
              /\ Settle(ln, l, "error")
           \/ UNCHANGED files /\ Settle(lane, l, "error")
    BY <1>17 DEF Cleanup, At, Awaits
  <2>2. t \in Transfer /\ Temp(t) \in File /\ lane[l] \in Run
    BY <1>a, <2>1, FilesOfTransfer
  <2>3. FileTypes'
    BY <1>0, <1>b, <2>1, <2>2 DEF FileTypes
  <2>4. /\ DOMAIN [temp |-> "lost"] \subseteq {"temp", "dest"}
        /\ \A x \in DOMAIN [temp |-> "lost"] : [temp |-> "lost"][x] \in {"temp", "dest", "lost"}
    OBVIOUS
  <2>5. LanesCounted(ln, active) /\ ln[l] \in Run
    BY <1>0, <2>2, <2>4, MovedLanes
  <2> HIDE DEF t, ln
  <2> QED BY <1>0, <1>11, <2>1, <2>2, <2>3, <2>5
<1> QED
  BY <1>1, <1>2, <1>3, <1>4, <1>5, <1>6, <1>8, <1>9, <1>10, <1>12, <1>13, <1>14, <1>15,
     <1>16, <1>17
  DEF Next, Call, LaneStep

-----------------------------------------------------------------------------
(* What the queue makes of the files                                        *)

\* As long as nothing is retried before its run has settled: a transfer has one run at most,
\* none unless it was started, and counts no bytes until it is.
OneRun(st, ln, db) ==
  /\ \A l, m \in Lane : ln[l] # Free /\ ln[m].t = ln[l].t => m = l
  /\ \A t \in Transfer : st[t] \in {"none", "queued", "done"} => \A l \in Lane : ln[l].t # t
  /\ \A t \in Transfer : st[t] \in {"none", "queued"} => db[t] = 0

\* What a run has in its temp file, at each await.
RunFile(r, db, sz, ex, ct) ==
  /\ r.pc \in Starting => r.pos = 0 /\ db[r.t] = 0
  /\ r.pc = "stream" =>
       r.pos = db[r.t] /\ r.file = "temp" /\ Temp(r.t) \in ex /\ ct[Temp(r.t)] = 1..r.pos
  /\ r.pc \in {"rename", "unlink", "rename2"} /\ r.t \in sz =>
       Temp(r.t) \in ex /\ ct[Temp(r.t)] = Whole
  /\ r.pc \in {"unlink", "rename2"} => Kind[r.t] = "upload"
RunFiles(ln, db, sz, ex, ct) == \A l \in Lane : ln[l] # Free => RunFile(ln[l], db, sz, ex, ct)

\* A temp file on a server that answers has the run that will remove it; a transfer done is whole.
PartHasRun(t, ln, ex, u) ==
  Temp(t) \in ex /\ SessionOf[t] \in u => \E l \in Lane : ln[l].t = t /\ ln[l].pc \notin Starting
DoneWhole(t, st, sz, ex, ct) ==
  t \in sz /\ st[t] = "done" => Dest(t) \in ex /\ ct[Dest(t)] = Whole
WholeFiles(st, ln, sz, ex, ct, u) ==
  \A t \in Transfer :
    (Kind[t] = "upload" => t \in sz) /\ PartHasRun(t, ln, ex, u) /\ DoneWhole(t, st, sz, ex, ct)

WholeOf(st, ln, db, sz, ex, ct, u) ==
  OneRun(st, ln, db) /\ RunFiles(ln, db, sz, ex, ct) /\ WholeFiles(st, ln, sz, ex, ct, u)
WholeInv == WholeOf(status, lane, doneBytes, sized, exists, content, up)

LEMMA FilesDiffer ==
  ASSUME NEW t, NEW x
  PROVE  Temp(t) # Dest(x) /\ (Temp(t) = Temp(x) => t = x) /\ (Dest(t) = Dest(x) => t = x)
BY DEF Temp, Dest

\* pump() leaves it so.
LEMMA PumpedKeepsWhole ==
  ASSUME NEW st \in [Transfer -> Status], NEW ln \in [Lane -> Run \cup {Free}], NEW act,
         NEW st2, NEW ln2, NEW act2, Pumped(st, ln, act, st2, ln2, act2),
         NEW db, NEW sz, NEW ex, NEW ct, NEW u, WholeOf(st, ln, db, sz, ex, ct, u)
  PROVE  WholeOf(st2, ln2, db, sz, ex, ct, u)
<1>0. OneRun(st, ln, db) /\ RunFiles(ln, db, sz, ex, ct) /\ WholeFiles(st, ln, sz, ex, ct, u)
  BY DEF WholeOf
<1>1. CASE ln2 = ln /\ \A t \in Transfer : MayFail(t, st, st2)
  <2>1. OneRun(st2, ln2, db)
    BY <1>0, <1>1 DEF OneRun, MayFail
  <2>2. WholeFiles(st2, ln2, sz, ex, ct, u)
    BY <1>0, <1>1 DEF WholeFiles, DoneWhole, MayFail
  <2> QED BY <1>0, <1>1, <2>1, <2>2 DEF WholeOf
<1>2. ASSUME NEW l \in Lane, NEW t \in Transfer, NEW at \in Starting,
             ln[l] = Free, st[t] = "queued", st2[t] = "active",
             \A x \in Transfer : x # t => MayFail(x, st, st2),
             ln2 = [ln EXCEPT ![l] = NewRun(t, at)]
      PROVE  WholeOf(st2, ln2, db, sz, ex, ct, u)
  <2>1. /\ \A m \in Lane : ln[m].t # t /\ db[t] = 0
        /\ \A m \in Lane : ln2[m] = IF m = l THEN NewRun(t, at) ELSE ln[m]
    BY <1>0, <1>2 DEF OneRun
  <2>2. NewRun(t, at).t = t /\ NewRun(t, at).pc = at /\ NewRun(t, at).pos = 0
    BY DEF NewRun
  <2>3. Free.t = None /\ None \notin Transfer /\ \A r \in Run : r.t \in Transfer
    BY TransferAssumption DEF Free, Run
  <2>4. OneRun(st2, ln2, db)
    <3>1. \A m, k \in Lane : ln2[m] # Free /\ ln2[k].t = ln2[m].t => k = m
      BY <1>0, <2>1, <2>2, <2>3 DEF OneRun
    <3>2. ASSUME NEW x \in Transfer, st2[x] \in {"none", "queued", "done"}
          PROVE  (\A m \in Lane : ln2[m].t # x) /\ (st2[x] # "done" => db[x] = 0)
      <4>1. x # t /\ st[x] = st2[x]
        BY <1>2, <3>2 DEF MayFail
      <4> QED BY <1>0, <2>1, <2>2, <3>2, <4>1 DEF OneRun
    <3> QED BY <3>1, <3>2 DEF OneRun
  <2>5. RunFiles(ln2, db, sz, ex, ct)
    <3>1. RunFile(NewRun(t, at), db, sz, ex, ct)
      BY <2>1, <2>2 DEF RunFile, Starting
    <3> QED BY <1>0, <2>1, <3>1 DEF RunFiles
  <2>6. WholeFiles(st2, ln2, sz, ex, ct, u)
    <3>1. ASSUME NEW x \in Transfer PROVE PartHasRun(x, ln2, ex, u)
      BY <1>0, <1>2, <2>1, <2>3 DEF WholeFiles, PartHasRun
    <3>2. ASSUME NEW x \in Transfer PROVE DoneWhole(x, st2, sz, ex, ct)
      BY <1>0, <1>2 DEF WholeFiles, DoneWhole, MayFail
    <3> QED BY <1>0, <3>1, <3>2 DEF WholeFiles
  <2> QED BY <2>4, <2>5, <2>6 DEF WholeOf
<1> QED BY <1>1, <1>2 DEF Pumped

\* The record and the lane of a run that is over.
AfterRun(st, t, outcome) == [st EXCEPT ![t] = IF @ = "active" THEN outcome ELSE @]
Freed(ln, l) == [ln EXCEPT ![l] = Free]

\* Nor does a run that is over disturb the others, if it leaves no temp file and, done, the whole.
LeavesWhole(st, ln, l, t, outcome, db, sz, ex, ct, u) ==
  /\ OneRun(st, ln, db) /\ ln[l] \in Run /\ ln[l].t = t
  /\ \A m \in Lane : m # l /\ ln[m] # Free => RunFile(ln[m], db, sz, ex, ct)
  /\ \A x \in Transfer :
       /\ Kind[x] = "upload" => x \in sz
       /\ x # t => PartHasRun(x, ln, ex, u)
       /\ DoneWhole(x, st, sz, ex, ct)
  /\ Temp(t) \in ex => SessionOf[t] \notin u
  /\ outcome = "done" /\ t \in sz => Dest(t) \in ex /\ ct[Dest(t)] = Whole
LEMMA SettledKeepsWhole ==
  ASSUME NEW st \in [Transfer -> Status], NEW ln \in [Lane -> Run \cup {Free}],
         NEW l \in Lane, NEW t \in Transfer, NEW outcome \in {"done", "error"},
         NEW db, NEW sz, NEW ex, NEW ct, NEW u,
         LeavesWhole(st, ln, l, t, outcome, db, sz, ex, ct, u)
  PROVE  WholeOf(AfterRun(st, t, outcome), Freed(ln, l), db, sz, ex, ct, u)
<1> USE DEF LeavesWhole
<1> DEFINE st2 == [st EXCEPT ![t] = IF @ = "active" THEN outcome ELSE @]
           ln2 == [ln EXCEPT ![l] = Free]
<1>1. /\ \A x \in Transfer : st2[x] = IF x = t /\ st[x] = "active" THEN outcome ELSE st[x]
      /\ \A m \in Lane : ln2[m] = IF m = l THEN Free ELSE ln[m]
  OBVIOUS
<1>2. Free.t = None /\ None \notin Transfer /\ ln[l] # Free
  BY TransferAssumption, RunIsNotFree DEF Free
<1> HIDE DEF st2, ln2
<1>3. \A m \in Lane : m # l => ln[m].t # t
  BY <1>2 DEF OneRun
<1>4. OneRun(st2, ln2, db)
  <2>1. \A m, k \in Lane : ln2[m] # Free /\ ln2[k].t = ln2[m].t => k = m
    <3> SUFFICES ASSUME NEW m \in Lane, NEW k \in Lane, ln2[m] # Free, ln2[k].t = ln2[m].t
                 PROVE  k = m
      OBVIOUS
    <3>1. m # l /\ ln2[m] = ln[m] /\ ln[m] \in Run
      BY <1>1
    <3>2. ln[m].t \in Transfer
      BY <3>1 DEF Run
    <3>3. k # l /\ ln2[k] = ln[k]
      BY <1>1, <1>2, <3>1, <3>2
    <3> QED BY <3>1, <3>3 DEF OneRun
  <2>2. ASSUME NEW x \in Transfer, st2[x] \in {"none", "queued", "done"}
        PROVE  (\A m \in Lane : ln2[m].t # x) /\ (st2[x] # "done" => db[x] = 0)
    <3>1. CASE x = t
      <4>1. st[x] = "active" \/ st[x] \in {"none", "queued", "done"}
        BY <1>1, <2>2
      <4>2. ~(st[x] \in {"none", "queued", "done"})
        BY <3>1 DEF OneRun
      <4>3. st2[x] = "done"
        BY <1>1, <2>2, <3>1, <4>1, <4>2
      <4> QED BY <1>1, <1>2, <1>3, <3>1, <4>3
    <3>2. CASE x # t
      BY <1>1, <1>2, <2>2, <3>2 DEF OneRun
    <3> QED BY <3>1, <3>2
  <2> QED BY <2>1, <2>2 DEF OneRun
<1>5. RunFiles(ln2, db, sz, ex, ct)
  BY <1>1 DEF RunFiles
<1>6. WholeFiles(st2, ln2, sz, ex, ct, u)
  <2>1. ASSUME NEW x \in Transfer PROVE PartHasRun(x, ln2, ex, u)
    BY <1>1 DEF PartHasRun
  <2>2. ASSUME NEW x \in Transfer PROVE DoneWhole(x, st2, sz, ex, ct)
    BY <1>1 DEF DoneWhole
  <2> QED BY <2>1, <2>2 DEF WholeFiles
<1>7. WholeOf(st2, ln2, db, sz, ex, ct, u)
  BY <1>4, <1>5, <1>6 DEF WholeOf
<1> QED BY <1>7 DEF st2, ln2, AfterRun, Freed

\* A run goes from one await to the next, and the others stay where they are: what it has in
\* its files then has to be right, and that of the others did not change.
LEMMA StepKeepsWhole ==
  ASSUME QueueInv, WholeInv, NEW l \in Lane, lane[l] \in Run, lane'[l] \in Run,
         lane'[l].t = lane[l].t, \A m \in Lane : m # l => lane'[m] = lane[m],
         status' = status, up' = up, sized' \in SUBSET Transfer, sized \subseteq sized',
         \A x \in Transfer : x # lane[l].t =>
           /\ doneBytes'[x] = doneBytes[x] /\ (x \in sized' <=> x \in sized)
           /\ Temp(x) \in exists' <=> Temp(x) \in exists
           /\ content'[Temp(x)] = content[Temp(x)]
           /\ Dest(x) \in exists' <=> Dest(x) \in exists
           /\ content'[Dest(x)] = content[Dest(x)],
         RunFile(lane'[l], doneBytes', sized', exists', content'),
         lane'[l].pc \in Starting => lane[l].pc \in Starting /\ exists' = exists
  PROVE  WholeInv'
<1> DEFINE t == lane[l].t
<1>0. /\ OneRun(status, lane, doneBytes) /\ RunFiles(lane, doneBytes, sized, exists, content)
      /\ WholeFiles(status, lane, sized, exists, content, up)
      /\ lane \in [Lane -> Run \cup {Free}]
  BY DEF WholeInv, WholeOf, QueueInv, LanesCounted
<1>1. t \in Transfer /\ lane[l] # Free /\ lane'[l] # Free /\ Free.t = None /\ None \notin Transfer
  BY RunIsNotFree, TransferAssumption DEF Run, Free
<1>2. /\ \A m \in Lane : lane[m].t = t => m = l
      /\ status[t] \notin {"none", "queued", "done"}
  BY <1>0, <1>1 DEF OneRun
<1>3. \A m \in Lane : lane'[m].t = lane[m].t /\ (lane'[m] = Free <=> lane[m] = Free)
  BY <1>1
<1>4. OneRun(status', lane', doneBytes')
  <2>1. \A m, k \in Lane : lane'[m] # Free /\ lane'[k].t = lane'[m].t => k = m
    BY <1>0, <1>3 DEF OneRun
  <2>2. \A x \in Transfer : status[x] \in {"none", "queued", "done"} => \A m \in Lane : lane'[m].t # x
    BY <1>0, <1>3 DEF OneRun
  <2>3. \A x \in Transfer : status[x] \in {"none", "queued"} => doneBytes'[x] = 0
    BY <1>0, <1>2 DEF OneRun
  <2> QED BY <2>1, <2>2, <2>3 DEF OneRun
<1>5. RunFiles(lane', doneBytes', sized', exists', content')
  <2> SUFFICES ASSUME NEW m \in Lane, lane'[m] # Free
               PROVE  RunFile(lane'[m], doneBytes', sized', exists', content')
    BY DEF RunFiles
  <2>1. CASE m = l
    BY <2>1
  <2>2. CASE m # l
    <3>1. lane'[m] = lane[m] /\ lane[m] \in Run /\ lane[m].t # t
      BY <1>0, <1>2, <2>2
    <3>2. lane[m].t \in Transfer
      BY <3>1 DEF Run
    <3>3. RunFile(lane[m], doneBytes, sized, exists, content)
      BY <1>0, <3>1 DEF RunFiles
    <3> HIDE DEF t
    <3>4. /\ doneBytes'[lane[m].t] = doneBytes[lane[m].t]
          /\ lane[m].t \in sized' <=> lane[m].t \in sized
          /\ Temp(lane[m].t) \in exists' <=> Temp(lane[m].t) \in exists
          /\ content'[Temp(lane[m].t)] = content[Temp(lane[m].t)]
      BY <3>1, <3>2 DEF t
    <3> QED BY <3>1, <3>3, <3>4 DEF RunFile
  <2> QED BY <2>1, <2>2
<1>6. WholeFiles(status', lane', sized', exists', content', up')
  <2> SUFFICES ASSUME NEW x \in Transfer
               PROVE  /\ Kind[x] = "upload" => x \in sized'
                      /\ PartHasRun(x, lane', exists', up')
                      /\ DoneWhole(x, status', sized', exists', content')
    BY DEF WholeFiles
  <2>1. /\ Kind[x] = "upload" => x \in sized
        /\ PartHasRun(x, lane, exists, up)
        /\ DoneWhole(x, status, sized, exists, content)
    BY <1>0 DEF WholeFiles
  <2>2. CASE x = t
    <3>1. DoneWhole(x, status', sized', exists', content')
      BY <1>2, <2>2 DEF DoneWhole
    <3>2. CASE lane'[l].pc \notin Starting
      BY <2>1, <2>2, <3>1, <3>2 DEF PartHasRun
    <3>3. CASE lane'[l].pc \in Starting
      <4>1. exists' = exists /\ lane[l].pc \in Starting
        BY <3>3
      <4>2. PartHasRun(x, lane', exists', up')
        BY <1>2, <1>3, <2>1, <2>2, <4>1 DEF PartHasRun
      <4> QED BY <2>1, <3>1, <4>2
    <3> QED BY <3>2, <3>3
  <2>3. CASE x # t
    <3>1. DoneWhole(x, status', sized', exists', content')
      BY <2>1, <2>3 DEF DoneWhole
    <3>2. PartHasRun(x, lane', exists', up')
      BY <1>1, <1>2, <2>1, <2>3 DEF PartHasRun
    <3> QED BY <2>1, <3>1, <3>2
  <2> QED BY <2>2, <2>3
<1> QED BY <1>4, <1>5, <1>6 DEF WholeInv, WholeOf

\* A run settles: its lane is free, the queue is pumped, and what it leaves is right.
LEMMA EndKeepsWhole ==
  ASSUME QueueInv, WholeInv, NEW l \in Lane, lane[l] \in Run,
         NEW ln, LanesCounted(ln, active), ln[l] \in Run, ln[l].t = lane[l].t,
         \A m \in Lane : m # l => ln[m] = lane[m],
         NEW outcome \in {"done", "error"}, Settle(ln, l, outcome),
         UNCHANGED <<doneBytes, sized, up>>,
         \A x \in Transfer : x # lane[l].t =>
           /\ Temp(x) \in exists' <=> Temp(x) \in exists
           /\ content'[Temp(x)] = content[Temp(x)]
           /\ Dest(x) \in exists' <=> Dest(x) \in exists
           /\ content'[Dest(x)] = content[Dest(x)],
         Temp(lane[l].t) \in exists' => SessionOf[lane[l].t] \notin up,
         outcome = "done" /\ lane[l].t \in sized =>
           Dest(lane[l].t) \in exists' /\ content'[Dest(lane[l].t)] = Whole
  PROVE  WholeInv'
<1> DEFINE t   == lane[l].t
           st2 == AfterRun(status, t, outcome)
           ln2 == Freed(ln, l)
<1>0. /\ OneRun(status, lane, doneBytes) /\ RunFiles(lane, doneBytes, sized, exists, content)
      /\ WholeFiles(status, lane, sized, exists, content, up)
      /\ lane \in [Lane -> Run \cup {Free}] /\ ln \in [Lane -> Run \cup {Free}]
      /\ RecordTypes /\ status \in [Transfer -> Status]
  BY DEF WholeInv, WholeOf, QueueInv, LanesCounted, RecordTypes
<1>1. t \in Transfer /\ lane[l] # Free /\ ln[l] # Free
  BY RunIsNotFree DEF Run
<1>2. /\ \A m \in Lane : lane[m].t = t => m = l
      /\ status[t] \notin {"none", "queued", "done"}
  BY <1>0, <1>1 DEF OneRun
<1>3. \A m \in Lane : ln[m].t = lane[m].t /\ (ln[m] = Free <=> lane[m] = Free)
  BY <1>1
<1>4. OneRun(status, ln, doneBytes')
  <2>1. \A m, k \in Lane : ln[m] # Free /\ ln[k].t = ln[m].t => k = m
    BY <1>0, <1>3 DEF OneRun
  <2>2. \A x \in Transfer : status[x] \in {"none", "queued", "done"} => \A m \in Lane : ln[m].t # x
    BY <1>0, <1>3 DEF OneRun
  <2>3. \A x \in Transfer : status[x] \in {"none", "queued"} => doneBytes'[x] = 0
    BY <1>0 DEF OneRun
  <2> QED BY <2>1, <2>2, <2>3 DEF OneRun
<1>5. ASSUME NEW m \in Lane, m # l, ln[m] # Free
      PROVE  RunFile(ln[m], doneBytes', sized', exists', content')
  <2>1. ln[m] = lane[m] /\ lane[m] \in Run /\ lane[m].t # t
    BY <1>0, <1>2, <1>5
  <2>2. lane[m].t \in Transfer
    BY <2>1 DEF Run
  <2>3. RunFile(lane[m], doneBytes, sized, exists, content)
    BY <1>0, <1>5, <2>1 DEF RunFiles
  <2>4. /\ Temp(lane[m].t) \in exists' <=> Temp(lane[m].t) \in exists
        /\ content'[Temp(lane[m].t)] = content[Temp(lane[m].t)]
    BY <2>1, <2>2
  <2> QED BY <2>1, <2>3, <2>4 DEF RunFile
<1>6. ASSUME NEW x \in Transfer
      PROVE  /\ Kind[x] = "upload" => x \in sized'
             /\ x # t => PartHasRun(x, ln, exists', up')
             /\ DoneWhole(x, status, sized', exists', content')
  <2>1. /\ Kind[x] = "upload" => x \in sized
        /\ PartHasRun(x, lane, exists, up)
        /\ DoneWhole(x, status, sized, exists, content)
    BY <1>0 DEF WholeFiles
  <2>2. x # t => PartHasRun(x, ln, exists', up')
    BY <1>1, <1>2, <2>1 DEF PartHasRun
  <2>3. DoneWhole(x, status, sized', exists', content')
    BY <1>2, <2>1 DEF DoneWhole
  <2> QED BY <2>1, <2>2, <2>3
<1>7. WholeOf(st2, ln2, doneBytes', sized', exists', content', up')
  <2>1. /\ ln[l].t = t
        /\ Temp(t) \in exists' => SessionOf[t] \notin up'
        /\ outcome = "done" /\ t \in sized' => Dest(t) \in exists' /\ content'[Dest(t)] = Whole
    OBVIOUS
  <2>2. \A m \in Lane : m # l /\ ln[m] # Free => RunFile(ln[m], doneBytes', sized', exists', content')
    BY <1>5
  <2>3. \A x \in Transfer :
          /\ Kind[x] = "upload" => x \in sized'
          /\ x # t => PartHasRun(x, ln, exists', up')
          /\ DoneWhole(x, status, sized', exists', content')
    BY <1>6
  <2>4. /\ OneRun(status, ln, doneBytes') /\ status \in [Transfer -> Status]
        /\ ln \in [Lane -> Run \cup {Free}] /\ t \in Transfer
    BY <1>0, <1>1, <1>4
  <2> HIDE DEF t
  <2>5. LeavesWhole(status, ln, l, t, outcome, doneBytes', sized', exists', content', up')
    BY <2>1, <2>2, <2>3, <2>4 DEF LeavesWhole
  <2> QED BY <2>4, <2>5, SettledKeepsWhole
<1>8. Pumped(st2, ln2, active - 1, status', lane', active')
  BY <1>0, <1>1, SettleCalled DEF AfterRun, Freed
<1>9. st2 \in [Transfer -> Status] /\ ln2 \in [Lane -> Run \cup {Free}]
  BY <1>0, <1>1 DEF Status, AfterRun, Freed
<1> HIDE DEF t, st2, ln2
<1>10. WholeOf(status', lane', doneBytes', sized', exists', content', up')
  BY <1>7, <1>8, <1>9, PumpedKeepsWhole
<1> QED BY <1>10 DEF WholeInv

LEMMA WholeInvNext ==
  ASSUME QueueInv, WholeInv, ~RetryEarly, [Next]_vars
  PROVE  WholeInv'
<1>0. /\ OneRun(status, lane, doneBytes) /\ RunFiles(lane, doneBytes, sized, exists, content)
      /\ WholeFiles(status, lane, sized, exists, content, up)
      /\ RecordTypes /\ FileTypes /\ RestTypes /\ LanesCounted(lane, active)
      /\ lane \in [Lane -> Run \cup {Free}] /\ status \in [Transfer -> Status]
  BY DEF WholeInv, WholeOf, QueueInv, LanesCounted, RecordTypes
<1>a. ASSUME NEW l \in Lane, lane[l].pc \in Awaits
      PROVE  /\ lane[l] \in Run /\ lane[l].t \in Transfer
             /\ RunFile(lane[l], doneBytes, sized, exists, content)
             /\ lane[l].t \in Transfer
             /\ Temp(lane[l].t) \in File /\ Dest(lane[l].t) \in File
             /\ Kind[lane[l].t] = "upload" => lane[l].t \in sized
  <2>1. lane[l] \in Run
    BY <1>0, <1>a, WaitingIsRun
  <2>2. lane[l].t \in Transfer /\ lane[l] # Free
    BY <2>1, RunIsNotFree DEF Run
  <2> QED BY <1>0, <2>1, <2>2, FilesOfTransfer DEF RunFiles, WholeFiles
<1>b. ASSUME NEW t \in Transfer, status[t] \in {"none", "error", "cancelled"}, \A l \in Lane : lane[l].t # t,
             NEW db, \A x \in Transfer : db[x] = IF x = t THEN 0 ELSE doneBytes[x]
      PROVE  WholeOf([status EXCEPT ![t] = "queued"], lane, db, sized, exists, content, up)
  <2> DEFINE st == [status EXCEPT ![t] = "queued"]
  <2>1. \A x \in Transfer : st[x] = IF x = t THEN "queued" ELSE status[x]
    BY <1>0
  <2> HIDE DEF st
  <2>2. OneRun(st, lane, db)
    BY <1>0, <1>b, <2>1 DEF OneRun
  <2>3. RunFiles(lane, db, sized, exists, content)
    <3> SUFFICES ASSUME NEW l \in Lane, lane[l] # Free PROVE RunFile(lane[l], db, sized, exists, content)
      BY DEF RunFiles
    <3>1. lane[l].t \in Transfer /\ lane[l].t # t
      BY <1>0, <1>b DEF Run
    <3>2. db[lane[l].t] = doneBytes[lane[l].t]
      BY <1>b, <3>1
    <3> QED BY <1>0, <3>2 DEF RunFiles, RunFile
  <2>4. WholeFiles(st, lane, sized, exists, content, up)
    BY <1>0, <2>1 DEF WholeFiles, DoneWhole
  <2>5. WholeOf(st, lane, db, sized, exists, content, up)
    BY <2>2, <2>3, <2>4 DEF WholeOf
  <2> QED BY <2>5 DEF st
<1>1. ASSUME NEW t \in Transfer, Enqueue(t) \/ Retry(t) PROVE WholeInv'
  <2> DEFINE st == [status EXCEPT ![t] = "queued"]
  <2>1. /\ status[t] \in {"none", "error", "cancelled"} /\ \A l \in Lane : lane[l].t # t
        /\ \A x \in Transfer : doneBytes'[x] = IF x = t THEN 0 ELSE doneBytes[x]
        /\ order' \in Seq(Transfer) /\ Pump(order', st, lane, active, abort)
        /\ UNCHANGED <<sized, exists, content, up>>
    <3>1. CASE Enqueue(t)
      <4>1. order' \in Seq(Transfer)
        BY <1>0, <3>1, AppendProperties DEF Enqueue, RecordTypes
      <4> QED BY <1>0, <3>1, <4>1 DEF Enqueue, files, OneRun
    <3>2. CASE Retry(t)
      <4>1. order' = order /\ order \in Seq(Transfer)
        BY <1>0, <3>2 DEF Retry, RecordTypes
      <4> QED BY <1>0, <3>2, <4>1 DEF Retry, files, RunsOf, RecordTypes
    <3> QED BY <1>1, <3>1, <3>2
  <2>2. WholeOf(st, lane, doneBytes', sized', exists', content', up')
    BY <1>b, <2>1
  <2>3. st \in [Transfer -> Status] /\ abort \in [Transfer -> {0} \cup Lane]
    BY <1>0 DEF RecordTypes, Status
  <2> HIDE DEF st
  <2>4. Pumped(st, lane, active, status', lane', active')
    BY <1>0, <2>1, <2>3, PumpCalled
  <2>5. WholeOf(status', lane', doneBytes', sized', exists', content', up')
    BY <1>0, <2>2, <2>3, <2>4, PumpedKeepsWhole
  <2> QED BY <2>5 DEF WholeInv
<1>2. ASSUME NEW t \in Transfer, BatchEnqueue(t) PROVE WholeInv'
  <2>1. /\ status[t] = "none" /\ status' = [status EXCEPT ![t] = "queued"]
        /\ UNCHANGED <<doneBytes, sized, lane, exists, content, up>>
        /\ \A l \in Lane : lane[l].t # t
        /\ \A x \in Transfer : doneBytes[x] = IF x = t THEN 0 ELSE doneBytes[x]
    BY <1>0, <1>2 DEF BatchEnqueue, files, OneRun
  <2>2. WholeOf([status EXCEPT ![t] = "queued"], lane, doneBytes, sized, exists, content, up)
    BY <1>b, <2>1
  <2>3. WholeOf(status', lane', doneBytes', sized', exists', content', up')
    BY <2>1, <2>2
  <2> QED BY <2>3 DEF WholeInv
<1>3. CASE BatchDone
  <2>1. order \in Seq(Transfer) /\ abort \in [Transfer -> {0} \cup Lane]
        /\ Pump(order, status, lane, active, abort) /\ UNCHANGED <<doneBytes, sized, exists, content, up>>
    BY <1>0, <1>3 DEF BatchDone, RecordTypes, files
  <2>2. Pumped(status, lane, active, status', lane', active')
    BY <1>0, <2>1, PumpCalled
  <2>3. WholeOf(status, lane, doneBytes', sized', exists', content', up')
    BY <2>1 DEF WholeInv
  <2>4. WholeOf(status', lane', doneBytes', sized', exists', content', up')
    BY <1>0, <2>2, <2>3, PumpedKeepsWhole
  <2> QED BY <2>4 DEF WholeInv
<1>4. CASE BatchStart \/ BatchFails \/ (\E s \in Session : SessionCloses(s)) \/ Done \/ UNCHANGED vars
  <2>1. UNCHANGED <<status, lane, doneBytes, sized, exists, content>> /\ up' \subseteq up
    BY <1>4 DEF BatchStart, BatchFails, SessionCloses, Done, vars, queue, files
  <2>2. WholeFiles(status', lane', sized', exists', content', up')
    BY <1>0, <2>1 DEF WholeFiles, PartHasRun, DoneWhole
  <2> QED BY <1>0, <2>1, <2>2 DEF WholeInv, WholeOf
<1>5. CASE (\E t \in Transfer : Cancel(t)) \/ (\E S : CancelAndClose(S))
  <2>1. PICK S : Cancelling(S)
    BY <1>5 DEF Cancel, CancelAndClose
  <2>2. UNCHANGED <<doneBytes, sized, exists, content>> /\ up' \subseteq up
    BY <1>5 DEF Cancel, CancelAndClose, queue, files
  <2>3. \A x \in Transfer : status'[x] = IF x \in S THEN "cancelled" ELSE status[x]
    BY <2>1 DEF Cancelling
  <2>4. \A m \in Lane :
          \/ lane'[m] = lane[m]
          \/ /\ lane[m] \in Run /\ lane'[m] \in Run /\ lane'[m].pc = "cleanup"
             /\ lane'[m].t = lane[m].t
    BY <1>0, <2>1, AbortedLanes DEF Cancelling
  <2>5. \A m \in Lane : lane'[m].t = lane[m].t /\ (lane'[m] = Free <=> lane[m] = Free)
    BY <2>4, RunIsNotFree
  <2>6. OneRun(status', lane', doneBytes')
    <3>1. \A m, k \in Lane : lane'[m] # Free /\ lane'[k].t = lane'[m].t => k = m
      BY <1>0, <2>5 DEF OneRun
    <3>2. \A x \in Transfer : status'[x] \in {"none", "queued", "done"} => status[x] = status'[x]
      BY <2>3
    <3> QED BY <1>0, <2>2, <2>5, <3>1, <3>2 DEF OneRun
  <2>7. RunFiles(lane', doneBytes', sized', exists', content')
    <3> SUFFICES ASSUME NEW m \in Lane, lane'[m] # Free
                 PROVE  RunFile(lane'[m], doneBytes, sized, exists, content)
      BY <2>2 DEF RunFiles
    <3>1. CASE lane'[m] = lane[m]
      BY <1>0, <3>1 DEF RunFiles
    <3>2. CASE lane'[m].pc = "cleanup"
      BY <3>2 DEF RunFile, Starting
    <3> QED BY <2>4, <3>1, <3>2
  <2>8. WholeFiles(status', lane', sized', exists', content', up')
    <3>1. ASSUME NEW x \in Transfer PROVE PartHasRun(x, lane', exists', up')
      BY <1>0, <2>2, <2>4, <2>5 DEF WholeFiles, PartHasRun, Starting
    <3>2. ASSUME NEW x \in Transfer PROVE DoneWhole(x, status', sized', exists', content')
      BY <1>0, <2>2, <2>3 DEF WholeFiles, DoneWhole
    <3> QED BY <1>0, <2>2, <3>1, <3>2 DEF WholeFiles
  <2> QED BY <2>6, <2>7, <2>8 DEF WholeInv, WholeOf
<1>c. ASSUME NEW l \in Lane, lane[l].pc \in Awaits, NEW at \in Awaits, Go(l, at), active' = active,
             UNCHANGED <<status, doneBytes, exists, content, up>>,
             sized' = sized \/ sized' = sized \cup {lane[l].t},
             at \in Starting => lane[l].pc \in Starting,
             \A r \in Run : r.t = lane[l].t /\ r.pc = at /\ r.pos = lane[l].pos /\ r.file = lane[l].file
               => RunFile(r, doneBytes, sized', exists, content)
      PROVE  WholeInv'
  <2>1. lane[l] \in Run /\ lane[l].t \in Transfer
    BY <1>a, <1>c
  <2>2. /\ lane'[l] \in Run /\ lane'[l].t = lane[l].t /\ lane'[l].pc = at
        /\ lane'[l].pos = lane[l].pos /\ lane'[l].file = lane[l].file
        /\ \A m \in Lane : m # l => lane'[m] = lane[m]
    BY <1>0, <1>c, <2>1, GoesOn
  <2>3. RunFile(lane'[l], doneBytes', sized', exists', content')
    BY <1>c, <2>2
  <2>4. sized' \in SUBSET Transfer /\ sized \subseteq sized'
    BY <1>0, <1>c, <2>1 DEF RecordTypes
  <2> QED BY <1>c, <2>1, <2>2, <2>3, <2>4, StepKeepsWhole
<1>6. ASSUME NEW l \in Lane, StatAnswered(l) \/ Mkdir(l) PROVE WholeInv'
  <2>1. /\ lane[l].pc \in Awaits \cap Starting
        /\ \E at \in Awaits \cap Starting : Go(l, at)
        /\ active' = active /\ UNCHANGED <<status, doneBytes, exists, content, up>>
        /\ sized' = sized \/ sized' = sized \cup {lane[l].t}
    BY <1>6 DEF StatAnswered, Mkdir, At, Awaits, Starting, queue, files
  <2>2. lane[l].pos = 0 /\ doneBytes[lane[l].t] = 0
    BY <1>a, <2>1 DEF RunFile
  <2>3. ASSUME NEW r \in Run, r.t = lane[l].t, r.pc \in Starting, r.pos = lane[l].pos
        PROVE  RunFile(r, doneBytes, sized', exists, content)
    BY <2>2, <2>3 DEF RunFile, Starting
  <2> QED BY <1>c, <2>1, <2>3
<1>7. ASSUME NEW l \in Lane, StreamClosed(l) PROVE WholeInv'
  <2> DEFINE at == IF lane[l].t \in sized /\ doneBytes[lane[l].t] # Chunks THEN "cleanup" ELSE "rename"
  <2>1. /\ lane[l].pc = "stream" /\ Go(l, at) /\ active' = active /\ sized' = sized
        /\ UNCHANGED <<status, doneBytes, exists, content, up>>
    BY <1>7 DEF StreamClosed, At, queue, files
  <2>2. /\ lane[l].pc \in Awaits /\ at \in Awaits /\ at \notin Starting
        /\ at \in {"cleanup", "rename"}
    BY <2>1 DEF Awaits, Starting
  <2>3. /\ lane[l].pos = doneBytes[lane[l].t] /\ Temp(lane[l].t) \in exists
        /\ content[Temp(lane[l].t)] = 1..lane[l].pos
    BY <1>a, <2>1, <2>2 DEF RunFile
  <2>4. at = "rename" /\ lane[l].t \in sized => content[Temp(lane[l].t)] = Whole
    BY <2>3 DEF Whole
  <2> HIDE DEF at
  <2>5. ASSUME NEW r \in Run, r.t = lane[l].t, r.pc = at
        PROVE  RunFile(r, doneBytes, sized', exists, content)
    BY <2>1, <2>2, <2>3, <2>4, <2>5 DEF RunFile
  <2> QED BY <1>c, <2>1, <2>2, <2>5
<1>8. ASSUME NEW l \in Lane, StreamFails(l) \/ Rename2Fails(l) PROVE WholeInv'
  <2>1. /\ lane[l].pc \in Awaits /\ Go(l, "cleanup") /\ active' = active /\ sized' = sized
        /\ UNCHANGED <<status, doneBytes, exists, content, up>>
        /\ "cleanup" \in Awaits /\ "cleanup" \notin Starting
    BY <1>8 DEF StreamFails, Rename2Fails, At, Awaits, Starting, queue, files
  <2>2. ASSUME NEW r \in Run, r.pc = "cleanup"
        PROVE  RunFile(r, doneBytes, sized', exists, content)
    BY <2>2 DEF RunFile, Starting
  <2> QED BY <1>c, <2>1, <2>2
<1>9. ASSUME NEW l \in Lane, RenameFails(l) PROVE WholeInv'
  <2> DEFINE at == IF Kind[lane[l].t] = "upload" THEN "unlink" ELSE "cleanup"
  <2>1. /\ lane[l].pc = "rename" /\ Go(l, at) /\ active' = active /\ sized' = sized
        /\ UNCHANGED <<status, doneBytes, exists, content, up>>
    BY <1>9 DEF RenameFails, At, queue, files
  <2>2. /\ lane[l].pc \in Awaits /\ at \in Awaits /\ at \notin Starting
        /\ at = "cleanup" \/ (at = "unlink" /\ Kind[lane[l].t] = "upload")
    BY <2>1 DEF Awaits, Starting
  <2>3. lane[l].t \in sized => Temp(lane[l].t) \in exists /\ content[Temp(lane[l].t)] = Whole
    BY <1>a, <2>1, <2>2 DEF RunFile
  <2> HIDE DEF at
  <2>4. ASSUME NEW r \in Run, r.t = lane[l].t, r.pc = at
        PROVE  RunFile(r, doneBytes, sized', exists, content)
    BY <2>1, <2>2, <2>3, <2>4 DEF RunFile
  <2> QED BY <1>c, <2>1, <2>2, <2>4
<1>10. ASSUME NEW l \in Lane, Open(l) PROVE WholeInv'
  <2> DEFINE t == lane[l].t
             r == [[lane[l] EXCEPT !.pc = "stream"] EXCEPT !.file = "temp"]
  <2>1. /\ lane[l].pc = "open"
        /\ lane' = [lane EXCEPT ![l].pc = "stream", ![l].file = "temp"]
        /\ exists' = exists \cup {Temp(t)} /\ content' = [content EXCEPT ![Temp(t)] = {}]
        /\ UNCHANGED <<doneBytes, sized, status, up>>
    BY <1>10 DEF Open, At, queue
  <2>2. /\ lane[l] \in Run /\ t \in Transfer /\ Temp(t) \in File /\ Dest(t) \in File
        /\ lane[l].pos = 0 /\ doneBytes[t] = 0
    BY <1>a, <2>1 DEF RunFile, Awaits, Starting
  <2>3. r \in Run /\ r.t = t /\ r.pc = "stream" /\ r.file = "temp" /\ r.pos = 0
    BY <2>2 DEF Run, Awaits
  <2>4. lane' = [lane EXCEPT ![l] = r]
    BY <1>0, <2>1
  <2> HIDE DEF r
  <2>5. lane'[l] = r /\ \A m \in Lane : m # l => lane'[m] = lane[m]
    BY <1>0, <2>4
  <2> HIDE DEF t
  <2>6. \A x \in Transfer : x # t =>
          /\ Temp(x) \in exists' <=> Temp(x) \in exists
          /\ content'[Temp(x)] = content[Temp(x)]
    BY <1>0, <2>1, <2>2, FilesDiffer, FilesOfTransfer DEF FileTypes
  <2>7. \A x \in Transfer :
          /\ Dest(x) \in exists' <=> Dest(x) \in exists
          /\ content'[Dest(x)] = content[Dest(x)]
    BY <1>0, <2>1, <2>2, FilesDiffer, FilesOfTransfer DEF FileTypes
  <2>8. Temp(t) \in exists' /\ content'[Temp(t)] = {} /\ 1..0 = {}
    BY <1>0, <2>1, <2>2 DEF FileTypes
  <2>9. RunFile(r, doneBytes', sized', exists', content')
    BY <2>1, <2>2, <2>3, <2>8 DEF RunFile, Starting
  <2>10. r.pc \notin Starting /\ sized' \in SUBSET Transfer
    BY <1>0, <2>1, <2>3 DEF Starting, RecordTypes
  <2>11. lane[l].t = t /\ lane'[l] \in Run /\ lane'[l].t = t /\ lane'[l].pc \notin Starting
         /\ RunFile(lane'[l], doneBytes', sized', exists', content')
    BY <2>3, <2>5, <2>9, <2>10 DEF t
  <2> QED BY <2>1, <2>2, <2>5, <2>6, <2>7, <2>10, <2>11, StepKeepsWhole
<1>11. ASSUME NEW l \in Lane, Copy(l) PROVE WholeInv'
  <2> DEFINE t == lane[l].t
             p == lane[l].pos + 1
             r == [lane[l] EXCEPT !.pos = p]
  <2>1. /\ lane[l].pc = "stream" /\ p <= Chunks
        /\ doneBytes' = [doneBytes EXCEPT ![t] = @ + 1]
        /\ lane' = [lane EXCEPT ![l].pos = p]
        /\ content' = IF lane[l].file = "lost" THEN content
                      ELSE [content EXCEPT ![<<t, lane[l].file>>] = @ \cup {p}]
        /\ UNCHANGED <<status, sized, exists, up>>
    BY <1>11 DEF Copy, At
  <2>2. /\ lane[l] \in Run /\ t \in Transfer /\ Temp(t) \in File /\ Dest(t) \in File
        /\ lane[l].pos = doneBytes[t] /\ lane[l].file = "temp" /\ Temp(t) \in exists
        /\ content[Temp(t)] = 1..lane[l].pos
    BY <1>a, <2>1 DEF RunFile, Awaits
  <2>3. lane[l].pos \in Nat /\ p \in 0..Chunks /\ (1..lane[l].pos) \cup {p} = 1..p
    <3>1. lane[l].pos \in 0..Chunks
      BY <2>2 DEF Run
    <3> QED BY <2>1, <3>1, TransferAssumption
  <2>4. r \in Run /\ r.t = t /\ r.pc = "stream" /\ r.file = "temp" /\ r.pos = p
    BY <2>1, <2>2, <2>3 DEF Run
  <2>5. lane' = [lane EXCEPT ![l] = r]
    BY <1>0, <2>1
  <2>6. content' = [content EXCEPT ![Temp(t)] = @ \cup {p}]
    BY <2>1, <2>2 DEF Temp
  <2>a. doneBytes'[t] = p /\ \A x \in Transfer : x # t => doneBytes'[x] = doneBytes[x]
    BY <1>0, <2>1, <2>2 DEF RecordTypes
  <2> HIDE DEF r, p
  <2>7. lane'[l] = r /\ \A m \in Lane : m # l => lane'[m] = lane[m]
    BY <1>0, <2>5
  <2> HIDE DEF t
  <2>8. \A x \in Transfer : x # t => content'[Temp(x)] = content[Temp(x)]
    BY <1>0, <2>2, <2>6, FilesDiffer, FilesOfTransfer DEF FileTypes
  <2>9. \A x \in Transfer : content'[Dest(x)] = content[Dest(x)]
    BY <1>0, <2>2, <2>6, FilesDiffer, FilesOfTransfer DEF FileTypes
  <2>10. content'[Temp(t)] = 1..p
    BY <1>0, <2>2, <2>3, <2>6 DEF FileTypes
  <2>11. RunFile(r, doneBytes', sized', exists', content')
    BY <2>1, <2>2, <2>4, <2>a, <2>10 DEF RunFile, Starting
  <2>12. r.pc \notin Starting /\ sized' \in SUBSET Transfer
    BY <1>0, <2>1, <2>4 DEF Starting, RecordTypes
  <2>13. lane[l].t = t /\ lane'[l] \in Run /\ lane'[l].t = t /\ lane'[l].pc \notin Starting
         /\ RunFile(lane'[l], doneBytes', sized', exists', content')
    BY <2>4, <2>7, <2>11, <2>12 DEF t
  <2> QED BY <2>1, <2>2, <2>7, <2>8, <2>9, <2>a, <2>12, <2>13, StepKeepsWhole
<1>12. ASSUME NEW l \in Lane, UnlinkDest(l) PROVE WholeInv'
  <2> DEFINE t  == lane[l].t
             ln == [lane EXCEPT ![l].pc = "rename2"]
  <2>1. /\ lane[l].pc = "unlink" /\ UNCHANGED <<doneBytes, sized, status, active, up>>
        /\ \/ /\ exists' = exists \ {Dest(t)} /\ content' = [content EXCEPT ![Dest(t)] = {}]
              /\ lane' = Moved(ln, t, [dest |-> "lost"])
           \/ Go(l, "rename2") /\ UNCHANGED files
    BY <1>12 DEF UnlinkDest, At, queue
  <2>2. /\ lane[l] \in Run /\ t \in Transfer /\ Temp(t) \in File /\ Dest(t) \in File
        /\ t \in sized => Temp(t) \in exists /\ content[Temp(t)] = Whole
        /\ Kind[t] = "upload" /\ lane[l].pc \in Awaits
    BY <1>a, <2>1 DEF RunFile, Awaits
  <2>3. ASSUME NEW r \in Run, r.t = t, r.pc = "rename2",
               Temp(t) \in exists' <=> Temp(t) \in exists, content'[Temp(t)] = content[Temp(t)],
               sized' = sized
        PROVE  RunFile(r, doneBytes', sized', exists', content')
    <3> HIDE DEF t
    <3> QED BY <2>2, <2>3 DEF RunFile, Starting
  <2>4. CASE Go(l, "rename2") /\ UNCHANGED files
    <3>1. UNCHANGED <<exists, content>> /\ "rename2" \in Awaits /\ "rename2" \notin Starting
      BY <2>4 DEF files, Awaits, Starting
    <3>2. ASSUME NEW r \in Run, r.t = lane[l].t, r.pc = "rename2"
          PROVE  RunFile(r, doneBytes, sized', exists, content)
      <4>1. RunFile(r, doneBytes', sized', exists', content')
        BY <2>1, <2>3, <3>1, <3>2
      <4> QED BY <2>1, <3>1, <4>1
    <3> QED BY <1>c, <2>1, <2>2, <2>4, <3>1, <3>2
  <2>5. CASE /\ exists' = exists \ {Dest(t)} /\ content' = [content EXCEPT ![Dest(t)] = {}]
             /\ lane' = Moved(ln, t, [dest |-> "lost"])
    <3>1. LanesCounted(ln, active) /\ ln[l] \in Run /\ ln[l].t = t /\ ln[l].pc = "rename2"
          /\ \A m \in Lane : m # l => ln[m] = lane[m]
      <4>1. Go(l, "rename2") <=> lane' = ln
        BY DEF Go
      <4>2. [lane[l] EXCEPT !.pc = "rename2"] \in Run
        BY <2>2 DEF Run, Awaits
      <4>3. ln = [lane EXCEPT ![l] = [lane[l] EXCEPT !.pc = "rename2"]]
        OBVIOUS
      <4>4. [lane[l] EXCEPT !.pc = "rename2"].t = t /\ [lane[l] EXCEPT !.pc = "rename2"].pc = "rename2"
        BY <2>2 DEF Run
      <4>5. /\ ln[l] \in Run /\ ln[l].t = t /\ ln[l].pc = "rename2"
            /\ \A m \in Lane : m # l => ln[m] = lane[m]
            /\ ln \in [Lane -> Run \cup {Free}]
        BY <1>0, <4>2, <4>3, <4>4
      <4>6. \A m \in Lane : ln[m] = Free <=> lane[m] = Free
        BY <2>2, <4>5, RunIsNotFree
      <4> HIDE DEF ln
      <4>7. LanesCounted(ln, active)
        BY <1>0, <4>5, <4>6, SameLanes
      <4> QED BY <4>5, <4>7
    <3>2. /\ DOMAIN [dest |-> "lost"] \subseteq {"temp", "dest"}
          /\ \A x \in DOMAIN [dest |-> "lost"] : [dest |-> "lost"][x] \in {"temp", "dest", "lost"}
      OBVIOUS
    <3>3. \A m \in Lane : m # l => lane[m].t # t
      BY <1>0, <2>2, RunIsNotFree DEF OneRun
    <3> HIDE DEF t, ln
    <3>4. \A m \in Lane :
            \/ lane'[m] = ln[m]
            \/ /\ ln[m] \in Run /\ lane'[m] \in Run /\ ln[m].t = t
               /\ lane'[m].pc = ln[m].pc /\ lane'[m].t = t
      BY <2>2, <2>5, <3>1, <3>2, MovedLanes
    <3>5. /\ lane'[l] \in Run /\ lane'[l].t = t /\ lane'[l].pc = "rename2"
          /\ \A m \in Lane : m # l => lane'[m] = lane[m]
      BY <3>1, <3>3, <3>4
    <3>6. \A x \in Transfer :
            /\ Temp(x) \in exists' <=> Temp(x) \in exists
            /\ content'[Temp(x)] = content[Temp(x)]
      BY <1>0, <2>2, <2>5, FilesDiffer, FilesOfTransfer DEF FileTypes
    <3>7. \A x \in Transfer : x # t =>
            /\ Dest(x) \in exists' <=> Dest(x) \in exists
            /\ content'[Dest(x)] = content[Dest(x)]
      BY <1>0, <2>2, <2>5, FilesDiffer, FilesOfTransfer DEF FileTypes
    <3>8. RunFile(lane'[l], doneBytes', sized', exists', content')
      BY <2>1, <2>2, <2>3, <3>5, <3>6
    <3>9. lane'[l].pc \notin Starting /\ sized' \in SUBSET Transfer
      BY <1>0, <2>1, <3>5 DEF Starting, RecordTypes
    <3>10. lane[l].t = t
      BY DEF t
    <3> QED BY <2>1, <2>2, <3>5, <3>6, <3>7, <3>8, <3>9, <3>10, StepKeepsWhole
  <2> QED BY <2>1, <2>4, <2>5
<1>13. ASSUME NEW l \in Lane, MkdirFails(l) PROVE WholeInv'
  <2>1. /\ lane[l].pc = "mkdir" /\ Settle(lane, l, "error")
        /\ UNCHANGED <<doneBytes, sized, up, exists, content>>
    BY <1>13 DEF MkdirFails, At, queue, files
  <2>2. lane[l] \in Run /\ lane[l].t \in Transfer /\ lane[l].pc \in Awaits \cap Starting
    BY <1>a, <2>1 DEF Awaits, Starting
  <2>3. \A m \in Lane : lane[m].t = lane[l].t => m = l
    BY <1>0, <2>2, RunIsNotFree DEF OneRun
  <2>4. Temp(lane[l].t) \in exists => SessionOf[lane[l].t] \notin up
    BY <1>0, <2>2, <2>3 DEF WholeFiles, PartHasRun
  <2> QED BY <1>0, <2>1, <2>2, <2>4, EndKeepsWhole
<1>14. ASSUME NEW l \in Lane, Rename(l) \/ Rename2(l) PROVE WholeInv'
  <2> DEFINE t  == lane[l].t
             ln == Moved(lane, t, [temp |-> "dest", dest |-> "lost"])
  <2>1. /\ exists' = (exists \ {Temp(t)}) \cup {Dest(t)}
        /\ content' = [content EXCEPT ![Dest(t)] = content[Temp(t)], ![Temp(t)] = {}]
        /\ Settle(ln, l, "done") /\ UNCHANGED <<doneBytes, sized, up>>
        /\ lane[l].pc \in {"rename", "rename2"} /\ lane[l].pc \in Awaits
    BY <1>14 DEF Rename, Rename2, Promote, At, Awaits, queue
  <2>2. /\ t \in Transfer /\ Temp(t) \in File /\ Dest(t) \in File /\ lane[l] \in Run
        /\ t \in sized => content[Temp(t)] = Whole
    BY <1>a, <2>1 DEF RunFile
  <2>3. /\ DOMAIN [temp |-> "dest", dest |-> "lost"] \subseteq {"temp", "dest"}
        /\ \A x \in DOMAIN [temp |-> "dest", dest |-> "lost"] :
             [temp |-> "dest", dest |-> "lost"][x] \in {"temp", "dest", "lost"}
    OBVIOUS
  <2>4. LanesCounted(ln, active)
        /\ \A m \in Lane : ln[m] = lane[m] \/ (ln[m] \in Run /\ lane[m].t = t /\ ln[m].t = t)
    BY <1>0, <2>2, <2>3, MovedLanes
  <2>5. \A m \in Lane : m # l => lane[m].t # t
    BY <1>0, <2>2, RunIsNotFree DEF OneRun
  <2>6. lane[l].t = t
    OBVIOUS
  <2> HIDE DEF t, ln
  <2>7. ln[l] \in Run /\ ln[l].t = t /\ \A m \in Lane : m # l => ln[m] = lane[m]
    BY <2>2, <2>4, <2>5, <2>6
  <2>8. \A x \in Transfer : x # t =>
          /\ Temp(x) \in exists' <=> Temp(x) \in exists
          /\ content'[Temp(x)] = content[Temp(x)]
          /\ Dest(x) \in exists' <=> Dest(x) \in exists
          /\ content'[Dest(x)] = content[Dest(x)]
    BY <1>0, <2>1, <2>2, FilesDiffer, FilesOfTransfer DEF FileTypes
  <2>9. Temp(t) \notin exists' /\ Dest(t) \in exists' /\ content'[Dest(t)] = content[Temp(t)]
    BY <1>0, <2>1, <2>2, FilesDiffer DEF FileTypes
  <2> QED BY <2>1, <2>2, <2>4, <2>6, <2>7, <2>8, <2>9, EndKeepsWhole
<1>15. ASSUME NEW l \in Lane, Cleanup(l) PROVE WholeInv'
  <2> DEFINE t  == lane[l].t
             ln == Moved(lane, t, [temp |-> "lost"])
  <2>1. /\ lane[l].pc \in Awaits /\ UNCHANGED <<doneBytes, sized, up>>
        /\ \/ /\ exists' = exists \ {Temp(t)} /\ content' = [content EXCEPT ![Temp(t)] = {}]
              /\ Settle(ln, l, "error")
           \/ UNCHANGED files /\ Settle(lane, l, "error") /\ ~Requests(t)
    BY <1>15 DEF Cleanup, At, Awaits, queue
  <2>2. t \in Transfer /\ Temp(t) \in File /\ Dest(t) \in File /\ lane[l] \in Run
    BY <1>a, <2>1
  <2>3. ~Requests(t) => SessionOf[t] \notin up
    BY DEF Requests, Answers
  <2>4. /\ DOMAIN [temp |-> "lost"] \subseteq {"temp", "dest"}
        /\ \A x \in DOMAIN [temp |-> "lost"] : [temp |-> "lost"][x] \in {"temp", "dest", "lost"}
    OBVIOUS
  <2>5. LanesCounted(ln, active)
        /\ \A m \in Lane : ln[m] = lane[m] \/ (ln[m] \in Run /\ lane[m].t = t /\ ln[m].t = t)
    BY <1>0, <2>2, <2>4, MovedLanes
  <2>6. \A m \in Lane : m # l => lane[m].t # t
    BY <1>0, <2>2, RunIsNotFree DEF OneRun
  <2>7. lane[l].t = t
    OBVIOUS
  <2> HIDE DEF t, ln
  <2>8. ln[l] \in Run /\ ln[l].t = t /\ \A m \in Lane : m # l => ln[m] = lane[m]
    BY <2>2, <2>5, <2>6, <2>7
  <2>9. CASE /\ exists' = exists \ {Temp(t)} /\ content' = [content EXCEPT ![Temp(t)] = {}]
             /\ Settle(ln, l, "error")
    <3>1. \A x \in Transfer : x # t =>
            /\ Temp(x) \in exists' <=> Temp(x) \in exists
            /\ content'[Temp(x)] = content[Temp(x)]
            /\ Dest(x) \in exists' <=> Dest(x) \in exists
            /\ content'[Dest(x)] = content[Dest(x)]
      BY <1>0, <2>2, <2>9, FilesDiffer, FilesOfTransfer DEF FileTypes
    <3>2. Temp(t) \notin exists'
      BY <2>9
    <3> QED BY <2>1, <2>2, <2>5, <2>7, <2>8, <2>9, <3>1, <3>2, EndKeepsWhole
  <2>10. CASE UNCHANGED files /\ Settle(lane, l, "error") /\ ~Requests(t)
    <3>1. UNCHANGED <<exists, content>>
      BY <2>10 DEF files
    <3> QED BY <1>0, <2>1, <2>2, <2>3, <2>7, <2>10, <3>1, EndKeepsWhole
  <2> QED BY <2>1, <2>9, <2>10
<1> QED
  BY <1>1, <1>2, <1>3, <1>4, <1>5, <1>6, <1>7, <1>8, <1>9, <1>10, <1>11, <1>12, <1>13,
     <1>14, <1>15
  DEF Next, Call, LaneStep

\* Of every step: what replaces a destination is whole, and it is removed for a whole one only.
LEMMA StepsReplaceWhole ==
  ASSUME QueueInv, WholeInv, ~RetryEarly, [Next]_vars
  PROVE  ReplacedByWhole /\ RemovedForWhole
<1>0. /\ RunFiles(lane, doneBytes, sized, exists, content)
      /\ WholeFiles(status, lane, sized, exists, content, up)
      /\ RecordTypes /\ FileTypes /\ lane \in [Lane -> Run \cup {Free}]
  BY DEF WholeInv, WholeOf, QueueInv, LanesCounted
<1>a. ASSUME NEW l \in Lane, lane[l].pc \in Awaits
      PROVE  /\ lane[l] \in Run /\ lane[l].t \in Transfer
             /\ RunFile(lane[l], doneBytes, sized, exists, content)
             /\ Temp(lane[l].t) \in File /\ Dest(lane[l].t) \in File
             /\ Kind[lane[l].t] = "upload" => lane[l].t \in sized
  <2>1. lane[l] \in Run
    BY <1>0, <1>a, WaitingIsRun
  <2>2. lane[l].t \in Transfer /\ lane[l] # Free
    BY <2>1, RunIsNotFree DEF Run
  <2> QED BY <1>0, <2>1, <2>2, FilesOfTransfer DEF RunFiles, WholeFiles
<1>b. sized \subseteq Transfer
  BY <1>0 DEF RecordTypes
<1>c. ASSUME \A x \in Transfer : /\ Dest(x) \in exists' <=> Dest(x) \in exists
                                /\ content'[Dest(x)] = content[Dest(x)]
      PROVE  ReplacedByWhole /\ RemovedForWhole
  BY <1>b, <1>c DEF ReplacedByWhole, RemovedForWhole
<1>1. CASE UNCHANGED <<exists, content>>
  BY <1>1, <1>c
<1>2. ASSUME NEW l \in Lane, Open(l) \/ Copy(l) \/ Cleanup(l)
      PROVE  ReplacedByWhole /\ RemovedForWhole
  <2> DEFINE t == lane[l].t
  <2>1. lane[l].pc \in Awaits
    BY <1>2 DEF Open, Copy, Cleanup, At, Awaits
  <2>2. /\ t \in Transfer /\ Temp(t) \in File
        /\ lane[l].pc = "stream" => lane[l].file = "temp"
    BY <1>a, <2>1 DEF RunFile
  <2>3. /\ exists' = exists \/ exists' = exists \cup {Temp(t)} \/ exists' = exists \ {Temp(t)}
        /\ content' = content \/ \E X : content' = [content EXCEPT ![Temp(t)] = X]
    <3>1. CASE Open(l)
      BY <3>1 DEF Open
    <3>2. CASE Copy(l)
      <4>1. lane[l].file = "temp" /\ exists' = exists
        BY <2>2, <3>2 DEF Copy, At
      <4>2. content' = [content EXCEPT ![Temp(t)] = content[Temp(t)] \cup {lane[l].pos + 1}]
        BY <3>2, <4>1 DEF Copy, Temp
      <4> QED BY <4>1, <4>2
    <3>3. CASE Cleanup(l)
      BY <3>3 DEF Cleanup, files
    <3> QED BY <1>2, <3>1, <3>2, <3>3
  <2> HIDE DEF t
  <2>4. \A x \in Transfer : Dest(x) \in exists' <=> Dest(x) \in exists
    BY <2>3, FilesDiffer
  <2>5. \A x \in Transfer : content'[Dest(x)] = content[Dest(x)]
    <3>1. CASE content' = content
      BY <3>1
    <3>2. ASSUME NEW X, content' = [content EXCEPT ![Temp(t)] = X]
          PROVE  \A x \in Transfer : content'[Dest(x)] = content[Dest(x)]
      BY <1>0, <3>2, FilesDiffer, FilesOfTransfer DEF FileTypes
    <3> QED BY <2>3, <3>1, <3>2
  <2> QED BY <1>c, <2>4, <2>5
<1>3. ASSUME NEW l \in Lane, Rename(l) \/ Rename2(l)
      PROVE  ReplacedByWhole /\ RemovedForWhole
  <2> DEFINE t == lane[l].t
  <2>1. /\ exists' = (exists \ {Temp(t)}) \cup {Dest(t)}
        /\ content' = [content EXCEPT ![Dest(t)] = content[Temp(t)], ![Temp(t)] = {}]
        /\ lane[l].pc \in {"rename", "rename2"} /\ lane[l].pc \in Awaits
    BY <1>3 DEF Rename, Rename2, Promote, At, Awaits
  <2>2. /\ t \in Transfer /\ Temp(t) \in File /\ Dest(t) \in File
        /\ t \in sized => content[Temp(t)] = Whole
    BY <1>a, <2>1 DEF RunFile
  <2> HIDE DEF t
  <2>3. \A x \in Transfer : Dest(x) \in exists => Dest(x) \in exists'
    BY <2>1, FilesDiffer
  <2>4. content'[Dest(t)] = content[Temp(t)]
    BY <1>0, <2>1, <2>2, FilesDiffer DEF FileTypes
  <2>5. \A x \in Transfer : x # t => content'[Dest(x)] = content[Dest(x)]
    BY <1>0, <2>1, <2>2, FilesDiffer, FilesOfTransfer DEF FileTypes
  <2>6. ReplacedByWhole
    BY <1>b, <2>2, <2>4, <2>5 DEF ReplacedByWhole
  <2> QED BY <2>3, <2>6 DEF RemovedForWhole
<1>4. ASSUME NEW l \in Lane, UnlinkDest(l)
      PROVE  ReplacedByWhole /\ RemovedForWhole
  <2> DEFINE t == lane[l].t
  <2>1. /\ lane[l].pc = "unlink" /\ lane[l].pc \in Awaits
        /\ \/ exists' = exists \ {Dest(t)} /\ content' = [content EXCEPT ![Dest(t)] = {}]
           \/ UNCHANGED <<exists, content>>
    BY <1>4 DEF UnlinkDest, At, Awaits, files
  <2>2. /\ t \in Transfer /\ Dest(t) \in File
        /\ Temp(t) \in exists /\ content[Temp(t)] = Whole
    BY <1>a, <2>1 DEF RunFile
  <2> HIDE DEF t
  <2>3. CASE exists' = exists \ {Dest(t)} /\ content' = [content EXCEPT ![Dest(t)] = {}]
    <3>1. \A x \in Transfer : x # t =>
            /\ Dest(x) \in exists' <=> Dest(x) \in exists
            /\ content'[Dest(x)] = content[Dest(x)]
      BY <1>0, <2>2, <2>3, FilesDiffer, FilesOfTransfer DEF FileTypes
    <3>2. ReplacedByWhole
      BY <1>b, <2>3, <3>1 DEF ReplacedByWhole
    <3>3. RemovedForWhole
      BY <2>2, <3>1 DEF RemovedForWhole
    <3> QED BY <3>2, <3>3
  <2> QED BY <1>1, <2>1, <2>3
<1>5. ASSUME NEW l \in Lane,
             \/ StatAnswered(l) \/ Mkdir(l) \/ MkdirFails(l) \/ StreamClosed(l) \/ StreamFails(l)
             \/ RenameFails(l) \/ Rename2Fails(l)
      PROVE  UNCHANGED <<exists, content>>
  BY <1>5 DEF StatAnswered, Mkdir, MkdirFails, StreamClosed, StreamFails, RenameFails,
              Rename2Fails, files
<1>6. CASE \/ \E t \in Transfer : Call(t)
           \/ BatchStart \/ BatchDone \/ BatchFails \/ Done \/ UNCHANGED vars
           \/ (\E s \in Session : SessionCloses(s)) \/ (\E S : CancelAndClose(S))
  <2>1. UNCHANGED <<exists, content>>
    BY <1>6 DEF Call, Enqueue, BatchEnqueue, Cancel, Retry, BatchStart, BatchDone, BatchFails,
                Done, vars, SessionCloses, CancelAndClose, files
  <2> QED BY <1>1, <2>1
<1> QED BY <1>1, <1>2, <1>3, <1>4, <1>5, <1>6 DEF Next, LaneStep

-----------------------------------------------------------------------------
(* The theorems about the queue                                             *)

LEMMA QueueStarts == Init => QueueInv
<1> SUFFICES ASSUME Init PROVE QueueInv
  OBVIOUS
<1>1. RecordTypes
  <2>1. <<>> \in Seq(Transfer)
    OBVIOUS
  <2> QED BY <2>1 DEF Init, RecordTypes, Status
<1>2. FileTypes
  BY TransferAssumption DEF Init, FileTypes, File, Dest, Old
<1>3. RestTypes
  <2>1. 0 \in 0..MaxRetries
    BY TransferAssumption
  <2>2. up = Session /\ walking = FALSE /\ retries = 0
    BY DEF Init
  <2>3. walking \in BOOLEAN
    BY <2>2
  <2> QED BY <2>1, <2>2, <2>3 DEF RestTypes
<1>4. LanesCounted(lane, active)
  <2>1. Busy(lane) = {} /\ active = 0 /\ lane \in [Lane -> Run \cup {Free}]
    BY DEF Init, Busy
  <2>2. Cardinality(Busy(lane)) = 0
    BY <2>1, FS_EmptySet
  <2> QED BY <2>1, <2>2, TransferAssumption DEF LanesCounted
<1> QED BY <1>1, <1>2, <1>3, <1>4 DEF QueueInv

LEMMA QueueStartsWhole == Init => WholeInv
<1> SUFFICES ASSUME Init PROVE WholeInv
  OBVIOUS
<1>1. /\ \A l \in Lane : lane[l] = Free
      /\ \A t \in Transfer : status[t] = "none" /\ doneBytes[t] = 0
      /\ \A t \in Transfer : Kind[t] = "upload" => t \in sized
      /\ exists = {Dest(t) : t \in Transfer}
  BY TransferAssumption DEF Init
<1>2. Free.t = None /\ None \notin Transfer
  BY TransferAssumption DEF Free
<1>3. OneRun(status, lane, doneBytes) /\ RunFiles(lane, doneBytes, sized, exists, content)
  BY <1>1, <1>2 DEF OneRun, RunFiles
<1>4. \A t \in Transfer : Temp(t) \notin exists
  BY <1>1, FilesDiffer
<1>5. WholeFiles(status, lane, sized, exists, content, up)
  BY <1>1, <1>4 DEF WholeFiles, PartHasRun, DoneWhole
<1> QED BY <1>3, <1>5 DEF WholeInv, WholeOf

\* In every queue, whatever is cancelled, retried (before its run has settled too) or torn down,
\* and however many slots there are: those in use are the runs that have not settled.
THEOREM SlotsHold == Spec => []QueueSlotsAccounted
<1>1. QueueInv => QueueSlotsAccounted
  BY QueueInvIs DEF QueueSlotsAccounted
<1> QED BY <1>1, QueueStarts, QueueInvNext, PTL DEF Spec

\* A step of all the parts is one of the queue of files, or of the edits, or leaves them as they are.
LEMMA StepsOfParts ==
  ASSUME [FilesStep \/ EarlyStep \/ EditsStep]_<<part, vars, edits>>
  PROVE  /\ part' = part
         /\ part = "files" => [Next]_vars
         /\ [Edits!Next]_edits
BY DEF FilesStep, EarlyStep, EditsStep, edits

\* Unless a cancelled transfer is retried before its run has settled: what is reported done
\* is there whole, and no settled run leaves its temp file.
THEOREM FilesStayWhole == ASSUME ~RetryEarly PROVE SftpSpec => []FilesAreWhole
<1> DEFINE I == part = "files" => QueueInv /\ WholeInv
<1>1. SftpInit => I
  BY QueueStarts, QueueStartsWhole DEF SftpInit
<1>2. I /\ [FilesStep \/ EarlyStep \/ EditsStep]_<<part, vars, edits>> => I'
  BY StepsOfParts, QueueInvNext, WholeInvNext
<1>3. I => FilesAreWhole
  <2> SUFFICES ASSUME QueueInv, WholeInv PROVE DoneIsWhole /\ NoPartLeft
    BY DEF FilesAreWhole
  <2>1. WholeFiles(status, lane, sized, exists, content, up) /\ sized \subseteq Transfer
    BY DEF WholeInv, WholeOf, QueueInv, RecordTypes
  <2>2. DoneIsWhole
    BY <2>1 DEF WholeFiles, DoneWhole, DoneIsWhole
  <2>3. NoPartLeft
    BY <2>1 DEF WholeFiles, PartHasRun, NoPartLeft, Answers, RunsOf
  <2> QED BY <2>2, <2>3
<1> QED BY <1>1, <1>2, <1>3, PTL DEF SftpSpec

\* And no step replaces a destination but by its whole new version, or removes it but for that.
THEOREM FilesReplaced == ASSUME ~RetryEarly PROVE SftpSpec => FilesReplacedWhole
<1> DEFINE I == part = "files" => QueueInv /\ WholeInv
<1>1. SftpInit => I
  BY QueueStarts, QueueStartsWhole DEF SftpInit
<1>2. I /\ [FilesStep \/ EarlyStep \/ EditsStep]_<<part, vars, edits>> => I'
  BY StepsOfParts, QueueInvNext, WholeInvNext
<1>3. I /\ [FilesStep \/ EarlyStep \/ EditsStep]_<<part, vars, edits>>
      => [part = "files" => ReplacedByWhole /\ RemovedForWhole]_vars
  BY StepsOfParts, StepsReplaceWhole
<1> QED BY <1>1, <1>2, <1>3, PTL DEF SftpSpec, FilesReplacedWhole

-----------------------------------------------------------------------------
(* The queue of uploads                                                     *)

Upload == [e : Edit, version : 0..MaxSaves \cup {None}]

\* What is left of the queue once its n-th upload ended.
LEMMA WithoutOne ==
  ASSUME NEW U, uploads \in Seq(U), NEW n \in DOMAIN uploads
  PROVE  /\ Edits!Without(n) \in Seq(U)
         /\ \A i \in DOMAIN Edits!Without(n) : \E j \in DOMAIN uploads :
              j # n /\ Edits!Without(n)[i] = uploads[j] /\ j = IF i < n THEN i ELSE i + 1
         /\ \A j \in DOMAIN uploads : j # n => \E i \in DOMAIN Edits!Without(n) :
              Edits!Without(n)[i] = uploads[j]
<1> DEFINE s == SubSeq(uploads, 1, n - 1)
           t == SubSeq(uploads, n + 1, Len(uploads))
<1>1. /\ Len(uploads) \in Nat /\ DOMAIN uploads = 1..Len(uploads) /\ n \in 1..Len(uploads)
      /\ \A i \in 1..Len(uploads) : uploads[i] \in U
  BY LenProperties, ElementOfSeq
<1>2. /\ s \in Seq(U) /\ Len(s) = n - 1
      /\ \A i \in 1..(n - 1) : s[i] = uploads[i]
  BY <1>1, SubSeqProperties
<1>3. /\ t \in Seq(U) /\ Len(t) = Len(uploads) - n
      /\ \A i \in 1..(Len(uploads) - n) : t[i] = uploads[n + i]
  BY <1>1, SubSeqProperties
<1>4. Edits!Without(n) = s \o t
  BY DEF Edits!Without
<1> HIDE DEF s, t
<1>a. /\ s \o t \in Seq(U) /\ Len(s \o t) = Len(s) + Len(t)
      /\ \A i \in 1..(Len(s) + Len(t)) :
           (s \o t)[i] = IF i <= Len(s) THEN s[i] ELSE t[i - Len(s)]
  BY <1>2, <1>3, ConcatProperties
<1>b. Len(s) + Len(t) = Len(uploads) - 1
  BY <1>1, <1>2, <1>3
<1>5. /\ s \o t \in Seq(U) /\ Len(s \o t) = Len(uploads) - 1
      /\ \A i \in 1..(Len(uploads) - 1) :
           (s \o t)[i] = IF i <= Len(s) THEN s[i] ELSE t[i - Len(s)]
  BY <1>a, <1>b
<1>6. DOMAIN (s \o t) = 1..(Len(uploads) - 1)
  BY <1>5, LenProperties
<1>7. ASSUME NEW i \in 1..(Len(uploads) - 1)
      PROVE  (s \o t)[i] = uploads[IF i < n THEN i ELSE i + 1]
  <2>1. CASE i < n
    BY <1>1, <1>2, <1>5, <2>1
  <2>2. CASE ~(i < n)
    <3>1. /\ (s \o t)[i] = t[i - (n - 1)] /\ i - (n - 1) \in 1..(Len(uploads) - n)
          /\ n + (i - (n - 1)) = i + 1
      BY <1>1, <1>2, <1>5, <2>2
    <3> QED BY <1>3, <2>2, <3>1
  <2> QED BY <2>1, <2>2
<1>8. ASSUME NEW i \in 1..(Len(uploads) - 1)
      PROVE \E j \in 1..Len(uploads) :
              j # n /\ (s \o t)[i] = uploads[j] /\ j = IF i < n THEN i ELSE i + 1
  <2> DEFINE j == IF i < n THEN i ELSE i + 1
  <2>1. j \in 1..Len(uploads) /\ j # n
    BY <1>1
  <2>2. (s \o t)[i] = uploads[j]
    BY <1>7
  <2> QED BY <2>1, <2>2
<1>9. ASSUME NEW j \in 1..Len(uploads), j # n
      PROVE \E i \in 1..(Len(uploads) - 1) : (s \o t)[i] = uploads[j]
  <2>1. CASE j < n
    <3>1. j \in 1..(Len(uploads) - 1)
      BY <1>1, <2>1
    <3> QED BY <1>7, <2>1, <3>1
  <2>2. CASE j > n
    <3>1. j - 1 \in 1..(Len(uploads) - 1) /\ ~(j - 1 < n) /\ (j - 1) + 1 = j
      BY <1>1, <2>2
    <3>2. (s \o t)[j - 1] = uploads[j]
      BY <1>7, <3>1
    <3> QED BY <3>1, <3>2
  <2>3. j < n \/ j > n
    BY <1>1, <1>9
  <2> QED BY <2>1, <2>2, <2>3
<1> QED BY <1>1, <1>4, <1>5, <1>6, <1>8, <1>9

-----------------------------------------------------------------------------
(* Types                                                                    *)

\* Every step keeps the types of the sessions, the edits and the queue.
LEMMA EditTypesNext == Edits!TypeOK /\ [Edits!Next]_edits => Edits!TypeOK'
<1> SUFFICES ASSUME Edits!TypeOK, [Edits!Next]_edits PROVE Edits!TypeOK'
  OBVIOUS
<1> USE DEF Edits!TypeOK, Edits!Opening, Edits!EditOpening
<1>1. ASSUME NEW s \in Sess, NEW br \in BOOLEAN, Edits!open(s, br) PROVE Edits!TypeOK'
  BY <1>1 DEF Edits!open, Edits!Goto, Edits!edit, Edits!transfer
<1>2. ASSUME NEW s \in Sess, Edits!Connected(s) PROVE Edits!TypeOK'
  BY <1>2 DEF Edits!Connected, Edits!Goto, Edits!edit, Edits!transfer
<1>3. ASSUME NEW s \in Sess, Edits!ChannelOpened(s) PROVE Edits!TypeOK'
  BY <1>3 DEF Edits!ChannelOpened, Edits!Goto, Edits!edit, Edits!transfer
<1>4. ASSUME NEW s \in Sess, Edits!Resolved(s) PROVE Edits!TypeOK'
  BY <1>4 DEF Edits!Resolved, Edits!Goto, Edits!edit, Edits!transfer
<1>5. ASSUME NEW S, Edits!Disconnect(S)
      PROVE  ded' \in SUBSET Sess /\ released' \in [Sess -> Nat]
  BY <1>5 DEF Edits!Disconnect
<1>6. ASSUME NEW s \in Sess, Edits!OpenFails(s) PROVE Edits!TypeOK'
  BY <1>5, <1>6 DEF Edits!OpenFails, Edits!Goto, Edits!edit, Edits!transfer
<1>7. ASSUME NEW s \in Sess, Edits!ChannelCloses(s) PROVE Edits!TypeOK'
  BY <1>5, <1>7 DEF Edits!ChannelCloses, Edits!Goto, Edits!edit, Edits!transfer
<1>8. ASSUME NEW E, Edits!Teardown(E)
      PROVE  /\ epc' \in [Edit -> Edits!EditOpening \cup {"idle", "watch", "over"}]
             /\ watches' \in [Sess -> Edit \cup {None}]
             /\ dirs' \in SUBSET Edit /\ debounce' \in SUBSET Edit
  BY <1>8 DEF Edits!Teardown
<1>9. ASSUME NEW S, Edits!CloseSessions(S)
      PROVE  /\ pc' \in [Sess -> Edits!Opening \cup {"none", "open", "gone"}]
             /\ chan' \in SUBSET Sess /\ ded' \in SUBSET Sess /\ released' \in [Sess -> Nat]
  BY <1>5, <1>9 DEF Edits!CloseSessions
<1>10. ASSUME NEW s \in Sess, Edits!sftpClose(s) PROVE Edits!TypeOK'
  BY <1>8, <1>9, <1>10 DEF Edits!sftpClose, Edits!transfer
<1>11. ASSUME NEW e \in Edit, NEW s \in Sess, Edits!editOpen(e, s) PROVE Edits!TypeOK'
  BY <1>11 DEF Edits!editOpen, Edits!EGoto, Edits!session, Edits!transfer
<1>12. ASSUME NEW e \in Edit, Edits!MadeDir(e) PROVE Edits!TypeOK'
  BY <1>12 DEF Edits!MadeDir, Edits!EGoto, Edits!session, Edits!transfer
<1>13. ASSUME NEW e \in Edit, Edits!Downloaded(e) PROVE Edits!TypeOK'
  BY <1>13 DEF Edits!Downloaded, Edits!EGoto, Edits!session, Edits!transfer
<1>14. ASSUME NEW e \in Edit, Edits!EditFails(e) PROVE Edits!TypeOK'
  BY <1>14 DEF Edits!EditFails, Edits!EGoto, Edits!session, Edits!transfer
<1>15. ASSUME NEW e \in Edit, Edits!EditorOpened(e) PROVE Edits!TypeOK'
  BY <1>15 DEF Edits!EditorOpened, Edits!EGoto, Edits!session, Edits!transfer
<1>16. ASSUME NEW e \in Edit, Edits!Save(e) PROVE Edits!TypeOK'
  <2>1. saves' \in 0..MaxSaves
    BY <1>16, EditAssumption DEF Edits!Save
  <2> QED BY <1>16, <2>1 DEF Edits!Save, Edits!session, Edits!transfer
<1>17. ASSUME NEW e \in Edit, Edits!SaveQueued(e) PROVE Edits!TypeOK'
  <2>1. uploads' \in Seq(Upload)
    <3> DEFINE u == [e |-> e, version |-> None]
    <3>1. u \in Upload
      BY DEF Upload
    <3>2. uploads \in Seq(Upload)
      BY DEF Upload
    <3>3. uploads' = Append(uploads, u) \/ uploads' = uploads
      BY <1>17 DEF Edits!SaveQueued
    <3> HIDE DEF u
    <3>4. Append(uploads, u) \in Seq(Upload)
      BY <3>1, <3>2, AppendProperties
    <3> QED BY <3>2, <3>3, <3>4
  <2> QED BY <1>8, <1>17, <2>1 DEF Edits!SaveQueued, Edits!session, Upload
<1>18. ASSUME NEW n \in DOMAIN uploads, Edits!UploadStarts(n) PROVE Edits!TypeOK'
  <2>1. n \in 1..Len(uploads) /\ uploads[n] \in Upload /\ uploads \in Seq(Upload)
    BY LenProperties, ElementOfSeq DEF Upload
  <2>2. [uploads[n] EXCEPT !.version = local[uploads[n].e]] \in Upload
    BY <2>1 DEF Upload
  <2>3. uploads' = [uploads EXCEPT ![n] = [uploads[n] EXCEPT !.version = local[uploads[n].e]]]
    BY <1>18 DEF Edits!UploadStarts
  <2>4. uploads' \in Seq(Upload)
    BY <2>1, <2>2, <2>3, ExceptSeq
  <2> QED BY <1>18, <2>4 DEF Edits!UploadStarts, Edits!session, Edits!edit, Upload
<1>19. ASSUME NEW n \in DOMAIN uploads, Edits!UploadEnds(n) PROVE Edits!TypeOK'
  <2>1. n \in 1..Len(uploads) /\ uploads[n] \in Upload /\ uploads \in Seq(Upload)
    BY LenProperties, ElementOfSeq DEF Upload
  <2>2. uploads' \in Seq(Upload)
    BY <1>19, <2>1, WithoutOne DEF Edits!UploadEnds
  <2>3. uploads[n].version \in 0..MaxSaves
    BY <1>19, <2>1 DEF Edits!UploadEnds, Edits!Streams, Upload
  <2> QED BY <1>19, <2>2, <2>3 DEF Edits!UploadEnds, Edits!session, Upload
<1>20. ASSUME NEW n \in DOMAIN uploads, Edits!UploadFails(n) PROVE Edits!TypeOK'
  <2>1. n \in 1..Len(uploads) /\ uploads[n] \in Upload /\ uploads \in Seq(Upload)
    BY LenProperties, ElementOfSeq DEF Upload
  <2>2. uploads' \in Seq(Upload)
    BY <1>20, <2>1, WithoutOne DEF Edits!UploadFails
  <2>3. uploads[n].e \in Edit
    BY <2>1 DEF Upload
  <2> QED BY <1>20, <2>2, <2>3 DEF Edits!UploadFails, Edits!session, Upload
<1>21. ASSUME Edits!OwnerDestroyed PROVE Edits!TypeOK'
  BY <1>8, <1>9, <1>21 DEF Edits!OwnerDestroyed
<1>22. ASSUME NEW E, Edits!Process(E) PROVE Edits!TypeOK'
  BY <1>22 DEF Edits!Process, Edits!Ended
<1>23. ASSUME Edits!Start PROVE Edits!TypeOK'
  BY <1>23 DEF Edits!Start, Edits!session, Edits!edit, Edits!transfer
<1>24. ASSUME Edits!sweepOrphanedEditDirs PROVE Edits!TypeOK'
  BY <1>24 DEF Edits!sweepOrphanedEditDirs, Edits!session, Edits!transfer
<1>25. CASE UNCHANGED edits
  BY <1>25 DEF edits
<1> QED
  BY <1>1, <1>2, <1>3, <1>4, <1>6, <1>7, <1>10, <1>11, <1>12, <1>13, <1>14, <1>15, <1>16,
     <1>17, <1>18, <1>19, <1>20, <1>21, <1>22, <1>23, <1>24, <1>25
  DEF Edits!Next, Edits!Quit, Edits!Crash

-----------------------------------------------------------------------------
(* What an SFTP session opens                                               *)

\* A connection of its own that a session holds was never disconnected, and a
\* session has none before it connects.
OwnInv ==
  /\ Edits!OwnConnectionEndsOnce
  /\ \A s \in Sess : s \in ded \/ pc[s] \in {"none", "connect"} => released[s] = 0
  /\ \A s \in Sess : pc[s] \in {"none", "connect"} => s \notin ded

\* The sessions of S end, their connections with them.
LEMMA DisconnectKeepsOwn ==
  ASSUME Edits!TypeOK, OwnInv, NEW S, Edits!Disconnect(S),
         \A s \in Sess : pc'[s] = pc[s] \/ pc'[s] \in {"gone"},
         \A s \in Sess : s \notin S /\ pc'[s] # pc[s] => s \notin ded
  PROVE  OwnInv'
<1> SUFFICES ASSUME NEW s \in Sess
             PROVE  /\ released'[s] <= 1
                    /\ s \in ded' => pc'[s] \in Edits!Opening \cup {"open"}
                    /\ s \in ded' \/ pc'[s] \in {"none", "connect"} => released'[s] = 0
                    /\ pc'[s] \in {"none", "connect"} => s \notin ded'
  BY DEF OwnInv, Edits!OwnConnectionEndsOnce, Edits!TypeOK, Edits!Disconnect
<1>1. /\ released[s] \in Nat /\ released[s] <= 1
      /\ s \in ded => pc[s] \in Edits!Opening \cup {"open"}
      /\ s \in ded \/ pc[s] \in {"none", "connect"} => released[s] = 0
      /\ pc[s] \in {"none", "connect"} => s \notin ded
  BY DEF OwnInv, Edits!OwnConnectionEndsOnce, Edits!TypeOK
<1>2. released'[s] = IF s \in S \cap ded THEN released[s] + 1 ELSE released[s]
  BY DEF Edits!Disconnect
<1>3. s \in ded' <=> s \in ded /\ s \notin S
  BY DEF Edits!Disconnect
<1> QED BY <1>1, <1>2, <1>3

LEMMA OwnInvNext == Edits!TypeOK /\ OwnInv /\ [Edits!Next]_edits => OwnInv'
<1> SUFFICES ASSUME Edits!TypeOK, OwnInv, [Edits!Next]_edits PROVE OwnInv'
  OBVIOUS
<1> USE DEF Edits!Opening
<1>1. ASSUME NEW s \in Sess, NEW l \in Edits!Opening \cup {"open"}, NEW D \in SUBSET {s},
             pc[s] \in Edits!Opening \cup {"none"}, pc' = [pc EXCEPT ![s] = l],
             ded' = ded \cup D, released' = released,
             pc[s] = "connect" \/ D = {},
             l # "connect" \/ pc[s] = "none"
      PROVE  OwnInv'
  BY <1>1 DEF OwnInv, Edits!OwnConnectionEndsOnce, Edits!TypeOK
<1>2. ASSUME NEW s \in Sess, NEW br \in BOOLEAN, Edits!open(s, br) PROVE OwnInv'
  <2>1. ded' = ded \cup {} /\ {} \in SUBSET {s} /\ released' = released /\ pc[s] = "none"
        /\ \E l \in {"channel", "connect"} : pc' = [pc EXCEPT ![s] = l]
    BY <1>2 DEF Edits!open, Edits!Goto
  <2> QED BY <1>1, <2>1
<1>3. ASSUME NEW s \in Sess, Edits!Connected(s) PROVE OwnInv'
  <2>1. ded' = ded \cup {s} /\ {s} \in SUBSET {s} /\ released' = released /\ pc[s] = "connect"
        /\ pc' = [pc EXCEPT ![s] = "channel"]
    BY <1>3 DEF Edits!Connected, Edits!Goto
  <2> QED BY <1>1, <2>1
<1>4. ASSUME NEW s \in Sess, Edits!ChannelOpened(s) PROVE OwnInv'
  <2>1. ded' = ded \cup {} /\ {} \in SUBSET {s} /\ released' = released /\ pc[s] = "channel"
        /\ pc' = [pc EXCEPT ![s] = "home"]
    BY <1>4 DEF Edits!ChannelOpened, Edits!Goto
  <2> QED BY <1>1, <2>1
<1>5. ASSUME NEW s \in Sess, Edits!Resolved(s) PROVE OwnInv'
  <2>1. ded' = ded \cup {} /\ {} \in SUBSET {s} /\ released' = released
        /\ pc[s] \in {"home", "default"}
        /\ \E l \in {"default", "open"} : pc' = [pc EXCEPT ![s] = l]
    BY <1>5 DEF Edits!Resolved, Edits!Goto
  <2> QED BY <1>1, <2>1
<1>6. ASSUME NEW s \in Sess, Edits!OpenFails(s) PROVE OwnInv'
  BY <1>6, DisconnectKeepsOwn DEF Edits!OpenFails, Edits!Goto, Edits!TypeOK
<1>7. ASSUME NEW s \in Sess, Edits!ChannelCloses(s) PROVE OwnInv'
  <2>1. CASE pc[s] = "open"
    BY <1>7, <2>1, DisconnectKeepsOwn DEF Edits!ChannelCloses, Edits!Goto, Edits!TypeOK
  <2>2. CASE pc[s] # "open"
    BY <1>7, <2>2 DEF Edits!ChannelCloses, OwnInv, Edits!OwnConnectionEndsOnce
  <2> QED BY <2>1, <2>2
<1>8. ASSUME NEW S, Edits!CloseSessions(S) PROVE OwnInv'
  BY <1>8, DisconnectKeepsOwn DEF Edits!CloseSessions
<1>9. ASSUME NEW E, Edits!Process(E) PROVE OwnInv'
  BY <1>9 DEF Edits!Process, OwnInv, Edits!OwnConnectionEndsOnce, Edits!TypeOK
<1>10. CASE UNCHANGED <<pc, ded, released>>
  BY <1>10 DEF OwnInv, Edits!OwnConnectionEndsOnce
<1>11. ASSUME NEW e \in Edit,
              \/ \E s \in Sess : Edits!editOpen(e, s)
              \/ Edits!MadeDir(e) \/ Edits!Downloaded(e) \/ Edits!EditFails(e)
              \/ Edits!EditorOpened(e) \/ Edits!Save(e) \/ Edits!SaveQueued(e)
       PROVE  UNCHANGED <<pc, ded, released>>
  BY <1>11 DEF Edits!editOpen, Edits!MadeDir, Edits!Downloaded, Edits!EditFails,
               Edits!EditorOpened, Edits!Save, Edits!SaveQueued, Edits!session
<1>12. ASSUME NEW n, Edits!UploadStarts(n) \/ Edits!UploadEnds(n) \/ Edits!UploadFails(n)
       PROVE  UNCHANGED <<pc, ded, released>>
  BY <1>12 DEF Edits!UploadStarts, Edits!UploadEnds, Edits!UploadFails, Edits!session
<1>13. Edits!Start \/ Edits!sweepOrphanedEditDirs \/ UNCHANGED edits => UNCHANGED <<pc, ded, released>>
  BY DEF Edits!Start, Edits!sweepOrphanedEditDirs, Edits!session, edits
<1> QED
  BY <1>2, <1>3, <1>4, <1>5, <1>6, <1>7, <1>8, <1>9, <1>10, <1>11, <1>12, <1>13
  DEF Edits!Next, Edits!sftpClose, Edits!OwnerDestroyed, Edits!Quit, Edits!Crash

-----------------------------------------------------------------------------
(* Where the edits are                                                      *)

\* An edit under way is of a session that was once open; one at a time opens on a session,
\* and while it does the session has no entry in the watches; the entry of a session is the
\* edit of it that is watched.
EditsInv ==
  /\ \A e \in Edit : epc[e] # "idle" => of[e] \in Sess /\ pc[of[e]] \in {"open", "gone"}
  /\ \A e \in Edit : epc[e] \in Edits!EditOpening =>
       /\ watches[of[e]] = None
       /\ \A x \in Edit : of[x] = of[e] /\ epc[x] \in Edits!EditOpening => x = e
  /\ \A e \in Edit : epc[e] = "watch" => watches[of[e]] = e
  /\ \A s \in Sess : watches[s] # None =>
       of[watches[s]] = s /\ epc[watches[s]] = "watch"
  /\ debounce \subseteq {e \in Edit : epc[e] = "watch"}
  /\ Edits!CopiesAreReachable

\* The sessions go on, or end; the edits stay.
LEMMA SessionsKeepEdits ==
  ASSUME EditsInv,
         \A s \in Sess : pc'[s] = pc[s] \/ pc[s] \notin {"open", "gone"} \/ pc'[s] = "gone",
         UNCHANGED <<epc, of, watches, dirs, debounce, toSweep, app>>
  PROVE  EditsInv'
BY DEF EditsInv, Edits!CopiesAreReachable

\* Edits that are watched are torn down, their sessions with them or not.
LEMMA TeardownKeepsEdits ==
  ASSUME Edits!TypeOK, EditsInv, NEW E \in SUBSET {e \in Edit : epc[e] = "watch"},
         Edits!Teardown(E), UNCHANGED <<of, toSweep, app>>,
         \A s \in Sess : pc'[s] = pc[s] \/ pc'[s] = "gone"
  PROVE  EditsInv'
<1>1. \A e \in Edit : epc'[e] = IF e \in E THEN "over" ELSE epc[e]
  BY DEF Edits!Teardown
<1>2. \A s \in Sess : watches'[s] = IF \E e \in E : of[e] = s THEN None ELSE watches[s]
  BY DEF Edits!Teardown
<1>3. debounce' = debounce \ E /\ dirs' = dirs \ E
  BY DEF Edits!Teardown
<1>4. \A e \in E : watches[of[e]] = e /\ of[e] \in Sess
  BY DEF EditsInv
<1>5. \A e \in Edit : epc[e] # "idle" => of[e] \in Sess /\ pc[of[e]] \in {"open", "gone"}
  BY DEF EditsInv
<1>6. \A e \in Edit : epc'[e] # "idle" => of'[e] \in Sess /\ pc'[of'[e]] \in {"open", "gone"}
  BY <1>1, <1>4, <1>5
<1>7. \A e \in Edit : epc'[e] \in Edits!EditOpening =>
        /\ watches'[of'[e]] = None
        /\ \A x \in Edit : of'[x] = of'[e] /\ epc'[x] \in Edits!EditOpening => x = e
  <2>1. \A e \in Edit : epc'[e] \in Edits!EditOpening => epc[e] \in Edits!EditOpening
    BY <1>1 DEF Edits!EditOpening
  <2>2. \A e \in Edit : epc[e] \in Edits!EditOpening => of[e] \in Sess
    BY <1>5 DEF Edits!EditOpening
  <2> QED BY <1>2, <2>1, <2>2 DEF EditsInv
<1>8. \A e \in Edit : epc'[e] = "watch" => watches'[of'[e]] = e
  <2> SUFFICES ASSUME NEW e \in Edit, epc'[e] = "watch" PROVE watches'[of'[e]] = e
    OBVIOUS
  <2>1. epc[e] = "watch" /\ e \notin E
    BY <1>1
  <2>2. of[e] \in Sess /\ watches[of[e]] = e
    BY <1>5, <2>1 DEF EditsInv
  <2> QED BY <1>2, <1>4, <2>1, <2>2
<1>9. \A s \in Sess : watches'[s] # None => of'[watches'[s]] = s /\ epc'[watches'[s]] = "watch"
  <2> SUFFICES ASSUME NEW s \in Sess, watches'[s] # None
               PROVE  of[watches'[s]] = s /\ epc'[watches'[s]] = "watch"
    OBVIOUS
  <2>1. watches'[s] = watches[s] /\ \A e \in E : of[e] # s
    BY <1>2
  <2>2. watches[s] \in Edit /\ of[watches[s]] = s /\ epc[watches[s]] = "watch"
    BY <2>1 DEF EditsInv, Edits!TypeOK
  <2> QED BY <1>1, <2>1, <2>2
<1>10. debounce' \subseteq {e \in Edit : epc'[e] = "watch"}
  BY <1>1, <1>3 DEF EditsInv
<1>11. Edits!CopiesAreReachable'
  <2> SUFFICES ASSUME NEW e \in dirs'
               PROVE  \/ app = "off" \/ e \in toSweep
                      \/ epc'[e] \in Edits!EditOpening
                      \/ epc'[e] = "watch" /\ watches'[of'[e]] = e
    BY DEF Edits!CopiesAreReachable
  <2>1. e \in dirs /\ e \in Edit /\ epc'[e] = epc[e]
    BY <1>1, <1>3 DEF Edits!TypeOK
  <2> QED BY <1>8, <2>1 DEF EditsInv, Edits!CopiesAreReachable
<1> QED BY <1>6, <1>7, <1>8, <1>9, <1>10, <1>11 DEF EditsInv

LEMMA EditsInvNext == Edits!TypeOK /\ EditsInv /\ [Edits!Next]_edits => EditsInv'
<1> SUFFICES ASSUME Edits!TypeOK, EditsInv, [Edits!Next]_edits PROVE EditsInv'
  OBVIOUS
<1>1. ASSUME NEW s \in Sess,
             \/ \E br \in BOOLEAN : Edits!open(s, br)
             \/ Edits!Connected(s) \/ Edits!ChannelOpened(s) \/ Edits!Resolved(s)
             \/ Edits!OpenFails(s) \/ Edits!ChannelCloses(s)
      PROVE  EditsInv'
  <2>1. UNCHANGED <<epc, of, watches, dirs, debounce, toSweep, app>>
    BY <1>1 DEF Edits!open, Edits!Connected, Edits!ChannelOpened, Edits!Resolved,
                Edits!OpenFails, Edits!ChannelCloses, Edits!edit
  <2>2. \/ pc' = pc
        \/ \E l : pc' = [pc EXCEPT ![s] = l] /\ (l = "gone" \/ pc[s] \notin {"open", "gone"})
    BY <1>1 DEF Edits!open, Edits!Connected, Edits!ChannelOpened, Edits!Resolved,
                Edits!OpenFails, Edits!ChannelCloses, Edits!Goto, Edits!Opening
  <2>3. \A r \in Sess : pc'[r] = pc[r] \/ pc[r] \notin {"open", "gone"} \/ pc'[r] = "gone"
    BY <2>2 DEF Edits!TypeOK
  <2> QED BY <2>1, <2>3, SessionsKeepEdits
<1>2. ASSUME NEW S, Edits!CloseSessions(S)
      PROVE  \A s \in Sess : pc'[s] = pc[s] \/ pc'[s] = "gone"
  BY <1>2 DEF Edits!CloseSessions
<1>3. ASSUME NEW S \in SUBSET Sess
      PROVE  Edits!Watched(S) \in SUBSET {e \in Edit : epc[e] = "watch"}
  BY DEF Edits!Watched, EditsInv, Edits!TypeOK
<1>4. ASSUME NEW s \in Sess, Edits!sftpClose(s) PROVE EditsInv'
  <2>1. Edits!Watched({s}) \in SUBSET {e \in Edit : epc[e] = "watch"}
    BY <1>3
  <2> QED BY <1>2, <1>4, <2>1, TeardownKeepsEdits DEF Edits!sftpClose
<1>5. ASSUME Edits!OwnerDestroyed PROVE EditsInv'
  <2>1. Edits!Watched(Sess) \in SUBSET {e \in Edit : epc[e] = "watch"}
    BY <1>3
  <2> QED BY <1>2, <1>5, <2>1, TeardownKeepsEdits DEF Edits!OwnerDestroyed
<1>6. ASSUME NEW e \in Edit, Edits!SaveQueued(e) PROVE EditsInv'
  <2>1. CASE of[e] \in Edits!Known
    <3>1. debounce' \subseteq debounce
          /\ UNCHANGED <<epc, of, watches, dirs, toSweep, app, pc>>
      BY <1>6, <2>1 DEF Edits!SaveQueued, Edits!session
    <3> QED BY <3>1 DEF EditsInv, Edits!CopiesAreReachable
  <2>2. CASE of[e] \notin Edits!Known
    <3>1. {e} \in SUBSET {x \in Edit : epc[x] = "watch"} /\ Edits!Teardown({e})
          /\ UNCHANGED <<of, toSweep, app, pc>>
      BY <1>6, <2>2 DEF Edits!SaveQueued, Edits!session, EditsInv
    <3> QED BY <3>1, TeardownKeepsEdits
  <2> QED BY <2>1, <2>2
<1>7. ASSUME NEW e \in Edit, NEW s \in Sess, Edits!editOpen(e, s) PROVE EditsInv'
  <2>1. /\ epc[e] = "idle" /\ pc[s] = "open" /\ watches[s] = None
        /\ \A x \in Edit : of[x] = s => epc[x] \notin Edits!EditOpening
        /\ epc' = [epc EXCEPT ![e] = "dir"] /\ of' = [of EXCEPT ![e] = s]
        /\ UNCHANGED <<watches, dirs, debounce, toSweep, app, pc>>
    BY <1>7 DEF Edits!editOpen, Edits!EGoto, Edits!Known, Edits!session
  <2> QED BY <2>1 DEF EditsInv, Edits!CopiesAreReachable, Edits!TypeOK, Edits!EditOpening
<1>8. ASSUME NEW e \in Edit, NEW l \in Edits!EditOpening, epc[e] \in Edits!EditOpening,
             epc' = [epc EXCEPT ![e] = l], NEW D \in SUBSET {e}, dirs' = dirs \cup D,
             UNCHANGED <<of, watches, debounce, toSweep, app, pc>>
      PROVE  EditsInv'
  BY <1>8 DEF EditsInv, Edits!CopiesAreReachable, Edits!TypeOK, Edits!EditOpening
<1>9. ASSUME NEW e \in Edit, Edits!MadeDir(e) PROVE EditsInv'
  BY <1>8, <1>9 DEF Edits!MadeDir, Edits!EGoto, Edits!session, Edits!EditOpening
<1>10. ASSUME NEW e \in Edit, Edits!Downloaded(e) PROVE EditsInv'
  <2>1. dirs' = dirs \cup {} /\ {} \in SUBSET {e}
    BY <1>10 DEF Edits!Downloaded
  <2> QED BY <1>8, <1>10, <2>1 DEF Edits!Downloaded, Edits!EGoto, Edits!session, Edits!EditOpening
<1>11. ASSUME NEW e \in Edit, Edits!EditFails(e) PROVE EditsInv'
  <2>1. /\ epc[e] \in Edits!EditOpening
        /\ epc' = [epc EXCEPT ![e] = "over"] /\ dirs' = dirs \ {e}
        /\ UNCHANGED <<of, watches, debounce, toSweep, app, pc>>
    BY <1>11 DEF Edits!EditFails, Edits!EGoto, Edits!session, Edits!EditOpening
  <2> QED BY <2>1 DEF EditsInv, Edits!CopiesAreReachable, Edits!TypeOK, Edits!EditOpening
<1>12. ASSUME NEW e \in Edit, Edits!EditorOpened(e) PROVE EditsInv'
  <2>1. /\ epc[e] = "editor"
        /\ epc' = [epc EXCEPT ![e] = "watch"] /\ watches' = [watches EXCEPT ![of[e]] = e]
        /\ UNCHANGED <<of, dirs, debounce, toSweep, app, pc>>
    BY <1>12 DEF Edits!EditorOpened, Edits!EGoto, Edits!session
  <2>2. /\ of[e] \in Sess /\ watches[of[e]] = None
        /\ \A x \in Edit : of[x] = of[e] /\ epc[x] \in Edits!EditOpening => x = e
    BY <2>1 DEF EditsInv, Edits!EditOpening
  <2>3. \A x \in Edit : of[x] = of[e] => epc[x] # "watch"
    BY <2>2, EditAssumption DEF EditsInv
  <2> QED BY <2>1, <2>2, <2>3 DEF EditsInv, Edits!CopiesAreReachable, Edits!TypeOK, Edits!EditOpening
<1>13. ASSUME NEW e \in Edit, Edits!Save(e) PROVE EditsInv'
  <2>1. /\ epc[e] = "watch" /\ debounce' = debounce \cup {e}
        /\ UNCHANGED <<epc, of, watches, dirs, toSweep, app, pc>>
    BY <1>13 DEF Edits!Save, Edits!session
  <2> QED BY <2>1 DEF EditsInv, Edits!CopiesAreReachable
<1>14. ASSUME NEW n, Edits!UploadStarts(n) \/ Edits!UploadEnds(n) \/ Edits!UploadFails(n)
       PROVE  EditsInv'
  <2>1. UNCHANGED <<epc, of, watches, dirs, debounce, toSweep, app, pc>>
    BY <1>14 DEF Edits!UploadStarts, Edits!UploadEnds, Edits!UploadFails, Edits!session, Edits!edit
  <2> QED BY <2>1, SessionsKeepEdits
<1>15. ASSUME NEW E \in SUBSET {e \in Edit : epc[e] = "watch"}, Edits!Process(E)
       PROVE  EditsInv'
  <2>1. /\ app' = "off" /\ debounce' = {} /\ of' = of
        /\ \A e \in Edit : epc'[e] \in {"idle", "over"} /\ (epc'[e] # "idle" => epc[e] # "idle")
        /\ \A s \in Sess : watches'[s] = None
        /\ \A s \in Sess : pc[s] \in {"open", "gone"} => pc'[s] = "gone"
    BY <1>15 DEF Edits!Process, Edits!Ended
  <2> QED BY <2>1 DEF EditsInv, Edits!CopiesAreReachable, Edits!EditOpening
<1>16. CASE Edits!Start
  BY <1>16 DEF Edits!Start, Edits!session, Edits!edit, EditsInv, Edits!CopiesAreReachable
<1>17. CASE Edits!sweepOrphanedEditDirs
  BY <1>17 DEF Edits!sweepOrphanedEditDirs, Edits!session, EditsInv, Edits!CopiesAreReachable, Edits!TypeOK
<1>18. CASE UNCHANGED edits
  BY <1>18, SessionsKeepEdits DEF edits
<1>19. Edits!Quit \/ Edits!Crash => EditsInv'
  <2>1. Edits!Watched(Sess) \in SUBSET {e \in Edit : epc[e] = "watch"}
    BY <1>3
  <2> QED BY <1>15, <2>1 DEF Edits!Quit, Edits!Crash
<1> QED
  BY <1>1, <1>4, <1>5, <1>6, <1>7, <1>9, <1>10, <1>11, <1>12, <1>13, <1>14, <1>16,
     <1>17, <1>18, <1>19
  DEF Edits!Next

-----------------------------------------------------------------------------
(* What the editors saved                                                   *)

\* An edit that has an upload in the queue has one only, and no other is on its way to the
\* queue; one that streams has what was saved last; the edit is watched, or its session
\* has gone.
OneUpload ==
  \A n \in DOMAIN uploads :
    /\ \/ epc[uploads[n].e] = "watch"
       \/ epc[uploads[n].e] = "over" /\ pc[of[uploads[n].e]] # "open"
    /\ uploads[n].e \notin debounce
    /\ uploads[n].version # None => uploads[n].version = local[uploads[n].e]
    /\ \A m \in DOMAIN uploads : uploads[m].e = uploads[n].e => m = n

\* With it: while the editor starts, the copy is what the server has.
SaveInv ==
  /\ OneUpload
  /\ \A e \in Edit : epc[e] = "editor" /\ pc[of[e]] = "open" => remote[of[e]] = local[e]
  /\ \A e \in Edit :
       epc[e] = "watch" /\ pc[of[e]] = "open" /\ e \notin debounce \cup failed /\ ~Edits!Pending(e)
       => remote[of[e]] = local[e]

LEMMA SaveInvShows == EditsInv /\ SaveInv => Edits!SavesArrive
BY DEF SaveInv, Edits!SavesArrive, Edits!Known

\* A step of which the uploads see the end of their edit at most, with its session.
LEMMA StepKeepsSaves ==
  ASSUME Edits!TypeOK, EditsInv, SaveInv,
         UNCHANGED <<uploads, remote, failed>>, debounce' \subseteq debounce,
         \A e \in Edit :
           \/ /\ epc'[e] = epc[e] /\ of'[e] = of[e] /\ local'[e] = local[e]
              /\ epc[e] # "idle" /\ pc'[of[e]] = "open" => pc[of[e]] = "open"
              /\ e \in debounce => e \in debounce'
           \/ /\ epc[e] = "watch" /\ epc'[e] = "over" /\ of'[e] = of[e] /\ local'[e] = local[e]
              /\ pc'[of[e]] # "open"
           \/ /\ epc[e] \in Edits!EditOpening \cup {"idle"}
              /\ epc'[e] \in {"dir", "download", "over"}
  PROVE  SaveInv'
<1> USE DEF Edits!EditOpening
<1>1. ASSUME NEW n \in DOMAIN uploads
      PROVE  /\ uploads[n].e \in Edit
             /\ epc[uploads[n].e] \in {"watch", "over"}
  <2>1. uploads \in Seq(Upload) /\ n \in 1..Len(uploads)
    BY LenProperties DEF Edits!TypeOK, Upload
  <2>2. uploads[n] \in Upload
    BY <2>1, ElementOfSeq
  <2> QED BY <2>2 DEF Upload, SaveInv, OneUpload
<1>2. OneUpload'
  <2> SUFFICES ASSUME NEW n \in DOMAIN uploads
               PROVE  /\ \/ epc'[uploads[n].e] = "watch"
                         \/ epc'[uploads[n].e] = "over" /\ pc'[of'[uploads[n].e]] # "open"
                      /\ uploads[n].e \notin debounce'
                      /\ uploads[n].version # None => uploads[n].version = local'[uploads[n].e]
                      /\ \A m \in DOMAIN uploads : uploads[m].e = uploads[n].e => m = n
    BY DEF OneUpload
  <2>1. /\ \/ epc[uploads[n].e] = "watch"
           \/ epc[uploads[n].e] = "over" /\ pc[of[uploads[n].e]] # "open"
        /\ uploads[n].e \notin debounce
        /\ uploads[n].version # None => uploads[n].version = local[uploads[n].e]
        /\ \A m \in DOMAIN uploads : uploads[m].e = uploads[n].e => m = n
    BY DEF SaveInv, OneUpload
  <2> QED BY <1>1, <2>1
<1>3. \A e \in Edit : epc'[e] = "editor" /\ pc'[of'[e]] = "open" => remote'[of'[e]] = local'[e]
  BY DEF SaveInv
<1>4. \A e \in Edit : Edits!Pending(e)' <=> Edits!Pending(e)
  BY DEF Edits!Pending
<1>5. \A e \in Edit :
        /\ epc'[e] = "watch" /\ pc'[of'[e]] = "open" /\ e \notin debounce' \cup failed'
        /\ ~Edits!Pending(e)'
        => remote'[of'[e]] = local'[e]
  BY <1>4 DEF SaveInv
<1> QED BY <1>2, <1>3, <1>5 DEF SaveInv

\* No session is left, and no upload.
LEMMA NoSessionNoSave ==
  ASSUME uploads' = <<>>, \A s \in Sess : pc'[s] # "open", EditsInv'
  PROVE  SaveInv'
<1>1. \A e \in Edit : epc'[e] # "idle" => pc'[of'[e]] # "open"
  BY DEF EditsInv
<1>2. OneUpload'
  BY DEF OneUpload
<1> QED BY <1>1, <1>2 DEF SaveInv

\* An upload leaves the queue: its edit has none, the others have theirs.
LEMMA LeavesTheQueue ==
  ASSUME Edits!TypeOK, EditsInv, SaveInv, NEW n \in DOMAIN uploads,
         uploads' = Edits!Without(n), UNCHANGED <<epc, of, pc, debounce, local>>
  PROVE  /\ OneUpload'
         /\ uploads[n].e \in Edit
         /\ \A x \in Edit : x = uploads[n].e => ~Edits!Pending(x)'
         /\ \A x \in Edit : x # uploads[n].e => (Edits!Pending(x)' <=> Edits!Pending(x))
<1>1. uploads \in Seq(Upload) /\ n \in 1..Len(uploads) /\ DOMAIN uploads = 1..Len(uploads)
      /\ Len(uploads) \in Nat
  BY LenProperties DEF Edits!TypeOK, Upload
<1>2. uploads[n] \in Upload
  BY <1>1, ElementOfSeq
<1>3. /\ \A i \in DOMAIN uploads' : \E j \in DOMAIN uploads :
            j # n /\ uploads'[i] = uploads[j] /\ j = IF i < n THEN i ELSE i + 1
      /\ \A j \in DOMAIN uploads : j # n => \E i \in DOMAIN uploads' : uploads'[i] = uploads[j]
      /\ uploads' \in Seq(Upload)
  BY <1>1, WithoutOne
<1>4. DOMAIN uploads' \subseteq Nat
  BY <1>3, LenProperties
<1>5. OneUpload'
  <2> SUFFICES ASSUME NEW i \in DOMAIN uploads'
               PROVE  /\ \/ epc[uploads'[i].e] = "watch"
                         \/ epc[uploads'[i].e] = "over" /\ pc[of[uploads'[i].e]] # "open"
                      /\ uploads'[i].e \notin debounce
                      /\ uploads'[i].version # None => uploads'[i].version = local[uploads'[i].e]
                      /\ \A k \in DOMAIN uploads' : uploads'[k].e = uploads'[i].e => k = i
    BY DEF OneUpload
  <2>1. PICK j \in DOMAIN uploads : uploads'[i] = uploads[j] /\ j = IF i < n THEN i ELSE i + 1
    BY <1>3
  <2>2. ASSUME NEW k \in DOMAIN uploads', uploads'[k].e = uploads'[i].e PROVE k = i
    <3>1. PICK h \in DOMAIN uploads : uploads'[k] = uploads[h] /\ h = IF k < n THEN k ELSE k + 1
      BY <1>3
    <3>2. h = j
      BY <2>1, <2>2, <3>1 DEF SaveInv, OneUpload
    <3>3. i \in Nat /\ k \in Nat /\ n \in Nat
      BY <1>1, <1>4
    <3> QED BY <2>1, <3>1, <3>2, <3>3
  <2> QED BY <2>1, <2>2 DEF SaveInv, OneUpload
<1>6. \A x \in Edit : x = uploads[n].e => ~Edits!Pending(x)'
  <2> SUFFICES ASSUME NEW i \in DOMAIN uploads', uploads'[i].e = uploads[n].e PROVE FALSE
    BY DEF Edits!Pending
  <2>1. PICK j \in DOMAIN uploads : j # n /\ uploads'[i] = uploads[j]
    BY <1>3
  <2> QED BY <2>1 DEF SaveInv, OneUpload
<1>7. \A x \in Edit : x # uploads[n].e => (Edits!Pending(x)' <=> Edits!Pending(x))
  BY <1>3 DEF Edits!Pending
<1> QED BY <1>2, <1>5, <1>6, <1>7 DEF Upload

LEMMA SaveInvNext ==
  ASSUME Edits!TypeOK, EditsInv, SaveInv, ~Overlap, [Edits!Next]_edits
  PROVE  SaveInv'
<1> USE DEF Edits!EditOpening
<1>0. /\ uploads \in Seq(Upload) /\ Len(uploads) \in Nat /\ DOMAIN uploads = 1..Len(uploads)
      /\ \A n \in DOMAIN uploads : uploads[n] \in Upload /\ uploads[n].e \in Edit
  <2>1. uploads \in Seq(Upload)
    BY DEF Edits!TypeOK, Upload
  <2>2. \A n \in 1..Len(uploads) : uploads[n] \in Upload
    BY <2>1, ElementOfSeq
  <2> QED BY <2>1, <2>2, LenProperties DEF Upload
<1>1. ASSUME NEW s \in Sess,
             \/ \E br \in BOOLEAN : Edits!open(s, br)
             \/ Edits!Connected(s) \/ Edits!ChannelOpened(s) \/ Edits!Resolved(s)
             \/ Edits!OpenFails(s) \/ Edits!ChannelCloses(s)
      PROVE  SaveInv'
  <2>1. UNCHANGED <<epc, of, debounce, local, uploads, remote, failed>>
    BY <1>1 DEF Edits!open, Edits!Connected, Edits!ChannelOpened, Edits!Resolved,
                Edits!OpenFails, Edits!ChannelCloses, Edits!edit, Edits!transfer
  <2>2. \/ pc' = pc
        \/ \E l : pc' = [pc EXCEPT ![s] = l] /\ (l = "gone" \/ pc[s] \notin {"open", "gone"})
    BY <1>1 DEF Edits!open, Edits!Connected, Edits!ChannelOpened, Edits!Resolved,
                Edits!OpenFails, Edits!ChannelCloses, Edits!Goto, Edits!Opening
  <2>3. \A r \in Sess : pc'[r] = "open" /\ pc[r] \in {"open", "gone"} => pc[r] = "open"
    BY <2>2 DEF Edits!TypeOK
  <2>4. \A e \in Edit : epc[e] # "idle" /\ pc'[of[e]] = "open" => pc[of[e]] = "open"
    BY <2>3 DEF EditsInv
  <2> QED BY <2>1, <2>4, StepKeepsSaves
<1>2. ASSUME NEW s \in Sess, Edits!sftpClose(s) PROVE SaveInv'
  <2>1. UNCHANGED <<of, local, failed, uploads, remote>> /\ debounce' \subseteq debounce
    BY <1>2 DEF Edits!sftpClose, Edits!transfer, Edits!Teardown
  <2>2. pc' = [r \in Sess |-> IF r \in {s} THEN "gone" ELSE pc[r]]
    BY <1>2 DEF Edits!sftpClose, Edits!CloseSessions
  <2>3. \A e \in Edits!Watched({s}) : of[e] = s /\ epc[e] = "watch"
    BY DEF Edits!Watched, EditsInv
  <2>4. /\ \A e \in Edit : epc'[e] = IF e \in Edits!Watched({s}) THEN "over" ELSE epc[e]
        /\ debounce' = debounce \ Edits!Watched({s})
    BY <1>2 DEF Edits!sftpClose, Edits!Teardown
  <2>5. \A e \in Edit : epc[e] # "idle" /\ pc'[of[e]] = "open" => pc[of[e]] = "open"
    BY <2>2 DEF EditsInv
  <2> QED BY <2>1, <2>2, <2>3, <2>4, <2>5, StepKeepsSaves
<1>3. ASSUME NEW e \in Edit, NEW s \in Sess, Edits!editOpen(e, s) PROVE SaveInv'
  <2>1. /\ epc[e] = "idle" /\ epc' = [epc EXCEPT ![e] = "dir"] /\ of' = [of EXCEPT ![e] = s]
        /\ UNCHANGED <<pc, local, failed, uploads, remote, debounce>>
    BY <1>3 DEF Edits!editOpen, Edits!EGoto, Edits!session, Edits!transfer
  <2> QED BY <2>1, StepKeepsSaves DEF Edits!TypeOK
<1>4. ASSUME NEW e \in Edit, Edits!MadeDir(e) \/ Edits!EditFails(e) PROVE SaveInv'
  <2>1. /\ epc[e] \in Edits!EditOpening
        /\ epc' = [epc EXCEPT ![e] = "download"] \/ epc' = [epc EXCEPT ![e] = "over"]
        /\ UNCHANGED <<pc, of, local, failed, uploads, remote, debounce>>
    BY <1>4 DEF Edits!MadeDir, Edits!EditFails, Edits!EGoto, Edits!session, Edits!transfer
  <2> QED BY <2>1, StepKeepsSaves DEF Edits!TypeOK
<1>5. ASSUME NEW e \in Edit, Edits!Downloaded(e) PROVE SaveInv'
  <2>1. /\ epc[e] = "download" /\ epc' = [epc EXCEPT ![e] = "editor"]
        /\ local' = [local EXCEPT ![e] = remote[of[e]]]
        /\ UNCHANGED <<pc, of, failed, uploads, remote, debounce>>
    BY <1>5 DEF Edits!Downloaded, Edits!EGoto, Edits!session, Edits!transfer
  <2>2. \A n \in DOMAIN uploads : uploads[n].e # e
    BY <2>1 DEF SaveInv, OneUpload
  <2>3. OneUpload'
    BY <1>0, <2>1, <2>2 DEF SaveInv, OneUpload, Edits!TypeOK
  <2>4. \A x \in Edit : Edits!Pending(x)' <=> Edits!Pending(x)
    BY <2>1 DEF Edits!Pending
  <2> QED BY <2>1, <2>3, <2>4 DEF SaveInv, Edits!TypeOK
<1>6. ASSUME NEW e \in Edit, Edits!EditorOpened(e) PROVE SaveInv'
  <2>1. /\ epc[e] = "editor" /\ epc' = [epc EXCEPT ![e] = "watch"]
        /\ UNCHANGED <<pc, of, local, failed, uploads, remote, debounce>>
    BY <1>6 DEF Edits!EditorOpened, Edits!EGoto, Edits!session, Edits!transfer
  <2>2. OneUpload'
    BY <1>0, <2>1 DEF SaveInv, OneUpload, Edits!TypeOK
  <2>3. \A x \in Edit : Edits!Pending(x)' <=> Edits!Pending(x)
    BY <2>1 DEF Edits!Pending
  <2> QED BY <2>1, <2>2, <2>3 DEF SaveInv, Edits!TypeOK
<1>7. ASSUME NEW e \in Edit, Edits!Save(e) PROVE SaveInv'
  <2>1. /\ ~Edits!Pending(e) /\ epc[e] = "watch" /\ debounce' = debounce \cup {e}
        /\ local' = [local EXCEPT ![e] = saves']
        /\ UNCHANGED <<pc, epc, of, failed, uploads, remote>>
    BY <1>7 DEF Edits!Save, Edits!session, Edits!transfer
  <2>2. \A n \in DOMAIN uploads : uploads[n].e # e
    BY <2>1 DEF Edits!Pending
  <2>3. OneUpload'
    BY <1>0, <2>1, <2>2 DEF SaveInv, OneUpload, Edits!TypeOK
  <2>4. \A x \in Edit : Edits!Pending(x)' <=> Edits!Pending(x)
    BY <2>1 DEF Edits!Pending
  <2> QED BY <2>1, <2>3, <2>4 DEF SaveInv, Edits!TypeOK
<1>8. ASSUME NEW e \in Edit, Edits!SaveQueued(e) PROVE SaveInv'
  <2>1. CASE of[e] \notin Edits!Known
    <3>1. /\ epc[e] = "watch" /\ pc[of[e]] # "open"
          /\ debounce' = debounce \ {e}
          /\ \A x \in Edit : epc'[x] = IF x = e THEN "over" ELSE epc[x]
          /\ UNCHANGED <<pc, of, local, failed, uploads, remote>>
      BY <1>8, <2>1 DEF Edits!SaveQueued, Edits!Teardown, Edits!session, Edits!Known, EditsInv
    <3> QED BY <3>1, StepKeepsSaves
  <2>2. CASE of[e] \in Edits!Known
    <3> DEFINE u == [e |-> e, version |-> None]
    <3>1. /\ e \in debounce /\ epc[e] = "watch" /\ uploads' = Append(uploads, u)
          /\ debounce' = debounce \ {e}
          /\ UNCHANGED <<pc, epc, of, local, failed, remote>>
      BY <1>8, <2>2 DEF Edits!SaveQueued, Edits!session, EditsInv
    <3>2. u.e = e /\ u.version = None /\ u \in Upload
      BY DEF Upload
    <3> HIDE DEF u
    <3>3. /\ uploads' \in Seq(Upload) /\ Len(uploads') = Len(uploads) + 1
          /\ uploads'[Len(uploads) + 1] = u
          /\ \A i \in 1..Len(uploads) : uploads'[i] = uploads[i]
      BY <1>0, <3>1, <3>2, AppendProperties
    <3>4. DOMAIN uploads' = 1..(Len(uploads) + 1)
      BY <3>3, LenProperties
    <3>5. \A n \in DOMAIN uploads : uploads[n].e # e
      BY <3>1 DEF SaveInv, OneUpload
    <3>6. OneUpload'
      <4> SUFFICES ASSUME NEW i \in 1..(Len(uploads) + 1)
                   PROVE  /\ \/ epc[uploads'[i].e] = "watch"
                             \/ epc[uploads'[i].e] = "over" /\ pc[of[uploads'[i].e]] # "open"
                          /\ uploads'[i].e \notin debounce'
                          /\ uploads'[i].version # None => uploads'[i].version = local[uploads'[i].e]
                          /\ \A k \in 1..(Len(uploads) + 1) : uploads'[k].e = uploads'[i].e => k = i
        BY <3>1, <3>4 DEF OneUpload
      <4>1. CASE i = Len(uploads) + 1
        <5>1. uploads'[i].e = e /\ uploads'[i].version = None
          BY <3>2, <3>3, <4>1
        <5>2. \A k \in 1..(Len(uploads) + 1) : k = i \/ k \in DOMAIN uploads
          BY <1>0, <4>1
        <5>3. \A k \in 1..(Len(uploads) + 1) : uploads'[k].e = e => k = i
          BY <1>0, <3>3, <3>5, <5>2
        <5> QED BY <3>1, <5>1, <5>3
      <4>2. CASE i # Len(uploads) + 1
        <5>1. i \in DOMAIN uploads /\ uploads'[i] = uploads[i] /\ uploads[i].e # e
          BY <1>0, <3>3, <3>5, <4>2
        <5>2. \A k \in 1..(Len(uploads) + 1) :
                \/ k \in DOMAIN uploads /\ uploads'[k] = uploads[k]
                \/ uploads'[k].e = e
          BY <1>0, <3>2, <3>3
        <5>3. \A k \in 1..(Len(uploads) + 1) : uploads'[k].e = uploads'[i].e => k = i
          BY <5>1, <5>2 DEF SaveInv, OneUpload
        <5> QED BY <3>1, <5>1, <5>3 DEF SaveInv, OneUpload
      <4> QED BY <4>1, <4>2
    <3>7. \A x \in Edit : Edits!Pending(x)' <=> Edits!Pending(x) \/ x = e
      BY <1>0, <3>2, <3>3, <3>4 DEF Edits!Pending
    <3> QED BY <3>1, <3>6, <3>7 DEF SaveInv
  <2> QED BY <2>1, <2>2
<1>9. ASSUME NEW n \in DOMAIN uploads, Edits!UploadStarts(n) PROVE SaveInv'
  <2>1. /\ uploads' = [uploads EXCEPT ![n] =
                        [uploads[n] EXCEPT !.version = local[uploads[n].e]]]
        /\ UNCHANGED <<pc, epc, of, local, failed, debounce, remote>>
    BY <1>9 DEF Edits!UploadStarts, Edits!session, Edits!edit
  <2>2. /\ DOMAIN uploads' = DOMAIN uploads
        /\ \A i \in DOMAIN uploads : uploads'[i].e = uploads[i].e
        /\ \A i \in DOMAIN uploads :
             uploads'[i].version = IF i = n THEN local[uploads[n].e] ELSE uploads[i].version
    BY <1>0, <2>1 DEF Upload
  <2>3. OneUpload'
    BY <2>1, <2>2 DEF SaveInv, OneUpload
  <2>4. \A x \in Edit : Edits!Pending(x)' <=> Edits!Pending(x)
    BY <2>2 DEF Edits!Pending
  <2> QED BY <2>1, <2>3, <2>4 DEF SaveInv
<1>10. ASSUME NEW n \in DOMAIN uploads, Edits!UploadEnds(n) PROVE SaveInv'
  <2>1. /\ uploads[n].version # None /\ uploads' = Edits!Without(n)
        /\ remote' = [remote EXCEPT ![of[uploads[n].e]] = uploads[n].version]
        /\ failed' = failed \ {uploads[n].e}
        /\ UNCHANGED <<pc, epc, of, local, debounce>>
    BY <1>10 DEF Edits!UploadEnds, Edits!Streams, Edits!session
  <2>2. /\ OneUpload' /\ uploads[n].e \in Edit
        /\ \A x \in Edit : x # uploads[n].e => (Edits!Pending(x)' <=> Edits!Pending(x))
    BY <2>1, LeavesTheQueue
  <2>3. /\ uploads[n].version = local[uploads[n].e] /\ of[uploads[n].e] \in Sess
        /\ \/ watches[of[uploads[n].e]] = uploads[n].e
           \/ pc[of[uploads[n].e]] # "open"
    BY <2>1, <2>2 DEF SaveInv, OneUpload, EditsInv
  <2>4. \A x \in Edit : epc[x] \in {"watch", "editor"} /\ pc[of[x]] = "open" /\ x # uploads[n].e
                         => of[x] # of[uploads[n].e]
    BY <2>2, <2>3, EditAssumption DEF EditsInv
  <2>5. \A x \in Edit : x = uploads[n].e => epc[x] # "editor"
    BY DEF SaveInv, OneUpload
  <2>6. \A r \in Sess : remote'[r] = IF r = of[uploads[n].e] THEN uploads[n].version ELSE remote[r]
    BY <2>1 DEF Edits!TypeOK
  <2>7. \A x \in Edit : epc[x] # "idle" => of[x] \in Sess
    BY DEF EditsInv
  <2>8. ASSUME NEW x \in Edit, epc[x] = "editor", pc[of[x]] = "open"
        PROVE  remote'[of[x]] = local[x]
    BY <2>4, <2>5, <2>6, <2>7, <2>8 DEF SaveInv
  <2>9. ASSUME NEW x \in Edit, epc[x] = "watch", pc[of[x]] = "open",
               x \notin debounce \cup failed', ~Edits!Pending(x)'
        PROVE  remote'[of[x]] = local[x]
    <3>1. CASE x = uploads[n].e
      BY <2>3, <2>6, <3>1
    <3>2. CASE x # uploads[n].e
      BY <2>1, <2>2, <2>4, <2>6, <2>7, <2>9, <3>2 DEF SaveInv
    <3> QED BY <3>1, <3>2
  <2> QED BY <2>1, <2>2, <2>8, <2>9 DEF SaveInv
<1>11. ASSUME NEW n \in DOMAIN uploads, Edits!UploadFails(n) PROVE SaveInv'
  <2>1. /\ uploads' = Edits!Without(n) /\ failed' = failed \cup {uploads[n].e}
        /\ UNCHANGED <<pc, epc, of, local, debounce, remote>>
    BY <1>11 DEF Edits!UploadFails, Edits!session
  <2>2. /\ OneUpload' /\ uploads[n].e \in Edit
        /\ \A x \in Edit : x # uploads[n].e => (Edits!Pending(x)' <=> Edits!Pending(x))
    BY <2>1, LeavesTheQueue
  <2> QED BY <2>1, <2>2 DEF SaveInv
<1>12. CASE Edits!OwnerDestroyed
  <2>1. EditsInv'
    BY EditsInvNext
  <2>2. uploads' = <<>> /\ \A s \in Sess : pc'[s] # "open"
    BY <1>12 DEF Edits!OwnerDestroyed, Edits!CloseSessions, Edits!Known
  <2> QED BY <2>1, <2>2, NoSessionNoSave
<1>13. ASSUME NEW E, Edits!Process(E) PROVE SaveInv'
  <2>1. EditsInv'
    BY EditsInvNext
  <2>2. uploads' = <<>> /\ \A s \in Sess : pc'[s] # "open"
    BY <1>13 DEF Edits!Process
  <2> QED BY <2>1, <2>2, NoSessionNoSave
<1>14. CASE Edits!Start \/ Edits!sweepOrphanedEditDirs \/ UNCHANGED edits
  <2>1. UNCHANGED <<pc, epc, of, local, debounce, uploads, remote, failed>>
    BY <1>14 DEF Edits!Start, Edits!sweepOrphanedEditDirs, Edits!session, Edits!edit,
                 Edits!transfer, edits
  <2> QED BY <2>1, StepKeepsSaves
<1> QED
  BY <1>1, <1>2, <1>3, <1>4, <1>5, <1>6, <1>7, <1>8, <1>9, <1>10, <1>11, <1>12, <1>13, <1>14
  DEF Edits!Next, Edits!Quit, Edits!Crash

-----------------------------------------------------------------------------
(* The theorems about sessions and edits                                    *)

LEMMA EditsStart ==
  ASSUME SftpInit
  PROVE  Edits!TypeOK /\ OwnInv /\ EditsInv /\ SaveInv
<1> USE DEF SftpInit, Edits!Init
<1>1. Edits!TypeOK
  <2>1. <<>> \in Seq([e : Edit, version : 0..MaxSaves \cup {None}])
    OBVIOUS
  <2>2. 0 \in 0..MaxSaves
    BY EditAssumption
  <2> QED BY <2>1, <2>2 DEF Edits!TypeOK
<1>2. OwnInv
  BY DEF OwnInv, Edits!OwnConnectionEndsOnce
<1>3. EditsInv
  BY DEF EditsInv, Edits!CopiesAreReachable, Edits!EditOpening
<1>4. SaveInv
  BY DEF SaveInv, OneUpload
<1> QED BY <1>1, <1>2, <1>3, <1>4

\* Whatever ends a session or an edit first, the tab, the server, the window, a failure, a quit or
\* a crash: its own connection is disconnected once, and its copies of remote files are removed
\* or can be reached by what removes them.
THEOREM NothingIsLeft == SftpSpec => []SessionsLeaveNothing
<1> DEFINE I == Edits!TypeOK /\ OwnInv /\ EditsInv
<1>1. SftpInit => I
  BY EditsStart
<1>2. I /\ [FilesStep \/ EarlyStep \/ EditsStep]_<<part, vars, edits>> => I'
  BY StepsOfParts, EditTypesNext, OwnInvNext, EditsInvNext
<1>3. I => SessionsLeaveNothing
  BY DEF SessionsLeaveNothing, OwnInv, EditsInv
<1> QED BY <1>1, <1>2, <1>3, PTL DEF SftpSpec

\* Unless a file is saved while an upload of it has not finished: once nothing of an edit is on
\* its way, the server has what was saved last.
THEOREM LastSaveArrives == ASSUME ~Overlap PROVE SftpSpec => []SavesArrive
<1> DEFINE I == Edits!TypeOK /\ EditsInv /\ SaveInv
<1>1. SftpInit => I
  BY EditsStart
<1>2. I /\ [FilesStep \/ EarlyStep \/ EditsStep]_<<part, vars, edits>> => I'
  BY StepsOfParts, EditTypesNext, EditsInvNext, SaveInvNext
<1>3. I => SavesArrive
  BY SaveInvShows DEF SavesArrive
<1> QED BY <1>1, <1>2, <1>3, PTL DEF SftpSpec

=============================================================================
