--------------------------- MODULE TransferQueue ---------------------------
(***************************************************************************)
(* The SFTP transfer queue (src/src/main/sftp/transfer-manager.ts): at most *)
(* MaxActive transfers stream at a time, each into a temp file next to its *)
(* destination, which a complete stream is renamed over.                   *)
(*                                                                         *)
(* A run of a transfer occupies a lane from pump() to its finally handler. *)
(* A lane waits in one of the awaits of run():                             *)
(*   "stat", "mkdir"       before a download opens its temp file           *)
(*   "open", "stream"      copying chunks; only here does abort work       *)
(*   "rename"              temp file -> destination                        *)
(*   "unlink", "rename2"   the fallback of sftpRenameReplace               *)
(*   "cleanup"             removing the temp file after a failure          *)
(* A transfer that is cancelled and retried before its first run settled   *)
(* has two runs at once, on one record and one temp path.                  *)
(***************************************************************************)
EXTENDS Naturals, Sequences, FiniteSets

CONSTANTS
  Transfer,     \* transfers; their destinations are distinct
  Kind,         \* "upload" or "download", per transfer
  Session,      \* SFTP sessions, one per window
  SessionOf,    \* the session of each transfer
  MaxActive,    \* MAX_ACTIVE_TRANSFERS
  Chunks,       \* chunks of every file
  MaxRetries,   \* bound on the retries of a behaviour
  RetryEarly,   \* may the user retry before the cancelled run has settled?
  None

ASSUME TransferAssumption ==
  /\ Kind \in [Transfer -> {"upload", "download"}]
  /\ SessionOf \in [Transfer -> Session]
  /\ MaxActive \in Nat \ {0} /\ Chunks \in Nat \ {0} /\ MaxRetries \in Nat
  /\ RetryEarly \in BOOLEAN
  /\ None \notin Transfer

VARIABLES
  order,      \* the transfers map: every transfer, in insertion order
  status,     \* the status of each record
  doneBytes,  \* chunks counted on each record
  sized,      \* records whose totalBytes is known
  abort,      \* the lane whose streams rec.abort destroys, or 0 (null)
  active,     \* the counter of running transfers
  lane,       \* the runs
  exists,     \* the files there are
  content,    \* their chunks; 0 stands for the version before the transfer
  up,         \* the SFTP sessions that are open
  walking,    \* an enqueueUploads() is walking its directories
  retries

vars == <<order, status, doneBytes, sized, abort, active, lane, exists, content, up,
          walking, retries>>
files == <<exists, content>>
queue == <<order, doneBytes, sized, walking, retries>>

Lane   == 1..(MaxActive + 1)   \* one more than the code should ever use
Awaits == {"stat", "mkdir", "open", "stream", "rename", "unlink", "rename2", "cleanup"}
File   == Transfer \X {"temp", "dest"}
Whole  == 1..Chunks
Old    == {0}
\* file: where the file a run writes to is now; "lost" when it was unlinked.
Free   == [t |-> None, pc |-> "free", pos |-> 0, file |-> "lost"]

Temp(t) == <<t, "temp">>
Dest(t) == <<t, "dest">>
Busy(ln) == {l \in Lane : ln[l] # Free}
RunsOf(t) == {l \in Lane : lane[l].t = t}
Answers(t) == SessionOf[t] \in up

Init ==
  /\ order = <<>> /\ status = [t \in Transfer |-> "none"]
  /\ doneBytes = [t \in Transfer |-> 0]
  /\ sized \in {S \in SUBSET Transfer : \A t \in Transfer \ S : Kind[t] = "download"}
  /\ abort = [t \in Transfer |-> 0]
  /\ active = 0 /\ lane = [l \in Lane |-> Free]
  /\ exists = {Dest(t) : t \in Transfer}
  /\ content = [f \in File |-> IF f[2] = "dest" THEN Old ELSE {}]
  /\ up = Session /\ walking = FALSE /\ retries = 0

-----------------------------------------------------------------------------
(* pump() *)

Queued(ord, st) == {i \in DOMAIN ord : st[ord[i]] = "queued"}
Least(S) == CHOOSE i \in S : \A j \in S : i <= j

\* run() up to its first await: an upload streams at once.
Start(t, ln, ab) ==
  LET l  == Least({i \in Lane : ln[i] = Free})
      pc == IF Kind[t] = "upload" THEN "open" ELSE IF t \in sized THEN "mkdir" ELSE "stat"
  IN
  /\ lane' = [ln EXCEPT ![l] = [Free EXCEPT !.t = t, !.pc = pc]]
  /\ abort' = [ab EXCEPT ![t] = IF pc = "open" THEN l ELSE @]

\* One transfer starts, if there is room.  A transfer whose session is closed
\* fails at once and its finally handler pumps the next one.
Pump_OffByOne(ord, st, ln, act, ab) ==   \* mutant: '>' for '>='
  LET q == Queued(ord, st)
  IN IF act > MaxActive \/ q = {}
     THEN status' = st /\ lane' = ln /\ active' = act /\ abort' = ab
     ELSE /\ status' = [st EXCEPT ![ord[Least(q)]] = "active"]
          /\ active' = act + 1
          /\ Start(ord[Least(q)], ln, ab)
Pump(ord, st, ln, act, ab) ==
  LET q     == Queued(ord, st)
      alive == {i \in q : Answers(ord[i])}
      dead  == {ord[i] : i \in {i \in q : \A j \in alive : i < j}}
      st2   == [t \in Transfer |-> IF t \in dead THEN "error" ELSE st[t]]
      ab2   == [t \in Transfer |-> IF t \in dead THEN 0 ELSE ab[t]]
  IN IF act >= MaxActive
     THEN status' = st /\ lane' = ln /\ active' = act /\ abort' = ab
     ELSE IF alive = {}
     THEN status' = st2 /\ lane' = ln /\ active' = act /\ abort' = ab2
     ELSE /\ status' = [st2 EXCEPT ![ord[Least(alive)]] = "active"]
          /\ active' = act + 1
          /\ Start(ord[Least(alive)], ln, ab2)

\* The run in lane l is over: then / catch / finally, and the next pump().
Settle_NoPump(ln, l, outcome) ==   \* mutant: finally does not pump
  LET t == lane[l].t IN
  /\ status' = [status EXCEPT ![t] = IF @ = "active" THEN outcome ELSE @]
  /\ lane' = [ln EXCEPT ![l] = Free] /\ active' = active - 1
  /\ abort' = [abort EXCEPT ![t] = 0]
Settle(ln, l, outcome) ==
  LET t == lane[l].t IN
  Pump(order, [status EXCEPT ![t] = IF @ = "active" THEN outcome ELSE @],
       [ln EXCEPT ![l] = Free], active - 1, [abort EXCEPT ![t] = 0])

-----------------------------------------------------------------------------
(* The calls *)

\* enqueueDownload / enqueueUploadAs: the record is queued and pumped.
Enqueue(t) ==
  /\ status[t] = "none" /\ (Kind[t] = "download" => Answers(t))
  /\ order' = Append(order, t)
  /\ Pump(order', [status EXCEPT ![t] = "queued"], lane, active, abort)
  /\ UNCHANGED <<doneBytes, sized, walking, retries, files, up>>

\* enqueueUploads walks its paths, queueing files between awaits, and pumps once
\* at the end; if a path cannot be read it does not.
BatchStart ==
  /\ ~walking /\ up # {} /\ walking' = TRUE
  /\ UNCHANGED <<order, status, doneBytes, sized, abort, active, lane, files, up, retries>>
BatchEnqueue(t) ==
  /\ walking /\ status[t] = "none" /\ Kind[t] = "upload"
  /\ order' = Append(order, t)
  /\ status' = [status EXCEPT ![t] = "queued"]
  /\ UNCHANGED <<doneBytes, sized, abort, active, lane, files, up, walking, retries>>
BatchDone ==
  /\ walking /\ walking' = FALSE
  /\ Pump(order, status, lane, active, abort)
  /\ UNCHANGED <<order, doneBytes, sized, retries, files, up>>
BatchFails ==
  /\ walking /\ walking' = FALSE
  /\ UNCHANGED <<order, status, doneBytes, sized, abort, active, lane, files, up, retries>>

\* rec.abort?.(): destroys the streams of the run that set it, if they live.
Aborted(S) ==
  [l \in Lane |-> IF \E t \in S : abort[t] = l /\ lane[l].pc \in {"open", "stream"}
                  THEN [lane[l] EXCEPT !.pc = "cleanup"] ELSE lane[l]]

Cancelling(S) ==
  /\ status' = [t \in Transfer |-> IF t \in S THEN "cancelled" ELSE status[t]]
  /\ lane' = Aborted(S)

Cancel_FreesSlot(t) ==   \* mutant: cancel gives the slot back, as finally does
  /\ status[t] \in {"queued", "active"}
  /\ Cancelling({t})
  /\ active' = IF status[t] = "active" THEN active - 1 ELSE active
  /\ UNCHANGED <<queue, abort, files, up>>
Cancel(t) ==
  /\ status[t] \in {"queued", "active"}
  /\ Cancelling({t})
  /\ UNCHANGED <<queue, abort, active, files, up>>

Retry(t) ==
  /\ status[t] \in {"error", "cancelled"}
  /\ RetryEarly \/ RunsOf(t) = {}
  /\ retries < MaxRetries /\ retries' = retries + 1
  /\ doneBytes' = [doneBytes EXCEPT ![t] = 0]
  /\ Pump(order, [status EXCEPT ![t] = "queued"], lane, active, abort)
  /\ UNCHANGED <<order, sized, walking, files, up>>

\* The user closes an SFTP tab, or its connection drops: nothing is cancelled.
SessionCloses(s) ==
  /\ s \in up /\ up' = up \ {s}
  /\ UNCHANGED <<queue, status, abort, active, lane, files>>

\* cancelForOwner / cancelAll, then closeForOwner / closeAll: a window is
\* destroyed, or the app quits.
CancelAndClose(S) ==
  /\ S # {} /\ S \subseteq up /\ up' = up \ S
  /\ Cancelling({t \in Transfer : SessionOf[t] \in S /\ status[t] \in {"queued", "active"}})
  /\ UNCHANGED <<queue, abort, active, files>>

-----------------------------------------------------------------------------
(* The steps of run() *)

At(l, pc) == lane[l].pc = pc
Go(l, pc) == lane' = [lane EXCEPT ![l].pc = pc]
Requests(t) == Kind[t] = "upload" => Answers(t)   \* a local file system always answers

\* What happens to the file a run of t writes to when its path is renamed or
\* unlinked: from \in {"temp", "dest"}, to its new place.
Moved(ln, t, move) ==
  [l \in Lane |-> IF ln[l].t = t /\ ln[l].file \in DOMAIN move
                  THEN [ln[l] EXCEPT !.file = move[@]] ELSE ln[l]]

\* A download asks for its size; a failing stat leaves it unknown.
StatAnswered(l) ==
  /\ At(l, "stat") /\ Go(l, "mkdir")
  /\ sized' \in {sized, sized \cup {lane[l].t}}
  /\ UNCHANGED <<order, status, doneBytes, abort, active, files, up, walking, retries>>

Mkdir(l) ==
  /\ At(l, "mkdir") /\ Go(l, "open")
  /\ abort' = [abort EXCEPT ![lane[l].t] = l]
  /\ UNCHANGED <<queue, status, active, files, up>>
MkdirFails(l) ==
  /\ At(l, "mkdir") /\ Settle(lane, l, "error")
  /\ UNCHANGED <<queue, files, up>>

\* Opening the write stream truncates what is on the temp path.  A server serves
\* the requests of a channel in order: first what another run of t asked before.
Open(l) ==
  LET t == lane[l].t IN
  /\ At(l, "open") /\ Requests(t)
  /\ Kind[t] = "upload" =>
       \A m \in RunsOf(t) \ {l} : lane[m].pc \notin {"rename", "rename2", "cleanup"}
  /\ lane' = [lane EXCEPT ![l].pc = "stream", ![l].file = "temp"]
  /\ exists' = exists \cup {Temp(t)}
  /\ content' = [content EXCEPT ![Temp(t)] = {}]
  /\ UNCHANGED <<queue, status, abort, active, up>>

Copy(l) ==
  LET t == lane[l].t
      p == lane[l].pos + 1
  IN
  /\ At(l, "stream") /\ p <= Chunks /\ Answers(t)
  /\ doneBytes' = [doneBytes EXCEPT ![t] = @ + 1]
  /\ lane' = [lane EXCEPT ![l].pos = p]
  /\ content' = IF lane[l].file = "lost" THEN content
                ELSE [content EXCEPT ![<<t, lane[l].file>>] = @ \cup {p}]
  /\ UNCHANGED <<order, status, sized, abort, active, exists, up, walking, retries>>

\* The sink closes without an error, perhaps early.  The integrity guard
\* compares the byte count when the size is known.
StreamClosed_Unchecked(l) ==   \* mutant: no integrity guard
  /\ At(l, "stream") /\ Go(l, "rename")
  /\ UNCHANGED <<queue, status, abort, active, files, up>>
StreamClosed(l) ==
  LET t == lane[l].t IN
  /\ At(l, "stream")
  /\ Go(l, IF t \in sized /\ doneBytes[t] # Chunks THEN "cleanup" ELSE "rename")
  /\ UNCHANGED <<queue, status, abort, active, files, up>>
StreamFails(l) ==
  /\ lane[l].pc \in {"open", "stream"} /\ Go(l, "cleanup")
  /\ UNCHANGED <<queue, status, abort, active, files, up>>

\* The temp file takes the place of the destination, and the run is done.
Promote(l) ==
  LET t == lane[l].t IN
  /\ Requests(t) /\ Temp(t) \in exists
  /\ exists' = (exists \ {Temp(t)}) \cup {Dest(t)}
  /\ content' = [content EXCEPT ![Dest(t)] = content[Temp(t)], ![Temp(t)] = {}]
  /\ Settle(Moved(lane, t, [temp |-> "dest", dest |-> "lost"]), l, "done")
  /\ UNCHANGED <<queue, up>>

Rename(l) == At(l, "rename") /\ Promote(l)
RenameFails(l) ==
  /\ At(l, "rename") /\ Go(l, IF Kind[lane[l].t] = "upload" THEN "unlink" ELSE "cleanup")
  /\ UNCHANGED <<queue, status, abort, active, files, up>>

\* The fallback of sftpRenameReplace; its unlink may fail and is not checked.
UnlinkDest(l) ==
  LET t == lane[l].t IN
  /\ At(l, "unlink")
  /\ \/ /\ Answers(t)
        /\ exists' = exists \ {Dest(t)}
        /\ content' = [content EXCEPT ![Dest(t)] = {}]
        /\ lane' = Moved([lane EXCEPT ![l].pc = "rename2"], t, [dest |-> "lost"])
     \/ Go(l, "rename2") /\ UNCHANGED files
  /\ UNCHANGED <<queue, status, abort, active, up>>
Rename2(l) == At(l, "rename2") /\ Promote(l)
Rename2Fails(l) ==
  /\ At(l, "rename2") /\ Go(l, "cleanup")
  /\ UNCHANGED <<queue, status, abort, active, files, up>>

Cleanup_Skipped(l) ==   \* mutant: the temp file stays
  At(l, "cleanup") /\ Settle(lane, l, "error") /\ UNCHANGED <<queue, files, up>>
\* The catch block: best-effort removal of the temp file, then the run rejects.
Cleanup(l) ==
  LET t == lane[l].t IN
  /\ At(l, "cleanup")
  /\ IF Requests(t)
     THEN /\ exists' = exists \ {Temp(t)}
          /\ content' = [content EXCEPT ![Temp(t)] = {}]
     ELSE UNCHANGED files
  /\ Settle(IF Requests(t) THEN Moved(lane, t, [temp |-> "lost"]) ELSE lane, l, "error")
  /\ UNCHANGED <<queue, up>>

\* Nothing runs: the system may rest.
Done == ~walking /\ Busy(lane) = {} /\ UNCHANGED vars

-----------------------------------------------------------------------------
Call(t) == Enqueue(t) \/ BatchEnqueue(t) \/ Cancel(t) \/ Retry(t)

LaneStep(l) ==
  \/ StatAnswered(l) \/ Mkdir(l) \/ MkdirFails(l) \/ Open(l) \/ Copy(l) \/ StreamClosed(l)
  \/ StreamFails(l) \/ Rename(l) \/ RenameFails(l) \/ UnlinkDest(l) \/ Rename2(l)
  \/ Rename2Fails(l) \/ Cleanup(l)

Next ==
  \/ \E t \in Transfer : Call(t)
  \/ BatchStart \/ BatchDone \/ BatchFails
  \/ \E s \in Session : SessionCloses(s)
  \/ \E S \in {{s} : s \in Session} \cup {Session} : CancelAndClose(S)
  \/ \E l \in Lane : LaneStep(l)
  \/ Done

Spec == Init /\ [][Next]_vars

\* Streams end, and servers answer, while their connection is open; a request on a
\* closed SFTP channel may never be answered.
FairSpec ==
  Spec /\ \A l \in Lane : WF_vars(LaneStep(l) /\ Requests(lane[l].t))

-----------------------------------------------------------------------------
(* Properties *)

TypeOK ==
  /\ order \in Seq(Transfer)
  /\ status \in [Transfer -> {"none", "queued", "active", "done", "error", "cancelled"}]
  /\ doneBytes \in [Transfer -> Nat] /\ sized \subseteq Transfer
  /\ abort \in [Transfer -> {0} \cup Lane]
  /\ active \in Nat
  /\ lane \in [Lane -> [t : Transfer, pc : Awaits, pos : 0..Chunks, file : {"temp", "dest", "lost"}]
                       \cup {Free}]
  /\ exists \subseteq File /\ content \in [File -> SUBSET (0..Chunks)]
  /\ up \subseteq Session /\ walking \in BOOLEAN /\ retries \in 0..MaxRetries

\* The slots in use are the runs that have not settled, whatever is cancelled,
\* retried or torn down meanwhile (MAX_ACTIVE_TRANSFERS, 243-268).
SlotsAccounted == active = Cardinality(Busy(lane)) /\ active <= MaxActive

\* A transfer reported done is there, whole.
DoneIsWhole ==
  \A t \in sized : status[t] = "done" => Dest(t) \in exists /\ content[Dest(t)] = Whole

\* No settled run leaves its temp file behind while the server answers.
NoPartLeft ==
  \A t \in Transfer : Temp(t) \in exists /\ Answers(t) => RunsOf(t) # {}

\* A destination is never truncated or partially overwritten (18-23): what
\* replaces it is the whole new version, provided the size was known.
ReplacedByWhole ==
  \A t \in sized : Dest(t) \in exists' /\ content'[Dest(t)] # content[Dest(t)] =>
    content'[Dest(t)] = Whole

\* A destination is removed only when its whole replacement is on the server
\* (423-425: "The full new content already lives in `from`").
RemovedForWhole ==
  \A t \in Transfer : Dest(t) \in exists /\ Dest(t) \notin exists' =>
    Temp(t) \in exists /\ content[Temp(t)] = Whole

DestsAreWhole == [][ReplacedByWhole /\ RemovedForWhole]_vars

\* While anything runs the queue moves: every settled run starts the next queued
\* transfer (finally, 262-267), also when a batch failed half way.
QueueDrains ==
  \A t \in Transfer :
    (status[t] = "queued" /\ active > 0) ~> (status[t] # "queued" \/ up # Session)

-----------------------------------------------------------------------------
(* What comments of the code say and the code does not do *)

\* 283-284, "Keeps the real destination intact on cancel/error": a failed or
\* cancelled transfer leaves a file at its destination.
FailureKeepsDest ==
  \A t \in Transfer : status[t] \in {"error", "cancelled"} /\ RunsOf(t) = {} => Dest(t) \in exists

\* 20-21, "A cancelled or failed transfer therefore never truncates or partially
\* overwrites the real file -- the temp file is removed instead".
CancelledNotPromoted ==
  [][\A t \in Transfer : status[t] = "cancelled" /\ Temp(t) \in exists =>
       content'[Dest(t)] = content[Dest(t)]]_vars

\* 232-233, cancelAll is there "so no `.termdesk-part-*` temp file is left".
QuitLeavesNoPart ==
  \A t \in Transfer : up = {} /\ status[t] = "cancelled" /\ RunsOf(t) = {} => Temp(t) \notin exists
=============================================================================
