------------------------------- MODULE MCSftp -------------------------------
(***************************************************************************)
(* SFTP in main, in one instance: the transfer queue with two windows, the  *)
(* queue of one window whose user retries before a cancelled run has        *)
(* settled, and the sessions with the edits on them (SftpEdit).  The two    *)
(* queues take turns over the same variables; a behaviour is one of one     *)
(* part: part says of which.                                                *)
(***************************************************************************)
EXTENDS TransferQueue, TLC

CONSTANTS t1, t2, a, b, e1, e2, Sess, Edit, MaxSaves, Overlap

\* Versions are numbers and edits are not None, which an empty entry of the watches holds.
ASSUME EditAssumption ==
  MaxSaves \in Nat /\ Overlap \in BOOLEAN /\ None \notin Edit /\ None \notin 0..MaxSaves

UploadAndDownload == (t1 :> "upload") @@ (t2 :> "download")
OfTwoWindows == (t1 :> a) @@ (t2 :> b)

Early == INSTANCE TransferQueue
  WITH SessionOf <- [t \in Transfer |-> a], Session <- {a}, Chunks <- 1, RetryEarly <- TRUE

VARIABLES
  part,
  app, pc, chan, ded, released, epc, of, watches, dirs, local, debounce, uploads,
  remote, failed, saves, toSweep

Edits == INSTANCE SftpEdit WITH MaxActive <- 2, Twice <- FALSE
edits == <<app, pc, chan, ded, released, epc, of, watches, dirs, local, debounce, uploads,
           remote, failed, saves, toSweep>>

SftpInit ==
  /\ Edits!Init
  /\ \/ part = "files" /\ Init
     \/ part = "early" /\ Early!Init
     \/ part = "edits" /\ Init /\ sized = Transfer
FilesStep == part = "files" /\ Next /\ UNCHANGED <<part, edits>>
EarlyStep == part = "early" /\ Early!Next /\ UNCHANGED <<part, edits>>
EditsStep == part = "edits" /\ Edits!Next /\ UNCHANGED <<part, vars>>

SftpSpec ==
  /\ SftpInit /\ [][FilesStep \/ EarlyStep \/ EditsStep]_<<part, vars, edits>>
  /\ \A l \in Lane : WF_<<part, vars, edits>>(EarlyStep /\ Early!LaneStep(l) /\ Early!Requests(lane[l].t))

\* The type invariants of all
SftpTypeOK ==
  /\ part = "early" => Early!TypeOK
  /\ part = "files" => TypeOK
  /\ Edits!TypeOK

\* In both queues the slots in use are the runs that have not settled.
QueueSlotsAccounted == SlotsAccounted

\* Of two windows' transfers, one reported done is there whole, and no settled run leaves
\* its temp file; a destination is replaced by its whole file only, and removed only for it.
FilesAreWhole == part = "files" => DoneIsWhole /\ NoPartLeft
FilesReplacedWhole == [][part = "files" => ReplacedByWhole /\ RemovedForWhole]_vars

\* While anything runs the queue of one window moves.
EarlyQueueDrains == part = "early" => Early!QueueDrains

\* A session's own connection ends once and a copy of a remote file can be reached by what
\* removes it: whatever an SFTP session opens is closed or removed with it.
SessionsLeaveNothing == Edits!OwnConnectionEndsOnce /\ Edits!CopiesAreReachable

\* What was saved last in the editor gets to the server.
SavesArrive == Edits!SavesArrive
=============================================================================
