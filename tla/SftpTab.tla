------------------------------ MODULE SftpTab ------------------------------
(***************************************************************************)
(* A file browser tab: the hook that opens its session                     *)
(* (src/src/renderer/hooks/useSftpSession.ts) and the browser on it        *)
(* (components/sftp/SftpTab.tsx).  Main answers the calls in any order, as  *)
(* the server does; directories and names are members of small sets.       *)
(***************************************************************************)
EXTENDS Naturals, FiniteSets

CONSTANTS
  MaxOpens,   \* bound on the sessions the tab asks for
  Dir, Name,  \* the server's directories, and the names files may have
  Start,      \* the directory the browser opens at
  MaxLists,   \* bound on the listings on their way
  MaxActions, \* bound on the actions of a behaviour
  Hasty,      \* the user retries before an aborted attempt has been answered
  None

Open == 1..MaxOpens
Kind == {"mkdir", "rename", "chmod", "delete"}

VARIABLES
  asked,    \* how far main is with each open(): none, opening, answered, over
  live,     \* sessions that are open in main
  status,   \* of the hook
  ref,      \* sftpIdRef and the sftpId of its state, or 0
  aborted,  \* abortedRef
  mount,    \* "alive", "leaving" (the deferred cleanup is pending), "gone"
  path, entries, listError,
  lists,    \* listings on their way: the directory, and what the server has read
  dialog,   \* None, or its kind and the entry it is about
  actions,  \* actions on their way, with the directory shown when confirmed
  acted,    \* how many there were
  remote,   \* the files there are
  calm      \* history: nothing was on its way whenever the user did something

hook == <<asked, live, status, ref, aborted, mount>>
browser == <<path, entries, listError, lists, dialog, actions, acted, remote, calm>>
vars == <<hook, browser>>

Entry == Dir \X Name
Alive == mount = "alive"
Ready == Alive /\ status = "ready"
Opens == {o \in Open : asked[o] # "none"}

Init ==
  /\ asked = [o \in Open |-> IF o = 1 THEN "opening" ELSE "none"]
  /\ live = {} /\ status = "connecting" /\ ref = 0 /\ aborted = FALSE /\ mount = "alive"
  /\ path = Start /\ entries = {} /\ listError = FALSE /\ calm = TRUE /\ lists = {} /\ dialog = None /\ actions = {} /\ acted = 0
  /\ remote = Dir \X {n \in Name : n = CHOOSE m \in Name : TRUE}

-----------------------------------------------------------------------------
(* The session *)

\* main: sftpManager.open() succeeds, or fails; its answer is on its way.
MainOpens(o) ==
  /\ asked[o] = "opening"
  /\ \/ asked' = [asked EXCEPT ![o] = "opened"] /\ live' = live \cup {o}
     \/ \E why \in {"failed", "aborted"} : asked' = [asked EXCEPT ![o] = why] /\ UNCHANGED live
  /\ UNCHANGED <<status, ref, aborted, mount, browser>>

abortConnect ==
  /\ Alive /\ status = "connecting"
  /\ aborted' = TRUE /\ ref' = 0 /\ status' = "aborted"
  /\ UNCHANGED <<asked, live, mount, browser>>

\* A new attempt runs the effect again: its cleanup finds the tab alive.
reconnect ==
  /\ Alive /\ status \in {"error", "aborted"} /\ Cardinality(Opens) < MaxOpens
  /\ Hasty \/ \A o \in Opens : asked[o] = "over"
  /\ aborted' = FALSE /\ status' = "connecting"
  /\ asked' = [asked EXCEPT ![Cardinality(Opens) + 1] = "opening"]
  /\ UNCHANGED <<live, ref, mount, browser>>

\* The browser of a session lists its directory.
List(d) ==
  listError' = FALSE /\ lists' = lists \cup {[of |-> d, read |-> FALSE, rows |-> {}]}

OpenAnswered_Adopts(o) ==   \* mutant: a late answer is taken
  /\ asked[o] = "opened" /\ asked' = [asked EXCEPT ![o] = "over"]
  /\ ref' = o /\ status' = "ready" /\ List(path) /\ UNCHANGED live
  /\ UNCHANGED <<aborted, mount, path, entries, dialog, actions, acted, remote, calm>>
OpenAnswered(o) ==
  /\ asked[o] = "opened" /\ asked' = [asked EXCEPT ![o] = "over"]
  /\ IF ~Alive \/ aborted
     THEN live' = live \ {o} /\ UNCHANGED <<status, ref, listError, lists>>
     ELSE ref' = o /\ status' = "ready" /\ List(path) /\ UNCHANGED live
  /\ UNCHANGED <<aborted, mount, path, entries, dialog, actions, acted, remote, calm>>

OpenRejected(o) ==
  /\ asked[o] \in {"failed", "aborted"} /\ asked' = [asked EXCEPT ![o] = "over"]
  /\ status' = IF ~Alive \/ aborted THEN status
               ELSE IF asked[o] = "aborted" THEN "aborted" ELSE "error"
  /\ UNCHANGED <<live, ref, aborted, mount, browser>>

Unmount ==
  /\ Alive /\ mount' = "leaving"
  /\ UNCHANGED <<asked, live, status, ref, aborted, browser>>
Cleanup ==   \* setTimeout 0 after the unmount
  /\ mount = "leaving" /\ mount' = "gone" /\ ref' = 0 /\ live' = live \ {ref}
  /\ UNCHANGED <<asked, status, aborted, browser>>

-----------------------------------------------------------------------------
(* The browser *)

UserActs == calm' = (calm /\ lists = {} /\ actions = {})
Browse(v) == UNCHANGED <<hook, v>>

setPath(d) ==   \* a breadcrumb, a directory's row, or ".."; the effect refreshes
  /\ Ready /\ dialog = None /\ d # path /\ Cardinality(lists) < MaxLists /\ UserActs
  /\ path' = d /\ List(d)
  /\ Browse(<<entries, dialog, actions, acted, remote>>)

refresh ==
  /\ Ready /\ dialog = None /\ Cardinality(lists) < MaxLists /\ UserActs
  /\ List(path) /\ Browse(<<path, entries, dialog, actions, acted, remote>>)

ServerLists(l) ==
  /\ l \in lists /\ ~l.read
  /\ lists' = (lists \ {l}) \cup
       {[l EXCEPT !.read = TRUE, !.rows = {e \in remote : e[1] = l.of}]}
  /\ Browse(<<path, entries, listError, dialog, actions, acted, remote, calm>>)

\* The answer of a listing is set, whichever directory is shown by now; or it fails.
Listed(l) ==
  /\ l \in lists /\ l.read /\ lists' = lists \ {l}
  /\ \/ Ready /\ entries' = l.rows /\ UNCHANGED listError
     \/ Ready /\ listError' = TRUE /\ UNCHANGED entries
     \/ ~Ready /\ UNCHANGED <<entries, listError>>
  /\ Browse(<<path, dialog, actions, acted, remote, calm>>)

OpenDialog(k, e) ==
  /\ Ready /\ dialog = None /\ UserActs /\ acted < MaxActions
  /\ IF k = "mkdir" THEN e = None ELSE e \in entries /\ ~listError
  /\ dialog' = [kind |-> k, entry |-> e]
  /\ Browse(<<path, entries, listError, lists, actions, acted, remote>>)

CloseDialog ==
  /\ dialog # None /\ UserActs
  /\ dialog' = None /\ Browse(<<path, entries, listError, lists, actions, acted, remote>>)

\* Confirmed: the row's own path is used, for a new folder the one shown.  The action
\* keeps the path of its time for the refresh that follows.
runAction_ByName(n) ==   \* mutant: the row's name in the directory shown
  /\ Ready /\ dialog # None /\ acted < MaxActions /\ acted' = acted + 1
  /\ actions' = actions \cup
       {[kind |-> dialog.kind, of |-> <<path, IF dialog.kind = "mkdir" THEN n ELSE dialog.entry[2]>>,
         to |-> <<path, n>>, row |-> dialog.entry, path |-> path]}
  /\ UserActs /\ Browse(<<path, entries, listError, lists, dialog, remote>>)
runAction(n) ==
  /\ Ready /\ dialog # None /\ acted < MaxActions /\ acted' = acted + 1
  /\ LET e == IF dialog.kind = "mkdir" THEN <<path, n>> ELSE dialog.entry
     IN actions' = actions \cup
          {[kind |-> dialog.kind, of |-> e, to |-> <<e[1], n>>, row |-> dialog.entry, path |-> path]}
  /\ UserActs /\ Browse(<<path, entries, listError, lists, dialog, remote>>)

\* The server does it: the dialog that is open closes, and the list is asked for again.
ActionDone(a) ==
  /\ a \in actions /\ actions' = actions \ {a} /\ (a.kind = "mkdir" \/ a.of \in remote)
  /\ remote' = CASE a.kind = "mkdir" -> remote \cup {a.of}
                 [] a.kind = "rename" -> (remote \ {a.of}) \cup {a.to}
                 [] a.kind = "delete" -> remote \ {a.of}
                 [] OTHER -> remote
  /\ dialog' = None /\ List(a.path) /\ Browse(<<path, entries, acted, calm>>)

ActionFails(a) ==   \* shown in the dialog that is open, and nothing else
  /\ a \in actions /\ actions' = actions \ {a}
  /\ Browse(<<path, entries, listError, lists, dialog, acted, remote, calm>>)

Next ==
  \/ \E o \in Open : MainOpens(o) \/ OpenAnswered(o) \/ OpenRejected(o)
  \/ abortConnect \/ reconnect \/ Unmount \/ Cleanup
  \/ refresh \/ CloseDialog
  \/ \E d \in Dir : setPath(d)
  \/ \E l \in lists : ServerLists(l) \/ Listed(l)
  \/ \E k \in Kind, e \in Entry \cup {None} : OpenDialog(k, e)
  \/ \E n \in Name : runAction(n)
  \/ \E a \in actions : ActionDone(a) \/ ActionFails(a)

Spec == Init /\ [][Next]_vars

-----------------------------------------------------------------------------
(* Properties *)

TypeOK ==
  /\ asked \in [Open -> {"none", "opening", "opened", "failed", "aborted", "over"}]
  /\ live \in SUBSET Open /\ ref \in Open \cup {0} /\ aborted \in BOOLEAN
  /\ status \in {"connecting", "ready", "error", "aborted"}
  /\ mount \in {"alive", "leaving", "gone"}
  /\ path \in Dir /\ listError \in BOOLEAN /\ calm \in BOOLEAN /\ entries \in SUBSET Entry /\ remote \in SUBSET Entry
  /\ \A l \in lists : l.of \in Dir /\ l.rows \in SUBSET Entry
  /\ dialog # None => dialog.kind \in Kind /\ dialog.entry \in Entry \cup {None}

\* A session main has open is the one the tab holds, or its answer is on its way to a
\* hook that takes or closes it: whatever is aborted, retried and unmounted, none is left
\* (useSftpSession.ts 67-70; "closes an orphaned session when unmounted while connecting").
TabHoldsSessions ==
  \A o \in live : (o = ref /\ mount # "gone") \/ asked[o] = "opened"

\* An action of a dialog is on the file of the row it was opened on, though the browser may
\* have been moved, listed again or shown another directory's answer meanwhile.
ActsOnItsRow ==
  \A a \in actions : a.kind # "mkdir" => a.of = a.row

\* Of a user who waits for every answer, the browser shows the directory its breadcrumbs
\* name as the server has it, after any sequence of moves, actions and failures
\* (SftpTab.tsx 110-124, 166-175).
ShowsItsPath ==
  Ready /\ calm /\ lists = {} /\ actions = {} /\ ~listError
  => entries = {e \in remote : e[1] = path}
=============================================================================
