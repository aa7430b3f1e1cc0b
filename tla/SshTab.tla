------------------------------- MODULE SshTab -------------------------------
(***************************************************************************)
(* One terminal tab (src/src/renderer/hooks/useSshSession.ts) and what it   *)
(* sees of the main process: calls travel to main in order, replies and    *)
(* session events travel back in order, and the user, the retry timer and  *)
(* React act in between.  Main is what SshSessions promises of it: a       *)
(* connect settles once, an abort may miss an attempt (a hop in progress), *)
(* and a session ends with one event.                                      *)
(***************************************************************************)
EXTENDS Naturals, Sequences

CONSTANTS
  MaxConnects,   \* bound on the connect calls of the tab
  Hasty          \* may the user reconnect before an aborted attempt has settled?

ASSUME TabAssumption == MaxConnects \in Nat \ {0} /\ Hasty \in BOOLEAN

Attempt == 1 .. MaxConnects    \* an attempt and the session it may open
NoSession == 0

VARIABLES
  ref,         \* sessionIdRef
  connecting,  \* connectingRef
  userDisc,    \* userDisconnectedRef
  auto,        \* autoReconnectRef
  attempt,     \* attemptRef: retries scheduled since the last success
  timer,       \* is a retry scheduled?
  mount,       \* "alive", "leaving" (the deferred cleanup is pending) or "gone"
  status,      \* of the tab, in the sessions store
  calls,       \* connect calls made
  sess,        \* main's view of each attempt
  toMain, toTab

tab  == <<ref, connecting, userDisc, auto, attempt, timer, mount, status, calls>>
vars == <<tab, sess, toMain, toTab>>

Msg(k, a)   == [kind |-> k, id |-> a]
Send(ms)    == toMain' = toMain \o ms
Reply(ms)   == toTab' = toTab \o ms
InFlight(q, k, a) == \E n \in DOMAIN q : q[n] = Msg(k, a)
Alive       == mount = "alive"
Pending(a)  == \/ InFlight(toMain, "connect", a) \/ sess[a] = "connecting"
               \/ \E k \in {"ok", "failed", "aborted"} : InFlight(toTab, k, a)

-----------------------------------------------------------------------------
(* The hook *)

\* connect(), up to its await; nothing when one is running.
connect(rest) ==
  IF connecting \/ ~Alive
  THEN UNCHANGED <<connecting, userDisc, status, calls>> /\ Send(rest)
  ELSE /\ calls < MaxConnects /\ calls' = calls + 1
       /\ connecting' = TRUE /\ userDisc' = FALSE /\ status' = "connecting"
       /\ Send(rest \o <<Msg("connect", calls + 1)>>)

Init ==   \* mounted, its first connect() called
  /\ ref = NoSession /\ connecting = TRUE /\ userDisc = FALSE
  /\ auto = FALSE /\ attempt = 0 /\ timer = FALSE
  /\ mount = "alive" /\ status = "connecting" /\ calls = 1
  /\ sess = [a \in Attempt |-> "none"]
  /\ toMain = <<Msg("connect", 1)>> /\ toTab = <<>>

Reconnect ==   \* offered when disconnected or in error
  /\ Alive /\ status \in {"disconnected", "error"}
  /\ Hasty \/ \A a \in Attempt : ~Pending(a)
  /\ timer' = FALSE /\ attempt' = 0 /\ connect(<<>>)
  /\ UNCHANGED <<ref, auto, mount, sess, toTab>>

AbortConnect ==   \* offered while connecting
  /\ Alive /\ status = "connecting"
  /\ userDisc' = TRUE /\ timer' = FALSE /\ connecting' = FALSE
  /\ ref' = NoSession /\ status' = "disconnected"
  /\ Send(<<Msg("abort", NoSession)>>)
  /\ UNCHANGED <<auto, attempt, mount, calls, sess, toTab>>

Disconnect ==     \* offered when connected
  /\ Alive /\ status = "connected"
  /\ userDisc' = TRUE /\ timer' = FALSE /\ ref' = NoSession /\ status' = "disconnected"
  /\ IF ref # NoSession
     THEN Send(<<Msg("disconnect", ref)>>) /\ UNCHANGED connecting
     ELSE /\ connecting' = FALSE
          /\ Send(IF connecting THEN <<Msg("abort", NoSession)>> ELSE <<>>)
  /\ UNCHANGED <<auto, attempt, mount, calls, sess, toTab>>

SetAutoReconnect(on) ==
  /\ Alive /\ auto # on /\ auto' = on /\ timer' = (timer /\ on)
  /\ UNCHANGED <<ref, connecting, userDisc, attempt, mount, status, calls, sess, toMain, toTab>>

TimerFires ==
  /\ timer /\ timer' = FALSE /\ connect(<<>>)
  /\ UNCHANGED <<ref, auto, attempt, mount, sess, toTab>>

Unmount ==
  /\ Alive /\ mount' = "leaving"
  /\ UNCHANGED <<ref, connecting, userDisc, auto, attempt, timer, status, calls, sess, toMain, toTab>>
Cleanup_Unguarded ==   \* mutant: disconnects whatever the reference holds
  /\ mount = "leaving" /\ mount' = "gone"
  /\ userDisc' = TRUE /\ timer' = FALSE /\ ref' = NoSession /\ status' = "cleared"
  /\ Send(<<Msg("disconnect", ref)>>)
  /\ UNCHANGED <<connecting, auto, attempt, calls, sess, toTab>>
Cleanup ==   \* setTimeout 0 after the unmount
  /\ mount = "leaving" /\ mount' = "gone"
  /\ userDisc' = TRUE /\ timer' = FALSE /\ ref' = NoSession /\ status' = "cleared"
  /\ Send(IF ref # NoSession THEN <<Msg("disconnect", ref)>> ELSE <<>>)
  /\ UNCHANGED <<connecting, auto, attempt, calls, sess, toTab>>

\* The awaited call of connect() resolves with session a.
Resolved_Adopts(a) ==   \* mutant: the late result is not checked
  /\ connecting' = FALSE
  /\ ref' = a /\ attempt' = 0 /\ status' = "connected"
  /\ UNCHANGED <<userDisc, auto, timer, mount, calls, toMain>>
Resolved(a) ==
  /\ connecting' = FALSE
  /\ IF ~Alive \/ userDisc
     THEN Send(<<Msg("disconnect", a)>>) /\ UNCHANGED <<ref, attempt, status>>
     ELSE /\ ref' = a /\ attempt' = 0 /\ status' = "connected"
          /\ UNCHANGED toMain
  /\ UNCHANGED <<userDisc, auto, timer, mount, calls>>

Rejected(why) ==
  /\ connecting' = FALSE
  /\ status' = IF ~Alive THEN status
               ELSE IF why = "aborted" THEN "disconnected" ELSE "error"
  /\ UNCHANGED <<ref, userDisc, auto, attempt, timer, mount, calls, toMain>>

\* scheduleReconnect()
scheduleReconnect ==
  IF auto /\ ~userDisc /\ Alive /\ ~timer
  THEN timer' = TRUE /\ attempt' = attempt + 1
  ELSE UNCHANGED <<timer, attempt>>

\* onEvent() of the session of this tab; the subscription ends with the mount.
SessionEvent(m) ==
  /\ IF ~Alive \/ m.id # ref
     THEN UNCHANGED <<status, timer, attempt>>
     ELSE \/ m.kind = "disconnected" /\ status' = "disconnected" /\ scheduleReconnect
          \/ m.kind = "error" /\ status' = "error" /\ UNCHANGED <<timer, attempt>>
  /\ UNCHANGED <<ref, connecting, userDisc, auto, mount, calls, toMain>>

TabHears ==
  /\ toTab # <<>> /\ toTab' = Tail(toTab) /\ UNCHANGED sess
  /\ LET m == Head(toTab)
     IN  \/ m.kind = "ok" /\ Resolved(m.id)
         \/ m.kind \in {"failed", "aborted"} /\ Rejected(m.kind)
         \/ m.kind \in {"disconnected", "error"} /\ SessionEvent(m)

-----------------------------------------------------------------------------
(* The main process, as the tab sees it *)

\* An abort rejects the attempts it reaches, in the order of the sessions map.
Aborted(S) ==
  LET told[n \in 0..MaxConnects] ==
        IF n = 0 THEN <<>> ELSE IF n \in S THEN Append(told[n - 1], Msg("aborted", n)) ELSE told[n - 1]
  IN told[MaxConnects]
MainAborts ==
  \E S \in SUBSET {a \in Attempt : sess[a] = "connecting"} :
    sess' = [a \in Attempt |-> IF a \in S THEN "ended" ELSE sess[a]] /\ Reply(Aborted(S))

MainHears ==
  /\ toMain # <<>> /\ toMain' = Tail(toMain) /\ UNCHANGED tab
  /\ LET m == Head(toMain)
     IN  \/ /\ m.kind = "connect"
            /\ sess' = [sess EXCEPT ![m.id] = "connecting"] /\ UNCHANGED toTab
         \/ m.kind = "abort" /\ MainAborts
         \/ /\ m.kind = "disconnect" /\ sess[m.id] = "live"
            /\ sess' = [sess EXCEPT ![m.id] = "ended"]
            /\ Reply(<<Msg("disconnected", m.id)>>)
         \/ /\ m.kind = "disconnect" /\ sess[m.id] # "live" /\ UNCHANGED <<sess, toTab>>

MainSettles(a) ==
  /\ sess[a] = "connecting" /\ UNCHANGED <<tab, toMain>>
  /\ \/ sess' = [sess EXCEPT ![a] = "live"] /\ Reply(<<Msg("ok", a)>>)
     \/ sess' = [sess EXCEPT ![a] = "ended"] /\ Reply(<<Msg("failed", a)>>)

MainDrops(a) ==   \* the remote end, or the network
  /\ sess[a] = "live" /\ sess' = [sess EXCEPT ![a] = "ended"]
  /\ \E k \in {"disconnected", "error"} : Reply(<<Msg(k, a)>>)
  /\ UNCHANGED <<tab, toMain>>

Next ==
  \/ Reconnect \/ AbortConnect \/ Disconnect \/ TimerFires \/ Unmount \/ Cleanup
  \/ \E on \in BOOLEAN : SetAutoReconnect(on)
  \/ TabHears \/ MainHears
  \/ \E a \in Attempt : MainSettles(a) \/ MainDrops(a)

Spec == Init /\ [][Next]_vars

\* IPC delivers, main settles every attempt, the event loop runs the cleanup.
Fairness ==
  /\ WF_vars(TabHears) /\ WF_vars(MainHears) /\ WF_vars(Cleanup)
  /\ \A a \in Attempt : WF_vars(MainSettles(a))
FairSpec == Spec /\ Fairness

-----------------------------------------------------------------------------
(* Properties *)

Kinds == {"ok", "failed", "aborted", "disconnected", "error"}
TypeOK ==
  /\ ref \in {NoSession} \cup Attempt /\ calls \in Attempt
  /\ {connecting, userDisc, auto, timer} \subseteq BOOLEAN
  /\ attempt \in 0 .. MaxConnects
  /\ mount \in {"alive", "leaving", "gone"}
  /\ status \in {"connecting", "connected", "disconnected", "error", "cleared"}
  /\ sess \in [Attempt -> {"none", "connecting", "live", "ended"}]
  /\ toMain \in Seq([kind : {"connect", "disconnect"}, id : Attempt]
                    \cup {Msg("abort", NoSession)})
  /\ toTab \in Seq([kind : Kinds, id : Attempt])

\* 65-66, "don't leak the session in main": every open session is the one the
\* tab holds, or its result or its disconnect is still on the way.
SessionsAreHeld ==
  \A a \in Attempt : sess[a] = "live" =>
    \/ ref = a /\ mount # "gone"
    \/ InFlight(toTab, "ok", a) \/ InFlight(toMain, "disconnect", a)

\* What the tab shows is so: connected means open, but for an event on its way.
ShownIsOpen ==
  /\ Alive /\ status = "connected" =>
       ref # NoSession /\ ~userDisc /\ (sess[ref] = "live" \/ \E k \in Kinds : InFlight(toTab, k, ref))
  /\ Alive /\ status = "connecting" => connecting /\ \E a \in Attempt : Pending(a)

\* A retry is planned only for a tab that wants one, and never beside an attempt.
RetryIsWanted ==
  timer => auto /\ ~userDisc /\ ~connecting /\ \A a \in Attempt : ~Pending(a)

\* Closing a tab closes its sessions in main, connecting ones too.
ClosedTabEnds ==
  mount = "gone" ~> \A a \in Attempt : sess[a] \notin {"connecting", "live"}

\* 29, "optionally auto-reconnects with backoff", and 4, "the last value repeats":
\* when a retry has failed, the next one is planned.
AutoReconnectRetries ==
  Alive /\ auto /\ ~userDisc /\ attempt > 0 /\ status = "error" => timer \/ connecting
=============================================================================
