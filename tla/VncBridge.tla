----------------------------- MODULE VncBridge -----------------------------
(***************************************************************************)
(* VNC sessions (src/src/main/vnc/vnc-manager.ts) and the local bridge they *)
(* use (ws-bridge.ts).  openVnc() may connect a dedicated SSH session, then *)
(* registers a target under a one-time token; a websocket that presents the *)
(* token has the target's stream opened and relayed.  onClosed() of the     *)
(* target releases the dedicated session.  All bytes are left out.          *)
(***************************************************************************)
EXTENDS Naturals

CONSTANTS
  Req,    \* openVnc() calls, each with its token
  Conn,   \* websockets accepted by the bridge
  None

VARIABLES
  pc,        \* where each openVnc() is: "connecting" and "serving" are its awaits
  ded,       \* its dedicated session: "none", "live" or "ended"
  held,      \* calls whose onClosed() has a session to disconnect
  pending,   \* the pending map: registered, unused tokens
  expired,   \* tokens older than TOKEN_TTL_MS
  timers,    \* tokens whose sweep timer is still to fire
  told,      \* onClosed() calls per target, counted
  conn,      \* [req, at, ws] of each websocket; ws: is it open?
  starts,    \* listen() calls in flight
  bound,     \* servers that listen
  server     \* is the module's server set?

vars == <<pc, ded, held, pending, expired, timers, told, conn, starts, bound, server>>
tokens    == <<pending, expired, timers>>
listener  == <<starts, bound, server>>

Unused  == [req |-> None, at |-> "none", ws |-> FALSE]
Serving == {r \in Req : pc[r] = "serving"}
Bridges(r) == {c \in Conn : conn[c].req = r /\ conn[c].at \in {"opening", "relaying"}}

Init ==
  /\ pc = [r \in Req |-> "idle"] /\ ded = [r \in Req |-> "none"] /\ held = {}
  /\ pending = {} /\ expired = {} /\ timers = {}
  /\ told = [r \in Req |-> 0]
  /\ conn = [c \in Conn |-> Unused]
  /\ starts = 0 /\ bound = 0 /\ server = FALSE

-----------------------------------------------------------------------------
(* onClosed() *)

\* onClosed() of every target of R; the session manager ends a session once.
Closed(R) ==
  /\ told' = [r \in Req |-> told[r] + IF r \in R THEN 1 ELSE 0]
  /\ ded' = [r \in Req |-> IF r \in R \cap held THEN "ended" ELSE ded[r]]
  /\ held' = held \ R

\* sweepExpired()
sweepExpired == pending \cap expired

-----------------------------------------------------------------------------
(* openVnc() and the server *)

Register(R) ==
  /\ pending' = pending \cup R /\ timers' = timers \cup R /\ UNCHANGED expired
  /\ \E ok \in SUBSET R :   \* a password that cannot be decrypted rejects the call
       pc' = [r \in Req |-> IF r \in ok THEN "open" ELSE IF r \in R THEN "locked" ELSE pc[r]]

\* ensureServer() for call r: use the server, join its start, or start it.
ensureServer(r) ==
  IF server THEN Register({r}) /\ UNCHANGED listener
  ELSE /\ pc' = [pc EXCEPT ![r] = "serving"]
       /\ starts' = IF starts = 0 THEN 1 ELSE starts
       /\ UNCHANGED <<tokens, bound, server>>

\* Direct mode, or a terminal's client is borrowed; else connectDedicated().
Open(r) ==
  /\ pc[r] = "idle" /\ ensureServer(r) /\ UNCHANGED <<ded, held, told, conn>>
OpenDedicated(r) ==
  /\ pc[r] = "idle" /\ pc' = [pc EXCEPT ![r] = "connecting"]
  /\ UNCHANGED <<ded, held, tokens, told, conn, listener>>
Connected(r) ==
  /\ pc[r] = "connecting"
  /\ ded' = [ded EXCEPT ![r] = "live"] /\ held' = held \cup {r}
  /\ ensureServer(r) /\ UNCHANGED <<told, conn>>
ConnectFails(r) ==
  /\ pc[r] = "connecting" /\ pc' = [pc EXCEPT ![r] = "rejected"]
  /\ UNCHANGED <<ded, held, tokens, told, conn, listener>>

\* 'listening': every call that waits for the start registers its target.
Listening ==
  /\ starts > 0 /\ starts' = starts - 1 /\ bound' = bound + 1 /\ server' = TRUE
  /\ Register(Serving) /\ UNCHANGED <<ded, held, told, conn>>
ListenFails ==
  /\ starts > 0 /\ starts' = starts - 1
  /\ pc' = [r \in Req |-> IF r \in Serving THEN "failed" ELSE pc[r]]
  /\ UNCHANGED <<ded, held, tokens, told, conn, bound, server>>

\* A listener error after the start drops the server.
ServerError ==
  /\ server /\ server' = FALSE /\ bound' = bound - 1
  /\ UNCHANGED <<pc, ded, held, tokens, told, conn, starts>>

\* shutdownBridge(), before the session manager ends every session.
Shutdown ==
  /\ pending' = {} /\ UNCHANGED <<pc, expired, timers, conn, starts>>
  /\ told' = [r \in Req |-> told[r] + IF r \in pending THEN 1 ELSE 0]
  /\ held' = held \ pending
  /\ ded' = [r \in Req |-> IF ded[r] = "live" THEN "ended" ELSE ded[r]]
  /\ server' = FALSE /\ bound' = IF server THEN bound - 1 ELSE bound

-----------------------------------------------------------------------------
(* Tokens *)

Expires(r) ==
  /\ r \in pending \ expired /\ expired' = expired \cup {r}
  /\ UNCHANGED <<pc, ded, held, pending, timers, told, conn, listener>>

SweepTimer_OwnOnly(r) ==   \* mutant: the timer removes the token, not the session
  /\ r \in timers /\ (r \in pending => r \in expired) /\ timers' = timers \ {r}
  /\ pending' = pending \ sweepExpired
  /\ UNCHANGED <<pc, ded, held, expired, told, conn, listener>>
SweepTimer(r) ==
  /\ r \in timers /\ (r \in pending => r \in expired) /\ timers' = timers \ {r}
  /\ pending' = pending \ sweepExpired /\ Closed(sweepExpired)
  /\ UNCHANGED <<pc, expired, conn, listener>>

\* 'connection': a websocket that presents the token of r.
Accept(c, r) ==
  LET valid == r \in pending \ expired IN
  /\ server /\ conn[c] = Unused /\ pc[r] = "open"
  /\ pending' = (pending \ sweepExpired) \ {r} /\ Closed(sweepExpired)
  /\ conn' = [conn EXCEPT ![c] =
       [req |-> r, at |-> IF valid THEN "opening" ELSE "closed", ws |-> valid]]
  /\ UNCHANGED <<pc, expired, timers, listener>>

-----------------------------------------------------------------------------
(* bridge() *)

\* createStream() resolves: the relay is wired, whatever became of the websocket.
StreamOpens(c) ==
  /\ conn[c].at = "opening" /\ ded[conn[c].req] # "ended"
  /\ conn' = [conn EXCEPT ![c].at = "relaying"]
  /\ UNCHANGED <<pc, ded, held, tokens, told, listener>>

Ended(c) == conn' = [conn EXCEPT ![c].at = "closed", ![c].ws = FALSE] /\ Closed({conn[c].req})

StreamFails(c) ==
  /\ conn[c].at = "opening" /\ Ended(c) /\ UNCHANGED <<pc, tokens, listener>>

\* finish() from the stream's side, and from the websocket's.  Before the relay is
\* wired nobody listens to the websocket.
StreamCloses(c) ==
  /\ conn[c].at = "relaying" /\ Ended(c) /\ UNCHANGED <<pc, tokens, listener>>
WsCloses(c) ==
  /\ conn[c].ws
  /\ IF conn[c].at = "relaying" THEN Ended(c)
     ELSE conn' = [conn EXCEPT ![c].ws = FALSE] /\ UNCHANGED <<told, ded, held>>
  /\ UNCHANGED <<pc, tokens, listener>>

\* The dedicated session is torn down by the session manager: its connection
\* dropped, or its window was closed.
SessionDrops(r) ==
  /\ ded[r] = "live" /\ ded' = [ded EXCEPT ![r] = "ended"]
  /\ UNCHANGED <<pc, held, tokens, told, conn, listener>>

Next ==
  \/ \E r \in Req :
       Open(r) \/ OpenDedicated(r) \/ Connected(r) \/ ConnectFails(r) \/ Expires(r)
       \/ SweepTimer(r) \/ SessionDrops(r)
  \/ Listening \/ ListenFails \/ ServerError \/ Shutdown
  \/ \E c \in Conn, r \in Req : Accept(c, r)
  \/ \E c \in Conn : StreamOpens(c) \/ StreamFails(c) \/ StreamCloses(c) \/ WsCloses(c)

Spec == Init /\ [][Next]_vars

\* Timers fire; connects, listens and streams to the server answer or time out.
Fairness ==
  /\ \A r \in Req : WF_vars(Expires(r)) /\ WF_vars(SweepTimer(r))
                    /\ WF_vars(Connected(r) \/ ConnectFails(r))
  /\ WF_vars(Listening \/ ListenFails)
  /\ \A c \in Conn : WF_vars(StreamOpens(c) \/ StreamFails(c))
FairSpec == Spec /\ Fairness

-----------------------------------------------------------------------------
(* Properties *)

TypeOK ==
  /\ pc \in [Req -> {"idle", "connecting", "serving", "open", "locked", "rejected", "failed"}]
  /\ ded \in [Req -> {"none", "live", "ended"}]
  /\ held \subseteq Req /\ pending \subseteq Req /\ expired \subseteq Req /\ timers \subseteq Req
  /\ told \in [Req -> Nat]
  /\ conn \in [Conn -> [req : Req, at : {"opening", "relaying", "closed"}, ws : BOOLEAN]
                       \cup {Unused}]
  /\ starts \in Nat /\ bound \in Nat /\ server \in BOOLEAN

\* 241-242, "onClosed fires either way, exactly once per registration outcome": never
\* twice, and once when neither the token nor a bridge is left; and the token of a
\* bridge serves no other (16-20).
ClosedOnce ==
  \A r \in Req :
    /\ told[r] <= 1
    /\ pc[r] \in {"open", "locked"} /\ r \notin pending /\ Bridges(r) = {} => told[r] = 1
    /\ Bridges(r) # {} => r \notin pending /\ told[r] = 0 /\ \E c \in Conn : Bridges(r) = {c}

\* A dedicated session is live only for a call in progress, a token that may still
\* be used, or a bridge (vnc-manager.ts 16-19) -- or a call that could not register.
SessionInUse ==
  \A r \in Req : ded[r] = "live" =>
    pc[r] \in {"serving", "failed"} \/ r \in pending \/ Bridges(r) # {}

\* The listener the module knows is the only one: calls that overlap share its
\* start (67-73), and one that is lost to an error is not used again.
OneListener == bound = IF server THEN 1 ELSE 0

\* An unused token goes away, with its session, without any further call.
TokensResolved ==
  \A r \in Req : pc[r] \in {"open", "locked"} => r \notin pending /\ (told[r] = 1 \/ Bridges(r) # {})
TokenResolved == []<>TokensResolved

-----------------------------------------------------------------------------
(* What comments of the code say and the code does not do *)

\* vnc-manager.ts 18-19, the dedicated session is "torn down when the bridged
\* connection closes": a websocket that closes while createStream() is awaited has
\* no listener yet, and the relay is wired to it afterwards.
ClosedSocketIsNotRelayed == \A c \in Conn : conn[c].at = "relaying" => conn[c].ws

\* The same lines: no session is left to a call that failed.
FailedOpenHoldsNoSession == \A r \in Req : pc[r] = "failed" => ded[r] # "live"
=============================================================================
