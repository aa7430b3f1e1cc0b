--------------------------- MODULE ServicesProofs ---------------------------
(***************************************************************************)
(* Proofs about the services of main: what MCServices promises of the RDP   *)
(* and the VNC bridge holds for any calls, websockets, hosts, addresses and  *)
(* certificates; what it promises of the commands of agents, of runs on many  *)
(* hosts and of the tests of hosts, for any calls, runs and limits; the retry *)
(* ceiling and the delays of Reconnect for every policy and every number of   *)
(* drops, failures, give-ups and retries by hand; and the next runs of        *)
(* Routines for every set of routines and schedules.                          *)
(***************************************************************************)
EXTENDS MCServices, TLAPS, FiniteSetTheorems, WellFoundedInduction

-----------------------------------------------------------------------------
(* The RDP proxy *)

\* What a state of the proxy is, but for the certificates presented to it.
RdpTypes ==
  /\ row \in [RdpHost -> Addr \cup {None}]
  /\ pins \subseteq Addr \X Cert
  /\ rdpHost \in [Req -> RdpHost \cup {None}]
  /\ pending \subseteq Req /\ told \in [Req -> Nat]
  /\ ws \in [Req -> {"none", "open", "closing", "closed"}]
  /\ step \in [Req -> {"none", "waiting", "connecting", "confirm", "tls", "relay", "over"}]
  /\ closed \subseteq Req /\ stream \in [Req -> {"none", "open", "closed"}]
  /\ cert \in [Req -> Cert \cup {None}]

\* A token is unused until a websocket presents it, and only then a connection has steps.
TokenFirst ==
  \A r \in Req :
    /\ rdpHost[r] = None => r \notin pending /\ ws[r] = "none"
    /\ r \in pending => ws[r] = "none"
    /\ ws[r] = "none" => step[r] = "none" /\ r \notin closed
    /\ step[r] = "none" => ws[r] = "none"

RdpInv == RdpTypes /\ TokenFirst /\ Rdp!ClosedOnce /\ Rdp!RelayIsPinned

\* No target is registered at first.
LEMMA RdpInvInit == Rdp!Init => RdpInv
  BY DEF Rdp!Init, RdpInv, RdpTypes, TokenFirst, Rdp!ClosedOnce, Rdp!RelayIsPinned

\* finish() tells the end once and lets go of the stream.
LEMMA FinishInv ==
  ASSUME RdpInv, NEW r \in Req, NEW upon \in {"waiting", "connecting", "confirm", "tls", "over"}, NEW w \in {"closing", "closed"},
         step[r] # "none", Rdp!finish(r, upon, w),
         UNCHANGED <<row, pins, presented, rdpHost, target, pending, cert>>
  PROVE  RdpInv'
<1> USE DEF RdpInv, RdpTypes, Rdp!finish, Rdp!Told
<1>1. RdpTypes'
  OBVIOUS
<1>2. TokenFirst'
  BY DEF TokenFirst
<1>3. Rdp!ClosedOnce'
  BY DEF TokenFirst, Rdp!ClosedOnce
<1>4. Rdp!RelayIsPinned'
  BY DEF Rdp!RelayIsPinned
<1> QED BY <1>1, <1>2, <1>3, <1>4

\* Every step of the proxy, of a host's row and of a websocket keeps it.
LEMMA RdpInvNext == RdpInv /\ [Rdp!Next]_rdp => RdpInv'
<1> SUFFICES ASSUME RdpInv, [Rdp!Next]_rdp PROVE RdpInv'
  OBVIOUS
<1> USE DEF Rdp!call, Rdp!trust, Rdp!Handshake
<1>1. ASSUME NEW h \in RdpHost, NEW a \in Addr \cup {None}, Rdp!EditHost(h, a) PROVE RdpInv'
  BY <1>1 DEF Rdp!EditHost, RdpInv, RdpTypes, TokenFirst, Rdp!ClosedOnce, Rdp!RelayIsPinned
<1>2. ASSUME NEW R \in SUBSET pending, Rdp!Dropped(R) PROVE RdpInv'
  <2> USE <1>2 DEF Rdp!Dropped, Rdp!Told, RdpInv, RdpTypes
  <2>1. RdpTypes'
    OBVIOUS
  <2>2. TokenFirst'
    BY DEF TokenFirst
  <2>3. Rdp!ClosedOnce'
    BY DEF TokenFirst, Rdp!ClosedOnce
  <2>4. Rdp!RelayIsPinned'
    BY DEF Rdp!RelayIsPinned
  <2> QED BY <2>1, <2>2, <2>3, <2>4
<1>3. ASSUME NEW r \in Req, NEW h \in RdpHost, Rdp!openRdp(r, h) PROVE RdpInv'
  <2> USE <1>3, RdpHostAssumption DEF Rdp!openRdp, RdpInv, RdpTypes
  <2>1. RdpTypes'
    OBVIOUS
  <2>2. TokenFirst' /\ Rdp!ClosedOnce'
    BY DEF TokenFirst, Rdp!ClosedOnce
  <2>3. Rdp!RelayIsPinned'
    BY DEF Rdp!RelayIsPinned
  <2> QED BY <2>1, <2>2, <2>3
<1>4. ASSUME NEW r \in Req, Rdp!Accept(r) PROVE RdpInv'
  <2> USE <1>4 DEF Rdp!Accept, RdpInv, RdpTypes
  <2>1. RdpTypes'
    OBVIOUS
  <2>2. TokenFirst' /\ Rdp!ClosedOnce'
    BY DEF TokenFirst, Rdp!ClosedOnce
  <2>3. Rdp!RelayIsPinned'
    BY DEF Rdp!RelayIsPinned
  <2> QED BY <2>1, <2>2, <2>3
<1>5. ASSUME NEW r \in Req, Rdp!Request(r) \/ Rdp!Connected(r) \/ Rdp!Confirmed(r) PROVE RdpInv'
  <2> USE <1>5 DEF Rdp!Request, Rdp!Connected, Rdp!Confirmed, RdpInv, RdpTypes
  <2>1. RdpTypes'
    OBVIOUS
  <2>2. TokenFirst' /\ Rdp!ClosedOnce'
    BY DEF TokenFirst, Rdp!ClosedOnce
  <2>3. Rdp!RelayIsPinned'
    BY DEF Rdp!RelayIsPinned
  <2> QED BY <2>1, <2>2, <2>3
<1>6. ASSUME NEW r \in Req, Rdp!BadRequest(r) \/ Rdp!HandshakeFails(r) \/ Rdp!HandshakeTimeout(r) PROVE RdpInv'
  <2>1. PICK upon \in {"waiting", "connecting", "confirm", "tls", "over"} :
          Rdp!finish(r, upon, "closing") /\ step[r] # "none"
    BY <1>6 DEF Rdp!BadRequest, Rdp!HandshakeFails, Rdp!HandshakeTimeout, Rdp!fail
  <2>2. UNCHANGED <<row, pins, presented, rdpHost, target, pending, cert>>
    BY <1>6 DEF Rdp!BadRequest, Rdp!HandshakeFails, Rdp!HandshakeTimeout
  <2> QED BY <2>1, <2>2, FinishInv
<1>7. ASSUME NEW r \in Req, Rdp!WsCloses(r) PROVE RdpInv'
  <2>0. UNCHANGED <<row, pins, presented, rdpHost, target, pending, cert>>
    BY <1>7 DEF Rdp!WsCloses
  <2>1. CASE ws[r] = "open"
    <3>1. PICK upon \in {"waiting", "connecting", "confirm", "tls", "over"} :
            Rdp!finish(r, upon, "closed") /\ step[r] # "none"
      BY <1>7, <2>1 DEF Rdp!WsCloses, RdpInv, RdpTypes, TokenFirst
    <3> QED BY <2>0, <3>1, FinishInv
  <2>2. CASE ws[r] # "open"
    <3> USE <1>7, <2>0, <2>2 DEF Rdp!WsCloses, RdpInv, RdpTypes
    <3>1. RdpTypes'
      OBVIOUS
    <3>2. TokenFirst' /\ Rdp!ClosedOnce'
      BY DEF TokenFirst, Rdp!ClosedOnce
    <3>3. Rdp!RelayIsPinned'
      BY DEF Rdp!RelayIsPinned
    <3> QED BY <3>1, <3>2, <3>3
  <2> QED BY <2>1, <2>2
<1>8. ASSUME NEW r \in Req, Rdp!StreamCloses(r) PROVE RdpInv'
  <2>0. UNCHANGED <<row, pins, presented, rdpHost, target, pending, cert>>
    BY <1>8 DEF Rdp!StreamCloses
  <2>1. CASE step[r] = "relay" /\ Rdp!finish(r, "over", "closing")
    BY <2>0, <2>1, FinishInv
  <2>2. CASE r \in closed /\ stream' = [stream EXCEPT ![r] = "closed"]
             /\ step' = [step EXCEPT ![r] = "over"] /\ UNCHANGED <<told, ws, closed>>
    <3> USE <2>0, <2>2 DEF RdpInv, RdpTypes
    <3>1. RdpTypes'
      OBVIOUS
    <3>2. TokenFirst' /\ Rdp!ClosedOnce'
      BY DEF TokenFirst, Rdp!ClosedOnce
    <3>3. Rdp!RelayIsPinned'
      BY DEF Rdp!RelayIsPinned
    <3> QED BY <3>1, <3>2, <3>3
  <2> QED BY <1>8, <2>1, <2>2 DEF Rdp!StreamCloses
<1>9. ASSUME NEW r \in Req, NEW c \in Cert, Rdp!Secured(r, c) PROVE RdpInv'
  <2> DEFINE a == row[rdpHost[r]]
  <2> USE <1>9
  <2>0. step[r] = "tls" /\ stream[r] = "open" /\ cert' = [cert EXCEPT ![r] = c]
        /\ UNCHANGED <<row, rdpHost, target, pending>>
    BY DEF Rdp!Secured
  <2>1. CASE r \in closed
    <3> USE <2>0, <2>1 DEF Rdp!Secured, RdpInv, RdpTypes
    <3>1. RdpTypes'
      OBVIOUS
    <3>2. TokenFirst' /\ Rdp!ClosedOnce'
      BY DEF TokenFirst, Rdp!ClosedOnce
    <3>3. Rdp!RelayIsPinned'
      BY DEF Rdp!RelayIsPinned
    <3> QED BY <3>1, <3>2, <3>3
  <2>2. CASE r \notin closed /\ Rdp!verifyCert(r, c)
    <3>1. pins' = pins \cup {<<a, c>>} /\ step' = [step EXCEPT ![r] = "relay"]
          /\ UNCHANGED <<told, ws, closed, stream>>
      BY <2>2 DEF Rdp!Secured
    <3>2. rdpHost[r] \in RdpHost
      BY <2>0 DEF RdpInv, RdpTypes, TokenFirst
    <3>3. a \in Addr /\ \A d \in Cert : <<a, d>> \in pins => d = c
      BY <2>2, <3>2 DEF Rdp!verifyCert, Rdp!Known, RdpInv, RdpTypes
    <3> HIDE DEF a
    <3> USE <2>0, <2>2, <3>1, <3>3 DEF RdpInv, RdpTypes
    <3>4. RdpTypes'
      OBVIOUS
    <3>5. TokenFirst' /\ Rdp!ClosedOnce'
      BY DEF TokenFirst, Rdp!ClosedOnce
    <3>6. \A p \in pins', q \in pins' : p[1] = q[1] => p = q
      BY DEF Rdp!RelayIsPinned
    <3>7. \A s \in Req : step'[s] = "relay" =>
            (\E b \in Addr : <<b, cert'[s]>> \in pins') /\ s \notin closed' /\ stream'[s] = "open"
      BY DEF Rdp!RelayIsPinned
    <3> QED BY <3>4, <3>5, <3>6, <3>7 DEF Rdp!RelayIsPinned
  <2>3. CASE r \notin closed /\ ~Rdp!verifyCert(r, c)
    <3> USE <2>0, <2>3 DEF RdpInv, RdpTypes, Rdp!finish, Rdp!Told
    <3>1. Rdp!finish(r, "over", "closing") /\ UNCHANGED pins
      BY DEF Rdp!Secured, Rdp!fail
    <3>2. RdpTypes'
      BY <3>1
    <3>3. TokenFirst'
      BY <3>1 DEF TokenFirst
    <3>4. Rdp!ClosedOnce'
      BY <3>1 DEF TokenFirst, Rdp!ClosedOnce
    <3>5. Rdp!RelayIsPinned'
      BY <3>1 DEF Rdp!RelayIsPinned
    <3> QED BY <3>2, <3>3, <3>4, <3>5
  <2> QED BY <2>1, <2>2, <2>3
<1>10. CASE UNCHANGED rdp
  BY <1>10 DEF rdp, RdpInv, RdpTypes, TokenFirst, Rdp!ClosedOnce, Rdp!RelayIsPinned
<1> QED
  BY <1>1, <1>2, <1>3, <1>4, <1>5, <1>6, <1>7, <1>8, <1>9, <1>10 DEF Rdp!Next

-----------------------------------------------------------------------------
(* The VNC bridge *)

\* The websocket c is bridged, or about to be.
Bridged(c) == conn[c].at \in {"opening", "relaying"}

\* What a state of the bridge is, but for the timers of its tokens.
VncTypes ==
  /\ pc \in [Req -> {"idle", "connecting", "serving", "open", "locked", "rejected", "failed"}]
  /\ ded \in [Req -> {"none", "live", "ended"}]
  /\ held \subseteq Req /\ vncPending \subseteq Req
  /\ vncTold \in [Req -> Nat]
  /\ conn \in [Conn -> [req : Req \cup {None}, ws : BOOLEAN,
                        at : {"none", "opening", "relaying", "closed"}]]
  /\ starts \in {0, 1} /\ bound \in Nat /\ server \in BOOLEAN

\* A target is registered in its call's last step; its token, or the one bridge the token was
\* spent on, stands for the end that is still to be told, and nothing else does.
OneClaim ==
  /\ \A r \in vncPending : pc[r] \in {"open", "locked"} /\ \A c \in Conn : Bridged(c) => conn[c].req # r
  /\ \A c, d \in Conn : Bridged(c) /\ Bridged(d) /\ conn[c].req = conn[d].req => c = d
  /\ \A c \in Conn : Bridged(c) => conn[c].req \in Req /\ pc[conn[c].req] \in {"open", "locked"}
  /\ \A r \in Req : vncTold[r] =
       IF pc[r] \in {"open", "locked"} /\ r \notin vncPending /\ \A c \in Conn : Bridged(c) => conn[c].req # r
       THEN 1 ELSE 0

\* A live session is one that onClosed() knows, and it has a use.
LiveIsHeld ==
  \A r \in Req : ded[r] = "live" =>
    /\ r \in held
    /\ \/ pc[r] \in {"serving", "failed"} \/ r \in vncPending
       \/ \E c \in Conn : Bridged(c) /\ conn[c].req = r

\* A start is not in flight once the server is set.
ListenerInv == (server => starts = 0) /\ Vnc!OneListener

VncInv == VncTypes /\ OneClaim /\ LiveIsHeld /\ ListenerInv

\* No call has registered at first, and nothing listens.
LEMMA VncInvInit == Vnc!Init => VncInv
<1> SUFFICES ASSUME Vnc!Init PROVE VncInv
  OBVIOUS
<1> USE DEF Vnc!Init, Vnc!Unused, VncTypes
<1>1. VncTypes
  OBVIOUS
<1>2. OneClaim /\ LiveIsHeld
  BY DEF OneClaim, LiveIsHeld, Bridged
<1>3. ListenerInv
  BY DEF ListenerInv, Vnc!OneListener
<1> QED BY <1>1, <1>2, <1>3 DEF VncInv

\* What the invariant says of the bridges
LEMMA VncInvHolds == VncInv => Vnc!ClosedOnce /\ Vnc!SessionInUse /\ Vnc!OneListener
<1> SUFFICES ASSUME VncInv PROVE Vnc!ClosedOnce /\ Vnc!SessionInUse /\ Vnc!OneListener
  OBVIOUS
<1> USE DEF VncInv, VncTypes
<1>1. ASSUME NEW r \in Req, NEW c \in Vnc!Bridges(r) PROVE Vnc!Bridges(r) = {c}
  BY DEF Vnc!Bridges, OneClaim, Bridged
<1>2. Vnc!ClosedOnce
  BY <1>1 DEF Vnc!ClosedOnce, Vnc!Bridges, OneClaim, Bridged
<1>3. Vnc!SessionInUse
  BY DEF Vnc!SessionInUse, Vnc!Bridges, LiveIsHeld, Bridged
<1> QED BY <1>2, <1>3 DEF ListenerInv

\* Calls that register have told nothing and have no bridge yet.
LEMMA RegisterInv ==
  ASSUME VncInv, NEW R \in SUBSET Req, \A r \in R : pc[r] \in {"idle", "connecting", "serving"},
         Vnc!Register(R), NEW L \in SUBSET R, UNCHANGED <<vncTold, conn>>,
         ded' = [r \in Req |-> IF r \in L THEN "live" ELSE ded[r]], held' = held \cup L
  PROVE  pc' \in [Req -> {"idle", "connecting", "serving", "open", "locked", "rejected", "failed"}]
         /\ vncPending' \subseteq Req /\ OneClaim' /\ LiveIsHeld'
<1> USE DEF VncInv, VncTypes
<1>1. PICK ok \in SUBSET R :
        pc' = [r \in Req |-> IF r \in ok THEN "open" ELSE IF r \in R THEN "locked" ELSE pc[r]]
  BY DEF Vnc!Register
<1>2. vncPending' = vncPending \cup R
  BY DEF Vnc!Register
<1>3. \A r \in Req : pc'[r] = IF r \in ok THEN "open" ELSE IF r \in R THEN "locked" ELSE pc[r]
  BY <1>1
<1>4. pc' \in [Req -> {"idle", "connecting", "serving", "open", "locked", "rejected", "failed"}]
  BY <1>1
<1>5. OneClaim'
  BY <1>2, <1>3 DEF OneClaim, Bridged
<1>6. LiveIsHeld'
  BY <1>2, <1>3 DEF LiveIsHeld, Bridged
<1> QED BY <1>2, <1>4, <1>5, <1>6

\* Whatever takes the claims of R away tells them their end.
LEMMA ClosedInv ==
  ASSUME VncInv, NEW R \in SUBSET Req, Vnc!Closed(R), UNCHANGED <<pc, starts, bound, server>>,
         conn' \in [Conn -> [req : Req \cup {None}, ws : BOOLEAN,
                             at : {"none", "opening", "relaying", "closed"}]],
         vncPending' \subseteq vncPending,
         \A c \in Conn : Bridged(c)' =>
           (conn'[c].req = conn[c].req /\ Bridged(c)) \/ conn'[c].req \in vncPending \ vncPending',
         \A c, d \in Conn : Bridged(c)' /\ Bridged(d)' /\ conn'[c].req = conn'[d].req => c = d,
         \A r \in R : (r \in vncPending \/ \E c \in Conn : Bridged(c) /\ conn[c].req = r)
                      /\ r \notin vncPending' /\ \A c \in Conn : Bridged(c)' => conn'[c].req # r,
         \A r \in Req \ R : (r \in vncPending \/ \E c \in Conn : Bridged(c) /\ conn[c].req = r)
                      => (r \in vncPending' \/ \E c \in Conn : Bridged(c)' /\ conn'[c].req = r)
  PROVE  VncInv'
<1> USE DEF VncInv, VncTypes, Vnc!Closed
<1>1. VncTypes'
  OBVIOUS
<1>2. OneClaim'
  <2>1. \A r \in Req : vncTold'[r] = vncTold[r] + IF r \in R THEN 1 ELSE 0
    OBVIOUS
  <2>2. \A r \in vncPending' : pc'[r] \in {"open", "locked"} /\ \A c \in Conn : Bridged(c)' => conn'[c].req # r
    BY DEF OneClaim
  <2>3. \A c \in Conn : Bridged(c)' => conn'[c].req \in Req /\ pc'[conn'[c].req] \in {"open", "locked"}
    BY DEF OneClaim
  <2>4. ASSUME NEW r \in Req PROVE vncTold'[r] =
           IF pc'[r] \in {"open", "locked"} /\ r \notin vncPending' /\ \A c \in Conn : Bridged(c)' => conn'[c].req # r
           THEN 1 ELSE 0
    <3>1. CASE r \in R
      BY <2>1, <3>1 DEF OneClaim
    <3>2. CASE r \notin R
      BY <2>1, <2>2, <2>3, <3>2 DEF OneClaim
    <3> QED BY <3>1, <3>2
  <2> HIDE DEF VncInv, VncTypes
  <2> QED BY <2>2, <2>3, <2>4 DEF OneClaim, Bridged
<1>3. LiveIsHeld'
  <2> SUFFICES ASSUME NEW r \in Req, ded'[r] = "live"
               PROVE  r \in held' /\ (pc'[r] \in {"serving", "failed"} \/ r \in vncPending'
                                      \/ \E c \in Conn : Bridged(c)' /\ conn'[c].req = r)
    BY DEF LiveIsHeld, Bridged
  <2>1. ded[r] = "live" /\ r \notin R
    BY DEF LiveIsHeld
  <2> QED BY <2>1 DEF LiveIsHeld
<1>4. ListenerInv'
  BY DEF ListenerInv, Vnc!OneListener
<1> QED BY <1>1, <1>2, <1>3, <1>4

\* A bridge that ends tells its target's end.
LEMMA EndedInv ==
  ASSUME VncInv, NEW c \in Conn, Bridged(c), Vnc!Ended(c), UNCHANGED <<pc, vncPending, starts, bound, server>>
  PROVE  VncInv'
<1> USE DEF Vnc!Ended
<1>1. conn[c].req \in Req
  BY DEF VncInv, OneClaim
<1>0. conn' = [conn EXCEPT ![c] = [conn[c] EXCEPT !.at = "closed", !.ws = FALSE]]
  BY DEF VncInv, VncTypes
<1>2. /\ \A d \in Conn : conn'[d].req = conn[d].req /\ (d # c => conn'[d] = conn[d])
      /\ conn'[c].at = "closed"
  BY <1>0 DEF VncInv, VncTypes
<1>3. \A d \in Conn : Bridged(d)' <=> d # c /\ Bridged(d)
  BY <1>2 DEF Bridged
<1>4. conn' \in [Conn -> [req : Req \cup {None}, ws : BOOLEAN, at : {"none", "opening", "relaying", "closed"}]]
  BY <1>0 DEF VncInv, VncTypes
<1>5. \A d \in Conn : Bridged(d) /\ conn[d].req = conn[c].req => d = c
  BY DEF VncInv, OneClaim
<1>6. conn[c].req \notin vncPending
  BY DEF VncInv, OneClaim
<1>7. \A d, e \in Conn : Bridged(d)' /\ Bridged(e)' /\ conn'[d].req = conn'[e].req => d = e
  BY <1>2, <1>3 DEF VncInv, OneClaim
<1>8. {conn[c].req} \in SUBSET Req
  BY <1>1
<1> DEFINE R == {conn[c].req}
<1>9. Vnc!Closed(R)
  OBVIOUS
<1>10. \A d \in Conn : Bridged(d)' => (conn'[d].req = conn[d].req /\ Bridged(d)) \/ conn'[d].req \in vncPending \ vncPending'
  BY <1>2, <1>3
<1>11. \A r \in R : (r \in vncPending \/ \E d \in Conn : Bridged(d) /\ conn[d].req = r)
                    /\ r \notin vncPending' /\ \A d \in Conn : Bridged(d)' => conn'[d].req # r
  BY <1>2, <1>3, <1>5, <1>6
<1>12. \A r \in Req \ R : (r \in vncPending \/ \E d \in Conn : Bridged(d) /\ conn[d].req = r)
                    => (r \in vncPending' \/ \E d \in Conn : Bridged(d)' /\ conn'[d].req = r)
  BY <1>2, <1>3
<1> HIDE DEF R
<1> QED BY <1>4, <1>7, <1>8, <1>9, <1>10, <1>11, <1>12, ClosedInv DEF R

\* Every step of a call, a token, a websocket or the listener keeps it.
LEMMA VncInvNext == VncInv /\ [Vnc!Next]_vnc => VncInv'
<1> SUFFICES ASSUME VncInv, [Vnc!Next]_vnc PROVE VncInv'
  OBVIOUS
<1> USE DEF Vnc!tokens, Vnc!listener
<1>1. ASSUME NEW r \in Req, Vnc!Open(r) \/ Vnc!Connected(r) PROVE VncInv'
  <2>0. pc[r] \in {"idle", "connecting"} /\ Vnc!ensureServer(r) /\ UNCHANGED <<vncTold, conn>>
    BY <1>1 DEF Vnc!Open, Vnc!Connected
  <2>1. PICK L \in SUBSET {r} :
          ded' = [s \in Req |-> IF s \in L THEN "live" ELSE ded[s]] /\ held' = held \cup L
    <3>1. CASE Vnc!Open(r)
      <4>1. ded' = [s \in Req |-> IF s \in {} THEN "live" ELSE ded[s]] /\ held' = held \cup {}
        BY <3>1 DEF Vnc!Open, VncInv, VncTypes
      <4> QED BY <4>1
    <3>2. CASE Vnc!Connected(r)
      <4>1. ded' = [s \in Req |-> IF s \in {r} THEN "live" ELSE ded[s]] /\ held' = held \cup {r}
        BY <3>2 DEF Vnc!Connected, VncInv, VncTypes
      <4> QED BY <4>1
    <3> QED BY <1>1, <3>1, <3>2
  <2>2. CASE server
    <3>1. Vnc!Register({r}) /\ UNCHANGED <<starts, bound, server>>
      BY <2>0, <2>2 DEF Vnc!ensureServer
    <3>2. pc' \in [Req -> {"idle", "connecting", "serving", "open", "locked", "rejected", "failed"}]
          /\ vncPending' \subseteq Req /\ OneClaim' /\ LiveIsHeld'
      BY <2>0, <2>1, <3>1, RegisterInv
    <3>3. VncTypes'
      BY <2>0, <2>1, <3>1, <3>2 DEF VncInv, VncTypes
    <3>4. ListenerInv'
      BY <3>1 DEF VncInv, ListenerInv, Vnc!OneListener
    <3> QED BY <3>2, <3>3, <3>4 DEF VncInv
  <2>3. CASE ~server
    <3> USE <2>0, <2>1, <2>3 DEF Vnc!ensureServer, VncInv, VncTypes
    <3>1. VncTypes'
      OBVIOUS
    <3>2. OneClaim'
      BY DEF OneClaim, Bridged
    <3>3. LiveIsHeld'
      BY DEF LiveIsHeld, Bridged
    <3>4. ListenerInv'
      BY DEF ListenerInv, Vnc!OneListener
    <3> QED BY <3>1, <3>2, <3>3, <3>4
  <2> QED BY <2>2, <2>3
<1>2. ASSUME NEW r \in Req, Vnc!OpenDedicated(r) \/ Vnc!ConnectFails(r) PROVE VncInv'
  <2>1. PICK to \in {"connecting", "rejected"} : pc' = [pc EXCEPT ![r] = to]
    BY <1>2 DEF Vnc!OpenDedicated, Vnc!ConnectFails
  <2>2. pc[r] \in {"idle", "connecting"} /\ UNCHANGED <<ded, held, vncPending, vncTold, conn, starts, bound, server>>
    BY <1>2 DEF Vnc!OpenDedicated, Vnc!ConnectFails
  <2> USE <2>1, <2>2 DEF VncInv, VncTypes
  <2>3. VncTypes'
    OBVIOUS
  <2>4. OneClaim' /\ LiveIsHeld'
    BY DEF OneClaim, LiveIsHeld, Bridged
  <2>5. ListenerInv'
    BY DEF ListenerInv, Vnc!OneListener
  <2> QED BY <2>3, <2>4, <2>5
<1>3. CASE Vnc!Listening
  <2> DEFINE R == Vnc!Serving
  <2> DEFINE L == {}
  <2>1. Vnc!Register(R) /\ UNCHANGED <<ded, held, vncTold, conn>>
    BY <1>3 DEF Vnc!Listening
  <2>2. R \in SUBSET Req /\ \A r \in R : pc[r] \in {"idle", "connecting", "serving"}
    BY DEF Vnc!Serving
  <2>3. ded' = [r \in Req |-> IF r \in L THEN "live" ELSE ded[r]] /\ held' = held \cup L /\ L \in SUBSET R
    BY <2>1 DEF VncInv, VncTypes
  <2>4. pc' \in [Req -> {"idle", "connecting", "serving", "open", "locked", "rejected", "failed"}]
        /\ vncPending' \subseteq Req /\ OneClaim' /\ LiveIsHeld'
    <3> HIDE DEF R, L
    <3> QED BY <2>1, <2>2, <2>3, RegisterInv
  <2>5. VncTypes' /\ ListenerInv'
    BY <1>3, <2>1, <2>4 DEF Vnc!Listening, VncInv, VncTypes, ListenerInv, Vnc!OneListener
  <2> QED BY <2>4, <2>5 DEF VncInv
<1>4. CASE Vnc!ListenFails
  <2> USE <1>4 DEF Vnc!ListenFails, Vnc!Serving, VncInv, VncTypes
  <2>1. VncTypes'
    OBVIOUS
  <2>2. OneClaim' /\ LiveIsHeld'
    BY DEF OneClaim, LiveIsHeld, Bridged
  <2>3. ListenerInv'
    BY DEF ListenerInv, Vnc!OneListener
  <2> QED BY <2>1, <2>2, <2>3
<1>5. CASE Vnc!ServerError
  <2> USE <1>5 DEF Vnc!ServerError, VncInv, VncTypes
  <2>1. bound = 1 /\ bound' = 0
    BY DEF ListenerInv, Vnc!OneListener
  <2>2. server' = FALSE /\ server' \in BOOLEAN
    BY Zenon
  <2>3. bound' \in Nat /\ starts' \in {0, 1}
    BY <2>1
  <2>4. VncTypes'
    BY <2>2, <2>3
  <2>5. ListenerInv'
    BY <2>1 DEF ListenerInv, Vnc!OneListener
  <2>6. OneClaim' /\ LiveIsHeld'
    BY DEF OneClaim, LiveIsHeld, Bridged
  <2> QED BY <2>4, <2>6, <2>5
<1>6. CASE Vnc!Shutdown
  <2> USE <1>6 DEF Vnc!Shutdown, VncInv, VncTypes
  <2>1. bound' = 0 /\ server' = FALSE
    BY DEF ListenerInv, Vnc!OneListener
  <2>2. server' = FALSE /\ server' \in BOOLEAN
    BY Zenon
  <2>3. bound' \in Nat /\ starts' \in {0, 1}
    BY <2>1
  <2>4. VncTypes'
    BY <2>2, <2>3
  <2>5. ListenerInv'
    BY <2>1 DEF ListenerInv, Vnc!OneListener
  <2>6. OneClaim'
    BY DEF OneClaim, Bridged
  <2>7. LiveIsHeld'
    BY DEF LiveIsHeld
  <2> QED BY <2>4, <2>6, <2>7, <2>5
<1>7. ASSUME NEW r \in Req, Vnc!Expires(r) PROVE VncInv'
  BY <1>7 DEF Vnc!Expires, VncInv, VncTypes, OneClaim, LiveIsHeld, ListenerInv, Vnc!OneListener, Bridged
<1>8. ASSUME NEW r \in Req, Vnc!SweepTimer(r) PROVE VncInv'
  <2> DEFINE R == Vnc!sweepExpired
  <2>1. Vnc!Closed(R) /\ vncPending' = vncPending \ R /\ UNCHANGED <<pc, conn, starts, bound, server>>
    BY <1>8 DEF Vnc!SweepTimer
  <2>2. R \subseteq vncPending /\ R \in SUBSET Req
    BY DEF Vnc!sweepExpired, VncInv, VncTypes
  <2> HIDE DEF R
  <2>3. \A c \in Conn : Bridged(c)' <=> Bridged(c)
    BY <2>1 DEF Bridged
  <2>4. \A c, d \in Conn : Bridged(c)' /\ Bridged(d)' /\ conn'[c].req = conn'[d].req => c = d
    BY <2>1, <2>3 DEF VncInv, OneClaim
  <2>5. \A s \in R : (s \in vncPending \/ \E d \in Conn : Bridged(d) /\ conn[d].req = s)
                    /\ s \notin vncPending' /\ \A d \in Conn : Bridged(d)' => conn'[d].req # s
    BY <2>1, <2>2, <2>3 DEF VncInv, OneClaim
  <2>6. conn' \in [Conn -> [req : Req \cup {None}, ws : BOOLEAN, at : {"none", "opening", "relaying", "closed"}]]
    BY <2>1 DEF VncInv, VncTypes
  <2> QED BY <2>1, <2>2, <2>3, <2>4, <2>5, <2>6, ClosedInv
<1>9. ASSUME NEW r \in Req, Vnc!SessionDrops(r) PROVE VncInv'
  <2> USE <1>9 DEF Vnc!SessionDrops, VncInv, VncTypes
  <2>1. VncTypes' /\ LiveIsHeld'
    BY DEF LiveIsHeld, Bridged
  <2>2. OneClaim' /\ ListenerInv'
    BY DEF OneClaim, ListenerInv, Vnc!OneListener, Bridged
  <2> QED BY <2>1, <2>2
<1>10. ASSUME NEW c \in Conn, NEW r \in Req, Vnc!Accept(c, r) PROVE VncInv'
  <2> DEFINE R == Vnc!sweepExpired
  <2> DEFINE valid == r \in vncPending \ expired
  <2>1. conn[c] = Vnc!Unused /\ vncPending' = (vncPending \ R) \ {r} /\ Vnc!Closed(R)
        /\ conn' = [conn EXCEPT ![c] = [req |-> r, at |-> IF valid THEN "opening" ELSE "closed", ws |-> valid]]
        /\ UNCHANGED <<pc, starts, bound, server>>
    BY <1>10 DEF Vnc!Accept
  <2>2. R = vncPending \cap expired /\ R \in SUBSET Req
    BY DEF Vnc!sweepExpired, VncInv, VncTypes
  <2> HIDE DEF R
  <2>3. ~Bridged(c)
    BY <2>1 DEF Bridged, Vnc!Unused
  <2>4. \A d \in Conn : conn'[d] =
          IF d = c THEN [req |-> r, at |-> IF valid THEN "opening" ELSE "closed", ws |-> valid] ELSE conn[d]
    BY <2>1 DEF VncInv, VncTypes
  <2>5. \A d \in Conn : /\ Bridged(d)' <=> (Bridged(d) \/ (d = c /\ valid))
                        /\ conn'[d].req = IF d = c THEN r ELSE conn[d].req
    BY <2>3, <2>4 DEF Bridged
  <2>6. conn' \in [Conn -> [req : Req \cup {None}, ws : BOOLEAN, at : {"none", "opening", "relaying", "closed"}]]
    BY <2>1 DEF VncInv, VncTypes
  <2>7. \A d, e \in Conn : Bridged(d)' /\ Bridged(e)' /\ conn'[d].req = conn'[e].req => d = e
    BY <2>3, <2>5 DEF VncInv, OneClaim
  <2>8. \A s \in R : (s \in vncPending \/ \E d \in Conn : Bridged(d) /\ conn[d].req = s)
                    /\ s \notin vncPending' /\ \A d \in Conn : Bridged(d)' => conn'[d].req # s
    BY <2>1, <2>2, <2>3, <2>5 DEF VncInv, OneClaim
  <2>9. \A d \in Conn : Bridged(d)' => (conn'[d].req = conn[d].req /\ Bridged(d)) \/ conn'[d].req \in vncPending \ vncPending'
    BY <2>1, <2>3, <2>5
  <2>10. \A s \in Req \ R : (s \in vncPending \/ \E d \in Conn : Bridged(d) /\ conn[d].req = s)
                    => (s \in vncPending' \/ \E d \in Conn : Bridged(d)' /\ conn'[d].req = s)
    BY <2>1, <2>2, <2>3, <2>5
  <2>11. vncPending' \subseteq vncPending
    BY <2>1
  <2> QED BY <2>1, <2>2, <2>6, <2>7, <2>8, <2>9, <2>10, <2>11, ClosedInv
<1>11. ASSUME NEW c \in Conn, Vnc!StreamFails(c) \/ Vnc!StreamCloses(c) PROVE VncInv'
  BY <1>11, EndedInv DEF Vnc!StreamFails, Vnc!StreamCloses, Bridged
<1>12. ASSUME NEW c \in Conn, Vnc!StreamOpens(c) PROVE VncInv'
  <2> USE <1>12 DEF Vnc!StreamOpens, VncInv, VncTypes
  <2>1. \A d \in Conn : conn'[d].req = conn[d].req /\ (Bridged(d)' <=> Bridged(d))
    BY DEF Bridged
  <2>2. VncTypes'
    OBVIOUS
  <2> HIDE DEF VncTypes
  <2>3. OneClaim' /\ LiveIsHeld'
    BY <2>1 DEF OneClaim, LiveIsHeld
  <2>4. ListenerInv'
    BY DEF ListenerInv, Vnc!OneListener
  <2> QED BY <2>2, <2>3, <2>4
<1>13. ASSUME NEW c \in Conn, Vnc!WsCloses(c) PROVE VncInv'
  <2>1. CASE conn[c].at = "relaying"
    BY <1>13, <2>1, EndedInv DEF Vnc!WsCloses, Bridged
  <2>2. CASE conn[c].at # "relaying"
    <3> USE <1>13, <2>2 DEF Vnc!WsCloses, VncInv, VncTypes
    <3>1. \A d \in Conn : conn'[d].req = conn[d].req /\ (Bridged(d)' <=> Bridged(d))
      BY DEF Bridged
    <3>2. conn' = [conn EXCEPT ![c].ws = FALSE] /\ UNCHANGED <<pc, vncTold, ded, held, vncPending, starts, bound, server>>
      OBVIOUS
    <3>3. VncTypes'
      BY <3>2
    <3> HIDE DEF VncTypes
    <3>4. OneClaim' /\ LiveIsHeld'
      BY <3>1 DEF OneClaim, LiveIsHeld
    <3>5. ListenerInv'
      BY DEF ListenerInv, Vnc!OneListener
    <3> QED BY <3>3, <3>4, <3>5
  <2> QED BY <2>1, <2>2
<1>14. CASE UNCHANGED vnc
  BY <1>14 DEF vnc, VncInv, VncTypes, OneClaim, LiveIsHeld, ListenerInv, Vnc!OneListener, Bridged
<1> QED
  BY <1>1, <1>2, <1>3, <1>4, <1>5, <1>6, <1>7, <1>8, <1>9, <1>10, <1>11, <1>12, <1>13, <1>14 DEF Vnc!Next

-----------------------------------------------------------------------------
(* The two bridges, beside every other service *)

\* The end of an RDP or VNC target is told exactly once (rdp-proxy.ts, 41, 355-358; ws-bridge.ts,
\* 241-242), a relay runs over the pinned certificate, a dedicated session of a VNC call is live
\* only while something may use it, and there is one listener: for any calls, websockets, hosts,
\* addresses and certificates, whatever closes, expires or fails in whatever order.
THEOREM BridgesAlwaysHold == ServicesSpec => []BridgesHold
<1>1. ServicesInit => RdpInv /\ VncInv
  BY RdpInvInit, VncInvInit DEF ServicesInit
<1>2. RdpInv /\ VncInv
      /\ [RoutineStep \/ RdpStep \/ VncStep \/ McpStep \/ AutoStep \/ TestStep \/ RetryStep]_all
      => RdpInv' /\ VncInv'
  <2> SUFFICES ASSUME RdpInv, VncInv,
                 [RoutineStep \/ RdpStep \/ VncStep \/ McpStep \/ AutoStep \/ TestStep \/ RetryStep]_all
               PROVE  RdpInv' /\ VncInv'
    OBVIOUS
  <2>1. [Rdp!Next]_rdp /\ [Vnc!Next]_vnc
    BY DEF RoutineStep, RdpStep, VncStep, McpStep, AutoStep, TestStep, RetryStep, all
  <2> QED BY <2>1, RdpInvNext, VncInvNext
<1>3. RdpInv /\ VncInv => BridgesHold
  BY VncInvHolds DEF RdpInv, BridgesHold
<1> QED BY <1>1, <1>2, <1>3, PTL DEF ServicesSpec
-----------------------------------------------------------------------------
(* The reconnect policy *)

\* Of numbers, one is the first.
LEMMA OneIsFirst ==
  ASSUME NEW S \in SUBSET Nat, S # {}
  PROVE  \E k \in S : \A j \in S : k <= j
<1>1. IsWellFoundedOn(OpToRel(<, Nat), Nat)
  BY NatLessThanWellFounded
<1>2. PICK k \in S : \A j \in S : ~(<<j, k>> \in OpToRel(<, Nat))
  BY <1>1, WFMin
<1>3. ASSUME NEW j \in S, j < k PROVE FALSE
  <2>1. <<j, k>> \in OpToRel(<, Nat)
    BY <1>3 DEF OpToRel
  <2> QED BY <1>2, <2>1
<1> QED BY <1>3

\* power is what its definition says: below any number there is such a function, they agree, and so
\* there is one on all numbers.
PowerTo(f, n) ==
  f \in [0 .. n -> Nat] /\ f[0] = 1 /\ \A k \in 0 .. n : k # 0 => f[k] = Factor * f[k - 1]
LEMMA PowerBelow == \A n \in Nat : \E f : PowerTo(f, n)
<1> DEFINE S == {n \in Nat : ~\E f : PowerTo(f, n)}
<1> SUFFICES ASSUME S # {} PROVE FALSE
  OBVIOUS
<1>1. PICK n \in S : \A m \in S : n <= m
  BY OneIsFirst
<1>2. n # 0
  <2>1. PowerTo([i \in 0 .. 0 |-> 1], 0)
    BY DEF PowerTo
  <2> QED BY <1>1, <2>1
<1>3. PICK f : PowerTo(f, n - 1)
  BY <1>1, <1>2
<1> DEFINE g == [i \in 0 .. n |-> IF i < n THEN f[i] ELSE Factor * f[n - 1]]
<1>4. PowerTo(g, n)
  <2>1. n \in Nat \ {0} /\ f \in [0 .. (n - 1) -> Nat] /\ f[0] = 1 /\ Factor \in Nat
    BY <1>2, <1>3, ReconnectAssumption DEF PowerTo, ReconnectAssumption
  <2>2. f[n - 1] \in Nat
    BY <2>1
  <2>3. Factor * f[n - 1] \in Nat
    BY <2>1, <2>2
  <2>4. g \in [0 .. n -> Nat] /\ g[0] = 1
    BY <2>1, <2>3
  <2>5. ASSUME NEW k \in 0 .. n, k # 0 PROVE g[k] = Factor * g[k - 1]
    <3>1. CASE k = n
      BY <2>1, <2>5, <3>1
    <3>2. CASE k # n
      <4>1. k \in 0 .. (n - 1) /\ k - 1 \in 0 .. n /\ k - 1 < n /\ k < n
        BY <2>1, <2>5, <3>2
      <4>2. f[k] = Factor * f[k - 1]
        BY <1>3, <2>5, <4>1 DEF PowerTo
      <4> QED BY <4>1, <4>2
    <3> QED BY <3>1, <3>2
  <2> QED BY <2>4, <2>5 DEF PowerTo
<1> QED BY <1>1, <1>4

LEMMA PowersAgree ==
  ASSUME NEW n \in Nat, NEW f, PowerTo(f, n), NEW m \in Nat, NEW g, PowerTo(g, m)
  PROVE  \A i \in Nat : i <= n /\ i <= m => f[i] = g[i]
<1> DEFINE S == {i \in Nat : i <= n /\ i <= m /\ f[i] # g[i]}
<1> SUFFICES ASSUME S # {} PROVE FALSE
  OBVIOUS
<1>1. PICK i \in S : \A j \in S : i <= j
  BY OneIsFirst
<1>2. i # 0
  BY DEF PowerTo
<1>3. i - 1 \in Nat /\ f[i - 1] = g[i - 1]
  BY <1>1, <1>2
<1>4. f[i] = Factor * f[i - 1] /\ g[i] = Factor * g[i - 1]
  BY <1>2 DEF PowerTo
<1> QED BY <1>3, <1>4

LEMMA PowerIs ==
  power \in [Nat -> Nat] /\ power[0] = 1 /\ \A n \in Nat \ {0} : power[n] = Factor * power[n - 1]
<1> DEFINE upTo(n) == CHOOSE f : PowerTo(f, n)
           p == [n \in Nat |-> upTo(n)[n]]
<1>1. \A n \in Nat : PowerTo(upTo(n), n)
  BY PowerBelow
<1> HIDE DEF upTo
<1>2. p \in [Nat -> Nat] /\ p[0] = 1
  BY <1>1 DEF PowerTo
<1>3. ASSUME NEW n \in Nat \ {0} PROVE p[n] = Factor * p[n - 1]
  <2>1. n - 1 \in Nat /\ PowerTo(upTo(n), n) /\ PowerTo(upTo(n - 1), n - 1)
    BY <1>1
  <2>2. upTo(n)[n] = Factor * upTo(n)[n - 1]
    BY <2>1 DEF PowerTo
  <2>3. upTo(n)[n - 1] = upTo(n - 1)[n - 1]
    BY <2>1, PowersAgree
  <2> QED BY <2>1, <2>2, <2>3
<1> HIDE DEF p
<1>4. p = [n \in Nat |-> IF n = 0 THEN 1 ELSE Factor * p[n - 1]]
  BY <1>2, <1>3
<1>5. power = [n \in Nat |-> IF n = 0 THEN 1 ELSE Factor * power[n - 1]]
  BY <1>4 DEF power
<1> HIDE DEF power
<1>6. power[0] = 1 /\ DOMAIN power = Nat /\ \A n \in Nat \ {0} : power[n] = Factor * power[n - 1]
  BY <1>5
<1>7. \A n \in Nat : power[n] \in Nat
  <2> DEFINE S == {n \in Nat : power[n] \notin Nat}
  <2> SUFFICES ASSUME S # {} PROVE FALSE
    OBVIOUS
  <2>1. PICK n \in S : \A m \in S : n <= m
    BY OneIsFirst
  <2>2. n # 0 /\ n - 1 \in Nat /\ power[n - 1] \in Nat
    BY <1>6, <2>1
  <2>3. power[n] = Factor * power[n - 1] /\ Factor \in Nat
    BY <1>6, <2>1, <2>2, ReconnectAssumption DEF ReconnectAssumption
  <2>4. Factor * power[n - 1] \in Nat
    BY <2>2, <2>3
  <2> QED BY <2>1, <2>3, <2>4
<1>8. power = [n \in Nat |-> power[n]]
  BY <1>5
<1> QED BY <1>6, <1>7, <1>8

\* A later delay is no shorter.
LEMMA DelaysGrow == \A n \in Nat \ {0} : nextBackoff(n) <= nextBackoff(n + 1) /\ nextBackoff(n) \in Nat
<1> SUFFICES ASSUME NEW n \in Nat \ {0} PROVE nextBackoff(n) <= nextBackoff(n + 1) /\ nextBackoff(n) \in Nat
  OBVIOUS
<1> DEFINE x == power[n - 1]
           y == power[n]
<1>1. x \in Nat /\ y = Factor * x /\ n - 1 \in Nat /\ (n + 1) - 1 = n
  BY PowerIs
<1> HIDE DEF x, y
<1>2. BaseDelay \in Nat /\ MaxDelay \in Nat /\ Factor \in Nat \ {0}
  BY ReconnectAssumption DEF ReconnectAssumption
<1>3. y \in Nat /\ x <= y
  <2>1. (Factor - 1) * x \in Nat /\ y = (Factor - 1) * x + x
    BY <1>1, <1>2
  <2> QED BY <1>1, <2>1
<1>4. BaseDelay * x \in Nat /\ BaseDelay * y \in Nat /\ BaseDelay * x <= BaseDelay * y
  <2>1. BaseDelay * (y - x) \in Nat /\ BaseDelay * y = BaseDelay * (y - x) + BaseDelay * x /\ BaseDelay * x \in Nat
    BY <1>1, <1>2, <1>3
  <2> QED BY <2>1
<1>5. /\ nextBackoff(n) = IF BaseDelay * x < MaxDelay THEN BaseDelay * x ELSE MaxDelay
      /\ nextBackoff(n + 1) = IF BaseDelay * y < MaxDelay THEN BaseDelay * y ELSE MaxDelay
  BY <1>1 DEF nextBackoff, x, y
<1> QED BY <1>2, <1>4, <1>5

\* What a state of the machine is, but for its delay.
ShapeOK ==
  /\ state.status \in {"connected", "reconnecting", "failed"}
  /\ state.attempt \in Nat
  /\ dial \in {"none", "waiting", "dialing"}
  /\ dials \in Nat /\ free \in {0, 1}

\* A dial is on its way exactly while the machine retries, and the attempt is the number of dials,
\* with the one that waits; it is allowed by the ceiling, or it is the first by hand.
AttemptIsDials ==
  /\ state.status = "reconnecting" <=> dial # "none"
  /\ dial = "waiting" => state.attempt = dials + 1
  /\ dial = "dialing" => state.attempt = dials
  /\ dial # "none" => state.attempt <= MaxRetries \/ state.attempt <= free

ReconnectInv == ShapeOK /\ AttemptIsDials /\ DialsBounded

\* Connected, with no dial.
LEMMA InitReconnectInv == ReconnectInit => ReconnectInv
  BY ReconnectAssumption
  DEF ReconnectInit, ReconnectInv, ShapeOK, AttemptIsDials, DialsBounded, initialReconnectState,
      ReconnectAssumption

\* Every drop, dial, answer, retry by hand and give-up keeps it.
LEMMA NextReconnectInv == ReconnectInv /\ [ReconnectNext]_reconnectVars => ReconnectInv'
<1> SUFFICES ASSUME ReconnectInv, [ReconnectNext]_reconnectVars PROVE ReconnectInv'
    OBVIOUS
<1> USE ReconnectAssumption DEF ReconnectAssumption, ReconnectInv, ShapeOK, AttemptIsDials, DialsBounded
<1>1. CASE Drop
  <2>1. CASE state.status # "connected"
    BY <1>1, <2>1 DEF Drop, OnDrop
  <2>2. CASE state.status = "connected"
    BY <1>1, <2>2 DEF Drop, OnDrop, Enter, isRetrying, shouldGiveUp, Failed, Retrying
  <2> QED BY <2>1, <2>2
<1>2. CASE Dial
  BY <1>2 DEF Dial
<1>3. CASE Succeeds
  BY <1>3 DEF Succeeds, Enter, isRetrying, OnSuccess, initialReconnectState
<1>4. CASE Fails
  BY <1>4 DEF Fails, Enter, isRetrying, OnAttemptFailed, shouldGiveUp, Failed, Retrying
<1>5. CASE ManualRetry
  <2>1. CASE state.status = "connected"
    BY <1>5, <2>1 DEF ManualRetry, OnManualRetry, Enter, isRetrying
  <2>2. CASE state.status # "connected"
    BY <1>5, <2>2 DEF ManualRetry, OnManualRetry, Enter, isRetrying, Retrying
  <2> QED BY <2>1, <2>2
<1>6. CASE GiveUp
  BY <1>6 DEF GiveUp, Enter, isRetrying, OnGiveUp, Failed
<1>7. CASE UNCHANGED reconnectVars
  BY <1>7 DEF reconnectVars
<1> QED BY <1>1, <1>2, <1>3, <1>4, <1>5, <1>6, <1>7 DEF ReconnectNext

\* The delay of a retry is the backoff of its attempt, but for the first, which may be by hand.
DelayIsBackoff ==
  state.status = "reconnecting" => state.attempt <= 1 \/ state.nextDelayMs = nextBackoff(state.attempt)

LEMMA NextDelay ==
  ASSUME ReconnectInv, DelayIsBackoff, [ReconnectNext]_reconnectVars PROVE DelayIsBackoff'
<1> USE DEF DelayIsBackoff, ReconnectInv, ShapeOK
<1>1. CASE Drop
  BY <1>1 DEF Drop, OnDrop, Enter, isRetrying, shouldGiveUp, Failed, Retrying
<1>2. CASE Dial \/ UNCHANGED reconnectVars
  BY <1>2 DEF Dial, reconnectVars
<1>3. CASE Succeeds \/ GiveUp
  BY <1>3 DEF Succeeds, GiveUp, Enter, OnSuccess, OnGiveUp, initialReconnectState, Failed
<1>4. CASE Fails
  BY <1>4 DEF Fails, Enter, isRetrying, OnAttemptFailed, shouldGiveUp, Failed, Retrying
<1>5. CASE ManualRetry
  BY <1>5 DEF ManualRetry, OnManualRetry, Enter, isRetrying, Retrying
<1> QED BY <1>1, <1>2, <1>3, <1>4, <1>5 DEF ReconnectNext

LEMMA RetriesShow == ReconnectInv /\ DelayIsBackoff => DialsBounded /\ OnlyRetriesDial
<1> SUFFICES ASSUME ReconnectInv, DelayIsBackoff PROVE OnlyRetriesDial
  BY DEF ReconnectInv
<1>1. isRetrying(state) <=> dial # "none"
  BY DEF ReconnectInv, AttemptIsDials, isRetrying
<1>2. ASSUME isRetrying(state), dials > 1 PROVE state.nextDelayMs >= nextBackoff(dials - 1)
  <2>1. dials \in Nat /\ state.attempt \in {dials, dials + 1} /\ state.nextDelayMs = nextBackoff(state.attempt)
    BY <1>1, <1>2 DEF ReconnectInv, ShapeOK, AttemptIsDials, DelayIsBackoff, isRetrying
  <2>2. dials - 1 \in Nat \ {0} /\ (dials - 1) + 1 = dials /\ dials \in Nat \ {0}
    BY <1>2, <2>1
  <2>3. nextBackoff(dials - 1) <= nextBackoff(dials) /\ nextBackoff(dials) <= nextBackoff(dials + 1)
        /\ nextBackoff(dials - 1) \in Nat /\ nextBackoff(dials) \in Nat /\ nextBackoff(dials + 1) \in Nat
    BY <2>2, DelaysGrow
  <2> QED BY <2>1, <2>3
<1> QED BY <1>1, <1>2 DEF OnlyRetriesDial

\* "maxRetries: N dials exactly N times" (reconnect.ts, 47), for every N and however the events
\* come; a retry by hand dials once even where N is 0.
THEOREM DialsAreBounded == ReconnectSpec => []DialsBounded
<1>1. ReconnectInv => DialsBounded
  BY DEF ReconnectInv
<1> QED BY <1>1, InitReconnectInv, NextReconnectInv, PTL DEF ReconnectSpec

\* The header's "a stale success would revive a session the user stopped": a dial is on its way
\* only while the machine retries; and of two delays the later is no shorter, for every base, factor
\* and ceiling of the delays.
THEOREM OnlyRetriesAreDialed == ReconnectSpec => []OnlyRetriesDial
<1>1. ReconnectInit => DelayIsBackoff
  BY DEF ReconnectInit, DelayIsBackoff, initialReconnectState
<1>2. ReconnectInv /\ DelayIsBackoff /\ [ReconnectNext]_reconnectVars => DelayIsBackoff'
  BY NextDelay
<1> QED BY <1>1, <1>2, InitReconnectInv, NextReconnectInv, RetriesShow, PTL DEF ReconnectSpec

-----------------------------------------------------------------------------
(* Routines                                                                 *)
(*                                                                         *)
(* For every set of routines and schedules.  Both properties of a next run  *)
(* need that a routine not yet saved has none, and that ages are numbers.    *)


\* A routine has no next run before it is saved.
NewHasNone == \A r \in Routine : life[r] = "new" => next[r] = None

RoutineInv == TypeOK /\ NewHasNone /\ NextRunIsSpaced /\ NextRunOfSchedule

\* Delays are numbers from 1 to Period.
LEMMA Delays ==
  ASSUME NEW r \in Routine, sched \in [Routine -> Schedule \cup {{}}]
  PROVE  sched[r] \ {None} \subseteq 1..Period /\ sched[r] \subseteq Ages
<1>1. sched[r] \in Schedule \/ sched[r] = {}
  OBVIOUS
<1>2. sched[r] \in SUBSET ((1..Period) \cup {None})
  BY <1>1, ScheduleAssumption
<1> QED BY <1>2, PeriodAssumption DEF Ages

\* What a pass does to one routine
LEMMA PassOfOne ==
  ASSUME TypeOK, tickRoutines, NEW r \in Routine
  PROVE  /\ next'[r] \in Ages /\ since'[r] \in Ages /\ inbox'[r] \in Nat
         /\ \/ next'[r] \in sched[r] /\ since'[r] \in {since[r], 0}
            \/ next'[r] = next[r] /\ since'[r] = since[r]
         /\ life[r] = "new" => next'[r] = next[r]
         /\ win = "none" => inbox'[r] = inbox[r]
<1>1. CASE ~setting
  BY <1>1 DEF tickRoutines, TypeOK
<1>2. CASE setting
  <2>1. r \in dueRoutines => r \in Scheduled /\ next[r] = 0
    BY DEF dueRoutines
  <2>2. IF r \in Scheduled /\ next[r] \in {0, None} THEN next'[r] \in sched[r]
        ELSE next'[r] = next[r]
    BY <1>2 DEF tickRoutines, computeNextRun
  <2>3. next'[r] \in Ages
    BY <1>2 DEF tickRoutines, computeNextRun, Ages
  <2>4. since'[r] = (IF r \in dueRoutines THEN 0 ELSE since[r])
    BY <1>2 DEF tickRoutines
  <2>5. since'[r] \in Ages
    BY <2>4, PeriodAssumption DEF TypeOK, Ages
  <2>6. inbox'[r] \in Nat /\ (win = "none" => inbox'[r] = inbox[r])
    BY <1>2 DEF tickRoutines, triggerRoutine, TypeOK
  <2>7. life[r] = "new" => r \notin Scheduled
    BY DEF Scheduled, Saved
  <2> QED BY <2>1, <2>2, <2>3, <2>4, <2>5, <2>6, <2>7
<1> QED BY <1>1, <1>2

\* and to all of them
LEMMA PassTypes ==
  ASSUME TypeOK, tickRoutines
  PROVE  next' \in [Routine -> Ages] /\ since' \in [Routine -> Ages] /\ inbox' \in [Routine -> Nat]
<1>1. CASE ~setting
  BY <1>1 DEF tickRoutines, TypeOK
<1>2. CASE setting
  <2>1. next' \in [Routine -> Ages]
    BY <1>2 DEF tickRoutines, computeNextRun, Ages
  <2>2. since' = [r \in Routine |-> since'[r]] /\ inbox' = [r \in Routine |-> inbox'[r]]
    BY <1>2 DEF tickRoutines
  <2> QED BY <2>1, <2>2, PassOfOne
<1> QED BY <1>1, <1>2

\* A pass keeps the properties of the next runs.
LEMMA PassKeeps ==
  ASSUME RoutineInv, tickRoutines, life' = life, sched' = sched
  PROVE  NewHasNone' /\ NextRunIsSpaced' /\ NextRunOfSchedule'
<1> SUFFICES ASSUME NEW r \in Routine
             PROVE  /\ life'[r] = "new" => next'[r] = None
                    /\ next'[r] # None /\ since'[r] # None =>
                         \E d \in sched'[r] \ {None} : d <= since'[r] + next'[r]
                    /\ next'[r] # None => \E d \in sched'[r] \ {None} : next'[r] <= d
  BY DEF NewHasNone, NextRunIsSpaced, NextRunOfSchedule
<1>1. TypeOK
  BY DEF RoutineInv
<1>2. CASE next'[r] \in sched[r] /\ since'[r] \in {since[r], 0}
  <2>1. /\ life[r] = "new" => next'[r] = None
        /\ since'[r] \in Ages /\ next'[r] \in Ages
    BY <1>1, PassOfOne DEF RoutineInv, NewHasNone
  <2>2. next'[r] # None => next'[r] \in sched'[r] \ {None} /\ next'[r] \in Nat
    BY <1>2, <2>1 DEF Ages
  <2>3. since'[r] # None => since'[r] \in Nat
    BY <2>1 DEF Ages
  <2> QED BY <2>1, <2>2, <2>3
<1>3. CASE next'[r] = next[r] /\ since'[r] = since[r]
  BY <1>3 DEF RoutineInv, NewHasNone, NextRunIsSpaced, NextRunOfSchedule
<1> QED BY <1>1, <1>2, <1>3, PassOfOne

\* A minute makes ages grow and next runs come nearer.
LEMMA MinuteKeeps ==
  ASSUME RoutineInv, Minute
  PROVE  RoutineInv'
<1> USE DEF RoutineInv
<1>1. \A r \in Routine : next[r] \in Ages /\ since[r] \in Ages /\ lastRun[r] \in Ages
  BY DEF TypeOK
<1>2. \A r \in Routine :
        /\ next'[r] = (IF next[r] \in {0, None} THEN next[r] ELSE next[r] - 1)
        /\ since'[r] = (IF since[r] \in {None, Period} THEN since[r] ELSE since[r] + 1)
        /\ lastRun'[r] = (IF lastRun[r] \in {None, Period} THEN lastRun[r] ELSE lastRun[r] + 1)
  BY DEF Minute, Older
<1>3. \A r \in Routine : next'[r] \in Ages /\ since'[r] \in Ages /\ lastRun'[r] \in Ages
  BY <1>1, <1>2, PeriodAssumption DEF Ages
<1>4. TypeOK'
  <2>1. /\ next' \in [Routine -> Ages] /\ since' \in [Routine -> Ages]
        /\ lastRun' \in [Routine -> Ages]
    BY <1>3 DEF Minute, Older
  <2> QED BY <2>1 DEF TypeOK, Minute, table, host, mail
<1>5. life' = life /\ sched' = sched
  BY DEF Minute, table
<1>6. NewHasNone'
  BY <1>2, <1>5 DEF NewHasNone
<1>7. NextRunIsSpaced'
  <2> SUFFICES ASSUME NEW r \in Routine, next'[r] # None, since'[r] # None
               PROVE  \E d \in sched[r] \ {None} : d <= since'[r] + next'[r]
    BY <1>5 DEF NextRunIsSpaced
  <2>1. next[r] # None /\ since[r] # None
    BY <1>2
  <2>2. PICK d \in sched[r] \ {None} : d <= since[r] + next[r]
    BY <2>1 DEF NextRunIsSpaced
  <2>3. d \in 1..Period
    BY Delays DEF TypeOK
  <2>4. next[r] \in Nat /\ since[r] \in Nat /\ since[r] <= Period
    BY <1>1, <2>1, PeriodAssumption DEF Ages
  <2>5. CASE since[r] = Period
    BY <1>2, <2>1, <2>2, <2>3, <2>4, <2>5, <1>3, PeriodAssumption DEF Ages
  <2>6. CASE since[r] # Period
    BY <1>2, <2>1, <2>2, <2>3, <2>4, <2>6, PeriodAssumption
  <2> QED BY <2>5, <2>6
<1>8. NextRunOfSchedule'
  <2> SUFFICES ASSUME NEW r \in Routine, next'[r] # None
               PROVE  \E d \in sched[r] \ {None} : next'[r] <= d
    BY <1>5 DEF NextRunOfSchedule
  <2>1. next[r] # None
    BY <1>2
  <2>2. PICK d \in sched[r] \ {None} : next[r] <= d
    BY <2>1 DEF NextRunOfSchedule
  <2>3. d \in 1..Period /\ next[r] \in Nat
    BY Delays, <1>1, <2>1 DEF TypeOK, Ages
  <2> QED BY <1>2, <2>2, <2>3, PeriodAssumption
<1> QED BY <1>4, <1>6, <1>7, <1>8

-----------------------------------------------------------------------------
(* The handlers and the window *)

LEMMA SaveKeeps ==
  ASSUME RoutineInv, NEW r \in Routine, NEW s \in Schedule, NEW on \in BOOLEAN,
         createRoutine(r, s, on) \/ updateRoutine(r, s, on)
  PROVE  RoutineInv'
<1> USE DEF RoutineInv
<1>1. /\ next'[r] = None /\ life'[r] = "saved" /\ sched' = [sched EXCEPT ![r] = s]
      /\ next' \in [Routine -> Ages] /\ since' = since
      /\ life' \in [Routine -> {"new", "saved", "deleted"}]
      /\ \A q \in Routine \ {r} : next'[q] = next[q] /\ life'[q] = life[q]
  <2>1. CASE createRoutine(r, s, on)
    BY <2>1 DEF createRoutine, Save, NewHasNone, TypeOK
  <2>2. CASE updateRoutine(r, s, on)
    BY <2>2 DEF updateRoutine, Save, Saved, TypeOK, Ages
  <2> QED BY <2>1, <2>2
<1>2. TypeOK'
  <2>1. /\ enabled' \subseteq Routine /\ saves' \in [Routine -> Nat]
        /\ sched' \in [Routine -> Schedule \cup {{}}]
        /\ UNCHANGED <<runnable, setting, app, win, inbox, fetching, history, lastRun>>
    BY <1>1 DEF createRoutine, updateRoutine, Save, TypeOK, host, mail, runs
  <2> QED BY <1>1, <2>1 DEF TypeOK
<1>3. NewHasNone'
  BY <1>1 DEF NewHasNone
<1>4. NextRunIsSpaced' /\ NextRunOfSchedule'
  <2>1. \A q \in Routine \ {r} : sched'[q] = sched[q]
    BY <1>1 DEF TypeOK
  <2> QED BY <1>1, <2>1 DEF NextRunIsSpaced, NextRunOfSchedule
<1> QED BY <1>2, <1>3, <1>4

LEMMA DeleteKeeps ==
  ASSUME RoutineInv, NEW r \in Routine, deleteRoutine(r)
  PROVE  RoutineInv'
<1> USE DEF RoutineInv
<1>1. /\ next'[r] = None /\ next' \in [Routine -> Ages]
      /\ life' \in [Routine -> {"new", "saved", "deleted"}]
      /\ lastRun' \in [Routine -> Ages] /\ history' \subseteq Routine
      /\ UNCHANGED <<sched, enabled, saves, runnable, setting, app, win, inbox, fetching, since>>
      /\ \A q \in Routine \ {r} : next'[q] = next[q] /\ life'[q] = life[q]
  BY DEF deleteRoutine, TypeOK, Ages, host, mail
<1>2. TypeOK'
  BY <1>1 DEF TypeOK
<1>3. NewHasNone' /\ NextRunIsSpaced' /\ NextRunOfSchedule'
  BY <1>1 DEF NewHasNone, NextRunIsSpaced, NextRunOfSchedule
<1> QED BY <1>2, <1>3

LEMMA PassStepKeeps ==
  ASSUME RoutineInv, Launch \/ Tick
  PROVE  RoutineInv'
<1>1. /\ tickRoutines
      /\ UNCHANGED <<life, sched, enabled, saves, runnable, setting, fetching, history, lastRun>>
      /\ \/ app' = TRUE /\ win' = "loading"
         \/ app' = app /\ win' = win
  BY DEF Launch, Tick, table, host, runs
<1>2. TypeOK
  BY DEF RoutineInv
<1>3. \A r \in Routine : win = "none" => inbox'[r] = inbox[r]
  BY <1>1, <1>2, PassOfOne
<1>4. TypeOK'
  BY <1>1, <1>2, <1>3, PassTypes DEF TypeOK
<1>5. NewHasNone' /\ NextRunIsSpaced' /\ NextRunOfSchedule'
  BY <1>1, PassKeeps
<1> QED BY <1>4, <1>5 DEF RoutineInv

\* Steps that leave the table and the ages of triggers alone
LEMMA OthersKeep ==
  ASSUME RoutineInv, TypeOK', UNCHANGED <<life, sched, next, since>>
  PROVE  RoutineInv'
BY DEF RoutineInv, NewHasNone, NextRunIsSpaced, NextRunOfSchedule

LEMMA WindowKeeps ==
  ASSUME RoutineInv, Window
  PROVE  RoutineInv'
<1>1. UNCHANGED <<life, sched, enabled, saves, next, runnable, setting, history, lastRun, since>>
  BY DEF Window, Mount, Reload, CloseWindow, Activate, Quit, Same, table, host, runs
<1>2. TypeOK
  BY DEF RoutineInv
<1>3. TypeOK'
  <2>1. CASE Mount \/ Activate
    BY <1>1, <1>2, <2>1 DEF TypeOK, Mount, Activate, mail
  <2>2. CASE Reload
    BY <1>1, <1>2, <2>2 DEF TypeOK, Reload
  <2>3. CASE CloseWindow \/ Quit
    <3>1. /\ inbox' \in [Routine -> Nat] /\ fetching' \in [Routine -> Nat]
          /\ \A r \in Routine : inbox'[r] = 0 /\ fetching'[r] = 0
      BY <2>3 DEF CloseWindow, Quit, NoMail
    <3>2. win' = "none" /\ app' \in BOOLEAN
      BY <1>2, <2>3 DEF CloseWindow, Quit, TypeOK
    <3> QED BY <1>1, <1>2, <3>1, <3>2 DEF TypeOK
  <2> QED BY <2>1, <2>2, <2>3 DEF Window
<1> QED BY <1>1, <1>3, OthersKeep

LEMMA RunKeeps ==
  ASSUME RoutineInv, NEW r \in Routine,
         onTrigger(r) \/ Prompted(r) \/ runNow(r) \/ PromptChanges(r)
  PROVE  RoutineInv'
<1>1. TypeOK
  BY DEF RoutineInv
<1>2. UNCHANGED <<life, sched, enabled, saves, next, setting, app, win, since>>
  BY DEF onTrigger, Prompted, runNow, PromptChanges, Same, table, host
<1>3. runRoutine(r) => history' \subseteq Routine /\ lastRun' \in [Routine -> Ages]
  BY <1>1, PeriodAssumption DEF runRoutine, TypeOK, Ages
<1>4. TypeOK'
  <2>1. CASE onTrigger(r)
    BY <1>1, <1>2, <2>1 DEF TypeOK, onTrigger, Same, host, runs
  <2>2. CASE Prompted(r)
    BY <1>1, <1>2, <1>3, <2>2 DEF TypeOK, Prompted, host, runs
  <2>3. CASE runNow(r)
    BY <1>1, <1>2, <1>3, <2>3 DEF TypeOK, runNow, host, mail
  <2>4. CASE PromptChanges(r)
    BY <1>1, <1>2, <2>4 DEF TypeOK, PromptChanges, mail, runs
  <2> QED BY <2>1, <2>2, <2>3, <2>4
<1> QED BY <1>2, <1>4, OthersKeep

LEMMA InitRoutineInv == Init => RoutineInv
<1> SUFFICES ASSUME Init PROVE RoutineInv
  OBVIOUS
<1>1. /\ \A r \in Routine : next[r] = None
      /\ next \in [Routine -> Ages] /\ since \in [Routine -> Ages]
      /\ lastRun \in [Routine -> Ages]
  BY DEF Init, Ages
<1>2. /\ inbox \in [Routine -> Nat] /\ fetching \in [Routine -> Nat]
      /\ \A r \in Routine : inbox[r] = 0 /\ fetching[r] = 0
      /\ saves \in [Routine -> Nat]
  BY DEF Init
<1>3. TypeOK
  BY <1>1, <1>2 DEF Init, TypeOK
<1> QED BY <1>1, <1>3 DEF RoutineInv, NewHasNone, NextRunIsSpaced, NextRunOfSchedule

LEMMA NextRoutineInv == RoutineInv /\ [Next]_vars => RoutineInv'
<1> SUFFICES ASSUME RoutineInv, [Next]_vars PROVE RoutineInv'
  OBVIOUS
<1>1. CASE Toggle
  <2>1. TypeOK'
    BY <1>1 DEF RoutineInv, TypeOK, Toggle, table, mail, runs
  <2> QED BY <1>1, <2>1, OthersKeep DEF Toggle, table
<1>2. CASE UNCHANGED vars
  BY <1>2 DEF RoutineInv, TypeOK, NewHasNone, NextRunIsSpaced, NextRunOfSchedule, vars
<1> QED BY <1>1, <1>2, SaveKeeps, DeleteKeeps, RunKeeps, PassStepKeeps, MinuteKeeps,
           WindowKeeps DEF Next

LEMMA RoutineInvHolds == Spec => []RoutineInv
BY InitRoutineInv, NextRoutineInv, PTL DEF Spec

\* The rows, ages and messages keep their types, and nothing waits for a window that is
\* not there.
THEOREM RoutineTypes == Spec => []TypeOK
BY RoutineInvHolds, PTL DEF RoutineInv

\* However a routine is edited, disabled, enabled or left alone for a long time, its next
\* trigger is at least the shortest delay of its schedule after its last.
THEOREM SpacedRuns == Spec => []NextRunIsSpaced
BY RoutineInvHolds, PTL DEF RoutineInv

\* A next run always belongs to the schedule that is saved.
THEOREM RunsOfSchedule == Spec => []NextRunOfSchedule
BY RoutineInvHolds, PTL DEF RoutineInv
-----------------------------------------------------------------------------
(* The commands of agents *)

Lane == {"none", "queued"} \cup Mcp!Busy \cup Mcp!Ended

LEMMA McpCardinality == \A S : Mcp!Cardinality(S) = Cardinality(S)
BY DEF Mcp!Cardinality, Cardinality

LEMMA CommandsOf ==
  /\ Mcp!Exec = UNION {{c} \X (1 .. Len(Hosts[c])) : c \in Call}
  /\ \A x \in Mcp!Exec : x[1] \in Call /\ x[2] \in Nat /\ x \in Mcp!Of(x[1])
  /\ \A c \in Call : \A x \in Mcp!Of(c), y \in Mcp!Of(c) : x[2] = y[2] => x = y
  /\ \A c \in Call : IsFiniteSet(Mcp!Of(c)) /\ Len(Hosts[c]) \in Nat /\ \A x \in Mcp!Of(c) : x[2] <= Len(Hosts[c])
<1>1. Mcp!Exec = UNION {{c} \X (1 .. Len(Hosts[c])) : c \in Call}
  BY DEF Mcp!Exec
<1>2. \A c \in Call : Len(Hosts[c]) \in Nat
  BY CallsAssumption
<1>3. ASSUME NEW x \in Mcp!Exec
      PROVE  x[1] \in Call /\ x[2] \in 1 .. Len(Hosts[x[1]]) /\ x[2] \in Nat /\ x = <<x[1], x[2]>> /\ x \in Mcp!Of(x[1])
  <2>1. PICK c \in Call : x \in {c} \X (1 .. Len(Hosts[c]))
    BY <1>1
  <2>2. x[1] = c /\ x[2] \in 1 .. Len(Hosts[c]) /\ x = <<x[1], x[2]>>
    BY <2>1
  <2>3. x \in Mcp!Of(x[1])
    BY DEF Mcp!Of
  <2> QED BY <1>2, <2>2, <2>3
<1>4. ASSUME NEW c \in Call PROVE IsFiniteSet(Mcp!Of(c)) /\ \A x \in Mcp!Of(c) : x[2] <= Len(Hosts[c])
  <2> DEFINE n == Len(Hosts[c])
  <2>1. n \in Nat
    BY <1>2
  <2>2. \A x \in Mcp!Of(c) : x \in {c} \X (1 .. n) /\ x[2] <= n
    <3> SUFFICES ASSUME NEW x \in Mcp!Of(c) PROVE x \in {c} \X (1 .. n) /\ x[2] <= n
      OBVIOUS
    <3>1. x \in Mcp!Exec /\ x[1] = c
      BY DEF Mcp!Of
    <3>2. x[2] \in 1 .. n /\ x = <<c, x[2]>>
      BY <1>3, <3>1
    <3> QED BY <2>1, <3>2
  <2> HIDE DEF n
  <2>3. IsFiniteSet({c}) /\ IsFiniteSet(1 .. n)
    <3>1. 1 \in Int /\ n \in Int
      BY <2>1
    <3> QED BY <3>1, FS_Singleton, FS_Interval
  <2>4. IsFiniteSet({c} \X (1 .. n))
    BY <2>3, FS_Product
  <2>5. Mcp!Of(c) \subseteq {c} \X (1 .. n)
    BY <2>2
  <2> QED BY <2>2, <2>4, <2>5, FS_Subset DEF n
<1>5. ASSUME NEW c \in Call, NEW x \in Mcp!Of(c), NEW y \in Mcp!Of(c), x[2] = y[2] PROVE x = y
  BY <1>3, <1>5 DEF Mcp!Of
<1> QED BY <1>1, <1>2, <1>3, <1>4, <1>5

\* decide() says one of three.
LEMMA TakenIs == \A x : /\ Mcp!Taken(x) \in {"denied", "running", "asking"}
                        /\ Mcp!Taken(x) = "denied" <=> Mcp!decide(x) = "deny"
                        /\ Mcp!Taken(x) = "running" <=> Mcp!decide(x) = "allow"
BY DEF Mcp!Taken, Mcp!decide

BusyOf(c, s) == {x \in Mcp!Of(c) : s[x] \in Mcp!Busy}
Orderly(c, s) == \A x \in Mcp!Of(c), y \in Mcp!Of(c) : s[x] = "queued" /\ x[2] < y[2] => s[y] = "queued"
Bounded(c, s) == Cardinality(BusyOf(c, s)) <= Limit /\ Orderly(c, s)

\* Of numbers, not above n, one is the last.
LEMMA OneIsLast ==
  ASSUME NEW S \in SUBSET Nat, NEW n \in Nat, S # {}, \A k \in S : k <= n
  PROVE  \E k \in S : \A j \in S : j <= k
<1> DEFINE D == {n - k : k \in S}
<1>1. D \in SUBSET Nat /\ D # {}
  OBVIOUS
<1>2. PICK d \in D : \A j \in D : d <= j
  <2> HIDE DEF D
  <2> QED BY <1>1, OneIsFirst
<1>3. PICK k \in S : d = n - k
  BY <1>2
<1>4. \A j \in S : j <= k
  <2> SUFFICES ASSUME NEW j \in S PROVE j <= k
    OBVIOUS
  <2>1. n - j \in D
    OBVIOUS
  <2>2. d <= n - j
    BY <1>2, <2>1
  <2> QED BY <1>3, <2>2
<1> QED BY <1>4

\* Free lanes take the next hosts, and no more of them than there are lanes.
LEMMA LanesFill ==
  ASSUME NEW s \in [Mcp!Exec -> Lane], NEW c \in Call, Bounded(c, s)
  PROVE  Mcp!Lanes(s) \in [Mcp!Exec -> Lane] /\ Bounded(c, Mcp!Lanes(s))
<1> DEFINE L == Mcp!Lanes(s)
           Ahead(x) == {y \in Mcp!Of(c) : s[y] \in Mcp!Busy \/ (s[y] = "queued" /\ y[2] < x[2] /\ Mcp!decide(y) # "deny")}
           Taking == {x \in Mcp!Of(c) : s[x] = "queued" /\ L[x] \in Mcp!Busy}
<1>1. /\ Mcp!Of(c) \subseteq Mcp!Exec /\ IsFiniteSet(Mcp!Of(c)) /\ \A x \in Mcp!Of(c) : x[1] = c /\ x[2] \in Nat
      /\ \A x \in Mcp!Of(c), y \in Mcp!Of(c) : x[2] = y[2] => x = y
  BY CommandsOf DEF Mcp!Of
<1>2. L \in [Mcp!Exec -> Lane]
  BY TakenIs DEF Mcp!Lanes, Lane, Mcp!Busy, Mcp!Ended
<1>3. \A x \in Mcp!Of(c) :
        /\ s[x] # "queued" => L[x] = s[x]
        /\ s[x] = "queued" /\ Cardinality(Ahead(x)) < Limit => L[x] = Mcp!Taken(x)
        /\ s[x] = "queued" /\ ~(Cardinality(Ahead(x)) < Limit) => L[x] = "queued"
  BY <1>1, McpCardinality DEF Mcp!Lanes, Mcp!Reached
<1>4. \A x : IsFiniteSet(Ahead(x)) /\ Cardinality(Ahead(x)) \in Nat
  <2> SUFFICES ASSUME NEW x PROVE IsFiniteSet(Ahead(x)) /\ Cardinality(Ahead(x)) \in Nat
    OBVIOUS
  <2>1. Ahead(x) \subseteq Mcp!Of(c)
    OBVIOUS
  <2> HIDE DEF Ahead
  <2> QED BY <1>1, <2>1, FS_Subset, FS_CardinalityType
<1> HIDE DEF L
<1>5. Cardinality(BusyOf(c, L)) <= Limit
  <2>1. CASE Taking = {}
    <3>1. BusyOf(c, L) = BusyOf(c, s)
      BY <1>3, <2>1 DEF BusyOf, Mcp!Busy
    <3> QED BY <3>1 DEF Bounded
  <2>2. CASE Taking # {}
    <3> DEFINE S == {x[2] : x \in Taking}
    <3>1. S \in SUBSET Nat /\ S # {}
      BY <1>1, <2>2
    <3>2. Len(Hosts[c]) \in Nat /\ \A k \in S : k <= Len(Hosts[c])
      BY CommandsOf
    <3>3. \E k \in S : \A j \in S : j <= k
      <4> HIDE DEF S
      <4> QED BY <3>1, <3>2, OneIsLast
    <3>4. PICK z \in Taking : \A x \in Taking : x[2] <= z[2]
      BY <3>3
    <3>5. BusyOf(c, L) \subseteq Ahead(z) \cup {z}
      <4> SUFFICES ASSUME NEW x \in BusyOf(c, L), x # z PROVE x \in Ahead(z)
        OBVIOUS
      <4>1. x \in Mcp!Of(c) /\ L[x] \in Mcp!Busy
        BY DEF BusyOf
      <4>2. CASE s[x] # "queued"
        BY <1>3, <4>1, <4>2
      <4>3. CASE s[x] = "queued"
        <5>1. x \in Taking /\ L[x] = Mcp!Taken(x)
          BY <1>3, <4>1, <4>3 DEF Mcp!Busy
        <5>2. x[2] < z[2]
          BY <1>1, <3>4, <4>1, <5>1
        <5>3. Mcp!decide(x) # "deny"
          BY <4>1, <5>1, TakenIs DEF Mcp!Busy
        <5> QED BY <4>1, <4>3, <5>2, <5>3
      <4> QED BY <4>2, <4>3
    <3>6. Cardinality(Ahead(z)) < Limit
      BY <1>3, <3>4 DEF Mcp!Busy
    <3> HIDE DEF Ahead
    <3>7. IsFiniteSet(Ahead(z) \cup {z}) /\ Cardinality(Ahead(z) \cup {z}) <= Cardinality(Ahead(z)) + 1
      <4>1. IsFiniteSet(Ahead(z)) /\ Cardinality(Ahead(z)) \in Nat
        BY <1>4
      <4>2. /\ IsFiniteSet(Ahead(z) \cup {z})
            /\ Cardinality(Ahead(z) \cup {z}) = IF z \in Ahead(z) THEN Cardinality(Ahead(z)) ELSE Cardinality(Ahead(z)) + 1
        BY <4>1, FS_AddElement
      <4> QED BY <4>1, <4>2
    <3>8. Cardinality(BusyOf(c, L)) <= Cardinality(Ahead(z) \cup {z})
      BY <3>5, <3>7, FS_Subset
    <3>9. IsFiniteSet(BusyOf(c, L)) /\ Cardinality(BusyOf(c, L)) \in Nat /\ Cardinality(Ahead(z) \cup {z}) \in Nat
      BY <3>5, <3>7, FS_Subset, FS_CardinalityType
    <3> QED BY <1>4, <3>6, <3>7, <3>8, <3>9, LimitsAssumption
  <2> QED BY <2>1, <2>2
<1>6. Orderly(c, L)
  <2> SUFFICES ASSUME NEW x \in Mcp!Of(c), NEW y \in Mcp!Of(c), L[x] = "queued", x[2] < y[2] PROVE L[y] = "queued"
    BY DEF Orderly
  <2>1. s[x] = "queued" /\ ~(Cardinality(Ahead(x)) < Limit)
    BY <1>3, TakenIs
  <2>2. s[y] = "queued"
    BY <2>1 DEF Bounded, Orderly
  <2>3. Ahead(x) \subseteq Ahead(y)
    BY <1>1
  <2> HIDE DEF Ahead
  <2>4. Cardinality(Ahead(x)) <= Cardinality(Ahead(y))
    BY <1>4, <2>3, FS_Subset
  <2>5. ~(Cardinality(Ahead(y)) < Limit)
    BY <1>4, <2>1, <2>4, LimitsAssumption
  <2> QED BY <1>3, <2>2, <2>5
<1> QED BY <1>2, <1>5, <1>6 DEF Bounded, L

McpInv ==
  /\ exec \in [Mcp!Exec -> Lane] /\ rows \in [Mcp!Exec -> Nat]
  /\ approved \subseteq {x \in Mcp!Exec : exec[x] \in {"running", "ran", "failed"}}
  /\ Mcp!AuditedOnce /\ \A c \in Call : Bounded(c, exec)

LEMMA InitMcp == Mcp!Init => McpInv
<1> SUFFICES ASSUME Mcp!Init PROVE McpInv
  OBVIOUS
<1>1. exec \in [Mcp!Exec -> Lane] /\ rows \in [Mcp!Exec -> Nat] /\ approved = {} /\ Mcp!AuditedOnce
  BY DEF Mcp!Init, Lane, Mcp!AuditedOnce, Mcp!Ended
<1>2. ASSUME NEW c \in Call PROVE Bounded(c, exec)
  <2>1. BusyOf(c, exec) = {}
    BY DEF Mcp!Init, BusyOf, Mcp!Of, Mcp!Busy
  <2>2. Cardinality(BusyOf(c, exec)) = 0
    BY <2>1, FS_EmptySet
  <2> QED BY <2>2, LimitsAssumption DEF Bounded, Orderly, Mcp!Init, Mcp!Of
<1> QED BY <1>1, <1>2 DEF McpInv

\* A call is queued as a whole; then a command that waits for an answer or runs goes on.
LEMMA Moving ==
  ASSUME McpInv, NEW X \in SUBSET Mcp!Exec, NEW k \in Lane, Mcp!Moved(X, k),
         \/ k = "queued" /\ \E c \in Call : X = Mcp!Of(c) /\ (\A x \in X : exec[x] = "none")
         \/ k \in Mcp!Busy \cup Mcp!Ended /\ \A x \in X : exec[x] \in Mcp!Busy,
         approved' \subseteq {x \in Mcp!Exec : exec[x] \in {"running", "ran", "failed"} \/ (x \in X /\ k = "running")},
         \A x \in X : exec[x] = "running" => k \in {"ran", "failed"}
  PROVE  McpInv'
<1> DEFINE s == [x \in Mcp!Exec |-> IF x \in X THEN k ELSE exec[x]]
<1>1. exec \in [Mcp!Exec -> Lane] /\ rows \in [Mcp!Exec -> Nat] /\ s \in [Mcp!Exec -> Lane]
  BY DEF McpInv
<1>2. /\ exec' = Mcp!Lanes(s)
      /\ rows' = [x \in Mcp!Exec |-> rows[x] + (IF x \in X /\ k \in Mcp!Ended THEN 1 ELSE 0)
                                      + (IF s[x] = "queued" /\ exec'[x] = "denied" THEN 1 ELSE 0)]
  BY DEF Mcp!Moved
<1>3. \A x \in Mcp!Exec : s[x] = IF x \in X THEN k ELSE exec[x]
  OBVIOUS
<1> HIDE DEF s
<1>4. ASSUME NEW c \in Call PROVE Bounded(c, s)
  <2>1. Bounded(c, exec) /\ IsFiniteSet(Mcp!Of(c)) /\ Mcp!Of(c) \subseteq Mcp!Exec
    BY CommandsOf DEF McpInv, Mcp!Of
  <2>2. BusyOf(c, exec) \subseteq Mcp!Of(c) /\ BusyOf(c, s) \subseteq Mcp!Of(c)
    BY DEF BusyOf
  <2>3. IsFiniteSet(BusyOf(c, exec)) /\ Cardinality(BusyOf(c, exec)) \in Nat
        /\ IsFiniteSet(BusyOf(c, s)) /\ Cardinality(BusyOf(c, s)) \in Nat
    BY <2>1, <2>2, FS_Subset, FS_CardinalityType
  <2>4. BusyOf(c, s) \subseteq BusyOf(c, exec)
    BY <1>3, <2>1 DEF BusyOf, Mcp!Busy
  <2>5. Cardinality(BusyOf(c, s)) <= Limit
    <3>1. Cardinality(BusyOf(c, s)) <= Cardinality(BusyOf(c, exec))
      BY <2>3, <2>4, FS_Subset
    <3> QED BY <2>1, <2>3, <3>1, LimitsAssumption DEF Bounded
  <2>6. Orderly(c, s)
    <3>1. CASE k = "queued" /\ \E d \in Call : X = Mcp!Of(d) /\ \A x \in X : exec[x] = "none"
      <4>1. PICK d \in Call : X = Mcp!Of(d)
        BY <3>1
      <4>2. CASE c = d
        BY <1>3, <2>1, <3>1, <4>1, <4>2 DEF Orderly
      <4>3. CASE c # d
        <5>1. \A x \in Mcp!Of(c) : x \notin X
          BY <4>1, <4>3 DEF Mcp!Of
        <5> QED BY <1>3, <2>1, <5>1 DEF Orderly, Bounded
      <4> QED BY <4>2, <4>3
    <3>2. CASE k \in Mcp!Busy \cup Mcp!Ended /\ \A x \in X : exec[x] \in Mcp!Busy
      <4>1. \A x \in Mcp!Of(c) : s[x] = "queued" <=> exec[x] = "queued"
        BY <1>3, <2>1, <3>2 DEF Mcp!Busy, Mcp!Ended
      <4> QED BY <2>1, <4>1 DEF Orderly, Bounded
    <3> QED BY <3>1, <3>2
  <2> QED BY <2>5, <2>6 DEF Bounded
<1>5. exec' \in [Mcp!Exec -> Lane]
  <2>1. CASE Call = {}
    <3>1. Mcp!Exec = {}
      BY <2>1, CommandsOf
    <3> QED BY <1>2, <3>1 DEF Mcp!Lanes
  <2>2. CASE Call # {}
    BY <1>1, <1>2, <1>4, <2>2, LanesFill
  <2> QED BY <2>1, <2>2
<1>6. \A c \in Call : Bounded(c, exec')
  BY <1>1, <1>2, <1>4, LanesFill
<1>7. \A x \in Mcp!Exec : /\ s[x] # "queued" => exec'[x] = s[x]
                          /\ s[x] = "queued" => exec'[x] \in {"queued", "denied", "running", "asking"}
  BY <1>2, TakenIs DEF Mcp!Lanes
<1>8. approved' \subseteq {x \in Mcp!Exec : exec'[x] \in {"running", "ran", "failed"}}
  BY <1>3, <1>7 DEF Mcp!Busy
<1>9. Mcp!AuditedOnce' /\ rows' \in [Mcp!Exec -> Nat]
  <2>1. \A x \in Mcp!Exec : rows[x] = IF exec[x] \in Mcp!Ended THEN 1 ELSE 0
    BY DEF McpInv, Mcp!AuditedOnce
  <2>2. ASSUME NEW x \in Mcp!Exec PROVE rows'[x] = IF exec'[x] \in Mcp!Ended THEN 1 ELSE 0
    <3>1. rows'[x] = rows[x] + (IF x \in X /\ k \in Mcp!Ended THEN 1 ELSE 0)
                             + (IF s[x] = "queued" /\ exec'[x] = "denied" THEN 1 ELSE 0)
      BY <1>2
    <3>2. CASE x \in X
      <4>1. rows[x] = 0 /\ s[x] = k
        BY <1>3, <2>1, <3>2 DEF Mcp!Ended, Mcp!Busy
      <4>2. k \in Mcp!Ended \/ k \notin Mcp!Ended
        OBVIOUS
      <4> QED BY <1>7, <3>1, <3>2, <4>1, <4>2 DEF Mcp!Ended, Mcp!Busy
    <3>3. CASE x \notin X
      <4>1. s[x] = exec[x]
        BY <1>3, <3>3
      <4> QED BY <1>7, <2>1, <3>1, <3>3, <4>1 DEF Mcp!Ended
    <3> QED BY <3>2, <3>3
  <2>3. rows' \in [Mcp!Exec -> Nat]
    <3>1. \A x \in Mcp!Exec : rows'[x] \in Nat
      BY <2>2
    <3> QED BY <1>2, <3>1
  <2> QED BY <2>2, <2>3 DEF Mcp!AuditedOnce
<1> QED BY <1>5, <1>6, <1>8, <1>9 DEF McpInv

Consented(x) ==
  Mcp!Begins(x) => \/ exec[x] = "asking" /\ x \in approved' \ approved
                   \/ approvalMode = "allowlist" /\ Shape[x[1]] = "listed" /\ Mcp!HostOf(x) \in execHosts

\* A free lane begins what the policy allows, and nothing else.
LEMMA LanesConsent ==
  ASSUME McpInv, NEW X \in SUBSET Mcp!Exec, NEW k \in Lane, Mcp!Moved(X, k), NEW x \in Mcp!Exec,
         x \in X /\ k = "running" => exec[x] = "asking" /\ x \in approved'
  PROVE  Mcp!Begins(x) => \/ exec[x] = "asking" /\ x \in approved' \ approved
                          \/ Mcp!decide(x) = "allow"
<1> SUFFICES ASSUME exec[x] # "running", exec'[x] = "running", Mcp!decide(x) # "allow"
             PROVE exec[x] = "asking" /\ x \in approved' \ approved
  BY DEF Mcp!Begins
<1> DEFINE s == [y \in Mcp!Exec |-> IF y \in X THEN k ELSE exec[y]]
<1>1. exec' = Mcp!Lanes(s) /\ s[x] = IF x \in X THEN k ELSE exec[x]
  BY DEF Mcp!Moved
<1> HIDE DEF s
<1>2. exec'[x] = s[x] \/ exec'[x] = Mcp!Taken(x)
  BY <1>1 DEF Mcp!Lanes
<1>3. s[x] = "running"
  BY <1>2, TakenIs
<1>4. x \in X /\ k = "running"
  BY <1>1, <1>3
<1>5. x \notin approved
  BY <1>4 DEF McpInv
<1> QED BY <1>4, <1>5

LEMMA Allowed ==
  \A x \in Mcp!Exec : Mcp!decide(x) = "allow" =>
    approvalMode = "allowlist" /\ Shape[x[1]] = "listed" /\ Mcp!HostOf(x) \in execHosts
BY CommandsOf DEF Mcp!decide

LEMMA McpNext ==
  ASSUME McpInv, Mcp!Next PROVE McpInv' /\ \A x \in Mcp!Exec : Consented(x)
<1> USE DEF Mcp!settings, Mcp!http
<1>1. CASE UNCHANGED <<exec, rows, approved>>
  <2>1. McpInv'
    <3>1. \A c \in Call : Bounded(c, exec)'
      BY <1>1 DEF McpInv, Bounded, BusyOf, Orderly
    <3> QED BY <1>1, <3>1 DEF McpInv, Mcp!AuditedOnce
  <2> QED BY <1>1, <2>1 DEF Consented, Mcp!Begins
<1>2. CASE Mcp!Disable
  <2>1. Mcp!Moved(Mcp!In({"asking"}), "denied") /\ approved' = approved
    BY <1>2 DEF Mcp!Disable
  <2>2. /\ Mcp!In({"asking"}) \in SUBSET Mcp!Exec /\ "denied" \in Lane
        /\ "denied" \in Mcp!Busy \cup Mcp!Ended
        /\ \A x \in Mcp!In({"asking"}) : exec[x] = "asking" /\ exec[x] \in Mcp!Busy
    BY DEF Mcp!In, Lane, Mcp!Busy, Mcp!Ended
  <2>3. approved' \subseteq {x \in Mcp!Exec : exec[x] \in {"running", "ran", "failed"}}
    BY <2>1 DEF McpInv
  <2> QED BY <2>1, <2>2, <2>3, Moving, LanesConsent, Allowed DEF Consented
<1>3. ASSUME NEW c \in Call, Mcp!Handle(c) PROVE McpInv' /\ \A x \in Mcp!Exec : Consented(x)
  <2>1. Mcp!Moved(Mcp!Of(c), "queued") /\ approved' = approved /\ \A x \in Mcp!Of(c) : exec[x] = "none"
    BY <1>3 DEF Mcp!Handle
  <2>2. Mcp!Of(c) \in SUBSET Mcp!Exec /\ "queued" \in Lane
    BY DEF Mcp!Of, Lane
  <2>3. approved' \subseteq {x \in Mcp!Exec : exec[x] \in {"running", "ran", "failed"}}
    BY <2>1 DEF McpInv
  <2> QED BY <2>1, <2>2, <2>3, Moving, LanesConsent, Allowed DEF Consented
<1>4. ASSUME NEW z \in Mcp!Exec, Mcp!Approve(z) \/ Mcp!Deny(z) \/ Mcp!Settle(z)
      PROVE  McpInv' /\ \A x \in Mcp!Exec : Consented(x)
  <2>1. PICK k \in Mcp!Busy \cup Mcp!Ended :
          /\ Mcp!Moved({z}, k) /\ exec[z] \in Mcp!Busy
          /\ \/ k = "running" /\ exec[z] = "asking" /\ approved' = approved \cup {z}
             \/ k = "denied" /\ exec[z] = "asking" /\ approved' = approved
             \/ k \in {"ran", "failed"} /\ exec[z] = "running" /\ approved' = approved
    BY <1>4 DEF Mcp!Approve, Mcp!Deny, Mcp!Settle, Mcp!Busy, Mcp!Ended
  <2>2. {z} \in SUBSET Mcp!Exec /\ k \in Lane
    BY DEF Lane
  <2>3. approved' \subseteq {x \in Mcp!Exec : exec[x] \in {"running", "ran", "failed"} \/ (x \in {z} /\ k = "running")}
    BY <2>1 DEF McpInv
  <2>4. McpInv'
    BY <2>1, <2>2, <2>3, Moving
  <2>5. \A x \in Mcp!Exec : x \in {z} /\ k = "running" => exec[x] = "asking" /\ x \in approved'
    BY <2>1
  <2> QED BY <2>1, <2>2, <2>4, <2>5, LanesConsent, Allowed DEF Consented
<1>5. Mcp!Next =>
        \/ UNCHANGED <<exec, rows, approved>> \/ Mcp!Disable \/ \E c \in Call : Mcp!Handle(c)
        \/ \E z \in Mcp!Exec : Mcp!Approve(z) \/ Mcp!Deny(z) \/ Mcp!Settle(z)
  BY DEF Mcp!Next, Mcp!Enable, Mcp!EditPolicy, Mcp!Listening, Mcp!ListenFails, Mcp!Arrive
<1> QED BY <1>1, <1>2, <1>3, <1>4, <1>5

LEMMA McpStays == ASSUME McpInv, UNCHANGED <<exec, rows, approved>> PROVE McpInv'
<1>1. \A c \in Call : Bounded(c, exec)'
  BY DEF McpInv, Bounded, BusyOf, Orderly
<1> QED BY <1>1 DEF McpInv, Mcp!AuditedOnce

LEMMA McpShows == McpInv => Mcp!AuditedOnce /\ Mcp!LanesBounded
<1> SUFFICES ASSUME McpInv, NEW c \in Call
             PROVE  /\ Cardinality(Mcp!Of(c) \cap Mcp!In(Mcp!Busy)) <= Limit
                    /\ Orderly(c, exec)
  BY McpCardinality DEF McpInv, Mcp!LanesBounded, Orderly
<1>1. Mcp!Of(c) \cap Mcp!In(Mcp!Busy) = BusyOf(c, exec)
  BY DEF BusyOf, Mcp!In, Mcp!Of
<1> QED BY <1>1 DEF McpInv, Bounded
-----------------------------------------------------------------------------
(* The runs on many hosts *)

Note == [run : Run, host : Host, status : Fleet!Outcome \cup {"running", "output"}]

FleetTypes ==
  /\ st \in [Run -> [Host -> Fleet!Started \cup {"none", "queued", "done"}]]
  /\ outcome \in [Run -> [Host -> Fleet!Outcome \cup {None}]]
  /\ aborted \in SUBSET Run /\ replies \in SUBSET Run /\ autoDed \in SUBSET (Run \X Host)
  /\ window \in BOOLEAN /\ shown \in Run \cup {None} /\ events \in Seq(Note)
  /\ autoRows \in [Run -> [Host -> Fleet!Outcome \cup {"pending", "running", None}]]

About(r, h) == {i \in DOMAIN events : events[i].run = r /\ events[i].host = h}

\* What a row shows, with the events that will come: how the host stands.
RowShows(r, h) ==
  /\ st[r][h] = "none" => About(r, h) = {} /\ autoRows[r][h] = None
  /\ st[r][h] = "queued" =>
       About(r, h) = {} /\ (autoRows[r][h] = "pending" \/ (autoRows[r][h] = None /\ r \in replies))
  /\ st[r][h] \in Fleet!Started =>
       /\ autoRows[r][h] \in {None, "pending", "running"}
       /\ \A i \in About(r, h) : events[i].status \in {"running", "output"}
       /\ autoRows[r][h] = "running" \/ About(r, h) # {}
  /\ st[r][h] = "done" =>
       /\ outcome[r][h] \in Fleet!Outcome
       /\ \/ About(r, h) = {} /\ autoRows[r][h] = outcome[r][h]
          \/ \E i \in About(r, h) : \A j \in About(r, h) : j >= i => events[j].status = outcome[r][h]

LanesInUse == \A r \in Run : Cardinality(Fleet!Active(r)) <= MaxConcurrent
RowsShow == window => \A r \in Run, h \in Host : RowShows(r, h)
FleetInv == FleetTypes /\ LanesInUse /\ Fleet!ConnectionsEnd /\ RowsShow

LEMMA FleetCardinality == \A S : Fleet!Cardinality(S) = Cardinality(S)
BY DEF Fleet!Cardinality, Cardinality

LEMMA HostsAreFinite == \A S \in SUBSET Host : IsFiniteSet(S) /\ Cardinality(S) \in Nat
BY CallsAssumption, FS_Subset, FS_CardinalityType

\* The sequence made of a set has its elements and no other.
LEMMA SequenceOf ==
  ASSUME NEW S, IsFiniteSet(S)
  PROVE  Fleet!SetToSeq(S) \in Seq(S) /\ \A x \in S : \E i \in DOMAIN Fleet!SetToSeq(S) : Fleet!SetToSeq(S)[i] = x
<1> DEFINE n == Cardinality(S)
           s == Fleet!SetToSeq(S)
<1>1. n \in Nat /\ ExistsBijection(1 .. n, S)
  BY FS_CardinalityType
<1>2. PICK b : b \in Bijection(1 .. n, S)
  BY <1>1 DEF ExistsBijection
<1>3. b \in [1 .. n -> S] /\ \A i, j \in 1 .. n : b[i] = b[j] => i = j
  BY <1>2 DEF Bijection, Injection, IsInjective
<1>4. \E f \in [1 .. Fleet!Cardinality(S) -> S] : Fleet!IsInjective(f)
  BY <1>3, FleetCardinality DEF Fleet!IsInjective
<1>5. s \in [1 .. n -> S] /\ Fleet!IsInjective(s)
  BY <1>4, FleetCardinality DEF Fleet!SetToSeq
<1> HIDE DEF s
<1>6. s \in Injection(1 .. n, S)
  BY <1>5 DEF Injection, IsInjective, Fleet!IsInjective
<1>7. Cardinality(1 .. n) = n
  <2>1. 1 \in Int /\ n \in Int
    BY <1>1
  <2>2. Cardinality(1 .. n) = IF 1 > n THEN 0 ELSE n - 1 + 1
    BY <2>1, FS_Interval
  <2> QED BY <1>1, <2>2
<1>8. s \in Surjection(1 .. n, S)
  BY <1>6, <1>7, FS_Injection
<1>9. \A x \in S : \E i \in 1 .. n : s[i] = x
  BY <1>8 DEF Surjection
<1>10. s \in Seq(S) /\ DOMAIN s = 1 .. n
  BY <1>1, <1>5
<1> QED BY <1>9, <1>10 DEF s

LEMMA InitFleet == Fleet!Init => FleetInv
<1> SUFFICES ASSUME Fleet!Init PROVE FleetInv
  OBVIOUS
<1>1. FleetTypes
  BY DEF Fleet!Init, FleetTypes
<1>2. LanesInUse
  <2> SUFFICES ASSUME NEW r \in Run PROVE Cardinality(Fleet!Active(r)) <= MaxConcurrent
    BY DEF LanesInUse
  <2>1. Fleet!Active(r) = {}
    BY DEF Fleet!Init, Fleet!Active, Fleet!Started
  <2> QED BY <2>1, FS_EmptySet, LimitsAssumption
<1>3. Fleet!ConnectionsEnd /\ RowsShow
  BY DEF Fleet!Init, Fleet!ConnectionsEnd, RowsShow, RowShows, About, Fleet!Started
<1> QED BY <1>1, <1>2, <1>3 DEF FleetInv

IsAbout(e, r, h) == e.run = r /\ e.host = h

\* Sending adds to the end.
Grows(es, r, h) ==
  /\ \A i \in About(r, h) : i \in About(r, h)' /\ events'[i] = events[i]
  /\ \A i \in About(r, h)' \ About(r, h) :
       i > Len(events) /\ i - Len(events) \in DOMAIN es /\ events'[i] = es[i - Len(events)]
       /\ IsAbout(es[i - Len(events)], r, h)
  /\ \A k \in DOMAIN es : IsAbout(es[k], r, h) =>
       Len(events) + k \in About(r, h)' /\ events'[Len(events) + k] = es[k]

LEMMA Sent ==
  ASSUME FleetTypes, NEW es \in Seq(Note), events' = events \o es, NEW r, NEW h
  PROVE  events' \in Seq(Note) /\ Grows(es, r, h)
<1>1. events \in Seq(Note) /\ Len(events) \in Nat
  BY DEF FleetTypes
<1>2. /\ events' \in Seq(Note) /\ Len(events') = Len(events) + Len(es) /\ Len(es) \in Nat
      /\ \A i \in 1 .. Len(events) : events'[i] = events[i]
      /\ \A i \in (Len(events) + 1) .. (Len(events) + Len(es)) : events'[i] = es[i - Len(events)]
  BY <1>1
<1>3. DOMAIN events = 1 .. Len(events) /\ DOMAIN events' = 1 .. (Len(events) + Len(es)) /\ DOMAIN es = 1 .. Len(es)
  BY <1>1, <1>2
<1>4. \A i \in About(r, h) : i \in About(r, h)' /\ events'[i] = events[i]
  BY <1>1, <1>2, <1>3 DEF About
<1>5. \A i \in About(r, h)' \ About(r, h) :
        i > Len(events) /\ i - Len(events) \in DOMAIN es /\ events'[i] = es[i - Len(events)]
        /\ IsAbout(es[i - Len(events)], r, h)
  BY <1>1, <1>2, <1>3 DEF About, IsAbout
<1>6. \A k \in DOMAIN es : IsAbout(es[k], r, h) =>
        Len(events) + k \in About(r, h)' /\ events'[Len(events) + k] = es[k]
  <2> SUFFICES ASSUME NEW k \in DOMAIN es, IsAbout(es[k], r, h)
               PROVE Len(events) + k \in About(r, h)' /\ events'[Len(events) + k] = es[k]
    OBVIOUS
  <2>1. Len(events) + k \in (Len(events) + 1) .. (Len(events) + Len(es)) /\ (Len(events) + k) - Len(events) = k
    BY <1>1, <1>2, <1>3
  <2>2. events'[Len(events) + k] = es[k] /\ Len(events) + k \in DOMAIN events'
    BY <1>1, <1>2, <1>3, <2>1
  <2> QED BY <2>2 DEF About, IsAbout
<1> QED BY <1>2, <1>4, <1>5, <1>6 DEF Grows

\* The rows nothing is sent about
LEMMA RowStays ==
  ASSUME FleetTypes, NEW r \in Run, NEW h \in Host, RowShows(r, h), NEW es \in Seq(Note), events' = events \o es,
         \A k \in DOMAIN es : ~IsAbout(es[k], r, h),
         st'[r][h] = st[r][h], outcome'[r][h] = outcome[r][h], autoRows'[r][h] = autoRows[r][h],
         r \in replies => r \in replies'
  PROVE  RowShows(r, h)'
<1>1. Grows(es, r, h)
  BY Sent
<1>2. About(r, h)' = About(r, h) /\ \A i \in About(r, h) : events'[i] = events[i]
  BY <1>1 DEF Grows
<1>3. CASE st[r][h] = "done"
  <2>1. st'[r][h] \notin {"none", "queued"} \cup Fleet!Started /\ st'[r][h] = "done"
    BY <1>3 DEF Fleet!Started
  <2>2. outcome'[r][h] \in Fleet!Outcome
    BY <1>3 DEF RowShows
  <2>3. CASE About(r, h) = {} /\ autoRows[r][h] = outcome[r][h]
    BY <1>2, <2>1, <2>2, <2>3 DEF RowShows
  <2>4. ASSUME NEW i \in About(r, h), \A j \in About(r, h) : j >= i => events[j].status = outcome[r][h]
        PROVE  RowShows(r, h)'
    <3>1. i \in About(r, h)' /\ \A j \in About(r, h)' : j >= i => events'[j].status = outcome'[r][h]
      BY <1>2, <2>4
    <3> QED BY <2>1, <2>2, <3>1 DEF RowShows
  <2> QED BY <1>3, <2>3, <2>4 DEF RowShows
<1>4. CASE st[r][h] # "done"
  BY <1>2, <1>4 DEF RowShows
<1> QED BY <1>3, <1>4

\* A command that ends says so last.
LastIs(es, r, h, o) ==
  \E k \in DOMAIN es : IsAbout(es[k], r, h) /\ \A l \in DOMAIN es : l >= k /\ IsAbout(es[l], r, h) => es[l].status = o
LEMMA RowEnds ==
  ASSUME FleetTypes, NEW r \in Run, NEW h \in Host, NEW es \in Seq(Note), events' = events \o es,
         st'[r][h] = "done", NEW o \in Fleet!Outcome, outcome'[r][h] = o,
         LastIs(es, r, h, o)
  PROVE  RowShows(r, h)'
<1>. PICK k \in DOMAIN es : /\ IsAbout(es[k], r, h)
                            /\ \A l \in DOMAIN es : l >= k /\ IsAbout(es[l], r, h) => es[l].status = o
  BY DEF LastIs
<1> DEFINE n == Len(events) + k
<1>1. Len(events) \in Nat /\ DOMAIN es \subseteq Nat
  BY DEF FleetTypes
<1>0. Grows(es, r, h) /\ events' \in Seq(Note)
  BY Sent
<1>2. n \in About(r, h)'
  BY <1>0 DEF Grows
<1>3. \A j \in About(r, h)' : j >= n => events'[j].status = o
  <2> SUFFICES ASSUME NEW j \in About(r, h)', j >= n PROVE events'[j].status = o
    OBVIOUS
  <2>1. j \notin About(r, h)
    <3>1. \A i \in About(r, h) : i <= Len(events) /\ i \in Nat
      BY <1>1 DEF About, FleetTypes
    <3> QED BY <1>1, <3>1
  <2>2. j > Len(events) /\ j - Len(events) \in DOMAIN es /\ events'[j] = es[j - Len(events)]
          /\ IsAbout(es[j - Len(events)], r, h)
    BY <1>0, <2>1 DEF Grows
  <2>3. j - Len(events) >= k
    <3>1. j \in Nat
      BY <1>0 DEF About
    <3> QED BY <1>1, <3>1
  <2> QED BY <2>2, <2>3
<1> HIDE DEF n
<1> QED BY <1>2, <1>3 DEF RowShows, Fleet!Started

\* One that starts is announced.
LEMMA RowStarts ==
  ASSUME FleetTypes, NEW r \in Run, NEW h \in Host, RowShows(r, h), st[r][h] = "queued",
         events' = events \o <<Fleet!Event(r, h, "running")>>,
         st'[r][h] \in Fleet!Started, autoRows'[r][h] = autoRows[r][h]
  PROVE  RowShows(r, h)'
<1> DEFINE e == Fleet!Event(r, h, "running")
           es == <<e>>
<1>1. e \in Note /\ IsAbout(e, r, h) /\ e.status = "running"
  BY DEF Fleet!Event, Note, IsAbout
<1> HIDE DEF e
<1>2. es \in Seq(Note) /\ DOMAIN es = {1} /\ es[1] = e
  BY <1>1
<1> HIDE DEF es
<1>3. events' = events \o es
  BY DEF es, e
<1>4. Grows(es, r, h)
  BY <1>2, <1>3, Sent
<1>5. About(r, h)' # {}
  BY <1>1, <1>2, <1>4 DEF Grows
<1>6. \A i \in About(r, h)' : events'[i].status = "running"
  <2>1. About(r, h) = {}
    BY DEF RowShows
  <2> QED BY <1>1, <1>2, <1>4, <2>1 DEF Grows
<1> QED BY <1>5, <1>6 DEF RowShows, Fleet!Started

LEMMA LanesStay ==
  ASSUME LanesInUse, \A r \in Run : Fleet!Active(r)' \subseteq Fleet!Active(r)
  PROVE  LanesInUse'
<1> SUFFICES ASSUME NEW r \in Run PROVE Cardinality(Fleet!Active(r)') <= MaxConcurrent
  BY DEF LanesInUse
<1>1. Fleet!Active(r) \in SUBSET Host /\ Fleet!Active(r)' \in SUBSET Host
  BY DEF Fleet!Active
<1>2. IsFiniteSet(Fleet!Active(r)) /\ Cardinality(Fleet!Active(r)) \in Nat /\ Cardinality(Fleet!Active(r)') \in Nat
  BY <1>1, HostsAreFinite
<1>3. Cardinality(Fleet!Active(r)') <= Cardinality(Fleet!Active(r))
  BY <1>2, FS_Subset
<1> QED BY <1>2, <1>3, LimitsAssumption DEF LanesInUse

\* A step of the command on one host, with what it sends
LEMMA OneStep ==
  ASSUME FleetInv, NEW r \in Run, NEW h \in Host, NEW l \in Fleet!Started \cup {"none", "queued", "done"},
         st' = [st EXCEPT ![r][h] = l],
         outcome' = outcome \/ \E o \in Fleet!Outcome : outcome' = [outcome EXCEPT ![r][h] = o],
         UNCHANGED <<aborted, window, replies, autoRows, shown>>,
         autoDed' \in SUBSET (Run \X Host), Fleet!ConnectionsEnd',
         NEW es \in Seq(Note), \A k \in DOMAIN es : IsAbout(es[k], r, h), Fleet!Emit(es),
         l \in Fleet!Started => st[r][h] \in Fleet!Started \/ Cardinality(Fleet!Active(r)) < MaxConcurrent,
         window => RowShows(r, h)'
  PROVE  FleetInv'
<1>1. FleetTypes /\ st' \in [Run -> [Host -> Fleet!Started \cup {"none", "queued", "done"}]]
  BY DEF FleetInv, FleetTypes
<1>2. outcome' \in [Run -> [Host -> Fleet!Outcome \cup {None}]]
  <2>1. outcome \in [Run -> [Host -> Fleet!Outcome \cup {None}]]
    BY <1>1 DEF FleetTypes
  <2>2. ASSUME NEW o \in Fleet!Outcome, outcome' = [outcome EXCEPT ![r][h] = o]
        PROVE  outcome' \in [Run -> [Host -> Fleet!Outcome \cup {None}]]
    BY <2>1, <2>2
  <2> QED BY <2>1, <2>2
<1>3. events' \in Seq(Note)
  BY <1>1 DEF FleetTypes, Fleet!Emit
<1>4. FleetTypes'
  BY <1>1, <1>2, <1>3 DEF FleetTypes
<1>5. \A q \in Run, x \in Host : q # r \/ x # h => st'[q][x] = st[q][x] /\ outcome'[q][x] = outcome[q][x]
  BY <1>1 DEF FleetTypes
<1>6. LanesInUse'
  <2>1. st'[r][h] = l
    BY <1>1 DEF FleetTypes
  <2>2. \A q \in Run : q # r => Fleet!Active(q)' \subseteq Fleet!Active(q)
    BY <1>5 DEF Fleet!Active
  <2>3. CASE l \notin Fleet!Started \/ st[r][h] \in Fleet!Started
    <3>1. Fleet!Active(r)' \subseteq Fleet!Active(r)
      BY <1>5, <2>1, <2>3 DEF Fleet!Active
    <3> QED BY <2>2, <3>1, LanesStay DEF FleetInv
  <2>4. CASE l \in Fleet!Started /\ st[r][h] \notin Fleet!Started
    <3>1. Fleet!Active(r)' \subseteq Fleet!Active(r) \cup {h}
      BY <1>5, <2>1 DEF Fleet!Active
    <3>2. Fleet!Active(r) \in SUBSET Host /\ Fleet!Active(r) \cup {h} \in SUBSET Host
      BY DEF Fleet!Active
    <3>3. IsFiniteSet(Fleet!Active(r)) /\ Cardinality(Fleet!Active(r)) \in Nat /\ IsFiniteSet(Fleet!Active(r) \cup {h})
          /\ Cardinality(Fleet!Active(r) \cup {h}) \in Nat
      BY <3>2, HostsAreFinite
    <3>4. Cardinality(Fleet!Active(r) \cup {h}) <= Cardinality(Fleet!Active(r)) + 1
      <4>1. Cardinality(Fleet!Active(r) \cup {h})
              = IF h \in Fleet!Active(r) THEN Cardinality(Fleet!Active(r)) ELSE Cardinality(Fleet!Active(r)) + 1
        BY <3>3, FS_AddElement
      <4> QED BY <3>3, <4>1
    <3>5. Cardinality(Fleet!Active(r)') <= Cardinality(Fleet!Active(r) \cup {h}) /\ Cardinality(Fleet!Active(r)') \in Nat
      BY <3>1, <3>3, FS_Subset, FS_CardinalityType
    <3>6. Cardinality(Fleet!Active(r)') <= MaxConcurrent
      BY <2>4, <3>3, <3>4, <3>5, LimitsAssumption
    <3>7. ASSUME NEW q \in Run, q # r PROVE Cardinality(Fleet!Active(q)') <= MaxConcurrent
      <4>1. Fleet!Active(q)' = Fleet!Active(q)
        BY <1>5, <3>7 DEF Fleet!Active
      <4> QED BY <4>1 DEF FleetInv, LanesInUse
    <3> QED BY <3>6, <3>7 DEF LanesInUse
  <2> QED BY <2>3, <2>4
<1>7. RowsShow'
  <2> SUFFICES ASSUME window, NEW q \in Run, NEW x \in Host PROVE RowShows(q, x)'
    BY DEF RowsShow
  <2>1. CASE q = r /\ x = h
    BY <2>1
  <2>2. CASE q # r \/ x # h
    <3>1. \A k \in DOMAIN es : ~IsAbout(es[k], q, x)
      BY <2>2 DEF IsAbout
    <3>2. RowShows(q, x) /\ events' = events \o es
      BY DEF FleetInv, RowsShow, Fleet!Emit
    <3>3. st'[q][x] = st[q][x] /\ outcome'[q][x] = outcome[q][x] /\ autoRows'[q][x] = autoRows[q][x]
          /\ (q \in replies => q \in replies')
      BY <1>5, <2>2
    <3> QED BY <1>1, <3>1, <3>2, <3>3, RowStays
  <2> QED BY <2>1, <2>2
<1> QED BY <1>4, <1>6, <1>7 DEF FleetInv

LEMMA NoteIs ==
  ASSUME NEW r \in Run, NEW h \in Host, NEW x \in Fleet!Outcome \cup {"running", "output"}
  PROVE  Fleet!Event(r, h, x) \in Note /\ IsAbout(Fleet!Event(r, h, x), r, h) /\ Fleet!Event(r, h, x).status = x
BY DEF Note, IsAbout, Fleet!Event

LEMMA Finishes ==
  ASSUME FleetInv, NEW r \in Run, NEW h \in Host, NEW o \in Fleet!Outcome, st[r][h] \in Fleet!Started,
         Fleet!Finish(r, h, o), UNCHANGED <<aborted, window, replies, autoRows, shown>>
  PROVE  FleetInv'
<1> DEFINE e == Fleet!Event(r, h, o)
           es == <<e>>
<1>1. e \in Note /\ IsAbout(e, r, h) /\ e.status = o
  BY NoteIs
<1> HIDE DEF e
<1>2. es \in Seq(Note) /\ DOMAIN es = {1} /\ es[1] = e /\ 1 \in DOMAIN es
  BY <1>1
<1> HIDE DEF es
<1>3. /\ st' = [st EXCEPT ![r][h] = "done"] /\ outcome' = [outcome EXCEPT ![r][h] = o]
      /\ autoDed' = autoDed \ {<<r, h>>} /\ Fleet!Emit(es)
  BY DEF Fleet!Finish, Fleet!Goto, es, e
<1>4. FleetTypes /\ st'[r][h] = "done" /\ outcome'[r][h] = o /\ autoDed' \in SUBSET (Run \X Host)
  BY <1>3 DEF FleetInv, FleetTypes
<1>5. Fleet!ConnectionsEnd'
  BY <1>3, <1>4 DEF FleetInv, Fleet!ConnectionsEnd, FleetTypes
<1>6. window => RowShows(r, h)'
  <2>1. SUFFICES ASSUME window PROVE RowShows(r, h)'
    OBVIOUS
  <2>2. events' = events \o es
    BY <1>3, <2>1 DEF Fleet!Emit
  <2>3. \A l \in DOMAIN es : l >= 1 /\ IsAbout(es[l], r, h) => es[l].status = o
    BY <1>1, <1>2
  <2>4. PICK k \in DOMAIN es : k = 1
    BY <1>2
  <2>5. LastIs(es, r, h, o)
    BY <1>1, <1>2, <2>3, <2>4 DEF LastIs
  <2> QED BY <1>2, <1>4, <2>2, <2>5, RowEnds
<1>7. "done" \notin Fleet!Started
  BY DEF Fleet!Started
<1> QED BY <1>1, <1>2, <1>3, <1>4, <1>5, <1>6, <1>7, OneStep
LEMMA Takes ==
  ASSUME FleetInv, NEW r \in Run, NEW h \in Host, NEW b \in BOOLEAN, Fleet!Take(r, h, b) PROVE FleetInv'
<1>1. /\ FleetTypes /\ Fleet!ConnectionsEnd /\ st[r][h] = "queued" /\ Cardinality(Fleet!Active(r)) < MaxConcurrent
      /\ UNCHANGED <<autoDed, aborted, window, replies, autoRows, shown>> /\ autoDed' \in SUBSET (Run \X Host)
  BY FleetCardinality DEF FleetInv, FleetTypes, Fleet!Take, Fleet!store
<1>2. ASSUME NEW l \in Fleet!Started \cup {"none", "queued", "done"}, st' = [st EXCEPT ![r][h] = l]
      PROVE  Fleet!ConnectionsEnd' /\ st'[r][h] = l
  BY <1>1, <1>2 DEF Fleet!ConnectionsEnd, FleetTypes
<1> DEFINE run == Fleet!Event(r, h, "running")
           end == Fleet!Event(r, h, "cancelled")
<1>3. /\ run \in Note /\ IsAbout(run, r, h) /\ end \in Note /\ IsAbout(end, r, h) /\ end.status = "cancelled"
      /\ "cancelled" \in Fleet!Outcome /\ "done" \notin Fleet!Started /\ {"connecting", "exec"} \subseteq Fleet!Started
  BY NoteIs DEF Fleet!Outcome, Fleet!Started
<1>4. CASE ~window
  <2>1. st' = [st EXCEPT ![r][h] = "done"] /\ outcome' = outcome /\ events' = events
    BY <1>4 DEF Fleet!Take, Fleet!Goto
  <2>2. <<>> \in Seq(Note) /\ (\A k \in DOMAIN <<>> : IsAbout(<<>>[k], r, h)) /\ Fleet!Emit(<<>>)
    BY <1>4, <2>1 DEF Fleet!Emit
  <2> QED BY <1>1, <1>2, <1>3, <1>4, <2>1, <2>2, OneStep
<1>5. CASE window /\ r \in aborted
  <2> DEFINE es == <<run, end>>
  <2>1. /\ st' = [st EXCEPT ![r][h] = "done"] /\ outcome' = [outcome EXCEPT ![r][h] = "cancelled"] /\ Fleet!Emit(es)
    BY <1>5 DEF Fleet!Take, Fleet!Goto
  <2> HIDE DEF run, end
  <2>2. es \in Seq(Note) /\ DOMAIN es = {1, 2} /\ es[1] = run /\ es[2] = end
    BY <1>3
  <2> HIDE DEF es
  <2>3. \A k \in DOMAIN es : IsAbout(es[k], r, h)
    BY <1>3, <2>2
  <2>4. LastIs(es, r, h, "cancelled")
    <3>1. 2 \in DOMAIN es /\ IsAbout(es[2], r, h) /\ \A l \in DOMAIN es : l >= 2 => es[l].status = "cancelled"
      BY <1>3, <2>2
    <3> QED BY <3>1 DEF LastIs
  <2>5. events' = events \o es /\ st'[r][h] = "done" /\ outcome'[r][h] = "cancelled"
    BY <1>1, <1>5, <2>1 DEF Fleet!Emit, FleetTypes
  <2>6. RowShows(r, h)'
    BY <1>1, <1>3, <2>2, <2>4, <2>5, RowEnds
  <2> QED BY <1>1, <1>2, <1>3, <2>1, <2>2, <2>3, <2>6, OneStep
<1>6. CASE window /\ r \notin aborted
  <2> DEFINE es == <<run>>
  <2>1. PICK l \in {"connecting", "exec"} :
          st' = [st EXCEPT ![r][h] = l] /\ outcome' = outcome /\ Fleet!Emit(es)
    BY <1>6 DEF Fleet!Take, Fleet!Goto
  <2>2. l \in Fleet!Started /\ st'[r][h] = l
    BY <1>2, <1>3, <2>1
  <2>3. events' = events \o <<Fleet!Event(r, h, "running")>>
    BY <1>6, <2>1 DEF Fleet!Emit
  <2>4. RowShows(r, h)
    BY <1>6 DEF FleetInv, RowsShow
  <2>5. RowShows(r, h)'
    BY <1>1, <2>2, <2>3, <2>4, RowStarts
  <2> HIDE DEF run
  <2>6. es \in Seq(Note) /\ \A k \in DOMAIN es : IsAbout(es[k], r, h)
    BY <1>3
  <2> HIDE DEF es
  <2> QED BY <1>1, <1>2, <2>1, <2>2, <2>5, <2>6, OneStep
<1> QED BY <1>4, <1>5, <1>6

\* Nothing is sent: the command waits for its channel, or its channel is there.
LEMMA GoesOn ==
  ASSUME FleetInv, NEW r \in Run, NEW h \in Host, NEW l \in {"exec", "running"}, st[r][h] \in Fleet!Started,
         Fleet!Goto(r, h, l), autoDed' \in {autoDed, autoDed \cup {<<r, h>>}},
         UNCHANGED <<outcome, events, aborted, window, replies, autoRows, shown>>
  PROVE  FleetInv'
<1>1. FleetTypes /\ st' = [st EXCEPT ![r][h] = l] /\ autoDed' \in SUBSET (Run \X Host) /\ st'[r][h] = l /\ l \in Fleet!Started
  BY DEF FleetInv, FleetTypes, Fleet!Goto, Fleet!Started
<1>2. Fleet!ConnectionsEnd'
  BY <1>1 DEF FleetInv, Fleet!ConnectionsEnd, FleetTypes
<1>3. <<>> \in Seq(Note) /\ (\A k \in DOMAIN <<>> : IsAbout(<<>>[k], r, h)) /\ Fleet!Emit(<<>>)
  BY <1>1 DEF Fleet!Emit, FleetTypes
<1>4. window => RowShows(r, h)'
  <2> SUFFICES ASSUME window PROVE RowShows(r, h)'
    OBVIOUS
  <2>1. RowShows(r, h) /\ About(r, h)' = About(r, h)
    BY DEF FleetInv, RowsShow, About
  <2> QED BY <1>1, <2>1 DEF RowShows, Fleet!Started
<1> QED BY <1>1, <1>2, <1>3, <1>4, OneStep

LEMMA CommandNext ==
  ASSUME FleetInv, NEW r \in Run, NEW h \in Host,
         Fleet!Connected(r, h) \/ Fleet!ExecAnswered(r, h) \/ Fleet!ChannelEnds(r, h) \/ Fleet!TimesOut(r, h)
  PROVE  FleetInv'
<1> USE DEF Fleet!store
<1>1. {"cancelled", "error", "success", "failed"} \subseteq Fleet!Outcome /\ Fleet!Started = {"connecting", "exec", "running"}
  BY DEF Fleet!Outcome, Fleet!Started
<1>2. CASE \E o \in Fleet!Outcome : Fleet!Finish(r, h, o)
  BY <1>1, <1>2, Finishes DEF Fleet!Connected, Fleet!ExecAnswered, Fleet!ChannelEnds, Fleet!TimesOut
<1>3. CASE ~\E o \in Fleet!Outcome : Fleet!Finish(r, h, o)
  <2>1. CASE Fleet!Connected(r, h)
    BY <1>1, <1>3, <2>1, GoesOn DEF Fleet!Connected
  <2>2. CASE Fleet!ExecAnswered(r, h)
    BY <1>1, <1>3, <2>2, GoesOn DEF Fleet!ExecAnswered
  <2>3. CASE Fleet!ChannelEnds(r, h) \/ Fleet!TimesOut(r, h)
    BY <1>1, <1>3, <2>3 DEF Fleet!ChannelEnds, Fleet!TimesOut
  <2> QED BY <2>1, <2>2, <2>3
<1> QED BY <1>2, <1>3

LEMMA Outputs == ASSUME FleetInv, NEW r \in Run, NEW h \in Host, Fleet!Output(r, h) PROVE FleetInv'
<1> DEFINE e == Fleet!Event(r, h, "output")
           es == <<e>>
<1>1. e \in Note /\ IsAbout(e, r, h) /\ e.status = "output"
  BY NoteIs
<1>2. /\ st[r][h] = "running" /\ Fleet!Emit(es) /\ UNCHANGED <<st, outcome, autoDed, aborted, window, replies, autoRows, shown>>
  BY DEF Fleet!Output, Fleet!cmd, Fleet!store
<1> HIDE DEF e
<1>3. es \in Seq(Note) /\ DOMAIN es = {1} /\ es[1] = e
  BY <1>1
<1> HIDE DEF es
<1>4. /\ FleetTypes /\ st' = [st EXCEPT ![r][h] = "running"] /\ "running" \in Fleet!Started
      /\ autoDed' \in SUBSET (Run \X Host) /\ outcome' = outcome
  BY <1>2 DEF FleetInv, FleetTypes, Fleet!Started
<1>5. Fleet!ConnectionsEnd'
  BY <1>2 DEF FleetInv, Fleet!ConnectionsEnd
<1>6. window => RowShows(r, h)'
  <2> SUFFICES ASSUME window PROVE RowShows(r, h)'
    OBVIOUS
  <2>1. RowShows(r, h) /\ events' = events \o es
    BY <1>2 DEF FleetInv, RowsShow, Fleet!Emit
  <2>2. Grows(es, r, h)
    BY <1>3, <1>4, <2>1, Sent
  <2>3. /\ \A i \in About(r, h) : events[i].status \in {"running", "output"}
        /\ autoRows[r][h] = "running" \/ About(r, h) # {}
        /\ autoRows[r][h] \in {None, "pending", "running"}
    BY <1>2, <1>4, <2>1 DEF RowShows
  <2>4. \A i \in About(r, h)' : events'[i].status \in {"running", "output"}
    BY <1>1, <1>3, <2>2, <2>3 DEF Grows
  <2>5. autoRows'[r][h] = "running" \/ About(r, h)' # {}
    BY <1>2, <2>2, <2>3 DEF Grows
  <2>6. st'[r][h] = "running" /\ autoRows'[r][h] \in {None, "pending", "running"}
    BY <1>2, <2>3
  <2> QED BY <2>4, <2>5, <2>6 DEF RowShows
<1>7. \A k \in DOMAIN es : IsAbout(es[k], r, h)
  BY <1>1, <1>3
<1>8. st[r][h] \in Fleet!Started
  BY <1>2, <1>4
<1> QED BY <1>2, <1>3, <1>4, <1>5, <1>6, <1>7, <1>8, OneStep

LEMMA Starts ==
  ASSUME FleetInv, NEW r \in Run, NEW S \in SUBSET Host, Fleet!Start(r, S) PROVE FleetInv'
<1>1. /\ FleetTypes /\ LanesInUse /\ Fleet!ConnectionsEnd /\ RowsShow
      /\ window /\ (\A h \in Host : st[r][h] = "none")
      /\ st' = [st EXCEPT ![r] = [h \in Host |-> IF h \in S THEN "queued" ELSE "none"]]
      /\ replies' = replies \cup {r}
      /\ UNCHANGED <<outcome, aborted, autoDed, window, events, autoRows, shown>>
  BY DEF FleetInv, Fleet!Start, Fleet!store
<1>2. /\ FleetTypes' /\ \A q \in Run \ {r} : st'[q] = st[q]
      /\ \A h \in Host : st'[r][h] = IF h \in S THEN "queued" ELSE "none"
  BY <1>1 DEF FleetTypes
<1>3. \A q \in Run : Fleet!Active(q)' \subseteq Fleet!Active(q)
  BY <1>2 DEF Fleet!Active, Fleet!Started
<1>4. LanesInUse'
  BY <1>1, <1>3, LanesStay
<1>5. Fleet!ConnectionsEnd'
  <2>1. \A x \in autoDed : x[1] \in Run /\ x[2] \in Host
    BY <1>1 DEF FleetTypes
  <2> QED BY <1>1, <1>2, <2>1 DEF Fleet!ConnectionsEnd
<1>6. RowsShow'
  <2> SUFFICES ASSUME NEW q \in Run, NEW h \in Host PROVE RowShows(q, h)'
    BY DEF RowsShow
  <2>1. RowShows(q, h) /\ About(q, h)' = About(q, h)
    BY <1>1 DEF RowsShow, About
  <2>2. CASE q = r
    BY <1>1, <1>2, <2>1, <2>2 DEF RowShows, Fleet!Started
  <2>3. CASE q # r
    <3>1. st'[q][h] = st[q][h] /\ (q \in replies => q \in replies')
      BY <1>1, <1>2, <2>3
    <3> QED BY <1>1, <2>1, <3>1 DEF RowShows
  <2> QED BY <2>2, <2>3
<1> QED BY <1>2, <1>4, <1>5, <1>6 DEF FleetInv

LEMMA Cancels == ASSUME FleetInv, NEW r \in Run, Fleet!Cancel(r) PROVE FleetInv'
<1>1. FleetTypes /\ LanesInUse /\ Fleet!ConnectionsEnd /\ RowsShow /\ window
      /\ UNCHANGED <<window, replies, autoRows, shown>>
  BY DEF FleetInv, Fleet!Cancel, Fleet!store
<1>2. CASE UNCHANGED <<st, outcome, autoDed, aborted, events>>
  BY <1>1, <1>2 DEF FleetInv, FleetTypes, LanesInUse, Fleet!Active, Fleet!ConnectionsEnd, RowsShow, RowShows, About
<1>3. CASE ~UNCHANGED <<st, outcome, autoDed, aborted, events>>
  <2> DEFINE S == {h \in Host : st[r][h] = "running"}
             notes == {Fleet!Event(r, h, "cancelled") : h \in S}
             es == Fleet!SetToSeq(notes)
  <2>1. /\ aborted' = aborted \cup {r}
        /\ st' = [st EXCEPT ![r] = [h \in Host |-> IF h \in S THEN "done" ELSE st[r][h]]]
        /\ outcome' = [outcome EXCEPT ![r] = [h \in Host |-> IF h \in S THEN "cancelled" ELSE outcome[r][h]]]
        /\ autoDed' = autoDed \ ({r} \X S)
        /\ events' = events \o es
    BY <1>1, <1>3 DEF Fleet!Cancel, Fleet!cmd, Fleet!Emit
  <2>2. S \in SUBSET Host /\ "cancelled" \in Fleet!Outcome
    BY DEF Fleet!Outcome
  <2>3. /\ \A q \in Run \ {r} : st'[q] = st[q] /\ outcome'[q] = outcome[q]
        /\ \A h \in Host : st'[r][h] = (IF h \in S THEN "done" ELSE st[r][h])
        /\ \A h \in Host : outcome'[r][h] = (IF h \in S THEN "cancelled" ELSE outcome[r][h])
    BY <1>1, <2>1 DEF FleetTypes
  <2>4. notes \in SUBSET Note /\ IsFiniteSet(notes)
    <3>1. notes \in SUBSET Note
      BY <2>2, NoteIs
    <3> DEFINE note == [h \in S |-> Fleet!Event(r, h, "cancelled")]
    <3>2. IsFiniteSet(S) /\ note \in Surjection(S, notes)
      BY <2>2, HostsAreFinite DEF Surjection
    <3>5. IsFiniteSet(notes)
      <4> HIDE DEF S, notes, note
      <4> QED BY <3>2, FS_Surjection
    <3> QED BY <3>1, <3>5
  <2>5. es \in Seq(notes) /\ \A x \in notes : \E i \in DOMAIN es : es[i] = x
    BY <2>4, SequenceOf
  <2>6. es \in Seq(Note)
    BY <2>4, <2>5
  <2>7. \A k \in DOMAIN es : \E h \in S : IsAbout(es[k], r, h) /\ es[k].status = "cancelled"
    <3>1. \A x \in notes : \E h \in S : IsAbout(x, r, h) /\ x.status = "cancelled"
      BY <2>2, NoteIs
    <3> HIDE DEF es, notes, S
    <3>2. \A k \in DOMAIN es : es[k] \in notes
      BY <2>5
    <3> QED BY <3>1, <3>2
  <2>8. \A h \in S : LastIs(es, r, h, "cancelled")
    <3> SUFFICES ASSUME NEW h \in S PROVE LastIs(es, r, h, "cancelled")
      OBVIOUS
    <3>1. Fleet!Event(r, h, "cancelled") \in notes /\ IsAbout(Fleet!Event(r, h, "cancelled"), r, h)
      BY <2>2, NoteIs
    <3> HIDE DEF es, notes, S
    <3>2. PICK k \in DOMAIN es : es[k] = Fleet!Event(r, h, "cancelled")
      BY <2>5, <3>1
    <3>3. IsAbout(es[k], r, h) /\ \A l \in DOMAIN es : es[l].status = "cancelled"
      BY <2>7, <3>1, <3>2
    <3> QED BY <3>3 DEF LastIs
  <2>9. FleetTypes'
    <3>1. events' \in Seq(Note)
      BY <1>1, <2>1, <2>6 DEF FleetTypes
    <3>2. /\ st' \in [Run -> [Host -> Fleet!Started \cup {"none", "queued", "done"}]]
          /\ outcome' \in [Run -> [Host -> Fleet!Outcome \cup {None}]]
      BY <1>1, <2>1, <2>2 DEF FleetTypes
    <3>3. aborted' \in SUBSET Run /\ autoDed' \in SUBSET (Run \X Host)
      BY <1>1, <2>1 DEF FleetTypes
    <3> QED BY <1>1, <3>1, <3>2, <3>3 DEF FleetTypes
  <2>10. LanesInUse'
    <3>1. \A q \in Run : Fleet!Active(q)' \subseteq Fleet!Active(q)
      BY <2>3 DEF Fleet!Active, Fleet!Started
    <3> QED BY <1>1, <3>1, LanesStay
  <2>11. Fleet!ConnectionsEnd'
    <3> SUFFICES ASSUME NEW x \in autoDed' PROVE st'[x[1]][x[2]] \in {"exec", "running"}
      BY DEF Fleet!ConnectionsEnd
    <3>1. x \in autoDed /\ x \in Run \X Host /\ x \notin {r} \X S
      BY <1>1, <2>1 DEF FleetTypes
    <3>2. x[1] \in Run /\ x[2] \in Host /\ (x[1] # r \/ x[2] \notin S) /\ st[x[1]][x[2]] \in {"exec", "running"}
      BY <1>1, <3>1 DEF Fleet!ConnectionsEnd
    <3> HIDE DEF S
    <3> QED BY <2>3, <3>2
  <2>12. RowsShow'
    <3> SUFFICES ASSUME NEW q \in Run, NEW h \in Host PROVE RowShows(q, h)'
      BY DEF RowsShow
    <3>1. RowShows(q, h)
      BY <1>1 DEF RowsShow
    <3>2. CASE q = r /\ h \in S
      <4>1. LastIs(es, r, h, "cancelled") /\ st'[r][h] = "done" /\ outcome'[r][h] = "cancelled" /\ events' = events \o es
        BY <2>1, <2>3, <2>8, <3>2
      <4> HIDE DEF es, S
      <4> QED BY <1>1, <2>2, <2>6, <3>2, <4>1, RowEnds
    <3>3. CASE q # r \/ h \notin S
      <4>1. \A k \in DOMAIN es : ~IsAbout(es[k], q, h)
        <5> HIDE DEF es, S
        <5> QED BY <2>7, <3>3 DEF IsAbout
      <4>2. st'[q][h] = st[q][h] /\ outcome'[q][h] = outcome[q][h] /\ autoRows'[q][h] = autoRows[q][h]
            /\ (q \in replies => q \in replies') /\ events' = events \o es
        BY <1>1, <2>1, <2>3, <3>3
      <4> HIDE DEF es, S
      <4> QED BY <1>1, <2>6, <3>1, <4>1, <4>2, RowStays
    <3> QED BY <3>2, <3>3
  <2> QED BY <2>9, <2>10, <2>11, <2>12 DEF FleetInv
<1> QED BY <1>2, <1>3

LEMMA Closes == FleetInv /\ Fleet!WindowCloses => FleetInv'
<1> SUFFICES ASSUME FleetInv, Fleet!WindowCloses PROVE FleetInv'
  OBVIOUS
<1>1. /\ FleetTypes /\ LanesInUse /\ window' = FALSE /\ events' = <<>> /\ replies' = {} /\ autoDed' = {}
      /\ UNCHANGED <<st, outcome, aborted, autoRows, shown>>
  BY DEF FleetInv, Fleet!WindowCloses, Fleet!store
<1>2. FleetTypes'
  <2>1. events' \in Seq(Note) /\ autoDed' \in SUBSET (Run \X Host) /\ replies' \in SUBSET Run /\ window' \in BOOLEAN
    <3>1. events' = <<>> /\ autoDed' = {} /\ replies' = {} /\ window' = FALSE
      BY <1>1
    <3>2. <<>> \in Seq(Note)
      OBVIOUS
    <3>3. {} \in SUBSET (Run \X Host) /\ {} \in SUBSET Run /\ FALSE \in BOOLEAN
      OBVIOUS
    <3> QED BY <3>1, <3>2, <3>3
  <2> QED BY <1>1, <2>1 DEF FleetTypes
<1>3. LanesInUse' /\ Fleet!ConnectionsEnd' /\ RowsShow'
  BY <1>1 DEF LanesInUse, Fleet!Active, Fleet!ConnectionsEnd, RowsShow
<1> QED BY <1>2, <1>3 DEF FleetInv

LEMMA NamesRun == ASSUME FleetInv, NEW r \in Run, Fleet!RunNamed(r) PROVE FleetInv'
<1> DEFINE new(h) == IF h \in Fleet!InRun(r) /\ autoRows[r][h] = None THEN "pending" ELSE autoRows[r][h]
<1>1. /\ FleetTypes /\ LanesInUse /\ Fleet!ConnectionsEnd /\ RowsShow
      /\ r \in replies /\ replies' = replies \ {r} /\ shown' = r
      /\ autoRows' = [autoRows EXCEPT ![r] = [h \in Host |-> new(h)]]
      /\ UNCHANGED <<st, outcome, autoDed, aborted, window, events>>
  BY DEF FleetInv, Fleet!RunNamed, Fleet!cmd
<1>2. /\ FleetTypes' /\ \A q \in Run \ {r} : autoRows'[q] = autoRows[q]
      /\ \A h \in Host : autoRows'[r][h] = new(h)
  BY <1>1 DEF FleetTypes
<1>3. LanesInUse' /\ Fleet!ConnectionsEnd'
  BY <1>1 DEF LanesInUse, Fleet!Active, Fleet!ConnectionsEnd
<1>4. RowsShow'
  <2> SUFFICES ASSUME window, NEW q \in Run, NEW h \in Host PROVE RowShows(q, h)'
    BY <1>1 DEF RowsShow
  <2>1. RowShows(q, h) /\ About(q, h)' = About(q, h)
    BY <1>1 DEF RowsShow, About
  <2>2. CASE q # r
    <3>1. autoRows'[q][h] = autoRows[q][h] /\ (q \in replies => q \in replies')
      BY <1>1, <1>2, <2>2
    <3> QED BY <1>1, <2>1, <3>1 DEF RowShows
  <2>3. CASE q = r /\ h \in Fleet!InRun(r) /\ autoRows[r][h] = None
    <3>1. autoRows'[r][h] = "pending" /\ st[r][h] # "none"
      BY <1>2, <2>3 DEF Fleet!InRun
    <3>2. CASE st[r][h] = "done"
      BY <1>1, <2>1, <2>3, <3>1, <3>2, StatusAssumption DEF RowShows, Fleet!Started
    <3>3. CASE st[r][h] # "done"
      <4>1. "running" # None
        BY StatusAssumption
      <4> QED BY <1>1, <2>1, <2>3, <3>1, <3>3, <4>1 DEF RowShows, Fleet!Started
    <3> QED BY <3>2, <3>3
  <2>4. CASE q = r /\ ~(h \in Fleet!InRun(r) /\ autoRows[r][h] = None)
    <3>1. autoRows'[r][h] = autoRows[r][h] /\ (st[r][h] = "none" \/ autoRows[r][h] # None)
      BY <1>2, <2>4 DEF Fleet!InRun
    <3> QED BY <1>1, <2>1, <2>4, <3>1 DEF RowShows
  <2> QED BY <2>2, <2>3, <2>4
<1> QED BY <1>2, <1>3, <1>4 DEF FleetInv

LEMMA Applies == FleetInv /\ Fleet!applyEvent => FleetInv'
<1> SUFFICES ASSUME FleetInv, Fleet!applyEvent PROVE FleetInv'
  OBVIOUS
<1> DEFINE e == Head(events)
           new == IF e.status # "output" THEN e.status
                  ELSE IF autoRows[e.run][e.host] \in {None, "pending"} THEN "running" ELSE autoRows[e.run][e.host]
<1>1. /\ FleetTypes /\ LanesInUse /\ Fleet!ConnectionsEnd /\ RowsShow
      /\ events # <<>> /\ events' = Tail(events)
      /\ autoRows' = [autoRows EXCEPT ![e.run][e.host] = new]
      /\ UNCHANGED <<st, outcome, autoDed, aborted, window, replies, shown>>
  BY DEF FleetInv, Fleet!applyEvent, Fleet!cmd
<1>2. /\ events \in Seq(Note) /\ Len(events) \in Nat /\ Len(events) >= 1 /\ e = events[1] /\ e \in Note
      /\ events' \in Seq(Note) /\ Len(events') = Len(events) - 1
      /\ \A i \in 1 .. Len(events') : events'[i] = events[i + 1]
  BY <1>1 DEF FleetTypes
<1>3. e.run \in Run /\ e.host \in Host /\ e.status \in Fleet!Outcome \cup {"running", "output"}
  BY <1>2 DEF Note
<1> HIDE DEF e
<1>4. new \in Fleet!Outcome \cup {"pending", "running", None}
  BY <1>1, <1>3 DEF FleetTypes
<1>5. /\ autoRows'[e.run][e.host] = new
      /\ \A q \in Run, h \in Host : q # e.run \/ h # e.host => autoRows'[q][h] = autoRows[q][h]
  BY <1>1, <1>3 DEF FleetTypes
<1>6. FleetTypes'
  <2>1. autoRows' \in [Run -> [Host -> Fleet!Outcome \cup {"pending", "running", None}]]
    BY <1>1, <1>3, <1>4 DEF FleetTypes
  <2> QED BY <1>1, <1>2, <2>1 DEF FleetTypes
<1>7. LanesInUse' /\ Fleet!ConnectionsEnd'
  BY <1>1 DEF LanesInUse, Fleet!Active, Fleet!ConnectionsEnd
<1>8. ASSUME NEW q \in Run, NEW h \in Host
      PROVE  /\ \A i \in About(q, h)' : i + 1 \in About(q, h) /\ events'[i] = events[i + 1]
             /\ \A i \in About(q, h) : i # 1 => i - 1 \in About(q, h)' /\ events'[i - 1] = events[i]
             /\ 1 \in About(q, h) <=> e.run = q /\ e.host = h
             /\ About(q, h) \in SUBSET Nat /\ (About(q, h))' \in SUBSET Nat
  <2>1. DOMAIN events = 1 .. Len(events) /\ DOMAIN events' = 1 .. Len(events')
    BY <1>2
  <2> QED BY <1>2, <2>1 DEF About
<1>9. RowsShow'
  <2> SUFFICES ASSUME window, NEW q \in Run, NEW h \in Host PROVE RowShows(q, h)'
    BY <1>1 DEF RowsShow
  <2>1. RowShows(q, h)
    BY <1>1 DEF RowsShow
  <2>2. /\ \A i \in About(q, h)' : i + 1 \in About(q, h) /\ events'[i] = events[i + 1]
        /\ \A i \in About(q, h) : i # 1 => i - 1 \in About(q, h)' /\ events'[i - 1] = events[i]
        /\ 1 \in About(q, h) <=> e.run = q /\ e.host = h
        /\ About(q, h) \in SUBSET Nat /\ (About(q, h))' \in SUBSET Nat
    BY <1>8
  <2>3. CASE st[q][h] = "none" \/ st[q][h] = "queued"
    <3>1. About(q, h) = {} /\ About(q, h)' = {} /\ autoRows'[q][h] = autoRows[q][h]
      BY <1>5, <2>1, <2>2, <2>3 DEF RowShows
    <3> QED BY <1>1, <2>1, <2>3, <3>1 DEF RowShows, Fleet!Started
  <2>4. CASE st[q][h] \in Fleet!Started
    <3>1. /\ autoRows[q][h] \in {None, "pending", "running"}
          /\ \A i \in About(q, h) : events[i].status \in {"running", "output"}
          /\ autoRows[q][h] = "running" \/ About(q, h) # {}
      BY <2>1, <2>4 DEF RowShows
    <3>2. \A i \in About(q, h)' : events'[i].status \in {"running", "output"}
      BY <2>2, <3>1
    <3>3. CASE 1 \in About(q, h)
      <4>1. e.run = q /\ e.host = h /\ e.status \in {"running", "output"}
        BY <1>2, <2>2, <3>1, <3>3
      <4>2. autoRows'[q][h] = "running"
        BY <1>5, <3>1, <4>1
      <4> QED BY <1>1, <2>4, <3>2, <4>2 DEF RowShows, Fleet!Started
    <3>4. CASE 1 \notin About(q, h)
      <4>1. autoRows'[q][h] = autoRows[q][h]
        BY <1>5, <2>2, <3>4
      <4>2. About(q, h) # {} => About(q, h)' # {}
        BY <2>2, <3>4
      <4> QED BY <1>1, <2>4, <3>1, <3>2, <4>1, <4>2 DEF RowShows, Fleet!Started
    <3> QED BY <3>3, <3>4
  <2>5. CASE st[q][h] = "done"
    <3>1. outcome[q][h] \in Fleet!Outcome
      BY <2>1, <2>5 DEF RowShows
    <3>2. CASE About(q, h) = {} /\ autoRows[q][h] = outcome[q][h]
      <4>1. About(q, h)' = {} /\ autoRows'[q][h] = autoRows[q][h]
        BY <1>5, <2>2, <3>2
      <4> QED BY <1>1, <2>5, <3>1, <3>2, <4>1 DEF RowShows, Fleet!Started
    <3>3. ASSUME NEW i \in About(q, h), \A j \in About(q, h) : j >= i => events[j].status = outcome[q][h]
          PROVE  RowShows(q, h)'
      <4>1. \A j \in About(q, h)' : j \in Nat /\ j + 1 \in About(q, h) /\ events'[j] = events[j + 1]
        BY <2>2
      <4>2. i \in Nat
        BY <2>2
      <4>3. CASE i # 1
        <5>1. i - 1 \in About(q, h)'
          BY <2>2, <4>3
        <5>2. \A j \in About(q, h)' : j >= i - 1 => events'[j].status = outcome'[q][h]
          <6> SUFFICES ASSUME NEW j \in About(q, h)', j >= i - 1 PROVE events'[j].status = outcome'[q][h]
            OBVIOUS
          <6>1. j + 1 \in About(q, h) /\ events'[j] = events[j + 1] /\ j + 1 >= i
            BY <4>1, <4>2
          <6>2. outcome'[q][h] = outcome[q][h]
            BY <1>1
          <6> QED BY <3>3, <6>1, <6>2
        <5> QED BY <1>1, <2>5, <3>1, <5>1, <5>2 DEF RowShows, Fleet!Started
      <4>4. CASE i = 1 /\ About(q, h)' # {}
        <5>1. PICK j \in About(q, h)' : TRUE
          BY <4>4
        <5>2. \A k \in About(q, h)' : k >= j => events'[k].status = outcome'[q][h]
          <6> SUFFICES ASSUME NEW k \in About(q, h)' PROVE events'[k].status = outcome'[q][h]
            OBVIOUS
          <6>1. k + 1 \in About(q, h) /\ events'[k] = events[k + 1] /\ k + 1 >= i
            BY <4>1, <4>4
          <6>2. outcome'[q][h] = outcome[q][h]
            BY <1>1
          <6> QED BY <3>3, <6>1, <6>2
        <5> QED BY <1>1, <2>5, <3>1, <5>1, <5>2 DEF RowShows, Fleet!Started
      <4>5. CASE i = 1 /\ About(q, h)' = {}
        <5>1. e.run = q /\ e.host = h /\ e.status = outcome[q][h]
          BY <1>2, <2>2, <3>3, <4>5
        <5>2. autoRows'[q][h] = outcome[q][h]
          BY <1>5, <3>1, <5>1 DEF Fleet!Outcome
        <5> QED BY <1>1, <2>5, <3>1, <4>5, <5>2 DEF RowShows, Fleet!Started
      <4> QED BY <4>3, <4>4, <4>5
    <3> QED BY <2>1, <2>5, <3>2, <3>3 DEF RowShows
  <2>6. st[q][h] \in Fleet!Started \cup {"none", "queued", "done"}
    BY <1>1 DEF FleetTypes
  <2> QED BY <2>3, <2>4, <2>5, <2>6
<1> QED BY <1>6, <1>7, <1>9 DEF FleetInv

LEMMA FleetNext == FleetInv /\ Fleet!Next => FleetInv'
<1> SUFFICES ASSUME FleetInv, Fleet!Next PROVE FleetInv'
  OBVIOUS
<1>1. CASE Fleet!WindowCloses \/ Fleet!applyEvent
  BY <1>1, Closes, Applies
<1>2. CASE \E r \in Run, S \in SUBSET Host : Fleet!Start(r, S)
  BY <1>2, Starts
<1>3. CASE \E r \in Run : Fleet!Cancel(r) \/ Fleet!RunNamed(r)
  BY <1>3, Cancels, NamesRun
<1>4. CASE \E r \in Run, h \in Host : \/ \E b \in BOOLEAN : Fleet!Take(r, h, b)
                                     \/ Fleet!Output(r, h)
  BY <1>4, Takes, Outputs
<1>5. CASE \E r \in Run, h \in Host :
             Fleet!Connected(r, h) \/ Fleet!ExecAnswered(r, h) \/ Fleet!ChannelEnds(r, h) \/ Fleet!TimesOut(r, h)
  BY <1>5, CommandNext
<1> QED BY <1>1, <1>2, <1>3, <1>4, <1>5 DEF Fleet!Next

LEMMA FleetStays == FleetInv /\ UNCHANGED auto => FleetInv'
BY DEF FleetInv, FleetTypes, LanesInUse, Fleet!Active, Fleet!ConnectionsEnd, RowsShow, RowShows, About, auto

\* Nothing is on its way: the row is the host.
LEMMA FleetShows == FleetInv => Fleet!ConnectionsEnd /\ ResultsShown
<1> SUFFICES ASSUME FleetInv, window, events = <<>>, NEW r \in Run \ replies, NEW h \in Host, st[r][h] # "none"
             PROVE  autoRows[r][h] = CASE st[r][h] = "queued" -> "pending"
                                       [] st[r][h] = "done" -> outcome[r][h]
                                       [] OTHER -> "running"
  BY DEF FleetInv, ResultsShown, Fleet!ResultsShown, Fleet!InRun
<1>1. About(r, h) = {} /\ RowShows(r, h) /\ st[r][h] \in Fleet!Started \cup {"queued", "done"}
  BY DEF About, FleetInv, RowsShow, FleetTypes
<1> QED BY <1>1 DEF RowShows, Fleet!Started
-----------------------------------------------------------------------------
(* The tests of hosts *)

Sockets == {h \in Host : inFlight[h] # None}
TestsInv ==
  /\ hosts \in SUBSET Host /\ addr \in [Host -> 0..MaxAddr]
  /\ tests \in [Host \X (0..MaxAddr) -> {None, "testing", "ok", "error"}]
  /\ inFlight \in [Host -> (0..MaxAddr) \cup {None}] /\ waiting \in SUBSET (Host \X (0..MaxAddr))
  /\ activeTestCount = Cardinality(Sockets) /\ activeTestCount <= TEST_CONCURRENCY_CAP
  /\ \A k \in Host \X (0..MaxAddr) : tests[k] = "testing" => k \in waiting /\ inFlight[k[1]] # None

LEMMA TestsCardinality == \A S : Tests!Cardinality(S) = Cardinality(S)
BY DEF Tests!Cardinality, Cardinality

LEMMA InitTests == Tests!Init => TestsInv
<1> SUFFICES ASSUME Tests!Init PROVE TestsInv
  OBVIOUS
<1>1. /\ hosts = Host /\ addr = [h \in Host |-> 0] /\ inFlight = [h \in Host |-> None]
      /\ tests = [k \in Host \X (0..MaxAddr) |-> None] /\ activeTestCount = 0 /\ waiting = {}
  BY DEF Tests!Init, Tests!Key
<1>2. Sockets = {} /\ Cardinality({}) = 0
  BY <1>1, FS_EmptySet DEF Sockets
<1>3. None # "testing" /\ 0 \in 0..MaxAddr /\ activeTestCount <= TEST_CONCURRENCY_CAP
  BY <1>1, StatusAssumption, LimitsAssumption
<1> QED BY <1>1, <1>2, <1>3 DEF TestsInv

\* The edits touch no test.
LEMMA Edits ==
  ASSUME TestsInv, NEW h \in Host, Tests!editAddress(h) \/ Tests!deleteHost(h) PROVE TestsInv'
<1>1. /\ hosts \in SUBSET Host /\ addr \in [Host -> 0..MaxAddr] /\ UNCHANGED <<tests, inFlight, activeTestCount, waiting>>
      /\ hosts' \in SUBSET Host
  BY DEF TestsInv, Tests!editAddress, Tests!deleteHost
<1>2. addr' \in [Host -> 0..MaxAddr]
  BY <1>1, LimitsAssumption DEF Tests!editAddress, Tests!deleteHost
<1> QED BY <1>1, <1>2 DEF TestsInv, Sockets

\* A test that runs serves the badge too, a free slot is taken, or there are too many.
LEMMA Tries == ASSUME TestsInv, NEW h \in Host, Tests!runTest(h) PROVE TestsInv'
<1> DEFINE k == <<h, addr[h]>>
           Keys == Host \X (0..MaxAddr)
<1>1. /\ hosts \in SUBSET Host /\ addr \in [Host -> 0..MaxAddr]
      /\ tests \in [Keys -> {None, "testing", "ok", "error"}]
      /\ inFlight \in [Host -> (0..MaxAddr) \cup {None}] /\ waiting \in SUBSET Keys
      /\ activeTestCount = Cardinality(Sockets) /\ activeTestCount <= TEST_CONCURRENCY_CAP
      /\ \A x \in Keys : tests[x] = "testing" => x \in waiting /\ inFlight[x[1]] # None
      /\ UNCHANGED <<hosts, addr>>
  BY DEF TestsInv, Tests!runTest
<1>2. k \in Keys /\ k[1] = h /\ \A x \in Keys : x[1] \in Host
  BY <1>1
<1> HIDE DEF k
<1>3. CASE inFlight[h] # None /\ waiting' = waiting \cup {k} /\ tests' = [tests EXCEPT ![k] = "testing"]
           /\ UNCHANGED <<inFlight, activeTestCount>>
  <2>1. Sockets' = Sockets
    BY <1>3 DEF Sockets
  <2>2. \A x \in Keys : tests'[x] = "testing" => x \in waiting' /\ inFlight'[x[1]] # None
    BY <1>1, <1>2, <1>3
  <2>3. tests' \in [Keys -> {None, "testing", "ok", "error"}] /\ waiting' \in SUBSET Keys
    BY <1>1, <1>2, <1>3
  <2> QED BY <1>1, <1>3, <2>1, <2>2, <2>3 DEF TestsInv
<1>4. CASE /\ inFlight[h] = None /\ Tests!Admitted /\ waiting' = waiting \cup {k} /\ tests' = [tests EXCEPT ![k] = "testing"]
           /\ inFlight' = [inFlight EXCEPT ![h] = addr[h]] /\ activeTestCount' = activeTestCount + 1
  <2>1. addr[h] # None
    BY <1>1, NoneAssumption
  <2>2. Sockets' = Sockets \cup {h} /\ h \notin Sockets
    BY <1>1, <1>4, <2>1 DEF Sockets
  <2>3. IsFiniteSet(Sockets) /\ Cardinality(Sockets) \in Nat
    BY HostsAreFinite DEF Sockets
  <2>4. Cardinality(Sockets \cup {h}) = Cardinality(Sockets) + 1
    BY <2>2, <2>3, FS_AddElement
  <2>5. activeTestCount' = Cardinality(Sockets') /\ activeTestCount' <= TEST_CONCURRENCY_CAP
    BY <1>1, <1>4, <2>2, <2>3, <2>4, LimitsAssumption DEF Tests!Admitted
  <2>6. \A x \in Keys : tests'[x] = "testing" => x \in waiting' /\ inFlight'[x[1]] # None
    BY <1>1, <1>2, <1>4, <2>1
  <2>7. tests' \in [Keys -> {None, "testing", "ok", "error"}] /\ waiting' \in SUBSET Keys
        /\ inFlight' \in [Host -> (0..MaxAddr) \cup {None}]
    BY <1>1, <1>2, <1>4
  <2> QED BY <1>1, <2>5, <2>6, <2>7 DEF TestsInv
<1>5. CASE tests' = [tests EXCEPT ![k] = "error"] /\ UNCHANGED <<inFlight, activeTestCount, waiting>>
  <2>1. Sockets' = Sockets
    BY <1>5 DEF Sockets
  <2>2. \A x \in Keys : tests'[x] = "testing" => x \in waiting' /\ inFlight'[x[1]] # None
    BY <1>1, <1>2, <1>5
  <2>3. tests' \in [Keys -> {None, "testing", "ok", "error"}]
    BY <1>1, <1>2, <1>5
  <2> QED BY <1>1, <1>5, <2>1, <2>2, <2>3 DEF TestsInv
<1> QED BY <1>3, <1>4, <1>5 DEF Tests!runTest, k

\* The socket is over: its slot is free, and every badge that waited for it is told.
LEMMA Ends == ASSUME TestsInv, NEW h \in Host, Tests!Tested(h) PROVE TestsInv'
<1> DEFINE Keys == Host \X (0..MaxAddr)
<1>1. /\ hosts \in SUBSET Host /\ addr \in [Host -> 0..MaxAddr]
      /\ tests \in [Keys -> {None, "testing", "ok", "error"}]
      /\ inFlight \in [Host -> (0..MaxAddr) \cup {None}] /\ waiting \in SUBSET Keys
      /\ activeTestCount = Cardinality(Sockets) /\ activeTestCount <= TEST_CONCURRENCY_CAP
      /\ \A x \in Keys : tests[x] = "testing" => x \in waiting /\ inFlight[x[1]] # None
      /\ UNCHANGED <<hosts, addr>>
  BY DEF TestsInv, Tests!Tested
<1>2. /\ inFlight[h] # None /\ waiting' = {x \in waiting : x[1] # h}
      /\ inFlight' = [inFlight EXCEPT ![h] = None] /\ activeTestCount' = activeTestCount - 1
  BY DEF Tests!Tested
<1>3. PICK result \in {"ok", "error"} : tests' = [x \in Keys |-> IF x \in waiting /\ x[1] = h THEN result ELSE tests[x]]
  BY DEF Tests!Tested, Tests!Key
<1>4. Sockets' = Sockets \ {h} /\ h \in Sockets
  BY <1>1, <1>2 DEF Sockets
<1>5. IsFiniteSet(Sockets) /\ Cardinality(Sockets) \in Nat
  BY HostsAreFinite DEF Sockets
<1>6. Cardinality(Sockets \ {h}) = Cardinality(Sockets) - 1
  BY <1>4, <1>5, FS_RemoveElement
<1>7. activeTestCount' = Cardinality(Sockets') /\ activeTestCount' <= TEST_CONCURRENCY_CAP
  BY <1>1, <1>2, <1>4, <1>5, <1>6, LimitsAssumption
<1>8. \A x \in Keys : tests'[x] = "testing" => x \in waiting' /\ inFlight'[x[1]] # None
  <2> SUFFICES ASSUME NEW x \in Keys, tests'[x] = "testing" PROVE x \in waiting' /\ inFlight'[x[1]] # None
    OBVIOUS
  <2>1. x[1] \in Host /\ tests'[x] = IF x \in waiting /\ x[1] = h THEN result ELSE tests[x]
    BY <1>3
  <2>2. ~(x \in waiting /\ x[1] = h) /\ tests[x] = "testing"
    BY <2>1
  <2> QED BY <1>1, <1>2, <2>1, <2>2
<1>9. tests' \in [Keys -> {None, "testing", "ok", "error"}] /\ waiting' \in SUBSET Keys
      /\ inFlight' \in [Host -> (0..MaxAddr) \cup {None}]
  BY <1>1, <1>2, <1>3
<1> QED BY <1>1, <1>7, <1>8, <1>9 DEF TestsInv

LEMMA TestsNext == TestsInv /\ Tests!Next => TestsInv'
BY Edits, Tries, Ends DEF Tests!Next

LEMMA TestsStay == TestsInv /\ UNCHANGED test => TestsInv'
BY DEF TestsInv, Sockets, test

LEMMA TestsShow == TestsInv => Tests!TestsAccounted
BY TestsCardinality DEF TestsInv, Tests!TestsAccounted, Tests!Key, Sockets
-----------------------------------------------------------------------------
(* Agents, runs, tests and retries, beside every other service *)

AccountsInv == McpInv /\ FleetInv /\ TestsInv /\ ReconnectInv /\ DelayIsBackoff

LEMMA InitAccounts == ServicesInit => AccountsInv
BY InitMcp, InitFleet, InitTests, InitReconnectInv
DEF ServicesInit, AccountsInv, ReconnectInit, DelayIsBackoff, initialReconnectState

LEMMA NextAccounts ==
  ASSUME AccountsInv, [RoutineStep \/ RdpStep \/ VncStep \/ McpStep \/ AutoStep \/ TestStep \/ RetryStep]_all
  PROVE  AccountsInv' /\ ((\A x \in Mcp!Exec : Consented(x)) \/ UNCHANGED mcp)
<1>1. /\ Mcp!Next \/ UNCHANGED mcp
      /\ Fleet!Next \/ UNCHANGED auto
      /\ Tests!Next \/ UNCHANGED test
      /\ [ReconnectNext]_reconnectVars
  BY DEF RoutineStep, RdpStep, VncStep, McpStep, AutoStep, TestStep, RetryStep, all
<1>2. McpInv' /\ ((\A x \in Mcp!Exec : Consented(x)) \/ UNCHANGED mcp)
  <2>1. CASE Mcp!Next
    BY <2>1, McpNext DEF AccountsInv
  <2>2. CASE UNCHANGED mcp
    BY <2>2, McpStays DEF AccountsInv, mcp
  <2> QED BY <1>1, <2>1, <2>2
<1>3. FleetInv'
  BY <1>1, FleetNext, FleetStays DEF AccountsInv
<1>4. TestsInv'
  BY <1>1, TestsNext, TestsStay DEF AccountsInv
<1>5. ReconnectInv' /\ DelayIsBackoff'
  BY <1>1, NextReconnectInv, NextDelay DEF AccountsInv
<1> QED BY <1>2, <1>3, <1>4, <1>5 DEF AccountsInv

LEMMA AccountsHold == ServicesSpec => []AccountsInv
<1>1. AccountsInv /\ [RoutineStep \/ RdpStep \/ VncStep \/ McpStep \/ AutoStep \/ TestStep \/ RetryStep]_all
      => AccountsInv'
  BY NextAccounts
<1> QED BY <1>1, InitAccounts, PTL DEF ServicesSpec

\* Every command of an agent that ended has its one audit row (MCP-INTEGRATION.md, 11), a call is
\* at work on no more hosts than its lanes and in order, a connection made for a command is open only
\* while the command is on it, the slots of tests are those of the sockets there are, and a drop is
\* followed by no more dials than the policy allows: for any calls, policies, approvals, runs, lanes,
\* cancels, edits of addresses, answers, timeouts and drops, in any order.
THEOREM CommandsAlwaysAccounted == ServicesSpec => []CommandsAccounted
<1>1. AccountsInv => CommandsAccounted
  BY McpShows, FleetShows, TestsShow, RetriesShow DEF AccountsInv, CommandsAccounted
<1> QED BY <1>1, AccountsHold, PTL

\* What RunsByConsent says of a step
ConsentStep ==
  \A x \in Mcp!Exec : Mcp!Begins(x) =>
    \/ exec[x] = "asking" /\ x \in approved' \ approved
    \/ approvalMode = "allowlist" /\ Shape[x[1]] = "listed" /\ Mcp!HostOf(x) \in execHosts

\* No command of an agent begins but by the approval of that command or by the allowlist of that
\* moment (policy.ts, 8-11), for any calls and policies, whatever lanes and edits do in between.
THEOREM AlwaysByConsent == ServicesSpec => RunsByConsent
<1>1. AccountsInv /\ [RoutineStep \/ RdpStep \/ VncStep \/ McpStep \/ AutoStep \/ TestStep \/ RetryStep]_all
      => [ConsentStep]_(Mcp!vars)
  <2> SUFFICES ASSUME AccountsInv, NEW x \in Mcp!Exec, Mcp!Begins(x), ~UNCHANGED Mcp!vars,
                 [RoutineStep \/ RdpStep \/ VncStep \/ McpStep \/ AutoStep \/ TestStep \/ RetryStep]_all
               PROVE  \/ exec[x] = "asking" /\ x \in approved' \ approved
                      \/ /\ approvalMode = "allowlist" /\ Mcp!HostOf(x) \in execHosts
                         /\ Shape[x[1]] = "listed"
    BY DEF ConsentStep
  <2>1. Consented(x)
    BY NextAccounts DEF mcp, Mcp!vars
  <2>2. x[1] \in Call
    BY CommandsOf
  <2> QED BY <2>1, <2>2 DEF Consented
<1>2. [][ConsentStep]_(Mcp!vars) => RunsByConsent
  BY PTL DEF ConsentStep, RunsByConsent, Mcp!RunsByConsent
<1> QED BY <1>1, <1>2, AccountsHold, PTL DEF ServicesSpec

\* With nothing on its way, every row of a run shows how its host stands or ended
\* (stores/automation.ts, 90), however starts, events, cancels, timeouts and closed windows interleave.
THEOREM ResultsAreShown == ServicesSpec => []ResultsShown
<1>1. AccountsInv => ResultsShown
  BY FleetShows DEF AccountsInv
<1> QED BY <1>1, AccountsHold, PTL
-----------------------------------------------------------------------------
(* Types, of all services together *)

\* A websocket that got as far as a certificate has a target.
RdpMore ==
  /\ presented \subseteq Addr \X Cert /\ target \in [Req -> Addr \cup {None}]
  /\ \A r \in Req : rdpHost[r] # None => target[r] \in Addr

LEMMA RdpMoreNext == ASSUME RdpInv, RdpMore, Rdp!Next \/ UNCHANGED rdp PROVE RdpMore'
<1> USE DEF RdpMore, RdpInv, RdpTypes
<1>1. CASE UNCHANGED <<rdpHost, target, presented>>
  BY <1>1
<1>2. ASSUME NEW r \in Req, NEW h \in RdpHost, Rdp!openRdp(r, h) PROVE RdpMore'
  BY <1>2 DEF Rdp!openRdp, Rdp!trust
<1>3. ASSUME NEW r \in Req, NEW c \in Cert, Rdp!Secured(r, c) PROVE RdpMore'
  <2>1. target[r] \in Addr /\ presented' = presented \cup {<<target[r], c>>} /\ UNCHANGED <<rdpHost, target>>
    BY <1>3 DEF Rdp!Secured, Rdp!call, TokenFirst
  <2> QED BY <2>1
<1>4. Rdp!Next \/ UNCHANGED rdp =>
        \/ UNCHANGED <<rdpHost, target, presented>>
        \/ \E r \in Req, h \in RdpHost : Rdp!openRdp(r, h)
        \/ \E r \in Req, c \in Cert : Rdp!Secured(r, c)
  BY DEF Rdp!Next, Rdp!EditHost, Rdp!Dropped, Rdp!Accept, Rdp!Request, Rdp!BadRequest, Rdp!Connected, Rdp!Confirmed,
         Rdp!HandshakeFails, Rdp!HandshakeTimeout, Rdp!WsCloses, Rdp!StreamCloses, Rdp!call, Rdp!trust, rdp
<1> QED BY <1>1, <1>2, <1>3, <1>4

LEMMA RdpTyped == RdpInv /\ RdpMore => Rdp!TypeOK
<1> SUFFICES ASSUME RdpInv, RdpMore PROVE Rdp!TypeOK
  OBVIOUS
<1>1. \A r \in Req : told[r] \in 0 .. 1
  BY DEF RdpInv, RdpTypes, Rdp!ClosedOnce
<1> QED BY <1>1 DEF RdpInv, RdpTypes, RdpMore, Rdp!TypeOK, Rdp!Handshake

\* A websocket is unused, or on the bridge of a call.
VncMore ==
  /\ expired \subseteq Req /\ timers \subseteq Req
  /\ \A c \in Conn : conn[c] = Vnc!Unused \/ (conn[c].req \in Req /\ conn[c].at # "none")

LEMMA VncMoreNext == ASSUME VncInv, VncMore, Vnc!Next \/ UNCHANGED vnc PROVE VncMore'
<1> USE DEF VncMore, VncInv, VncTypes, Vnc!tokens
<1>1. CASE UNCHANGED <<expired, timers, conn>>
  BY <1>1
<1>2. CASE UNCHANGED conn /\ expired' \subseteq Req /\ timers' \subseteq Req
  BY <1>2
<1>3. ASSUME NEW c \in Conn, NEW r \in Req, Vnc!Accept(c, r) PROVE VncMore'
  BY <1>3 DEF Vnc!Accept, Vnc!Unused
<1>4. ASSUME NEW c \in Conn, Vnc!StreamOpens(c) \/ Vnc!StreamFails(c) \/ Vnc!StreamCloses(c) \/ Vnc!WsCloses(c) PROVE VncMore'
  <2> USE DEF Vnc!StreamOpens, Vnc!StreamFails, Vnc!StreamCloses, Vnc!WsCloses, Vnc!Ended
  <2>1. expired' = expired /\ timers' = timers
    BY <1>4
  <2>2. conn[c].at # "none" /\ conn[c].req \in Req
    BY <1>4 DEF Vnc!Unused
  <2>3. \E a \in {conn[c].at, "relaying", "closed"}, w \in BOOLEAN : conn' = [conn EXCEPT ![c].at = a, ![c].ws = w]
    <3>1. CASE conn' = [conn EXCEPT ![c].at = "relaying"]
      <4>1. conn' = [conn EXCEPT ![c].at = "relaying", ![c].ws = conn[c].ws] /\ conn[c].ws \in BOOLEAN
        BY <3>1
      <4> QED BY <4>1
    <3>2. CASE conn' = [conn EXCEPT ![c].ws = FALSE]
      <4>1. conn' = [conn EXCEPT ![c].at = conn[c].at, ![c].ws = FALSE]
        BY <3>2
      <4> QED BY <4>1
    <3>3. CASE conn' = [conn EXCEPT ![c].at = "closed", ![c].ws = FALSE]
      BY <3>3
    <3> QED BY <1>4, <3>1, <3>2, <3>3
  <2>4. (\A d \in Conn : d # c => conn'[d] = conn[d]) /\ conn'[c].req = conn[c].req /\ conn'[c].at # "none"
    BY <2>2, <2>3
  <2> QED BY <2>1, <2>2, <2>4
<1>5. ASSUME NEW r \in Req, Vnc!Open(r) \/ Vnc!OpenDedicated(r) \/ Vnc!Connected(r) \/ Vnc!ConnectFails(r) \/ Vnc!Expires(r)
                             \/ Vnc!SweepTimer(r) \/ Vnc!SessionDrops(r)
      PROVE  UNCHANGED conn /\ expired' \subseteq Req /\ timers' \subseteq Req
  BY <1>5 DEF Vnc!Open, Vnc!OpenDedicated, Vnc!Connected, Vnc!ConnectFails, Vnc!Expires, Vnc!SweepTimer, Vnc!SessionDrops,
              Vnc!ensureServer, Vnc!Register
<1>6. ASSUME Vnc!Listening \/ Vnc!ListenFails \/ Vnc!ServerError \/ Vnc!Shutdown \/ UNCHANGED vnc
      PROVE  UNCHANGED conn /\ expired' \subseteq Req /\ timers' \subseteq Req
  BY <1>6 DEF Vnc!Listening, Vnc!ListenFails, Vnc!ServerError, Vnc!Shutdown, Vnc!Register, Vnc!Serving, vnc
<1> QED BY <1>2, <1>3, <1>4, <1>5, <1>6 DEF Vnc!Next

LEMMA VncTyped == VncInv /\ VncMore => Vnc!TypeOK
<1> SUFFICES ASSUME VncInv, VncMore PROVE Vnc!TypeOK
  OBVIOUS
<1>1. \A c \in Conn : conn[c] \in [req : Req, at : {"opening", "relaying", "closed"}, ws : BOOLEAN] \cup {Vnc!Unused}
  BY DEF VncInv, VncTypes, VncMore
<1> QED BY <1>1 DEF VncInv, VncTypes, VncMore, Vnc!TypeOK

\* The setting, the policy and the servers
McpMore ==
  /\ mcpEnabled \in BOOLEAN /\ execHosts \subseteq Host /\ approvalMode \in {"always", "allowlist"}
  /\ srv \in [Srv -> {"none", "starting", "listening", "closed", "failed"}]
  /\ mcpServer \in Srv \cup {None} /\ token \in BOOLEAN /\ at \in [Call -> Srv \cup {None}]

LEMMA McpMoreNext == ASSUME McpMore, Mcp!Next \/ UNCHANGED mcp PROVE McpMore'
<1> USE DEF McpMore, Mcp!settings, Mcp!http
<1>2. CASE UNCHANGED <<mcpEnabled, execHosts, approvalMode, srv, mcpServer, token, at>>
  BY <1>2
<1>3. CASE Mcp!Enable \/ Mcp!Disable \/ Mcp!EditPolicy
  BY <1>3 DEF Mcp!Enable, Mcp!Start, Mcp!Disable, Mcp!EditPolicy
<1>4. ASSUME NEW s \in Srv, Mcp!Listening(s) \/ Mcp!ListenFails(s) \/ \E c \in Call : Mcp!Arrive(c, s) PROVE McpMore'
  BY <1>4 DEF Mcp!Listening, Mcp!ListenFails, Mcp!Arrive
<1>5. (\E c \in Call : Mcp!Handle(c)) \/ (\E x \in Mcp!Exec : Mcp!Approve(x) \/ Mcp!Deny(x) \/ Mcp!Settle(x)) \/ UNCHANGED mcp
       => UNCHANGED <<mcpEnabled, execHosts, approvalMode, srv, mcpServer, token, at>>
  BY DEF Mcp!Handle, Mcp!Approve, Mcp!Deny, Mcp!Settle, mcp
<1> QED BY <1>2, <1>3, <1>4, <1>5 DEF Mcp!Next

LEMMA McpTyped == McpInv /\ McpMore => Mcp!TypeOK
<1> SUFFICES ASSUME McpInv, McpMore PROVE Mcp!TypeOK
  OBVIOUS
<1>1. \A x \in Mcp!Exec : rows[x] \in {0, 1}
  BY DEF McpInv, Mcp!AuditedOnce
<1>2. rows \in [Mcp!Exec -> {0, 1}]
  BY <1>1 DEF McpInv
<1> QED BY <1>2 DEF McpInv, McpMore, Mcp!TypeOK, Lane

\* The delay is within its ceiling, and the history within its bound.
RetryMore ==
  /\ state \in [status : {"connected", "reconnecting", "failed"}, attempt : Nat, nextDelayMs : 0 .. MaxDelay]
  /\ dropped \in 0 .. MaxCalls

LEMMA RetryMoreNext == ASSUME ReconnectInv, RetryMore, [ReconnectNext]_reconnectVars PROVE RetryMore'
<1> USE DEF RetryMore
<1>1. MaxDelay \in Nat /\ MaxCalls \in Nat
  BY ReconnectAssumption DEF ReconnectAssumption
<1>2. \A n \in Nat \ {0} : nextBackoff(n) \in 0 .. MaxDelay
  <2> SUFFICES ASSUME NEW n \in Nat \ {0} PROVE nextBackoff(n) \in 0 .. MaxDelay
    OBVIOUS
  <2>1. nextBackoff(n) \in Nat
    BY DelaysGrow
  <2>2. nextBackoff(n) <= MaxDelay
    <3> DEFINE raw == BaseDelay * power[n - 1]
    <3>1. nextBackoff(n) = IF raw < MaxDelay THEN raw ELSE MaxDelay
      BY DEF nextBackoff
    <3>2. raw \in Nat
      <4>1. power[n - 1] \in Nat /\ BaseDelay \in Nat
        BY PowerIs, ReconnectAssumption DEF ReconnectAssumption
      <4> HIDE DEF raw
      <4> QED BY <4>1 DEF raw
    <3> HIDE DEF raw
    <3> QED BY <1>1, <3>1, <3>2
  <2> QED BY <1>1, <2>1, <2>2
<1>3. \A n \in Nat \ {0} : Retrying(n) \in [status : {"reconnecting"}, attempt : Nat, nextDelayMs : 0 .. MaxDelay]
  BY <1>2 DEF Retrying
<1>4. \A n \in Nat : Failed(n) \in [status : {"failed"}, attempt : Nat, nextDelayMs : 0 .. MaxDelay]
  BY <1>1 DEF Failed
<1>5. initialReconnectState \in [status : {"connected"}, attempt : Nat, nextDelayMs : 0 .. MaxDelay]
  BY <1>1 DEF initialReconnectState
<1>6. state.attempt \in Nat /\ 0 \in 0 .. MaxDelay
  BY <1>1
<1>7. CASE Drop
  BY <1>1, <1>3, <1>4, <1>6, <1>7 DEF Drop, OnDrop, Enter, shouldGiveUp
<1>8. CASE Dial \/ UNCHANGED reconnectVars
  BY <1>8 DEF Dial, reconnectVars
<1>9. CASE Succeeds \/ GiveUp
  BY <1>4, <1>5, <1>6, <1>9 DEF Succeeds, GiveUp, Enter, OnSuccess, OnGiveUp
<1>10. CASE Fails
  BY <1>3, <1>4, <1>6, <1>10 DEF Fails, OnAttemptFailed, Enter, shouldGiveUp
<1>11. CASE ManualRetry
  <2>1. [Retrying(1) EXCEPT !.nextDelayMs = 0] \in [status : {"reconnecting"}, attempt : Nat, nextDelayMs : 0 .. MaxDelay]
    BY <1>3, <1>6
  <2> QED BY <1>1, <1>11, <2>1 DEF ManualRetry, OnManualRetry, Enter
<1> QED BY <1>7, <1>8, <1>9, <1>10, <1>11 DEF ReconnectNext

LEMMA RetryTyped == ReconnectInv /\ RetryMore => ReconnectTypeOK
BY DEF ReconnectInv, ShapeOK, RetryMore, ReconnectTypeOK

\* Every state of every service has its type: no lane, slot, timer, token or delay leaves its range.
THEOREM ServicesTyped == ServicesSpec => []ServicesTypeOK
<1> DEFINE More == RoutineInv /\ RdpInv /\ RdpMore /\ VncInv /\ VncMore /\ McpMore /\ RetryMore
<1>1. ServicesInit => AccountsInv /\ More
  <2> SUFFICES ASSUME ServicesInit PROVE More
    BY InitAccounts
  <2>1. RoutineInv /\ RdpInv /\ VncInv
    BY InitRoutineInv, RdpInvInit, VncInvInit DEF ServicesInit
  <2>2. RdpMore /\ VncMore
    BY DEF ServicesInit, Rdp!Init, Vnc!Init, RdpMore, VncMore
  <2>3. McpMore
    BY DEF ServicesInit, Mcp!Init, McpMore
  <2>4. RetryMore
    BY ReconnectAssumption DEF ServicesInit, ReconnectInit, initialReconnectState, RetryMore, ReconnectAssumption
  <2> QED BY <2>1, <2>2, <2>3, <2>4
<1>2. AccountsInv /\ More
      /\ [RoutineStep \/ RdpStep \/ VncStep \/ McpStep \/ AutoStep \/ TestStep \/ RetryStep]_all
      => AccountsInv' /\ More'
  <2> SUFFICES ASSUME AccountsInv, More,
                 [RoutineStep \/ RdpStep \/ VncStep \/ McpStep \/ AutoStep \/ TestStep \/ RetryStep]_all
               PROVE  More'
    BY NextAccounts
  <2>1. /\ [Next]_vars /\ [Rdp!Next]_rdp /\ [Vnc!Next]_vnc /\ (Mcp!Next \/ UNCHANGED mcp)
        /\ [ReconnectNext]_reconnectVars
    BY DEF RoutineStep, RdpStep, VncStep, McpStep, AutoStep, TestStep, RetryStep, all
  <2>2. RoutineInv' /\ RdpInv' /\ VncInv'
    <3>1. RoutineInv'
      BY <2>1, NextRoutineInv
    <3>2. RdpInv'
      BY <2>1, RdpInvNext
    <3>3. VncInv'
      BY <2>1, VncInvNext
    <3> QED BY <3>1, <3>2, <3>3
  <2>3. RdpMore' /\ VncMore' /\ McpMore'
    <3>1. RdpMore'
      BY <2>1, RdpMoreNext
    <3>2. VncMore'
      BY <2>1, VncMoreNext
    <3>3. McpMore'
      BY <2>1, McpMoreNext
    <3> QED BY <3>1, <3>2, <3>3
  <2>4. RetryMore'
    BY <2>1, RetryMoreNext DEF AccountsInv
  <2> QED BY <2>2, <2>3, <2>4
<1>3. AccountsInv /\ More => ServicesTypeOK
  <2> SUFFICES ASSUME AccountsInv, More PROVE ServicesTypeOK
    OBVIOUS
  <2>1. TypeOK /\ Rdp!TypeOK /\ Vnc!TypeOK /\ Mcp!TypeOK /\ ReconnectTypeOK
    BY RdpTyped, VncTyped, McpTyped, RetryTyped DEF AccountsInv, RoutineInv
  <2>2. Fleet!TypeOK
    BY FleetCardinality DEF AccountsInv, FleetInv, FleetTypes, LanesInUse, Fleet!TypeOK
  <2>3. Tests!TypeOK
    BY DEF AccountsInv, TestsInv, Tests!TypeOK, Tests!Key
  <2> QED BY <2>1, <2>2, <2>3 DEF ServicesTypeOK
<1> HIDE DEF More
<1> QED BY <1>1, <1>2, <1>3, PTL DEF ServicesSpec
=============================================================================
