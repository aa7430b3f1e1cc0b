------------------------------ MODULE RdpProxy ------------------------------
(***************************************************************************)
(* RDP sessions (src/src/main/rdp): openRdp() registers a target under a    *)
(* one-time token; the websocket that presents it sends one request, for    *)
(* which the proxy connects to the server, exchanges X.224, upgrades to TLS *)
(* and compares the certificate with the one pinned for the host's address. *)
(* The start of the listener is that of VncBridge and is left out.          *)
(***************************************************************************)
EXTENDS Naturals, FiniteSets

CONSTANTS
  Req,    \* openRdp() calls; a token serves one websocket, so also connections
  Host,
  Addr,   \* host:port
  Cert,
  None

VARIABLES
  row,        \* the address in each host's row, None once deleted
  pins,       \* rdp_known_certs
  presented,  \* which certificate each address has presented
  host,       \* the host of a call, None before it
  target,     \* the address its closure connects to
  pending,    \* registered, unused tokens
  told,       \* onClosed() calls, counted
  ws,         \* the websocket: "none", "open", "closing" or "closed"
  step,       \* handleConnection(): "waiting" for the request, "connecting",
              \* "confirm" and "tls" are its awaits, then "relay" or "over"
  closed,     \* connections that finish() was called for
  stream,     \* the stream to the server: "none", "open" or "closed"
  cert        \* the certificate of the connection

vars == <<row, pins, presented, host, target, pending, told, ws, step, closed, stream, cert>>
call  == <<host, target>>
trust == <<pins, presented, cert>>
Handshake == {"waiting", "connecting", "confirm", "tls"}

Init ==
  /\ row \in [Host -> Addr] /\ pins = {} /\ presented = {}
  /\ host = [r \in Req |-> None] /\ target = [r \in Req |-> None]
  /\ pending = {} /\ told = [r \in Req |-> 0]
  /\ ws = [r \in Req |-> "none"] /\ step = [r \in Req |-> "none"] /\ closed = {}
  /\ stream = [r \in Req |-> "none"] /\ cert = [r \in Req |-> None]

-----------------------------------------------------------------------------
(* Calls, tokens and host rows *)

openRdp(r, h) ==
  /\ host[r] = None /\ row[h] # None
  /\ host' = [host EXCEPT ![r] = h] /\ target' = [target EXCEPT ![r] = row[h]]
  /\ pending' = pending \cup {r}
  /\ UNCHANGED <<row, trust, told, ws, step, closed, stream>>

EditHost(h, a) ==
  /\ row[h] # None /\ row' = [row EXCEPT ![h] = a]
  /\ UNCHANGED <<call, trust, pending, told, ws, step, closed, stream>>

\* onClosed() of the targets R
Told(R) == told' = [r \in Req |-> told[r] + IF r \in R THEN 1 ELSE 0]

\* Tokens that nobody used are swept, all that are due; or dropped on quit.
Dropped(R) ==
  /\ R # {} /\ pending' = pending \ R /\ Told(R)
  /\ UNCHANGED <<row, call, trust, ws, step, closed, stream>>

Accept(r) ==
  /\ r \in pending /\ pending' = pending \ {r}
  /\ ws' = [ws EXCEPT ![r] = "open"] /\ step' = [step EXCEPT ![r] = "waiting"]
  /\ UNCHANGED <<row, call, trust, told, closed, stream>>

-----------------------------------------------------------------------------
(* handleConnection() *)

\* finish(): next is where the connection is afterwards, w the state of its websocket.
finish(r, next, w) ==
  /\ step' = [step EXCEPT ![r] = next]
  /\ IF r \in closed THEN UNCHANGED <<told, closed, stream, ws>>
     ELSE /\ Told({r}) /\ closed' = closed \cup {r}
          /\ stream' = [stream EXCEPT ![r] = IF @ = "open" THEN "closed" ELSE @]
          /\ ws' = [ws EXCEPT ![r] = IF @ = "open" THEN w ELSE @]
fail(r) == finish(r, "over", "closing")

\* A message with the whole request; whether the connection is closed is not asked,
\* and a websocket delivers messages until its close is answered.
Request(r) ==
  /\ step[r] = "waiting" /\ ws[r] \in {"open", "closing"}
  /\ step' = [step EXCEPT ![r] = "connecting"]
  /\ UNCHANGED <<row, call, trust, pending, told, ws, closed, stream>>
BadRequest(r) ==
  /\ step[r] = "waiting" /\ ws[r] \in {"open", "closing"} /\ fail(r)
  /\ UNCHANGED <<row, call, trust, pending>>

Connected(r) ==
  /\ step[r] = "connecting"
  /\ stream' = [stream EXCEPT ![r] = "open"] /\ step' = [step EXCEPT ![r] = "confirm"]
  /\ UNCHANGED <<row, call, trust, pending, told, ws, closed>>
Confirmed(r) ==
  /\ step[r] = "confirm" /\ stream[r] = "open" /\ step' = [step EXCEPT ![r] = "tls"]
  /\ UNCHANGED <<row, call, trust, pending, told, ws, closed, stream>>
\* The connect, the X.224 exchange or the TLS handshake fails.
HandshakeFails(r) ==
  /\ \/ step[r] = "connecting"
     \/ step[r] \in {"confirm", "tls"} /\ stream[r] = "open"
  /\ finish(r, "over", "closing") /\ UNCHANGED <<row, call, trust, pending>>

\* verifyRdpServerCert(): no certificate is pinned for the address, or this one.  The
\* address is read from the host's row now; a first certificate is pinned.
Known(r) == {c \in Cert : <<row[host[r]], c>> \in pins}
verifyCert_AnyKnown(r, c) == row[host[r]] # None   \* mutant: a changed certificate is not refused
verifyCert(r, c) == row[host[r]] # None /\ Known(r) \subseteq {c}

\* The TLS session is there; a connection that was closed meanwhile is left alone.
Secured(r, c) ==
  /\ step[r] = "tls" /\ stream[r] = "open"
  /\ presented' = presented \cup {<<target[r], c>>} /\ cert' = [cert EXCEPT ![r] = c]
  /\ \/ /\ r \in closed
        /\ step' = [step EXCEPT ![r] = "over"] /\ UNCHANGED <<pins, told, ws, closed, stream>>
     \/ /\ r \notin closed /\ verifyCert(r, c)
        /\ pins' = pins \cup {<<row[host[r]], c>>}
        /\ step' = [step EXCEPT ![r] = "relay"] /\ UNCHANGED <<told, ws, closed, stream>>
     \/ r \notin closed /\ ~verifyCert(r, c) /\ fail(r) /\ UNCHANGED pins
  /\ UNCHANGED <<row, call, pending>>

\* HANDSHAKE_TIMEOUT_MS
HandshakeTimeout(r) ==
  /\ step[r] \in Handshake /\ r \notin closed /\ finish(r, step[r], "closing")
  /\ UNCHANGED <<row, call, trust, pending>>

WsCloses(r) ==
  /\ ws[r] \in {"open", "closing"}
  /\ IF ws[r] = "open"
     THEN finish(r, IF step[r] \in {"waiting", "relay"} THEN "over" ELSE step[r], "closed")
     ELSE /\ ws' = [ws EXCEPT ![r] = "closed"]
          /\ step' = [step EXCEPT ![r] = IF @ = "waiting" THEN "over" ELSE @]
          /\ UNCHANGED <<told, closed, stream>>
  /\ UNCHANGED <<row, call, trust, pending>>
\* The server closes: a relay finishes; a stream nobody uses is just gone.
StreamCloses(r) ==
  /\ \/ step[r] = "relay" /\ finish(r, "over", "closing")
     \/ /\ r \in closed /\ stream[r] = "open" /\ stream' = [stream EXCEPT ![r] = "closed"]
        /\ step' = [step EXCEPT ![r] = "over"] /\ UNCHANGED <<told, ws, closed>>
  /\ UNCHANGED <<row, call, trust, pending>>

Next ==
  \/ \E h \in Host, a \in Addr \cup {None} : EditHost(h, a)
  \/ \E R \in SUBSET pending : Dropped(R)
  \/ \E r \in Req :
       \/ \E h \in Host : openRdp(r, h)
       \/ Accept(r) \/ Request(r) \/ BadRequest(r) \/ Connected(r) \/ Confirmed(r)
       \/ HandshakeFails(r) \/ HandshakeTimeout(r) \/ WsCloses(r) \/ StreamCloses(r)
       \/ \E c \in Cert : Secured(r, c)

Spec == Init /\ [][Next]_vars
Fairness == \A r \in Req : WF_vars(HandshakeTimeout(r))
FairSpec == Spec /\ Fairness

-----------------------------------------------------------------------------
(* Properties *)

TypeOK ==
  /\ row \in [Host -> Addr \cup {None}]
  /\ pins \subseteq Addr \X Cert /\ presented \subseteq Addr \X Cert
  /\ host \in [Req -> Host \cup {None}] /\ target \in [Req -> Addr \cup {None}]
  /\ pending \subseteq Req /\ told \in [Req -> 0 .. 1]
  /\ ws \in [Req -> {"none", "open", "closing", "closed"}]
  /\ step \in [Req -> Handshake \cup {"none", "relay", "over"}]
  /\ closed \subseteq Req /\ stream \in [Req -> {"none", "open", "closed"}]
  /\ cert \in [Req -> Cert \cup {None}]

\* onClosed() is "fired exactly once when the session ends" (rdp-proxy.ts 41, 355-358):
\* for a token that was dropped, and for a connection that was closed, however many
\* of the timer, the websocket and the stream say so.
ClosedOnce ==
  \A r \in Req :
    told[r] = IF r \in closed \/ (host[r] # None /\ r \notin pending /\ ws[r] = "none") THEN 1 ELSE 0

\* One certificate is pinned per address, and a relay runs only over a pinned one
\* (rdp-known-certs.ts 24-29), whatever was pinned between the connect and the check; and
\* never on a connection that its window or the timer closed, though the connect, the
\* exchange and the TLS handshake it awaited went on.
RelayIsPinned ==
  /\ \A p \in pins, q \in pins : p[1] = q[1] => p = q
  /\ \A r \in Req : step[r] = "relay" =>
       /\ \E a \in Addr : <<a, cert[r]>> \in pins
       /\ r \notin closed /\ stream[r] = "open"

\* The timer ends every handshake, whatever it waits for.
HandshakesOver == \A r \in Req : step[r] \in Handshake => r \in closed
HandshakeSettles == []<>HandshakesOver

-----------------------------------------------------------------------------
(* What comments say and the code does not do *)

\* rdp-proxy.ts 41: onClosed() is called when the session ends; a stream whose connect
\* was awaited by then is opened afterwards, and nothing ends it.
ToldMeansEnded == \A r \in Req : told[r] = 1 => stream[r] # "open"

\* schema.ts 287-292, "pinned per (host, port)": the pin of an address is a certificate
\* that address presented, not the one of an address the host had before.
PinnedWherePresented == pins \subseteq presented
=============================================================================
