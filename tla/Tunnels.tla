------------------------------ MODULE Tunnels ------------------------------
(***************************************************************************)
(* The port-forward runtime (src/src/main/ssh/tunnel-manager.ts).  A start()*)
(* call borrows the ssh2 client of an open terminal or connects a dedicated *)
(* one, binds a local server and enters the active map, from where it can  *)
(* be stopped.  The two awaits of start() are "connecting" and "listening"; *)
(* stop(), a closing client and a closing window look tunnels up in the    *)
(* map only.                                                               *)
(***************************************************************************)
EXTENDS Naturals, TLC

CONSTANTS
  Inst,      \* start() calls that get past the map lookup
  Owner,     \* windows
  Saved,     \* saved tunnels
  Tab,       \* terminal sessions whose client can be borrowed
  OwnerOf,   \* the window of each of them
  Port,      \* local ports
  Dynamic,   \* the saved tunnels of type 'dynamic' (SOCKS)
  Conn,      \* connections accepted by the local servers
  None

ASSUME TunnelAssumption ==
  /\ OwnerOf \in [Tab -> Owner]
  /\ Dynamic \subseteq Saved
  /\ Inst \cap Tab = {} /\ None \notin Inst \cup Tab \cup Port

Client == Tab \cup Inst      \* the dedicated client of an instance has its name
Map    == Owner \X Saved     \* the keys of the active map

VARIABLES
  port,     \* the listen port of each saved tunnel
  pc,       \* where each start() is, or what became of its tunnel
  what,     \* [key, port, client] of each instance
  cst,      \* each ssh2 client: "broken" is unwritable, "ended" closed by us;
            \* for both 'close' is still to fire
  active,   \* the active map
  conn,     \* [inst, at] of each accepted connection
  gone,     \* destroyed windows
  edited    \* history: the saved tunnels that were given another port

vars == <<port, pc, what, cst, active, conn, gone, edited>>

Key(i)    == what[i].key
ClientOf(i) == what[i].client
Bound(p)  == \E i \in Inst : pc[i] = "up" /\ what[i].port = p
Started   == {i \in Inst : pc[i] \in {"listening", "up", "failed", "stopped"}}
Hooked(c) == {i \in Started : ClientOf(i) = c}   \* the 'close' listeners of c
NoConn    == [inst |-> None, at |-> "none"]
Unset     == [key |-> None, port |-> None, client |-> None]

Init ==
  /\ port \in [Saved -> Port]
  /\ pc = [i \in Inst |-> "idle"] /\ what = [i \in Inst |-> Unset]
  /\ cst = [c \in Client |-> "none"]
  /\ active = [k \in Map |-> None]
  /\ conn = [c \in Conn |-> NoConn]
  /\ gone = {} /\ edited = {}

-----------------------------------------------------------------------------
\* stop() for every key of K, over the clients cl and connections cn: the wired
\* sockets are destroyed, the server closed, a dedicated client disconnected.
\* Connections still in their SOCKS handshake or opening a channel are not known.
Stopped(K) == {active[k] : k \in K} \ {None}

Stop_KeepsClient(K, cl, cn) ==   \* mutant: dedicatedSessionId is not disconnected
  LET S == Stopped(K) IN
  /\ pc' = [i \in Inst |-> IF i \in S THEN "stopped" ELSE pc[i]]
  /\ cst' = cl
  /\ conn' = [c \in Conn |-> IF cn[c].inst \in S /\ cn[c].at = "wired"
                             THEN [cn[c] EXCEPT !.at = "closed"] ELSE cn[c]]
  /\ active' = [k \in Map |-> IF k \in K THEN None ELSE active[k]]
Stop_KeepsEntry(K, cl, cn) ==   \* mutant: the map entry is not deleted
  LET S == Stopped(K) IN
  /\ pc' = [i \in Inst |-> IF i \in S THEN "stopped" ELSE pc[i]]
  /\ cst' = [c \in Client |-> IF c \in S /\ cl[c] \in {"live", "broken"} THEN "ended" ELSE cl[c]]
  /\ conn' = [c \in Conn |-> IF cn[c].inst \in S /\ cn[c].at = "wired"
                             THEN [cn[c] EXCEPT !.at = "closed"] ELSE cn[c]]
  /\ UNCHANGED active
Stop(K, cl, cn) ==
  LET S == Stopped(K) IN
  /\ pc' = [i \in Inst |-> IF i \in S THEN "stopped" ELSE pc[i]]
  /\ cst' = [c \in Client |-> IF c \in S /\ cl[c] \in {"live", "broken"} THEN "ended" ELSE cl[c]]
  /\ conn' = [c \in Conn |-> IF cn[c].inst \in S /\ cn[c].at = "wired"
                             THEN [cn[c] EXCEPT !.at = "closed"] ELSE cn[c]]
  /\ active' = [k \in Map |-> IF k \in K THEN None ELSE active[k]]

Moves(i, at) == pc' = [pc EXCEPT ![i] = at]

\* The session manager's borrowClient(): a session that has not been torn down.
borrowClient(o) == {c \in Tab : OwnerOf[c] = o /\ cst[c] \in {"live", "broken"}}

\* start() up to its first await.
Start_NoDedicated(i, o, sv) ==   \* mutant: binds the port though no client was found
  /\ pc[i] = "idle" /\ o \notin gone /\ active[<<o, sv>>] = None
  /\ \E c \in borrowClient(o) \cup {None} :
       what' = [what EXCEPT ![i] = [key |-> <<o, sv>>, port |-> port[sv], client |-> c]]
  /\ Moves(i, "listening")
  /\ UNCHANGED <<port, cst, active, conn, gone, edited>>
Start(i, o, sv) ==
  /\ pc[i] = "idle" /\ o \notin gone /\ active[<<o, sv>>] = None
  /\ \/ \E c \in borrowClient(o) :
          /\ Moves(i, "listening")
          /\ what' = [what EXCEPT ![i] = [key |-> <<o, sv>>, port |-> port[sv], client |-> c]]
     \/ /\ borrowClient(o) = {}
        /\ Moves(i, "connecting")
        /\ what' = [what EXCEPT ![i] = [key |-> <<o, sv>>, port |-> port[sv], client |-> i]]
  /\ UNCHANGED <<port, cst, active, conn, gone, edited>>

\* connectDedicated() resolves, for a window that is still there, or rejects.
Connected(i) ==
  /\ pc[i] = "connecting" /\ Key(i)[1] \notin gone
  /\ Moves(i, "listening") /\ cst' = [cst EXCEPT ![i] = "live"]
  /\ UNCHANGED <<port, what, active, conn, gone, edited>>
ConnectFails(i) ==
  /\ pc[i] = "connecting" /\ Moves(i, "failed")
  /\ UNCHANGED <<port, what, cst, active, conn, gone, edited>>

\* The server listens: the tunnel enters the map.
Listening(i) ==
  /\ pc[i] = "listening" /\ ~Bound(what[i].port)
  /\ Moves(i, "up") /\ active' = [active EXCEPT ![Key(i)] = i]
  /\ UNCHANGED <<port, what, cst, conn, gone, edited>>
ListenFails(i) ==
  /\ pc[i] = "listening" /\ Moves(i, "failed")
  /\ cst' = IF ClientOf(i) = i /\ cst[i] \in {"live", "broken"}
            THEN [cst EXCEPT ![i] = "ended"] ELSE cst
  /\ UNCHANGED <<port, what, active, conn, gone, edited>>

UserStops(k) ==
  /\ k[1] \notin gone /\ active[k] # None
  /\ Stop({k}, cst, conn)
  /\ UNCHANGED <<port, what, gone, edited>>

\* An error of the listener after it was bound.
ListenerError(k) ==
  /\ active[k] # None
  /\ Stop({k}, cst, conn)
  /\ UNCHANGED <<port, what, gone, edited>>

\* updateTunnel()
Edit(sv, p) ==
  /\ p # port[sv] /\ port' = [port EXCEPT ![sv] = p] /\ edited' = edited \cup {sv}
  /\ UNCHANGED <<pc, what, cst, active, conn, gone>>

\* A window is destroyed: destroyForOwner(), and its terminals go.
OwnerDestroyed(o) ==
  /\ o \notin gone /\ gone' = gone \cup {o}
  /\ Stop({o} \X Saved,
          [c \in Client |-> IF c \in Tab /\ OwnerOf[c] = o /\ cst[c] \in {"live", "broken"}
                            THEN "ended" ELSE cst[c]], conn)
  /\ UNCHANGED <<port, what, edited>>

-----------------------------------------------------------------------------
(* Clients *)

SetClient(c, v) ==
  cst' = [cst EXCEPT ![c] = v] /\ UNCHANGED <<port, pc, what, active, conn, gone, edited>>

TabConnects(c)    == cst[c] = "none" /\ OwnerOf[c] \notin gone /\ SetClient(c, "live")
TabDisconnects(c) == c \in Tab /\ cst[c] \in {"live", "broken"} /\ SetClient(c, "ended")
Breaks(c)         == cst[c] = "live" /\ SetClient(c, "broken")

\* 'close' fires: every channel of the client closes, and onClientDown of every
\* start() that ever used it stops what now runs under its key.
CloseEvent(c) ==
  /\ cst[c] \in {"broken", "ended"}
  /\ Stop({Key(i) : i \in Hooked(c)}, [cst EXCEPT ![c] = "closed"],
          [n \in Conn |-> IF conn[n].at \in {"opening", "wired"} /\ ClientOf(conn[n].inst) = c
                          THEN [conn[n] EXCEPT !.at = "closed"] ELSE conn[n]])
  /\ UNCHANGED <<port, what, gone, edited>>

-----------------------------------------------------------------------------
(* Connections *)

SetConn(n, at) ==
  conn' = [conn EXCEPT ![n].at = at] /\ UNCHANGED <<port, pc, what, cst, active, gone, edited>>

\* forward(): forwardOut throws when the client is not writable, and the tunnel
\* is stopped.
Forward(n, i) ==
  LET at(v) == [conn EXCEPT ![n] = [inst |-> i, at |-> v]]
  IN
  /\ \/ /\ pc[i] # "stopped" /\ cst[ClientOf(i)] # "live"
        /\ Stop({Key(i)}, cst, at("closed"))
     \/ /\ pc[i] = "stopped" \/ cst[ClientOf(i)] = "live"
        /\ conn' = at(IF pc[i] = "stopped" THEN "closed" ELSE "opening")
        /\ UNCHANGED <<pc, cst, active>>
  /\ UNCHANGED <<port, what, gone, edited>>

Accept(n, i) ==
  /\ conn[n] = NoConn /\ pc[i] = "up"
  /\ IF Key(i)[2] \in Dynamic
     THEN /\ conn' = [conn EXCEPT ![n] = [inst |-> i, at |-> "handshake"]]
          /\ UNCHANGED <<port, pc, what, cst, active, gone, edited>>
     ELSE Forward(n, i)

HandshakeDone(n)  == conn[n].at = "handshake" /\ Forward(n, conn[n].inst)
HandshakeFails(n) == conn[n].at = "handshake" /\ SetConn(n, "closed")   \* or times out

\* wire() does not look whether the tunnel was stopped meanwhile.
ChannelOpened(n) ==
  conn[n].at = "opening" /\ cst[ClientOf(conn[n].inst)] = "live" /\ SetConn(n, "wired")
ConnCloses(n) == conn[n].at \in {"opening", "wired"} /\ SetConn(n, "closed")

Done == (\A i \in Inst : pc[i] \notin {"connecting", "listening"}) /\ UNCHANGED vars

Next ==
  \/ \E i \in Inst, o \in Owner, sv \in Saved : Start(i, o, sv)
  \/ \E i \in Inst : Connected(i) \/ ConnectFails(i) \/ Listening(i) \/ ListenFails(i)
  \/ \E k \in Map : UserStops(k) \/ ListenerError(k)
  \/ \E sv \in Saved, p \in Port : Edit(sv, p)
  \/ \E o \in Owner : OwnerDestroyed(o)
  \/ \E c \in Tab : TabConnects(c) \/ TabDisconnects(c)
  \/ \E c \in Client : Breaks(c) \/ CloseEvent(c)
  \/ \E n \in Conn, i \in Inst : Accept(n, i)
  \/ \E n \in Conn : HandshakeDone(n) \/ HandshakeFails(n) \/ ChannelOpened(n) \/ ConnCloses(n)
  \/ Done

Spec == Init /\ [][Next]_vars

-----------------------------------------------------------------------------
(* Properties *)

TypeOK ==
  /\ port \in [Saved -> Port]
  /\ pc \in [Inst -> {"idle", "connecting", "listening", "up", "failed", "stopped"}]
  /\ what \in [Inst -> [key : Map, port : Port, client : Client] \cup {Unset}]
  /\ cst \in [Client -> {"none", "live", "broken", "ended", "closed"}]
  /\ active \in [Map -> Inst \cup {None}]
  /\ conn \in [Conn -> [inst : Inst, at : {"handshake", "opening", "wired", "closed"}]
                       \cup {NoConn}]
  /\ gone \subseteq Owner /\ edited \subseteq Saved

\* A bound server can be stopped: the map holds only tunnels that run, each under
\* its own key, and every one that runs, however start() calls for one tunnel
\* overlap, as long as that tunnel was not given another port.
MapHoldsRunning ==
  /\ \A k \in Map : active[k] # None => pc[active[k]] = "up" /\ Key(active[k]) = k
  /\ \A i \in Inst : pc[i] = "up" /\ Key(i)[2] \notin edited => active[Key(i)] = i

\* A dedicated connection does not outlive its tunnel (tunnel-manager.ts 254,
\* 288; TUNNELS.md 50): it is disconnected on every way out of start() and stop().
OwnClientEnded ==
  \A i \in Inst : pc[i] \in {"failed", "stopped"} => cst[i] \notin {"live", "broken"}

-----------------------------------------------------------------------------
(* What comments and documents say and the code does not do *)

\* TUNNELS.md 49-50, "never an orphaned bound server": a tunnel whose client has
\* closed is stopped.  A client that closes while listen() is awaited finds no
\* tunnel in the map.
ClosedClientStopsTunnel ==
  \A i \in Inst : pc[i] = "up" => cst[ClientOf(i)] # "closed"

\* tunnel-manager.ts 20-21, "torn down when the window closes".
ClosedWindowHasNoTunnel ==
  \A i \in Inst : pc[i] = "up" => Key(i)[1] \notin gone

\* The same lines: a tunnel that was torn down relays nothing.
StoppedRelaysNothing ==
  \A n \in Conn : conn[n].at = "wired" => pc[conn[n].inst] = "up"

\* The same lines, "one runtime per window per saved tunnel".
OneRuntimePerTunnel ==
  \A i, j \in Inst : pc[i] = "up" /\ pc[j] = "up" /\ Key(i) = Key(j) => i = j

\* 227-228, it is the tunnel of the client that drops which "can't relay": the
\* 'close' of another client stops no tunnel.
CloseStopsOwnTunnels ==
  [][\A c \in Client : cst[c] # "closed" /\ cst'[c] = "closed" =>
       \A i \in Inst : pc[i] = "up" /\ pc'[i] = "stopped" => ClientOf(i) = c]_vars

-----------------------------------------------------------------------------
(* Small instances *)

OneWindow == [c \in Tab |-> CHOOSE o \in Owner : TRUE]
\* Nothing distinguishes the start() calls, or the ports, from each other.
Alike == Permutations(Inst) \cup Permutations(Port)
=============================================================================
