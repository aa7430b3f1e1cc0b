--------------------------- MODULE TunnelsProofs ---------------------------
(***************************************************************************)
(* Proofs about Tunnels, for any windows, tunnels, terminals, ports and     *)
(* connections.  A saved tunnel that is not edited listens on one port, so  *)
(* of two overlapping start() calls only one binds it: PortFixed carries    *)
(* this from the first lines of start() to the line that enters the map.   *)
(***************************************************************************)
EXTENDS Tunnels, TLAPS

Described == [key : Map, port : Port, client : Client]
States    == {"idle", "connecting", "listening", "up", "failed", "stopped"}
Links     == {"none", "live", "broken", "ended", "closed"}
Accepted  == [inst : Inst, at : {"handshake", "opening", "wired", "closed"}]

\* A start() that has begun has read its tunnel; only such a one is in the map
\* or has connections.
Begun ==
  /\ \A i \in Inst : pc[i] # "idle" => what[i] \in Described
  /\ \A k \in Map : active[k] # None => pc[active[k]] # "idle"
  /\ \A n \in Conn : conn[n] # NoConn => pc[conn[n].inst] # "idle"
Base == TypeOK /\ Begun

\* The port it has read is the one the saved tunnel still has, if never edited.
PortFixed ==
  \A i \in Inst : pc[i] # "idle" /\ Key(i)[2] \notin edited => what[i].port = port[Key(i)[2]]

\* A dedicated client is open only between connecting and the end of the tunnel.
OwnInv ==
  \A i \in Inst :
    /\ pc[i] = "connecting" => ClientOf(i) = i
    /\ cst[i] \in {"live", "broken"} => ClientOf(i) = i /\ pc[i] \in {"listening", "up"}

-----------------------------------------------------------------------------
(* What stop() does *)

\* It marks exactly the stopped tunnels, each of which had begun.
LEMMA StopPc ==
  ASSUME TunnelAssumption, Base, NEW K \in SUBSET Map, NEW cl, NEW cn, Stop(K, cl, cn)
  PROVE  /\ pc' \in [Inst -> States]
         /\ \A i \in Inst : pc'[i] = IF i \in Stopped(K) THEN "stopped" ELSE pc[i]
         /\ \A i \in Inst : pc'[i] = "idle" <=> pc[i] = "idle"
<1>1. \A i \in Inst : i \in Stopped(K) => pc[i] # "idle"
  BY DEF Stopped, Base, Begun
<1>2. \A i \in Inst : pc'[i] = IF i \in Stopped(K) THEN "stopped" ELSE pc[i]
  BY DEF Stop
<1>3. pc' \in [Inst -> States]
  BY DEF Stop, Base, TypeOK, States
<1>. QED BY <1>1, <1>2, <1>3

\* It keeps every type, over any clients and connections of their type.
LEMMA StopType ==
  ASSUME TunnelAssumption, Base, NEW K \in SUBSET Map, NEW cl \in [Client -> Links],
         NEW cn \in [Conn -> Accepted \cup {NoConn}], Stop(K, cl, cn)
  PROVE  /\ cst' \in [Client -> Links]
         /\ active' \in [Map -> Inst \cup {None}]
         /\ conn' \in [Conn -> Accepted \cup {NoConn}]
<1>1. cst' \in [Client -> Links]
  BY DEF Stop, Links
<1>2. active' \in [Map -> Inst \cup {None}]
  BY DEF Stop, Base, TypeOK
<1>3. \A c \in Conn :
        cn[c].at = "wired" =>
          [cn[c] EXCEPT !.at = "closed"] \in Accepted
  BY DEF NoConn, Accepted
<1>4. conn' \in [Conn -> Accepted \cup {NoConn}]
  BY <1>3 DEF Stop
<1>. QED BY <1>1, <1>2, <1>4

\* A connection stays with its instance.
LEMMA StopConn ==
  ASSUME NEW K, NEW cl, NEW cn \in [Conn -> Accepted \cup {NoConn}], Stop(K, cl, cn),
         NEW n \in Conn, conn'[n] # NoConn
  PROVE  cn[n] # NoConn /\ conn'[n].inst = cn[n].inst
<1>1. conn'[n] = IF cn[n].inst \in Stopped(K) /\ cn[n].at = "wired"
                 THEN [cn[n] EXCEPT !.at = "closed"] ELSE cn[n]
  BY DEF Stop
<1>2. cn[n].at = "wired" => cn[n] # NoConn /\ cn[n] \in Accepted
  BY DEF NoConn
<1>. QED BY <1>1, <1>2 DEF Accepted

\* A step that leaves what is known of the instances keeps Begun.
LEMMA BegunKept ==
  ASSUME Base, what' = what,
         \A i \in Inst : pc'[i] = "idle" <=> pc[i] = "idle",
         \A k \in Map : active'[k] \in {None, active[k]},
         \A n \in Conn : conn'[n] # NoConn =>
            \/ conn[n] # NoConn /\ conn'[n].inst = conn[n].inst
            \/ conn'[n].inst \in Inst /\ pc[conn'[n].inst] # "idle"
  PROVE  Begun'
<1>1. \A i \in Inst : pc'[i] # "idle" => what'[i] \in Described
  BY DEF Begun, Base
<1>2. ASSUME NEW k \in Map, active'[k] # None PROVE pc'[active'[k]] # "idle"
  <2>1. active'[k] = active[k] /\ active[k] \in Inst
    BY <1>2 DEF Base, TypeOK
  <2>. QED BY <1>2, <2>1 DEF Base, Begun
<1>3. ASSUME NEW n \in Conn, conn'[n] # NoConn PROVE pc'[conn'[n].inst] # "idle"
  <2>1. conn[n] # NoConn => conn[n].inst \in Inst
    BY DEF Base, TypeOK
  <2>. QED BY <1>3, <2>1 DEF Base, Begun
<1>. QED BY <1>1, <1>2, <1>3 DEF Begun, Described, Map, Client, NoConn

\* The step of a whole stop().
LEMMA StopBase ==
  ASSUME TunnelAssumption, Base, NEW K \in SUBSET Map, NEW cl \in [Client -> Links],
         NEW cn \in [Conn -> Accepted \cup {NoConn}], Stop(K, cl, cn),
         port' = port, what' = what, gone' \subseteq Owner, edited' = edited,
         \A n \in Conn : cn[n] # NoConn =>
            \/ conn[n] # NoConn /\ cn[n].inst = conn[n].inst
            \/ cn[n].inst \in Inst /\ pc[cn[n].inst] # "idle"
  PROVE  Base'
<1>1. Begun'
  <2>1. \A k \in Map : active'[k] \in {None, active[k]}
    BY DEF Stop
  <2>2. \A n \in Conn : conn'[n] # NoConn =>
            \/ conn[n] # NoConn /\ conn'[n].inst = conn[n].inst
            \/ conn'[n].inst \in Inst /\ pc[conn'[n].inst] # "idle"
    <3>1. \A n \in Conn : conn'[n] # NoConn => cn[n] # NoConn /\ conn'[n].inst = cn[n].inst
      BY StopConn
    <3>. QED BY <3>1
  <2>. QED BY <2>1, <2>2, StopPc, BegunKept
<1>2. TypeOK'
  BY StopPc, StopType DEF Base, TypeOK, States, Links, Accepted, Client, Map, Unset, NoConn
<1>. QED BY <1>1, <1>2 DEF Base

\* A tunnel that is stopped leaves the map, and one that is not stays in it.
LEMMA StopMap ==
  ASSUME TunnelAssumption, Base, MapHoldsRunning, NEW K \in SUBSET Map, NEW cl, NEW cn,
         Stop(K, cl, cn), what' = what, edited' = edited
  PROVE  MapHoldsRunning'
<1>1. \A k \in Map : active'[k] = IF k \in K THEN None ELSE active[k]
  BY DEF Stop
<1>2. ASSUME NEW k \in Map, active'[k] # None
      PROVE  pc'[active'[k]] = "up" /\ what'[active'[k]].key = k
  <2>1. k \notin K /\ active'[k] = active[k] /\ active[k] \in Inst
    BY <1>1, <1>2 DEF Base, TypeOK
  <2>2. pc[active[k]] = "up" /\ Key(active[k]) = k
    BY <1>2, <2>1 DEF MapHoldsRunning
  <2>3. active[k] \notin Stopped(K)
    BY <2>1, <2>2 DEF Stopped, MapHoldsRunning
  <2>. QED BY <2>1, <2>2, <2>3, StopPc DEF Key
<1>3. ASSUME NEW i \in Inst, pc'[i] = "up", Key(i)[2] \notin edited
      PROVE  active'[Key(i)'] = i
  <2>1. pc[i] = "up" /\ i \notin Stopped(K)
    BY <1>3, StopPc
  <2>2. active[Key(i)] = i /\ Key(i) \in Map
    BY <1>3, <2>1 DEF MapHoldsRunning, Base, Begun, Key, Described
  <2>3. Key(i) \notin K
    BY <2>1, <2>2 DEF Stopped, TunnelAssumption
  <2>. QED BY <1>1, <2>2, <2>3 DEF Key
<1>. QED BY <1>2, <1>3 DEF MapHoldsRunning, Map, Key

-----------------------------------------------------------------------------
(* Types *)

\* forward() of a connection that may be new.
LEMMA ForwardBase ==
  ASSUME TunnelAssumption, Base, NEW n \in Conn, NEW i \in Inst, pc[i] # "idle",
         conn[n] = NoConn \/ conn[n].inst = i, Forward(n, i)
  PROVE  Base'
<1>. DEFINE at(v) == [conn EXCEPT ![n] = [inst |-> i, at |-> v]]
<1>1. \A v \in {"closed", "opening"} :
        /\ at(v) \in [Conn -> Accepted \cup {NoConn}]
        /\ \A c \in Conn : at(v)[c] # NoConn =>
              \/ conn[c] # NoConn /\ at(v)[c].inst = conn[c].inst
              \/ at(v)[c].inst \in Inst /\ pc[at(v)[c].inst] # "idle"
  BY DEF Base, TypeOK, Accepted, Begun
<1>2. port' = port /\ what' = what /\ gone' = gone /\ gone' \subseteq Owner /\ edited' = edited
  BY DEF Forward, Base, TypeOK
<1>3. cst \in [Client -> Links] /\ {Key(i)} \in SUBSET Map
  BY DEF Base, TypeOK, Links, Begun, Key, Described
<1>4. CASE Stop({Key(i)}, cst, at("closed"))
  <2>. HIDE DEF at
  <2>. QED BY <1>1, <1>2, <1>3, <1>4, StopBase
<1>5. CASE conn' = at(IF pc[i] = "stopped" THEN "closed" ELSE "opening")
           /\ UNCHANGED <<pc, cst, active>>
  <2>1. PICK v \in {"closed", "opening"} : conn' = at(v)
    BY <1>5
  <2>2. conn' \in [Conn -> Accepted \cup {NoConn}]
    BY <1>1, <2>1
  <2>3. TypeOK'
    BY <1>2, <1>5, <2>2 DEF Base, TypeOK, Accepted, NoConn, Unset, Map, Client
  <2>4. \A c \in Conn : conn'[c] # NoConn =>
              \/ conn[c] # NoConn /\ conn'[c].inst = conn[c].inst
              \/ conn'[c].inst \in Inst /\ pc[conn'[c].inst] # "idle"
    BY <1>1, <2>1
  <2>5. Begun'
    BY <1>2, <1>5, <2>4, BegunKept
  <2>. QED BY <2>3, <2>5 DEF Base
<1>. QED BY <1>4, <1>5 DEF Forward

\* The steps of start() that stop nothing.
LEMMA StartBase ==
  ASSUME TunnelAssumption, Base, NEW i \in Inst,
         \/ \E o \in Owner, sv \in Saved : Start(i, o, sv)
         \/ Connected(i) \/ ConnectFails(i) \/ Listening(i) \/ ListenFails(i)
  PROVE  Base'
<1>1. CASE \E o \in Owner, sv \in Saved : Start(i, o, sv)
  <2>1. PICK o \in Owner, sv \in Saved : Start(i, o, sv)
    BY <1>1
  <2>2. PICK c \in Client, at \in {"listening", "connecting"} :
          /\ pc' = [pc EXCEPT ![i] = at]
          /\ what' = [what EXCEPT ![i] = [key |-> <<o, sv>>, port |-> port[sv], client |-> c]]
    BY <2>1 DEF Start, Moves, borrowClient, Client
  <2>3. UNCHANGED <<port, cst, active, conn, gone, edited>>
    BY <2>1 DEF Start
  <2>4. [key |-> <<o, sv>>, port |-> port[sv], client |-> c] \in Described
    BY DEF Described, Map, Base, TypeOK
  <2>5. TypeOK'
    BY <2>2, <2>3, <2>4 DEF Base, TypeOK, Described, NoConn, Unset, Map, Client
  <2>6. Begun'
    <3>1. \A j \in Inst : pc'[j] # "idle" => what'[j] \in Described
      BY <2>2, <2>4 DEF Base, TypeOK, Begun
    <3>2. \A j \in Inst : pc[j] # "idle" => pc'[j] # "idle"
      BY <2>2 DEF Base, TypeOK
    <3>3. /\ \A k \in Map : active[k] # None => active[k] \in Inst
          /\ \A n \in Conn : conn[n] # NoConn => conn[n].inst \in Inst
      BY DEF Base, TypeOK
    <3>. QED BY <2>3, <3>1, <3>2, <3>3 DEF Base, Begun, Described, Map, Client, NoConn
  <2>. QED BY <2>5, <2>6 DEF Base
<1>2. CASE Connected(i) \/ ConnectFails(i) \/ Listening(i) \/ ListenFails(i)
  <2>1. PICK at \in {"listening", "up", "failed"} : pc' = [pc EXCEPT ![i] = at]
    BY <1>2 DEF Connected, ConnectFails, Listening, ListenFails, Moves
  <2>2. pc[i] # "idle" /\ UNCHANGED <<port, what, conn, gone, edited>>
    BY <1>2 DEF Connected, ConnectFails, Listening, ListenFails
  <2>3. cst' \in [Client -> Links]
    BY <1>2 DEF Connected, ConnectFails, Listening, ListenFails, Base, TypeOK, Links
  <2>4. /\ active' \in [Map -> Inst \cup {None}]
        /\ \A k \in Map : active'[k] \in {active[k], i}
    BY <1>2 DEF Connected, ConnectFails, Listening, ListenFails, Base, TypeOK
  <2>5. TypeOK'
    BY <2>1, <2>2, <2>3, <2>4 DEF Base, TypeOK, Links, NoConn, Unset, Map, Client
  <2>6. Begun'
    <3>1. \A j \in Inst : pc'[j] # "idle" <=> pc[j] # "idle"
      BY <2>1, <2>2 DEF Base, TypeOK
    <3>2. /\ \A k \in Map : active[k] # None => active[k] \in Inst
          /\ \A n \in Conn : conn[n] # NoConn => conn[n].inst \in Inst
      BY DEF Base, TypeOK
    <3>. QED BY <2>2, <2>4, <3>1, <3>2 DEF Base, Begun, Described, Map, Client, NoConn
  <2>. QED BY <2>5, <2>6 DEF Base
<1>. QED BY <1>1, <1>2

\* The steps that call stop() for what the map holds.
StopStep ==
  \/ \E k \in Map : UserStops(k) \/ ListenerError(k)
  \/ \E o \in Owner : OwnerDestroyed(o)
  \/ \E c \in Client : CloseEvent(c)

LEMMA StopStepDoes ==
  ASSUME TunnelAssumption, Base, StopStep
  PROVE  \E K \in SUBSET Map, cl \in [Client -> Links], cn \in [Conn -> Accepted \cup {NoConn}] :
            /\ Stop(K, cl, cn) /\ port' = port /\ what' = what /\ gone' \subseteq Owner
            /\ edited' = edited
            /\ \A n \in Conn : cn[n] # NoConn => conn[n] # NoConn /\ cn[n].inst = conn[n].inst
            /\ \A i \in Inst : cl[i] \in {cst[i], "closed"}
<1>1. cst \in [Client -> Links] /\ conn \in [Conn -> Accepted \cup {NoConn}] /\ gone \subseteq Owner
  BY DEF Base, TypeOK, Links, Accepted
<1>2. ASSUME NEW k \in Map, UserStops(k) \/ ListenerError(k)
      PROVE  Stop({k}, cst, conn) /\ port' = port /\ what' = what /\ gone' = gone /\ edited' = edited
  BY <1>2 DEF UserStops, ListenerError
<1>3. ASSUME NEW o \in Owner, OwnerDestroyed(o)
      PROVE  \E cl \in [Client -> Links] :
                /\ Stop({o} \X Saved, cl, conn) /\ port' = port /\ what' = what
                /\ gone' \subseteq Owner /\ edited' = edited /\ \A i \in Inst : cl[i] = cst[i]
  <2>. DEFINE cl == [c \in Client |->
                        IF c \in Tab /\ OwnerOf[c] = o /\ cst[c] \in {"live", "broken"}
                        THEN "ended" ELSE cst[c]]
  <2>1. cl \in [Client -> Links] /\ \A i \in Inst : cl[i] = cst[i]
    BY <1>1 DEF Links, Client, TunnelAssumption
  <2>2. /\ Stop({o} \X Saved, cl, conn) /\ port' = port /\ what' = what /\ gone' \subseteq Owner
        /\ edited' = edited
    BY <1>1, <1>3 DEF OwnerDestroyed
  <2>. QED BY <2>1, <2>2
<1>4. ASSUME NEW c \in Client, CloseEvent(c)
      PROVE  \E K \in SUBSET Map, cl \in [Client -> Links],
                cn \in [Conn -> Accepted \cup {NoConn}] :
            /\ Stop(K, cl, cn) /\ port' = port /\ what' = what /\ gone' = gone /\ edited' = edited
            /\ \A n \in Conn : cn[n] # NoConn => conn[n] # NoConn /\ cn[n].inst = conn[n].inst
            /\ \A i \in Inst : cl[i] \in {cst[i], "closed"}
  <2>. DEFINE K  == {Key(i) : i \in Hooked(c)}
              cl == [cst EXCEPT ![c] = "closed"]
              cn == [n \in Conn |->
                       IF conn[n].at \in {"opening", "wired"} /\ ClientOf(conn[n].inst) = c
                       THEN [conn[n] EXCEPT !.at = "closed"] ELSE conn[n]]
  <2>1. K \in SUBSET Map
    BY DEF Hooked, Started, Base, Begun, Key, Described
  <2>2. cl \in [Client -> Links] /\ \A i \in Inst : cl[i] \in {cst[i], "closed"}
    BY <1>1 DEF Links, Client
  <2>3. \A n \in Conn : conn[n].at \in {"opening", "wired"} =>
          /\ conn[n] # NoConn /\ conn[n] \in Accepted
          /\ [conn[n] EXCEPT !.at = "closed"] \in Accepted
          /\ [conn[n] EXCEPT !.at = "closed"].inst = conn[n].inst
    BY <1>1 DEF NoConn, Accepted
  <2>4. /\ cn \in [Conn -> Accepted \cup {NoConn}]
        /\ \A n \in Conn : cn[n] # NoConn => conn[n] # NoConn /\ cn[n].inst = conn[n].inst
    BY <1>1, <2>3
  <2>5. Stop(K, cl, cn) /\ port' = port /\ what' = what /\ gone' = gone /\ edited' = edited
    BY <1>4 DEF CloseEvent
  <2>. HIDE DEF K, cl, cn
  <2>. QED BY <2>1, <2>2, <2>4, <2>5
<1>5. CASE \E k \in Map : UserStops(k) \/ ListenerError(k)
  <2>1. PICK k \in Map : UserStops(k) \/ ListenerError(k)
    BY <1>5
  <2>. QED BY <1>1, <1>2, <2>1
<1>6. CASE \E o \in Owner : OwnerDestroyed(o)
  <2>1. PICK o \in Owner : OwnerDestroyed(o)
    BY <1>6
  <2>2. {o} \X Saved \in SUBSET Map
    BY DEF Map
  <2>3. PICK cl \in [Client -> Links] :
           /\ Stop({o} \X Saved, cl, conn) /\ port' = port /\ what' = what
           /\ gone' \subseteq Owner /\ edited' = edited /\ \A i \in Inst : cl[i] = cst[i]
    BY <1>3, <2>1
  <2>4. \A i \in Inst : cl[i] \in {cst[i], "closed"}
    BY <2>3
  <2>5. PICK K \in SUBSET Map : K = {o} \X Saved
    BY <2>2
  <2>6. Stop(K, cl, conn)
    BY <2>3, <2>5
  <2>. QED BY <1>1, <2>3, <2>4, <2>6
<1>7. CASE \E c \in Client : CloseEvent(c)
  BY <1>1, <1>4, <1>7
<1>. QED BY <1>5, <1>6, <1>7 DEF StopStep

\* The steps of clients and connections that neither start nor stop anything.
QuietStep ==
  \/ \E c \in Tab : TabConnects(c) \/ TabDisconnects(c)
  \/ \E c \in Client : Breaks(c)
  \/ \E n \in Conn : HandshakeFails(n) \/ ChannelOpened(n) \/ ConnCloses(n)
  \/ UNCHANGED vars

LEMMA QuietBase ==
  ASSUME TunnelAssumption, Base, QuietStep
  PROVE  Base'
<1>1. UNCHANGED <<port, pc, what, active, gone, edited>>
  BY DEF QuietStep, TabConnects, TabDisconnects, Breaks, HandshakeFails, ChannelOpened,
         ConnCloses, SetClient, SetConn, vars
<1>2. cst' \in [Client -> Links]
  BY DEF QuietStep, TabConnects, TabDisconnects, Breaks, HandshakeFails, ChannelOpened,
         ConnCloses, SetClient, SetConn, vars, Base, TypeOK, Links
<1>3. \/ conn' = conn
      \/ \E n \in Conn, v \in {"wired", "closed"} :
            conn[n].at \in {"handshake", "opening", "wired"}
              /\ conn' = [conn EXCEPT ![n].at = v]
  BY DEF QuietStep, TabConnects, TabDisconnects, Breaks, HandshakeFails, ChannelOpened,
         ConnCloses, SetClient, SetConn, vars
<1>4. /\ conn' \in [Conn -> Accepted \cup {NoConn}]
      /\ \A n \in Conn : conn'[n] # NoConn => conn[n] # NoConn /\ conn'[n].inst = conn[n].inst
  <2>1. CASE conn' = conn
    BY <2>1 DEF Base, TypeOK, Accepted
  <2>2. CASE conn' # conn
    <3>1. PICK n \in Conn, v \in {"wired", "closed"} :
            conn[n].at \in {"handshake", "opening", "wired"}
              /\ conn' = [conn EXCEPT ![n].at = v]
      BY <1>3, <2>2
    <3>2. conn[n] \in Accepted /\ conn[n] # NoConn
      BY <3>1 DEF Base, TypeOK, Accepted, NoConn
    <3>3. [conn[n] EXCEPT !.at = v] \in Accepted /\ [conn[n] EXCEPT !.at = v].inst = conn[n].inst
      BY <3>2 DEF Accepted
    <3>. QED BY <3>1, <3>2, <3>3 DEF Base, TypeOK, Accepted
  <2>. QED BY <2>1, <2>2
<1>5. Begun'
  BY <1>1, <1>4, BegunKept
<1>6. TypeOK'
  BY <1>1, <1>2, <1>4 DEF Base, TypeOK, Links, Accepted, NoConn, Unset, Map, Client
<1>. QED BY <1>5, <1>6 DEF Base

\* Next, sorted by what a step may do.
ForwardStep ==
  \E n \in Conn, i \in Inst :
    /\ conn[n] = NoConn \/ conn[n].inst = i
    /\ pc[i] # "idle" /\ Forward(n, i)
Greets ==
  \E n \in Conn, i \in Inst :
    /\ conn[n] = NoConn /\ pc[i] = "up"
    /\ conn' = [conn EXCEPT ![n] = [inst |-> i, at |-> "handshake"]]
    /\ UNCHANGED <<port, pc, what, cst, active, gone, edited>>
StartStep ==
  \E i \in Inst :
    \/ \E o \in Owner, sv \in Saved : Start(i, o, sv)
    \/ Connected(i) \/ ConnectFails(i) \/ Listening(i) \/ ListenFails(i)
EditStep == \E sv \in Saved, p \in Port : Edit(sv, p)

LEMMA StepKinds ==
  ASSUME TunnelAssumption, Base, [Next]_vars
  PROVE  StartStep \/ StopStep \/ ForwardStep \/ Greets \/ EditStep \/ QuietStep
<1>1. ASSUME NEW n \in Conn, NEW i \in Inst, Accept(n, i)
      PROVE  ForwardStep \/ Greets
  BY <1>1 DEF Accept, ForwardStep, Greets
<1>2. ASSUME NEW n \in Conn, HandshakeDone(n)
      PROVE  ForwardStep
  <2>1. conn[n] # NoConn /\ conn[n].inst \in Inst
    BY <1>2 DEF HandshakeDone, Base, TypeOK, NoConn
  <2>2. pc[conn[n].inst] # "idle"
    BY <2>1 DEF Base, Begun
  <2>. QED BY <1>2, <2>1, <2>2 DEF HandshakeDone, ForwardStep
<1>. QED BY <1>1, <1>2 DEF Next, Done, StartStep, StopStep, EditStep, QuietStep

LEMMA BaseStep == TunnelAssumption /\ Base /\ [Next]_vars => Base'
<1>. SUFFICES ASSUME TunnelAssumption, Base, [Next]_vars PROVE Base'
  OBVIOUS
<1>1. CASE StartStep
  BY <1>1, StartBase DEF StartStep
<1>2. CASE StopStep
  <2>1. PICK K \in SUBSET Map, cl \in [Client -> Links], cn \in [Conn -> Accepted \cup {NoConn}] :
            /\ Stop(K, cl, cn) /\ port' = port /\ what' = what /\ gone' \subseteq Owner
            /\ edited' = edited
            /\ \A n \in Conn : cn[n] # NoConn => conn[n] # NoConn /\ cn[n].inst = conn[n].inst
    BY <1>2, StopStepDoes
  <2>. QED BY <2>1, StopBase
<1>3. CASE ForwardStep
  BY <1>3, ForwardBase DEF ForwardStep
<1>4. CASE Greets
  <2>1. PICK n \in Conn, i \in Inst :
          /\ conn[n] = NoConn /\ pc[i] = "up"
          /\ conn' = [conn EXCEPT ![n] = [inst |-> i, at |-> "handshake"]]
          /\ UNCHANGED <<port, pc, what, cst, active, gone, edited>>
    BY <1>4 DEF Greets
  <2>2. TypeOK'
    BY <2>1 DEF Base, TypeOK, NoConn, Unset, Map, Client
  <2>3. \A c \in Conn : conn'[c] # NoConn =>
              \/ conn[c] # NoConn /\ conn'[c].inst = conn[c].inst
              \/ conn'[c].inst \in Inst /\ pc[conn'[c].inst] # "idle"
    BY <2>1 DEF Base, TypeOK
  <2>4. Begun'
    BY <2>1, <2>3, BegunKept
  <2>. QED BY <2>2, <2>4 DEF Base
<1>5. CASE EditStep
  <2>1. /\ port' \in [Saved -> Port] /\ edited' \subseteq Saved
        /\ UNCHANGED <<pc, what, cst, active, conn, gone>>
    BY <1>5 DEF EditStep, Edit, Base, TypeOK
  <2>. QED BY <2>1 DEF Base, TypeOK, Begun, NoConn, Unset, Map, Client, Described
<1>6. CASE QuietStep
  BY <1>6, QuietBase
<1>. QED BY <1>1, <1>2, <1>3, <1>4, <1>5, <1>6, StepKinds

\* The type invariant, for every instance of the constants.
THEOREM TunnelTypes == Spec => []TypeOK
<1>1. Init => Base
  BY DEF Init, Base, TypeOK, Begun, NoConn, Unset, Map, Client
<1>2. Base => TypeOK
  BY DEF Base
<1>. QED BY <1>1, <1>2, BaseStep, TunnelAssumption, PTL DEF Spec

-----------------------------------------------------------------------------
(* The map holds what runs *)

MapInv == Base /\ MapHoldsRunning /\ PortFixed

\* A port is fixed once read: only Start sets what, and Edit, which sets port, is
\* remembered.
LEMMA PortStep ==
  ASSUME TunnelAssumption, Base, PortFixed, [Next]_vars
  PROVE  PortFixed'
<1>1. CASE StartStep
  <2>1. PICK i \in Inst :
          \/ \E o \in Owner, sv \in Saved : Start(i, o, sv)
          \/ Connected(i) \/ ConnectFails(i) \/ Listening(i) \/ ListenFails(i)
    BY <1>1 DEF StartStep
  <2>2. CASE \E o \in Owner, sv \in Saved : Start(i, o, sv)
    <3>1. PICK o \in Owner, sv \in Saved : Start(i, o, sv)
      BY <2>2
    <3>2. PICK c, at :
            /\ pc' = [pc EXCEPT ![i] = at]
            /\ what' = [what EXCEPT ![i] = [key |-> <<o, sv>>, port |-> port[sv], client |-> c]]
      BY <3>1 DEF Start, Moves
    <3>3. port' = port /\ edited' = edited
      BY <3>1 DEF Start
    <3>. QED BY <3>2, <3>3 DEF PortFixed, Key, Base, TypeOK
  <2>3. CASE Connected(i) \/ ConnectFails(i) \/ Listening(i) \/ ListenFails(i)
    <3>1. /\ pc[i] # "idle" /\ UNCHANGED <<port, what, edited>>
          /\ \A j \in Inst : j # i => pc'[j] = pc[j]
      BY <2>3 DEF Connected, ConnectFails, Listening, ListenFails, Moves, Base, TypeOK
    <3>. QED BY <3>1 DEF PortFixed, Key
  <2>. QED BY <2>1, <2>2, <2>3
<1>2. CASE StopStep
  <2>1. PICK K \in SUBSET Map, cl \in [Client -> Links], cn \in [Conn -> Accepted \cup {NoConn}] :
            Stop(K, cl, cn) /\ port' = port /\ what' = what /\ edited' = edited
    BY <1>2, StopStepDoes
  <2>2. \A i \in Inst : pc'[i] = "idle" <=> pc[i] = "idle"
    BY <2>1, StopPc
  <2>. QED BY <2>1, <2>2 DEF PortFixed, Key
<1>3. CASE ForwardStep
  <2>1. PICK n \in Conn, i \in Inst : pc[i] # "idle" /\ Forward(n, i)
    BY <1>3 DEF ForwardStep
  <2>2. \/ \E cn : Stop({Key(i)}, cst, cn)
        \/ pc' = pc
    BY <2>1 DEF Forward
  <2>3. {Key(i)} \in SUBSET Map
    BY <2>1 DEF Base, Begun, Key, Described
  <2>4. \A j \in Inst : pc'[j] = "idle" <=> pc[j] = "idle"
    BY <2>2, <2>3, StopPc
  <2>5. port' = port /\ what' = what /\ edited' = edited
    BY <2>1 DEF Forward
  <2>. QED BY <2>4, <2>5 DEF PortFixed, Key
<1>4. CASE Greets
  BY <1>4 DEF Greets, PortFixed, Key
<1>5. CASE EditStep
  <2>1. PICK sv \in Saved, p \in Port : Edit(sv, p)
    BY <1>5 DEF EditStep
  <2>2. \A i \in Inst : pc[i] # "idle" => Key(i)[2] \in Saved
    BY DEF Base, Begun, Described, Map, Key
  <2>. QED BY <2>1, <2>2 DEF Edit, PortFixed, Key, Base, TypeOK
<1>6. CASE QuietStep
  BY <1>6 DEF QuietStep, TabConnects, TabDisconnects, Breaks, HandshakeFails,
              ChannelOpened, ConnCloses, SetClient, SetConn, vars, PortFixed, Key
<1>. QED BY <1>1, <1>2, <1>3, <1>4, <1>5, <1>6, StepKinds

\* The tunnel that enters the map replaces none: another one of its key would
\* hold the port it has just bound.
LEMMA ListeningMap ==
  ASSUME TunnelAssumption, MapInv, NEW i \in Inst, Listening(i)
  PROVE  MapHoldsRunning'
<1>1. /\ pc' = [pc EXCEPT ![i] = "up"] /\ active' = [active EXCEPT ![Key(i)] = i]
      /\ pc[i] = "listening" /\ what' = what /\ edited' = edited
      /\ ~Bound(what[i].port)
  BY DEF Listening, Moves
<1>2. \A j \in Inst : pc[j] = "up" /\ Key(j)[2] \notin edited => Key(j) # Key(i)
  <2>1. SUFFICES ASSUME NEW j \in Inst, pc[j] = "up", Key(j)[2] \notin edited, Key(j) = Key(i)
                 PROVE  FALSE
    OBVIOUS
  <2>2. what[j].port = what[i].port
    BY <1>1, <2>1 DEF MapInv, PortFixed
  <2>. QED BY <1>1, <2>1, <2>2 DEF Bound
<1>3. Key(i) \in Map
  BY <1>1 DEF MapInv, Base, Begun, Key, Described
<1>4. ASSUME NEW k \in Map, active'[k] # None
      PROVE  pc'[active'[k]] = "up" /\ what'[active'[k]].key = k
  <2>1. CASE k = Key(i)
    BY <1>1, <2>1 DEF MapInv, Base, TypeOK, Key
  <2>2. CASE k # Key(i)
    <3>1. active'[k] = active[k] /\ active[k] \in Inst
      BY <1>1, <1>4, <2>2 DEF MapInv, Base, TypeOK
    <3>2. pc[active[k]] = "up" /\ what[active[k]].key = k
      BY <1>4, <3>1 DEF MapInv, MapHoldsRunning, Key
    <3>. QED BY <1>1, <3>1, <3>2 DEF MapInv, Base, TypeOK
  <2>. QED BY <2>1, <2>2
<1>5. ASSUME NEW j \in Inst, pc'[j] = "up", what'[j].key[2] \notin edited'
      PROVE  active'[what'[j].key] = j
  <2>1. CASE j = i
    BY <1>1, <1>3, <2>1 DEF MapInv, Base, TypeOK, Key
  <2>2. CASE j # i
    <3>1. pc[j] = "up" /\ Key(j)[2] \notin edited
      BY <1>1, <1>5, <2>2 DEF MapInv, Base, TypeOK, Key
    <3>2. active[Key(j)] = j /\ Key(j) \in Map /\ Key(j) # Key(i)
      BY <1>2, <3>1 DEF MapInv, MapHoldsRunning, Base, Begun, Key, Described
    <3>. QED BY <1>1, <3>2 DEF MapInv, Base, TypeOK, Key
  <2>. QED BY <2>1, <2>2
<1>. QED BY <1>4, <1>5 DEF MapHoldsRunning, Key, Map

\* The other steps of start() concern an instance that is not up, before or after.
LEMMA OthersMap ==
  ASSUME TunnelAssumption, MapInv, UNCHANGED <<active, edited>>, NEW i \in Inst, pc[i] # "up",
         NEW at, at # "up", pc' = [pc EXCEPT ![i] = at],
         \A j \in Inst : j # i => what'[j] = what[j]
  PROVE  MapHoldsRunning'
<1>1. ASSUME NEW k \in Map, active'[k] # None
      PROVE  pc'[active'[k]] = "up" /\ what'[active'[k]].key = k
  <2>1. active[k] \in Inst /\ pc[active[k]] = "up" /\ what[active[k]].key = k
    BY <1>1 DEF MapInv, Base, TypeOK, MapHoldsRunning, Key
  <2>. QED BY <2>1 DEF MapInv, Base, TypeOK
<1>2. ASSUME NEW j \in Inst, pc'[j] = "up", what'[j].key[2] \notin edited'
      PROVE  active'[what'[j].key] = j
  <2>1. j # i /\ pc[j] = "up"
    BY <1>2 DEF MapInv, Base, TypeOK
  <2>. QED BY <1>2, <2>1 DEF MapInv, MapHoldsRunning, Key
<1>. QED BY <1>1, <1>2 DEF MapHoldsRunning, Key, Map

LEMMA MapStep == TunnelAssumption /\ MapInv /\ [Next]_vars => MapInv'
<1>. SUFFICES ASSUME TunnelAssumption, MapInv, [Next]_vars PROVE MapInv'
  OBVIOUS
<1>. USE DEF MapInv
<1>1. Base' /\ PortFixed'
  BY BaseStep, PortStep
<1>2. CASE StartStep
  <2>1. PICK i \in Inst :
          \/ \E o \in Owner, sv \in Saved : Start(i, o, sv)
          \/ Connected(i) \/ ConnectFails(i) \/ Listening(i) \/ ListenFails(i)
    BY <1>2 DEF StartStep
  <2>2. CASE Listening(i)
    BY <1>1, <2>2, ListeningMap
  <2>3. CASE \/ \E o \in Owner, sv \in Saved : Start(i, o, sv)
             \/ Connected(i) \/ ConnectFails(i) \/ ListenFails(i)
    <3>1. PICK at \in {"connecting", "listening", "failed"} : pc' = [pc EXCEPT ![i] = at]
      BY <2>3 DEF Start, Connected, ConnectFails, ListenFails, Moves
    <3>2. /\ UNCHANGED <<active, edited>> /\ pc[i] # "up"
          /\ \A j \in Inst : j # i => what'[j] = what[j]
      BY <2>3 DEF Start, Connected, ConnectFails, ListenFails, Base, TypeOK
    <3>. QED BY <1>1, <3>1, <3>2, OthersMap
  <2>. QED BY <2>1, <2>2, <2>3
<1>3. CASE StopStep
  <2>1. PICK K \in SUBSET Map, cl \in [Client -> Links], cn \in [Conn -> Accepted \cup {NoConn}] :
            Stop(K, cl, cn) /\ what' = what /\ edited' = edited
    BY <1>3, StopStepDoes
  <2>. QED BY <1>1, <2>1, StopMap
<1>4. CASE ForwardStep
  <2>1. PICK n \in Conn, i \in Inst : pc[i] # "idle" /\ Forward(n, i)
    BY <1>4 DEF ForwardStep
  <2>2. \/ \E cn : Stop({Key(i)}, cst, cn)
        \/ UNCHANGED <<pc, active>>
    BY <2>1 DEF Forward
  <2>3. {Key(i)} \in SUBSET Map /\ what' = what /\ edited' = edited
    BY <2>1 DEF Base, Begun, Key, Described, Forward
  <2>4. CASE \E cn : Stop({Key(i)}, cst, cn)
    BY <1>1, <2>3, <2>4, StopMap
  <2>5. CASE UNCHANGED <<pc, active>>
    BY <1>1, <2>3, <2>5 DEF MapHoldsRunning, Key, Map
  <2>. QED BY <2>2, <2>4, <2>5
<1>5. CASE Greets
  BY <1>1, <1>5 DEF Greets, MapHoldsRunning, Key, Map
<1>6. CASE EditStep
  <2>1. UNCHANGED <<pc, what, active>> /\ edited \subseteq edited'
    BY <1>6 DEF EditStep, Edit
  <2>. QED BY <1>1, <2>1 DEF MapHoldsRunning, Key, Map
<1>7. CASE QuietStep
  BY <1>1, <1>7 DEF QuietStep, TabConnects, TabDisconnects, Breaks, HandshakeFails,
     ChannelOpened, ConnCloses, SetClient, SetConn, vars, MapHoldsRunning, Key, Map
<1>. QED BY <1>2, <1>3, <1>4, <1>5, <1>6, <1>7, StepKinds

\* Every bound server of a tunnel that was not given another port is in the map,
\* under its own key, where stop() finds it: concurrent start() calls for one
\* tunnel leave no server behind (tunnel-manager.ts 185-272).
THEOREM RunningIsMapped == Spec => []MapHoldsRunning
<1>1. Init => MapInv
  BY DEF Init, MapInv, Base, TypeOK, Begun, MapHoldsRunning, PortFixed,
         NoConn, Unset, Map, Client
<1>2. MapInv => MapHoldsRunning
  BY DEF MapInv
<1>3. MapInv /\ [Next]_vars => MapInv'
  BY MapStep, TunnelAssumption
<1>. QED BY <1>1, <1>2, <1>3, PTL DEF Spec

-----------------------------------------------------------------------------
(* Dedicated clients end with their tunnels *)

\* stop() closes the dedicated clients of what it stops, and opens none.
LEMMA StopOwn ==
  ASSUME TunnelAssumption, Base, OwnInv, NEW K \in SUBSET Map, NEW cl \in [Client -> Links], NEW cn,
         Stop(K, cl, cn), what' = what, \A i \in Inst : cl[i] \in {cst[i], "closed"}
  PROVE  OwnInv'
<1>1. ASSUME NEW i \in Inst, pc'[i] = "connecting" PROVE what'[i].client = i
  <2>1. pc[i] = "connecting"
    BY <1>1, StopPc
  <2>. QED BY <2>1 DEF OwnInv, ClientOf
<1>2. ASSUME NEW i \in Inst, cst'[i] \in {"live", "broken"}
      PROVE  what'[i].client = i /\ pc'[i] \in {"listening", "up"}
  <2>1. cst'[i] = IF i \in Stopped(K) /\ cl[i] \in {"live", "broken"} THEN "ended" ELSE cl[i]
    BY DEF Stop, Client
  <2>2. i \notin Stopped(K) /\ cst[i] \in {"live", "broken"}
    BY <1>2, <2>1
  <2>. QED BY <2>2, StopPc DEF OwnInv, ClientOf
<1>. QED BY <1>1, <1>2 DEF OwnInv, ClientOf

LEMMA OwnStep == TunnelAssumption /\ Base /\ OwnInv /\ [Next]_vars => OwnInv'
<1>. SUFFICES ASSUME TunnelAssumption, Base, OwnInv, [Next]_vars PROVE OwnInv'
  OBVIOUS
<1>1. CASE StartStep
  <2>1. PICK i \in Inst :
          \/ \E o \in Owner, sv \in Saved : Start(i, o, sv)
          \/ Connected(i) \/ ConnectFails(i) \/ Listening(i) \/ ListenFails(i)
    BY <1>1 DEF StartStep
  <2>2. CASE \E o \in Owner, sv \in Saved : Start(i, o, sv)
    <3>1. PICK o \in Owner, sv \in Saved : Start(i, o, sv)
      BY <2>2
    <3>2. pc[i] = "idle" /\ cst' = cst
      BY <3>1 DEF Start
    <3>3. PICK c \in Client, at \in {"listening", "connecting"} :
            /\ pc' = [pc EXCEPT ![i] = at] /\ (at = "connecting" => c = i)
            /\ what' = [what EXCEPT ![i] = [key |-> <<o, sv>>, port |-> port[sv], client |-> c]]
      BY <3>1 DEF Start, Moves, borrowClient, Client
    <3>4. /\ \A j \in Inst \ {i} : pc'[j] = pc[j] /\ what'[j] = what[j]
          /\ pc'[i] = at /\ what'[i].client = c
      BY <3>3 DEF Base, TypeOK
    <3>5. cst[i] \notin {"live", "broken"}
      BY <3>2 DEF OwnInv
    <3>. QED BY <3>2, <3>3, <3>4, <3>5 DEF OwnInv, ClientOf
  <2>3. CASE Connected(i)
    BY <2>3 DEF Connected, Moves, OwnInv, ClientOf, Base, TypeOK, Client
  <2>4. CASE ConnectFails(i)
    BY <2>4 DEF ConnectFails, Moves, OwnInv, ClientOf, Base, TypeOK, Client
  <2>5. CASE Listening(i)
    BY <2>5 DEF Listening, Moves, OwnInv, ClientOf, Base, TypeOK, Client
  <2>6. CASE ListenFails(i)
    BY <2>6 DEF ListenFails, Moves, OwnInv, ClientOf, Base, TypeOK, Client
  <2>. QED BY <2>1, <2>2, <2>3, <2>4, <2>5, <2>6
<1>2. CASE StopStep
  <2>1. PICK K \in SUBSET Map, cl \in [Client -> Links], cn \in [Conn -> Accepted \cup {NoConn}] :
            /\ Stop(K, cl, cn) /\ what' = what
            /\ \A i \in Inst : cl[i] \in {cst[i], "closed"}
    BY <1>2, StopStepDoes
  <2>. QED BY <2>1, StopOwn
<1>3. CASE ForwardStep
  <2>1. PICK n \in Conn, i \in Inst : pc[i] # "idle" /\ Forward(n, i)
    BY <1>3 DEF ForwardStep
  <2>2. \/ \E cn : Stop({Key(i)}, cst, cn)
        \/ UNCHANGED <<pc, cst>>
    BY <2>1 DEF Forward
  <2>3. {Key(i)} \in SUBSET Map /\ what' = what /\ cst \in [Client -> Links]
    BY <2>1 DEF Base, Begun, Key, Described, Forward, TypeOK, Links
  <2>4. CASE \E cn : Stop({Key(i)}, cst, cn)
    BY <2>3, <2>4, StopOwn
  <2>5. CASE UNCHANGED <<pc, cst>>
    BY <2>3, <2>5 DEF OwnInv, ClientOf
  <2>. QED BY <2>2, <2>4, <2>5
<1>4. CASE Greets
  BY <1>4 DEF Greets, OwnInv, ClientOf
<1>5. CASE EditStep
  BY <1>5 DEF EditStep, Edit, OwnInv, ClientOf
<1>6. CASE QuietStep
  <2>1. /\ UNCHANGED <<pc, what>>
        /\ \A i \in Inst : cst'[i] \in {"live", "broken"} => cst[i] \in {"live", "broken"}
    BY <1>6 DEF QuietStep, TabConnects, TabDisconnects, Breaks, HandshakeFails, ChannelOpened,
       ConnCloses, SetClient, SetConn, vars, Base, TypeOK, Client, TunnelAssumption
  <2>. QED BY <2>1 DEF OwnInv, ClientOf
<1>. QED BY <1>1, <1>2, <1>3, <1>4, <1>5, <1>6, StepKinds

\* A dedicated SSH connection is disconnected on every way out of start() and by
\* stop(), however these interleave with closing clients and windows.
THEOREM OwnClientEnds == Spec => []OwnClientEnded
<1>1. Init => Base /\ OwnInv
  BY DEF Init, Base, TypeOK, Begun, OwnInv, NoConn, Unset, Map, Client
<1>2. Base /\ OwnInv => OwnClientEnded
  BY DEF OwnInv, OwnClientEnded
<1>3. Base /\ OwnInv /\ [Next]_vars => Base' /\ OwnInv'
  BY BaseStep, OwnStep, TunnelAssumption
<1>. QED BY <1>1, <1>2, <1>3, PTL DEF Spec
=============================================================================
