------------------------- MODULE SshSessionsProofs -------------------------
(* Theorems about SshSessions, for every set of calls, windows, routes and  *)
(* keys.                                                                    *)
EXTENDS SshSessions, TLAPS

\* Facts about the constants.
LEMMA LegFacts ==
  /\ 1 \in Leg
  /\ Leg \subseteq Nat
  /\ \A l \in Leg, n \in Leg : l <= n /\ l # n => l + 1 \in Leg /\ l + 1 <= n
  /\ \A c \in Calls : Len(Route[c.host]) \in Leg /\ 1 <= Len(Route[c.host])
BY SessionAssumption DEF Leg, Call

-----------------------------------------------------------------------------
(* Type correctness *)

LEMMA InitType == Init => TypeOK
<1> SUFFICES ASSUME Init PROVE TypeOK
  OBVIOUS
<1>1. VariableTypes
  BY LegFacts DEF Init, VariableTypes, ClientState
<1>2. LegsInRoute /\ PromptsShown
  BY DEF Init, LegsInRoute, PromptsShown
<1> QED BY <1>1, <1>2 DEF TypeOK

LEMMA TeardownType ==
  ASSUME NEW T \in SUBSET Sid, NEW cl \in [Sid \X Leg -> ClientState], VariableTypes, Teardown(T, cl)
  PROVE  /\ closed' \in SUBSET Sid /\ sessions' \in SUBSET Sid
         /\ client' \in [Sid \X Leg -> ClientState]
BY DEF Teardown, VariableTypes, ClientState

LEMMA EmittedType ==
  ASSUME NEW counts \in [Sid \X Event -> Nat], NEW S, NEW e
  PROVE  Emitted(counts, S, e) \in [Sid \X Event -> Nat]
BY DEF Emitted

LEMMA ToldErrorType ==
  ASSUME NEW counts \in [Sid \X Event -> Nat], NEW S, NEW mm, NEW ab
  PROVE  ToldError(counts, S, mm, ab) \in [Sid \X Event -> Nat]
BY EmittedType DEF ToldError

LEMMA RejectedType ==
  ASSUME NEW F \in SUBSET Sid, NEW cl \in [Sid \X Leg -> ClientState], VariableTypes, Rejected(F, cl)
  PROVE  /\ closed' \in SUBSET Sid /\ sessions' \in SUBSET Sid
         /\ client' \in [Sid \X Leg -> ClientState]
         /\ sent' \in [Sid \X Event -> Nat]
         /\ pc' \in [Sid -> Awaiting \cup Settled \cup {"idle"}]
         /\ pc' = Failed(F)
<1>1. sent' \in [Sid \X Event -> Nat]
  BY ToldErrorType DEF Rejected, VariableTypes
<1>2. QED BY <1>1, TeardownType DEF Rejected, VariableTypes, Failed, Settled

LEMMA DeniedType ==
  ASSUME NEW X, VariableTypes PROVE Denied(X) \in [Sid \X Leg -> ClientState]
BY DEF Denied, VariableTypes, ClientState

LEMMA FailedType ==
  ASSUME NEW F, VariableTypes
  PROVE  Failed(F) \in [Sid -> Awaiting \cup Settled \cup {"idle"}]
BY DEF Failed, VariableTypes, Settled

\* A step that only makes calls in flight reject keeps every call in its route
\* and every prompt on a leg its call has reached.
LEMMA RejectKeepsLegs ==
  ASSUME NEW F \in SUBSET Sid, VariableTypes, LegsInRoute, PromptsShown,
         \A s \in F : pc[s] # "idle", pc' = Failed(F), UNCHANGED <<call, leg, key>>,
         pending' \subseteq pending
  PROVE  LegsInRoute' /\ PromptsShown'
BY DEF VariableTypes, LegsInRoute, PromptsShown, LastLeg, RouteOf, Failed

LEMMA RejectOneKeepsLegs ==
  ASSUME NEW s \in Sid, NEW cl, VariableTypes, LegsInRoute, PromptsShown, pc[s] # "idle",
         Rejected({s}, cl), UNCHANGED <<call, leg, key, pending>>
  PROVE  LegsInRoute' /\ PromptsShown'
<1>1. pc' = Failed({s}) /\ {s} \in SUBSET Sid
  BY DEF Rejected
<1> QED BY <1>1, RejectKeepsLegs

LEMMA NextType == TypeOK /\ [Next]_vars => TypeOK'
<1> SUFFICES ASSUME VariableTypes, LegsInRoute, PromptsShown, [Next]_vars
             PROVE VariableTypes' /\ LegsInRoute' /\ PromptsShown'
  BY DEF TypeOK
<1>1. ASSUME NEW s \in Sid, NEW c \in Calls, Connect(s, c)
      PROVE VariableTypes' /\ LegsInRoute' /\ PromptsShown'
  <2>1. VariableTypes'
    BY <1>1, LegFacts DEF Connect, VariableTypes, ClientState, Awaiting, Event
  <2>2. LegsInRoute'
    BY <1>1, LegFacts DEF Connect, VariableTypes, LegsInRoute, LastLeg, RouteOf
  <2>3. PromptsShown'
    BY <1>1 DEF Connect, VariableTypes, PromptsShown, Awaiting
  <2> QED BY <2>1, <2>2, <2>3
<1>2. ASSUME NEW s \in Sid, AuthReady(s)
      PROVE VariableTypes' /\ LegsInRoute' /\ PromptsShown'
  <2>1. CASE Rejected({s}, client)
    <3>1. VariableTypes'
      BY <1>2, <2>1, RejectedType DEF AuthReady, VariableTypes
    <3> QED BY <1>2, <2>1, <3>1, RejectOneKeepsLegs DEF AuthReady
  <2>2. CASE ~Rejected({s}, client)
    <3>1. VariableTypes'
      BY <1>2, <2>2 DEF AuthReady, VariableTypes, ClientState, Awaiting
    <3>2. LegsInRoute' /\ PromptsShown'
      BY <1>2, <2>2 DEF AuthReady, VariableTypes, LegsInRoute, PromptsShown, LastLeg, RouteOf
    <3> QED BY <3>1, <3>2
  <2> QED BY <2>1, <2>2
<1>3. ASSUME NEW s \in Sid, NEW k \in Key, KeyPresented(s, k)
      PROVE VariableTypes' /\ LegsInRoute' /\ PromptsShown'
  <2> DEFINE x == <<s, leg[s]>>
             verdict == classifyHostKey(known[EndpointOf(x)], k)
  <2>1. /\ pc[s] = "connect" /\ x \in Sid \X Leg /\ leg[s] \in Leg
        /\ key' = [key EXCEPT ![x] = k]
        /\ UNCHANGED <<call, leg, connected, aborted, accepted, known, gone, quitting>>
    BY <1>3 DEF KeyPresented, Now, VariableTypes
  <2>2. key' \in [Sid \X Leg -> Key \cup {NoKey}]
        /\ key'[x] \in Key /\ \A y \in Sid \X Leg : y # x => key'[y] = key[y]
    BY <2>1 DEF VariableTypes
  <2>3. CASE verdict = "match" /\ client' = [client EXCEPT ![x] = "authing"]
             /\ UNCHANGED <<pc, sessions, closed, mismatch, pending, sent>>
    <3>1. VariableTypes'
      BY <2>1, <2>2, <2>3 DEF VariableTypes, ClientState
    <3>2. LegsInRoute' /\ PromptsShown'
      BY <2>1, <2>2, <2>3 DEF VariableTypes, LegsInRoute, PromptsShown, LastLeg, RouteOf
    <3> QED BY <3>1, <3>2
  <2>4. CASE /\ mismatch' = mismatch \cup {s}
             /\ pc' = [pc EXCEPT ![s] = "failed"]
             /\ sent' = ToldError(Emitted(sent, {s}, "hostkey-mismatch"), {s}, mismatch', aborted)
             /\ Teardown({s}, Denied({x}))
             /\ UNCHANGED pending
    <3>1. closed' \in SUBSET Sid /\ sessions' \in SUBSET Sid
          /\ client' \in [Sid \X Leg -> ClientState]
      BY <2>4, TeardownType, DeniedType
    <3>2. sent' \in [Sid \X Event -> Nat]
      BY <2>4, EmittedType, ToldErrorType DEF VariableTypes
    <3>3. VariableTypes'
      BY <2>1, <2>2, <2>4, <3>1, <3>2 DEF VariableTypes, Settled
    <3>4. LegsInRoute' /\ PromptsShown'
      BY <2>1, <2>2, <2>4 DEF VariableTypes, LegsInRoute, PromptsShown, LastLeg, RouteOf
    <3> QED BY <3>3, <3>4
  <2>5. CASE Rejected({s}, Denied({x})) /\ UNCHANGED mismatch
             /\ (UNCHANGED pending \/ pending' = pending \cup {x})
    <3>a. Denied({x}) \in [Sid \X Leg -> ClientState]
      BY DeniedType
    <3>b. /\ pc' \in [Sid -> Awaiting \cup Settled \cup {"idle"}]
          /\ sessions' \in SUBSET Sid /\ closed' \in SUBSET Sid
          /\ client' \in [Sid \X Leg -> ClientState]
          /\ sent' \in [Sid \X Event -> Nat]
      BY <2>5, <3>a, RejectedType
    <3>c. pending' \in SUBSET (Sid \X Leg)
      BY <2>1, <2>5 DEF VariableTypes
    <3>1. VariableTypes'
      BY <2>1, <2>2, <2>5, <3>b, <3>c DEF VariableTypes
    <3>2. pc' = [pc EXCEPT ![s] = "failed"]
      BY <2>5 DEF Rejected, Failed, VariableTypes
    <3>3. LegsInRoute' /\ PromptsShown'
      BY <2>1, <2>2, <2>5, <3>2, LegFacts
      DEF VariableTypes, LegsInRoute, PromptsShown, LastLeg, RouteOf
    <3> QED BY <3>1, <3>3
  <2>6. CASE /\ pending' = pending \cup {x}
             /\ client' = [client EXCEPT ![x] = "verifying"]
             /\ UNCHANGED <<pc, sessions, closed, sent, mismatch>>
    <3>1. VariableTypes'
      BY <2>1, <2>2, <2>6 DEF VariableTypes, ClientState
    <3>2. LegsInRoute' /\ PromptsShown'
      BY <2>1, <2>2, <2>6, LegFacts DEF VariableTypes, LegsInRoute, PromptsShown, LastLeg, RouteOf
    <3> QED BY <3>1, <3>2
  <2> QED BY <1>3, <2>3, <2>4, <2>5, <2>6 DEF KeyPresented, Now
<1>4. ASSUME NEW x \in Sid \X Leg, x \in pending, PromptDenied(x)
      PROVE VariableTypes' /\ LegsInRoute' /\ PromptsShown'
  <2>1. SidsOf(Waiting({x})) \in SUBSET Sid /\ \A s \in SidsOf(Waiting({x})) : pc[s] # "idle"
    BY <1>4 DEF SidsOf, Waiting, PromptsShown
  <2>2. VariableTypes'
    BY <1>4, <2>1, RejectedType, DeniedType DEF PromptDenied, VariableTypes
  <2> QED BY <1>4, <2>1, <2>2, RejectedType, DeniedType, RejectKeepsLegs DEF PromptDenied
<1>5. ASSUME NEW x \in Sid \X Leg, RespondAccept(x)
      PROVE VariableTypes' /\ LegsInRoute' /\ PromptsShown'
  <2>1. PICK s \in Sid, l \in Leg : x = <<s, l>>
    OBVIOUS
  <2>2. known' \in [Endpoint -> SUBSET Key]
    <3>1. key[x] \in Key
      BY <1>5, <2>1 DEF RespondAccept, PromptsShown
    <3> QED BY <1>5, <3>1 DEF RespondAccept, persistKnownHost, VariableTypes
  <2>3. VariableTypes'
    BY <1>5, <2>2 DEF RespondAccept, VariableTypes, ClientState
  <2>4. LegsInRoute' /\ PromptsShown'
    BY <1>5 DEF RespondAccept, VariableTypes, LegsInRoute, PromptsShown, LastLeg, RouteOf
  <2> QED BY <2>3, <2>4
<1>6. ASSUME NEW s \in Sid, ClientReady(s)
      PROVE VariableTypes' /\ LegsInRoute' /\ PromptsShown'
  <2> DEFINE cl == [client EXCEPT ![Now(s)] = "ready"]
  <2>1. cl \in [Sid \X Leg -> ClientState]
    BY DEF VariableTypes, ClientState
  <2>2. CASE Rejected({s}, cl) /\ UNCHANGED connected
    <3>1. VariableTypes'
      BY <1>6, <2>1, <2>2, RejectedType DEF ClientReady, VariableTypes
    <3> QED BY <1>6, <2>2, <3>1, RejectOneKeepsLegs DEF ClientReady
  <2>3. CASE ~(Rejected({s}, cl) /\ UNCHANGED connected)
    <3>a. /\ client' = cl /\ UNCHANGED <<sessions, closed, sent>>
          /\ \E q \in {"forward", "shell", "up"} : pc' = [pc EXCEPT ![s] = q]
          /\ connected' \in {connected, connected \cup {s}}
          /\ UNCHANGED <<call, leg, aborted, mismatch, key, accepted, pending, known, gone,
                         quitting>>
      BY <1>6, <2>3 DEF ClientReady
    <3>b. pc' \in [Sid -> Awaiting \cup Settled \cup {"idle"}]
      BY <3>a DEF VariableTypes, Awaiting, Settled
    <3>1. VariableTypes'
      BY <2>1, <3>a, <3>b DEF VariableTypes
    <3>2. LegsInRoute' /\ PromptsShown'
      BY <1>6, <2>3 DEF ClientReady, VariableTypes, LegsInRoute, PromptsShown, LastLeg, RouteOf
    <3> QED BY <3>1, <3>2
  <2> QED BY <2>2, <2>3
<1>7. ASSUME NEW s \in Sid, ForwardOpened(s)
      PROVE VariableTypes' /\ LegsInRoute' /\ PromptsShown'
  <2>1. CASE Rejected({s}, client) /\ UNCHANGED leg
    <3>1. VariableTypes'
      BY <1>7, <2>1, RejectedType DEF ForwardOpened, VariableTypes
    <3> QED BY <1>7, <2>1, <3>1, RejectOneKeepsLegs DEF ForwardOpened
  <2>2. CASE ~(Rejected({s}, client) /\ UNCHANGED leg)
    <3>1. leg[s] + 1 \in Leg /\ leg[s] + 1 <= LastLeg(s) /\ leg[s] \in Nat
      BY <1>7, LegFacts DEF ForwardOpened, LegsInRoute, VariableTypes, LastLeg, RouteOf
    <3>a. /\ leg' = [leg EXCEPT ![s] = @ + 1] /\ pc' = [pc EXCEPT ![s] = "auth"]
          /\ \E q \in {"new", "none"} : client' = [client EXCEPT ![<<s, leg[s] + 1>>] = q]
          /\ UNCHANGED <<call, sessions, connected, aborted, closed, mismatch, key, accepted,
                         pending, known, sent, gone, quitting>>
      BY <1>7, <2>2 DEF ForwardOpened
    <3>b. client' \in [Sid \X Leg -> ClientState]
      BY <3>a DEF VariableTypes, ClientState
    <3>c. pc' \in [Sid -> Awaiting \cup Settled \cup {"idle"}] /\ leg' \in [Sid -> Leg]
      BY <3>a, <3>1 DEF VariableTypes, Awaiting
    <3>2. VariableTypes'
      BY <3>a, <3>b, <3>c DEF VariableTypes
    <3>3. LegsInRoute' /\ PromptsShown'
      BY <1>7, <2>2, <3>1, LegFacts
      DEF ForwardOpened, VariableTypes, LegsInRoute, PromptsShown, LastLeg, RouteOf
    <3> QED BY <3>2, <3>3
  <2> QED BY <2>1, <2>2
<1>8. ASSUME NEW s \in Sid, ShellOpened(s)
      PROVE VariableTypes' /\ LegsInRoute' /\ PromptsShown'
  <2>1. VariableTypes'
    BY <1>8, EmittedType DEF ShellOpened, VariableTypes, Settled
  <2>2. LegsInRoute' /\ PromptsShown'
    BY <1>8 DEF ShellOpened, VariableTypes, LegsInRoute, PromptsShown, LastLeg, RouteOf
  <2> QED BY <2>1, <2>2
<1>9. ASSUME NEW s \in Sid, StepFails(s)
      PROVE VariableTypes' /\ LegsInRoute' /\ PromptsShown'
  <2> DEFINE cl == IF pc[s] = "connect" THEN Denied({Now(s)}) ELSE client
  <2>1. cl \in [Sid \X Leg -> ClientState] /\ Rejected({s}, cl) /\ pc[s] # "idle"
    BY <1>9, DeniedType DEF StepFails, VariableTypes, Awaiting
  <2>2. VariableTypes'
    BY <1>9, <2>1, RejectedType DEF StepFails, VariableTypes
  <2> QED BY <1>9, <2>1, <2>2, RejectOneKeepsLegs DEF StepFails
<1>10. ASSUME NEW s \in Sid, NEW l \in Leg, NEW type \in {"disconnected", "error"},
              ClientDropped(s, l, type)
       PROVE VariableTypes' /\ LegsInRoute' /\ PromptsShown'
  <2> DEFINE cl == [x \in Sid \X Leg |->
                      IF x[1] = s /\ x[2] >= l /\ client[x] \in Dialed THEN "ended" ELSE client[x]]
             T  == IF s \in connected THEN {s} ELSE {}
  <2>1. cl \in [Sid \X Leg -> ClientState] /\ T \cap sessions \in SUBSET Sid
        /\ Teardown(T \cap sessions, cl) /\ sent' = Emitted(sent, T \cap sessions, type)
    BY <1>10 DEF ClientDropped, Finish, VariableTypes, ClientState
  <2>2. VariableTypes'
    BY <1>10, <2>1, TeardownType, EmittedType DEF ClientDropped, VariableTypes
  <2>3. LegsInRoute' /\ PromptsShown'
    BY <1>10 DEF ClientDropped, VariableTypes, LegsInRoute, PromptsShown, LastLeg, RouteOf
  <2> QED BY <2>2, <2>3
<1>11. ASSUME NEW s \in Sid, Disconnect(s)
       PROVE VariableTypes' /\ LegsInRoute' /\ PromptsShown'
  <2>1. VariableTypes'
    BY <1>11, TeardownType, EmittedType DEF Disconnect, Finish, VariableTypes
  <2>2. LegsInRoute' /\ PromptsShown'
    BY <1>11 DEF Disconnect, VariableTypes, LegsInRoute, PromptsShown, LastLeg, RouteOf
  <2> QED BY <2>1, <2>2
<1>12. ASSUME NEW h \in Host, NEW o \in Owner, AbortPendingConnect(h, o)
       PROVE VariableTypes' /\ LegsInRoute' /\ PromptsShown'
  <2> DEFINE denied == Waiting(PromptsOf(o))
             hit == {s \in sessions \ connected : call[s].host = h /\ call[s].owner = o}
  <2>1. SidsOf(denied) \in SUBSET Sid /\ \A s \in SidsOf(denied) : pc[s] # "idle"
    BY DEF SidsOf, Waiting, PromptsShown, PromptsOf, VariableTypes
  <2>2. hit \in SUBSET Sid /\ Denied(denied) \in [Sid \X Leg -> ClientState]
    BY DeniedType DEF VariableTypes
  <2>3. /\ aborted' = aborted \cup hit /\ pending' = pending \ PromptsOf(o)
        /\ pc' = Failed(SidsOf(denied))
        /\ sent' = ToldError(sent, SidsOf(denied), mismatch, aborted \cup hit)
        /\ Teardown(hit \cup SidsOf(denied), Denied(denied))
        /\ UNCHANGED <<call, leg, connected, mismatch, key, accepted, known, gone, quitting>>
    BY <1>12 DEF AbortPendingConnect
  <2>4. VariableTypes'
    BY <2>1, <2>2, <2>3, TeardownType, ToldErrorType, FailedType DEF VariableTypes
  <2> QED BY <2>1, <2>3, <2>4, RejectKeepsLegs
<1>13. ASSUME NEW T \in SUBSET Sid, NEW P \in SUBSET pending, EndWithPrompts(T, P),
              UNCHANGED <<call, leg, connected, aborted, mismatch, key, accepted, known>>,
              sent' \in [Sid \X Event -> Nat], gone' \in SUBSET Owner, quitting' \in BOOLEAN
       PROVE VariableTypes' /\ LegsInRoute' /\ PromptsShown'
  <2> DEFINE late == {x \in Waiting(P) : x[1] \in closed}
  <2>1. SidsOf(late) \in SUBSET Sid /\ \A s \in SidsOf(late) : pc[s] # "idle"
    BY DEF SidsOf, Waiting, PromptsShown, VariableTypes
  <2>2. Denied(late) \in [Sid \X Leg -> ClientState]
    BY DeniedType
  <2>3. Teardown(T, Denied(late)) /\ pending' = pending \ P /\ pc' = Failed(SidsOf(late))
    BY <1>13 DEF EndWithPrompts
  <2>4. VariableTypes'
    BY <1>13, <2>1, <2>2, <2>3, TeardownType, FailedType DEF VariableTypes
  <2> QED BY <1>13, <2>1, <2>3, <2>4, RejectKeepsLegs
<1>14. ASSUME NEW o \in Owner, DestroyForOwner(o)
       PROVE VariableTypes' /\ LegsInRoute' /\ PromptsShown'
  <2>1. {s \in sessions : call[s].owner = o} \in SUBSET Sid /\ PromptsOf(o) \in SUBSET pending
        /\ sent' \in [Sid \X Event -> Nat] /\ gone' \in SUBSET Owner /\ quitting' \in BOOLEAN
    BY <1>14 DEF DestroyForOwner, PromptsOf, VariableTypes
  <2>2. EndWithPrompts({s \in sessions : call[s].owner = o}, PromptsOf(o))
        /\ UNCHANGED <<call, leg, connected, aborted, mismatch, key, accepted, known>>
    BY <1>14 DEF DestroyForOwner
  <2> QED BY <1>13, <2>1, <2>2
<1>15. ASSUME DestroyAll
       PROVE VariableTypes' /\ LegsInRoute' /\ PromptsShown'
  BY <1>13, <1>15, EmittedType DEF DestroyAll, VariableTypes
<1>16. CASE UNCHANGED vars
  BY <1>16 DEF vars, VariableTypes, LegsInRoute, PromptsShown, LastLeg, RouteOf
<1> QED
  BY <1>1, <1>2, <1>3, <1>4, <1>5, <1>6, <1>7, <1>8, <1>9, <1>10, <1>11, <1>12, <1>14,
     <1>15, <1>16
  DEF Next, AwaitStep, PromptStep, EndStep, HostKeyTimeout, RespondDeny, Done

\* Every reachable state is well typed: each call stays on its route and every
\* prompt shows a key that a reached leg was presented with.
THEOREM TypeCorrect == Spec => []TypeOK
BY InitType, NextType, PTL DEF Spec

LEMMA LegOrder ==
  /\ \A l \in Leg : l \in Nat /\ l <= l /\ 1 <= l /\ (l + 1 \in Leg => l <= l + 1)
  /\ \A l, n \in Leg : l <= n /\ n + 1 \in Leg => l <= n + 1
BY DEF Leg

-----------------------------------------------------------------------------
(* Borrowed chains and verified keys                                        *)
(*                                                                         *)
(* What makes the two invariants inductive: clients exist on reached legs  *)
(* only, the one that is being connected is that of the awaited leg, and   *)
(* an open session that came up has a ready client on every leg.           *)

Connecting == {"dialing", "verifying", "authing"}

ReachedLegs == \A s \in Sid, l \in Leg :
  /\ client[<<s, l>>] # "none" => pc[s] # "idle" /\ l <= leg[s]
  /\ client[<<s, l>>] \in Connecting => pc[s] = "connect" /\ l = leg[s]
OpenChains == \A s \in Sid :
  /\ pc[s] # "idle" /\ s \notin closed => s \in sessions
  /\ s \in connected => pc[s] = "up"
  /\ s \in connected \ closed =>
       \A l \in Leg : l <= LastLeg(s) => client[<<s, l>>] = "ready"

ChainInv == ReachedLegs /\ OpenChains /\ VerifiedByTrustOrUser

\* A step that tears down T and makes F reject: cl differs from the clients in
\* those that end (or become ready on the way), and a session that came up loses
\* one only if it is closed with it.
Ending(T, F, cl) ==
  /\ T \in SUBSET Sid /\ F \in SUBSET Sid
  /\ cl \in [Sid \X Leg -> ClientState]
  /\ \A s \in F : pc[s] # "idle" /\ s \notin connected
  /\ \A s \in F, l \in Leg : cl[<<s, l>>] \notin Connecting
  /\ \A s \in Sid, l \in Leg : cl[<<s, l>>] # client[<<s, l>>] =>
       /\ pc[s] # "idle" /\ l <= leg[s] /\ cl[<<s, l>>] \in {"ended", "ready"}
       /\ client[<<s, l>>] # "ready" \/ s \in T \/ s \notin connected \/ s \in closed

LEMMA EndingKeepsChains ==
  ASSUME ReachedLegs, OpenChains, NEW T, NEW F, NEW cl, Ending(T, F, cl),
         Teardown(T, cl), pc' = Failed(F),
         call' = call, leg' = leg, connected' = connected
  PROVE  ReachedLegs' /\ OpenChains'
<1> USE DEF Ending
<1>1. ASSUME NEW s \in Sid, NEW l \in Leg
      PROVE client'[<<s, l>>] \in {cl[<<s, l>>], "ended"}
            /\ (client'[<<s, l>>] # cl[<<s, l>>] => cl[<<s, l>>] \in Dialed /\ s \in T)
  BY DEF Teardown
<1>2. ReachedLegs'
  <2> SUFFICES ASSUME NEW s \in Sid, NEW l \in Leg
               PROVE /\ client'[<<s, l>>] # "none" => pc'[s] # "idle" /\ l <= leg[s]
                     /\ client'[<<s, l>>] \in Connecting => pc'[s] = "connect" /\ l = leg[s]
    BY DEF ReachedLegs
  <2>1. pc'[s] = IF s \in F THEN "failed" ELSE pc[s]
    BY DEF Failed
  <2>2. client'[<<s, l>>] # "none" => pc[s] # "idle" /\ l <= leg[s]
    <3>1. CASE cl[<<s, l>>] = client[<<s, l>>]
      BY <3>1, <1>1 DEF Dialed, ReachedLegs
    <3>2. CASE cl[<<s, l>>] # client[<<s, l>>]
      BY <3>2
    <3> QED BY <3>1, <3>2
  <2>3. client'[<<s, l>>] \in Connecting => client[<<s, l>>] \in Connecting /\ s \notin F
    BY <1>1 DEF Connecting
  <2> QED BY <2>1, <2>2, <2>3 DEF ReachedLegs
<1>3. OpenChains'
  <2> SUFFICES ASSUME NEW s \in Sid
               PROVE /\ pc'[s] # "idle" /\ s \notin closed' => s \in sessions'
                     /\ s \in connected => pc'[s] = "up"
                     /\ s \in connected \ closed' =>
                          \A l \in Leg : l <= LastLeg(s) => client'[<<s, l>>] = "ready"
    BY DEF OpenChains, LastLeg, RouteOf
  <2>1. pc'[s] = IF s \in F THEN "failed" ELSE pc[s]
    BY DEF Failed
  <2>2. closed' = closed \cup T /\ sessions' = sessions \ T
    BY DEF Teardown
  <2>3. ASSUME s \in connected \ closed', NEW l \in Leg, l <= LastLeg(s)
        PROVE client'[<<s, l>>] = "ready"
    BY <2>2, <2>3, <1>1 DEF OpenChains
  <2> QED BY <2>1, <2>2, <2>3 DEF OpenChains
<1> QED BY <1>2, <1>3

\* The same step lets no key through: a client that authenticates or is ready
\* was so before, with the same key.
LEMMA EndingKeepsVerified ==
  ASSUME VerifiedByTrustOrUser, NEW T \in SUBSET Sid, NEW cl, Teardown(T, cl),
         UNCHANGED <<call, accepted, known>>,
         \A x \in Sid \X Leg : cl[x] \in {"authing", "ready"} =>
           client[x] \in {"authing", "ready"} /\ key'[x] = key[x]
  PROVE  VerifiedByTrustOrUser'
<1> SUFFICES ASSUME NEW x \in Sid \X Leg, client'[x] \in {"authing", "ready"}
             PROVE  key'[x] \in known[EndpointOf(x)] \/ x \in accepted
  BY DEF VerifiedByTrustOrUser, EndpointOf, RouteOf
<1>1. client'[x] = cl[x]
  BY DEF Teardown
<1> QED BY <1>1 DEF VerifiedByTrustOrUser

LEMMA DeniedValue ==
  ASSUME NEW X, NEW x \in Sid \X Leg
  PROVE  Denied(X)[x] = IF x \in X THEN "ended" ELSE client[x]
BY DEF Denied

\* A single call that rejects over clients in which only its own current one
\* changed.
LEMMA RejectOneKeepsChains ==
  ASSUME TypeOK, ChainInv, NEW s \in Sid, pc[s] \in Awaiting,
         NEW cl \in [Sid \X Leg -> ClientState], Rejected({s}, cl),
         cl = client \/ cl = Denied({Now(s)})
           \/ (client[Now(s)] = "authing" /\ cl = [client EXCEPT ![Now(s)] = "ready"]),
         pc[s] = "connect" => cl[Now(s)] \in {"ended", "ready"},
         pc[s] # "connect" => cl = client,
         UNCHANGED <<call, leg, connected, accepted, known>>,
         \A y \in Sid \X Leg : key'[y] = key[y] \/ cl[y] = "ended"
  PROVE  ChainInv'
<1>1. Now(s) \in Sid \X Leg /\ Now(s) = <<s, leg[s]>>
  BY DEF Now, TypeOK, VariableTypes
<1>2. Teardown({s}, cl) /\ pc' = Failed({s})
  BY DEF Rejected
<1>3. pc[s] # "idle" /\ s \notin connected
  BY DEF ChainInv, OpenChains, Awaiting
<1>4. ASSUME NEW r \in Sid, NEW l \in Leg, <<r, l>> # Now(s)
      PROVE  cl[<<r, l>>] = client[<<r, l>>]
  BY <1>1, <1>4, DeniedValue
<1>5. pc[s] = "connect" => \/ cl[Now(s)] = "ended"
                           \/ cl[Now(s)] = "ready" /\ client[Now(s)] \in {"authing", "ready"}
  <2>1. CASE cl = client
    BY <2>1
  <2>2. CASE cl = Denied({Now(s)})
    BY <1>1, <2>2, DeniedValue
  <2>3. CASE client[Now(s)] = "authing" /\ cl = [client EXCEPT ![Now(s)] = "ready"]
    BY <1>1, <2>3
  <2> QED BY <2>1, <2>2, <2>3
<1>6. \A l \in Leg : cl[<<s, l>>] \notin Connecting
  BY <1>1, <1>4, <1>5 DEF ChainInv, ReachedLegs, Connecting
<1>7. ASSUME NEW r \in Sid, NEW l \in Leg, cl[<<r, l>>] # client[<<r, l>>]
      PROVE  /\ pc[r] # "idle" /\ l <= leg[r] /\ cl[<<r, l>>] \in {"ended", "ready"}
             /\ r \notin connected
  BY <1>1, <1>3, <1>4, <1>5, <1>7, LegFacts
<1>8. ReachedLegs' /\ OpenChains'
  <2>1. Ending({s}, {s}, cl)
    BY <1>3, <1>6, <1>7 DEF Ending
  <2>2. call' = call /\ leg' = leg /\ connected' = connected
    OBVIOUS
  <2> QED BY <1>2, <2>1, <2>2, EndingKeepsChains DEF ChainInv
<1>9. VerifiedByTrustOrUser'
  <2>1. \A x \in Sid \X Leg : cl[x] \in {"authing", "ready"} =>
           client[x] \in {"authing", "ready"} /\ key'[x] = key[x]
    BY <1>1, <1>4, <1>5
  <2> QED BY <1>2, <2>1, EndingKeepsVerified DEF ChainInv
<1> QED BY <1>8, <1>9 DEF ChainInv

\* ... and a set of prompts denied at once, of the sessions F that wait for them.
LEMMA DenyKeepsChains ==
  ASSUME TypeOK, ChainInv, NEW T \in SUBSET Sid, NEW X \in SUBSET (Sid \X Leg),
         \A x \in X : client[x] = "verifying",
         Teardown(T, Denied(X)), pc' = Failed(SidsOf(X)),
         UNCHANGED <<call, leg, connected, key, accepted, known>>
  PROVE  ChainInv'
<1>1. ASSUME NEW s \in Sid, NEW l \in Leg, <<s, l>> \in X
      PROVE  pc[s] = "connect" /\ l = leg[s]
  BY <1>1 DEF ChainInv, ReachedLegs, Connecting
<1>2. Ending(T, SidsOf(X), Denied(X))
  <2>1. SidsOf(X) \in SUBSET Sid /\ Denied(X) \in [Sid \X Leg -> ClientState]
    BY DeniedType DEF SidsOf, TypeOK
  <2>2. \A s \in SidsOf(X) : pc[s] # "idle" /\ s \notin connected
    BY <1>1 DEF SidsOf, ChainInv, OpenChains
  <2>3. ASSUME NEW s \in SidsOf(X), NEW l \in Leg
        PROVE  Denied(X)[<<s, l>>] \notin Connecting
    <3>1. s \in Sid /\ <<s, leg[s]>> \in X
      BY <1>1 DEF SidsOf
    <3>2. l = leg[s] => Denied(X)[<<s, l>>] = "ended"
      BY <3>1, DeniedValue
    <3>3. l # leg[s] => Denied(X)[<<s, l>>] \in {"ended", client[<<s, l>>]}
      BY <3>1, DeniedValue
    <3>4. l # leg[s] => client[<<s, l>>] \notin Connecting
      BY <3>1 DEF ChainInv, ReachedLegs
    <3> QED BY <3>2, <3>3, <3>4 DEF Connecting
  <2>4. ASSUME NEW s \in Sid, NEW l \in Leg, Denied(X)[<<s, l>>] # client[<<s, l>>]
        PROVE  /\ pc[s] # "idle" /\ l <= leg[s] /\ Denied(X)[<<s, l>>] \in {"ended", "ready"}
               /\ client[<<s, l>>] # "ready"
    <3>1. <<s, l>> \in X /\ Denied(X)[<<s, l>>] = "ended"
      BY <2>4, DeniedValue
    <3> QED BY <1>1, <3>1, LegFacts
  <2> QED BY <2>1, <2>2, <2>3, <2>4 DEF Ending
<1>3. ReachedLegs' /\ OpenChains'
  BY <1>2, EndingKeepsChains DEF ChainInv
<1>4. VerifiedByTrustOrUser'
  <2>1. \A x \in Sid \X Leg : Denied(X)[x] \in {"authing", "ready"} =>
          client[x] \in {"authing", "ready"} /\ key'[x] = key[x]
    BY DeniedValue
  <2> QED BY <2>1, EndingKeepsVerified DEF ChainInv
<1> QED BY <1>3, <1>4 DEF ChainInv

LEMMA TrustGrows ==
  ASSUME TypeOK, NEW x \in Sid \X Leg, x \in pending
  PROVE  \A e \in Endpoint : known[e] \subseteq persistKnownHost(EndpointOf(x), key[x])[e]
BY DEF persistKnownHost, TypeOK, VariableTypes

\* A leg a call has reached has an endpoint.
LEMMA EndpointReached ==
  ASSUME TypeOK, NEW s \in Sid, NEW l \in Leg, pc[s] # "idle", l <= leg[s]
  PROVE  EndpointOf(<<s, l>>) \in Endpoint
<1>1. call[s] \in Calls /\ leg[s] <= Len(Route[call[s].host]) /\ call[s].host \in Host
  BY SessionAssumption DEF TypeOK, LegsInRoute, LastLeg, RouteOf, Call
<1>2. Route[call[s].host] \in Seq(Endpoint) /\ Len(Route[call[s].host]) \in Nat
  BY <1>1, SessionAssumption
<1>3. l \in 1..Len(Route[call[s].host])
  BY <1>1, <1>2, LegFacts DEF Leg, TypeOK, VariableTypes
<1> QED BY <1>2, <1>3 DEF EndpointOf, RouteOf

\* The awaited leg and those before it are ready when it is and its path is up.
LEMMA ReadyPath ==
  ASSUME NEW s, NEW n \in Leg, n = leg[s], PathUp(s), NEW l \in Leg, l <= n, l # n
  PROVE  client[<<s, l>>] = "ready"
<1>1. l \in 1..(n - 1)
  BY SessionAssumption DEF Leg
<1> QED BY <1>1 DEF PathUp

LEMMA NextChains == TypeOK /\ ChainInv /\ [Next]_vars => ChainInv'
<1> SUFFICES ASSUME TypeOK, ChainInv, [Next]_vars PROVE ChainInv'
  OBVIOUS
<1>1. ASSUME NEW s \in Sid, NEW c \in Calls, Connect(s, c) PROVE ChainInv'
  <2>1. /\ pc[s] = "idle" /\ pc' = [pc EXCEPT ![s] = "auth"] /\ leg' = [leg EXCEPT ![s] = 1]
        /\ call' = [call EXCEPT ![s] = c] /\ sessions' = sessions \cup {s}
        /\ \E v \in {"new", "none"} : client' = [client EXCEPT ![<<s, 1>>] = v]
        /\ UNCHANGED <<connected, closed, key, accepted, known>>
    BY <1>1 DEF Connect
  <2>2. \A l \in Leg : client[<<s, l>>] = "none" /\ (l # 1 => client'[<<s, l>>] = "none")
    BY <2>1 DEF ChainInv, ReachedLegs, TypeOK, VariableTypes
  <2>3. client'[<<s, 1>>] \in {"new", "none"}
    BY <2>1, LegFacts DEF TypeOK, VariableTypes
  <2>4. \A r \in Sid \ {s}, l \in Leg : client'[<<r, l>>] = client[<<r, l>>]
    BY <2>1 DEF TypeOK, VariableTypes
  <2>5. ReachedLegs'
    <3> SUFFICES ASSUME NEW r \in Sid, NEW l \in Leg
                 PROVE /\ client'[<<r, l>>] # "none" => pc'[r] # "idle" /\ l <= leg'[r]
                       /\ client'[<<r, l>>] \in Connecting => pc'[r] = "connect" /\ l = leg'[r]
      BY DEF ReachedLegs
    <3>1. CASE r = s
      <4>1. pc'[s] = "auth" /\ leg'[s] = 1 /\ 1 \in Leg /\ (1 <= 1)
        BY <2>1, LegFacts, LegOrder DEF TypeOK, VariableTypes
      <4> QED BY <2>2, <2>3, <3>1, <4>1 DEF Connecting
    <3>2. CASE r # s
      BY <2>1, <2>4, <3>2 DEF ChainInv, ReachedLegs, TypeOK, VariableTypes
    <3> QED BY <3>1, <3>2
  <2>6. OpenChains'
    BY <2>1, <2>4 DEF ChainInv, OpenChains, LastLeg, RouteOf, TypeOK, VariableTypes
  <2>7. VerifiedByTrustOrUser'
    <3> SUFFICES ASSUME NEW r \in Sid, NEW l \in Leg, client'[<<r, l>>] \in {"authing", "ready"}
                 PROVE key[<<r, l>>] \in known[EndpointOf(<<r, l>>)'] \/ <<r, l>> \in accepted
      BY <2>1 DEF VerifiedByTrustOrUser
    <3>1. r # s /\ client[<<r, l>>] \in {"authing", "ready"}
      BY <2>2, <2>3, <2>4
    <3>2. EndpointOf(<<r, l>>)' = EndpointOf(<<r, l>>)
      BY <2>1, <3>1 DEF EndpointOf, RouteOf, TypeOK, VariableTypes
    <3> QED BY <3>1, <3>2 DEF ChainInv, VerifiedByTrustOrUser
  <2> QED BY <2>5, <2>6, <2>7 DEF ChainInv
<1>2. ASSUME NEW s \in Sid, AuthReady(s) PROVE ChainInv'
  <2>1. CASE Rejected({s}, client)
    BY <1>2, <2>1, RejectOneKeepsChains DEF AuthReady, Awaiting, TypeOK, VariableTypes
  <2>2. CASE ~Rejected({s}, client)
    <3>1. /\ pc[s] = "auth" /\ pc' = [pc EXCEPT ![s] = "connect"]
          /\ client' = [client EXCEPT ![<<s, leg[s]>>] = "dialing"]
          /\ UNCHANGED <<call, leg, sessions, connected, closed, key, accepted, known>>
      BY <1>2, <2>2 DEF AuthReady, Now
    <3>2. leg[s] \in Leg /\ leg[s] <= leg[s] /\ s \notin connected
      BY <3>1, LegOrder DEF ChainInv, OpenChains, TypeOK, VariableTypes
    <3>3. ReachedLegs'
      BY <3>1, <3>2 DEF ChainInv, ReachedLegs, Connecting, TypeOK, VariableTypes
    <3>4. OpenChains'
      BY <3>1, <3>2 DEF ChainInv, OpenChains, LastLeg, RouteOf, TypeOK, VariableTypes
    <3>5. VerifiedByTrustOrUser'
      BY <3>1 DEF ChainInv, VerifiedByTrustOrUser, EndpointOf, RouteOf, TypeOK, VariableTypes
    <3> QED BY <3>3, <3>4, <3>5 DEF ChainInv
  <2> QED BY <2>1, <2>2
<1>3. ASSUME NEW s \in Sid, NEW k \in Key, KeyPresented(s, k) PROVE ChainInv'
  <2> DEFINE x == <<s, leg[s]>>
             verdict == classifyHostKey(known[EndpointOf(x)], k)
  <2>1. /\ pc[s] = "connect" /\ x \in Sid \X Leg /\ leg[s] \in Leg
        /\ key' = [key EXCEPT ![x] = k] /\ x = Now(s) /\ leg[s] <= leg[s]
        /\ UNCHANGED <<call, leg, connected, accepted, known>> /\ s \notin connected
    BY <1>3, LegOrder DEF KeyPresented, Now, TypeOK, VariableTypes, ChainInv, OpenChains
  <2>2. CASE Rejected({s}, Denied({x}))
    <3>1. Denied({x}) \in [Sid \X Leg -> ClientState] /\ Denied({Now(s)})[Now(s)] = "ended"
      BY <2>1, DeniedType, DeniedValue DEF TypeOK
    <3>2. \A y \in Sid \X Leg : key'[y] = key[y] \/ Denied({x})[y] = "ended"
      BY <2>1, DeniedValue DEF TypeOK, VariableTypes
    <3> QED BY <2>1, <2>2, <3>1, <3>2, RejectOneKeepsChains DEF Awaiting
  <2>3. CASE Teardown({s}, Denied({x})) /\ pc' = [pc EXCEPT ![s] = "failed"]
    <3>1. pc' = Failed({s})
      BY <2>3 DEF Failed, TypeOK, VariableTypes
    <3>2. Ending({s}, {s}, Denied({x}))
      <4>1. Denied({x}) \in [Sid \X Leg -> ClientState]
        BY DeniedType DEF TypeOK
      <4>2. \A r \in Sid, l \in Leg :
              Denied({x})[<<r, l>>] = IF <<r, l>> = x THEN "ended" ELSE client[<<r, l>>]
        BY DeniedValue
      <4>3. \A l \in Leg : Denied({x})[<<s, l>>] \notin Connecting
        BY <4>2 DEF ChainInv, ReachedLegs, Connecting
      <4> QED BY <2>1, <4>1, <4>2, <4>3 DEF Ending
    <3>3. ReachedLegs' /\ OpenChains'
      BY <2>1, <2>3, <3>1, <3>2, EndingKeepsChains DEF ChainInv
    <3>4. \A y \in Sid \X Leg : Denied({x})[y] \in {"authing", "ready"} =>
            client[y] \in {"authing", "ready"} /\ key'[y] = key[y]
      BY <2>1, DeniedValue DEF TypeOK, VariableTypes
    <3>5. VerifiedByTrustOrUser'
      BY <2>1, <2>3, <3>4, EndingKeepsVerified DEF ChainInv
    <3> QED BY <3>3, <3>5 DEF ChainInv
  <2>4. CASE \E v \in {"authing", "verifying"} :
               /\ client' = [client EXCEPT ![x] = v] /\ (v = "authing" => verdict = "match")
               /\ UNCHANGED <<pc, sessions, closed>>
    <3>1. ReachedLegs'
      <4>1. \A y \in Sid \X Leg : y # x => client'[y] = client[y]
        BY <2>4 DEF TypeOK, VariableTypes
      <4> SUFFICES ASSUME NEW r \in Sid, NEW l \in Leg
                   PROVE /\ client'[<<r, l>>] # "none" => pc[r] # "idle" /\ l <= leg[r]
                         /\ client'[<<r, l>>] \in Connecting => pc[r] = "connect" /\ l = leg[r]
        BY <2>1, <2>4 DEF ReachedLegs
      <4>2. CASE <<r, l>> = x
        BY <2>1, <4>2
      <4>3. CASE <<r, l>> # x
        BY <4>1, <4>3 DEF ChainInv, ReachedLegs
      <4> QED BY <4>2, <4>3
    <3>2. OpenChains'
      BY <2>1, <2>4 DEF ChainInv, OpenChains, LastLeg, RouteOf, TypeOK, VariableTypes
    <3>3. verdict = "match" => k \in known[EndpointOf(x)]
      BY DEF classifyHostKey
    <3>4. VerifiedByTrustOrUser'
      <4> SUFFICES ASSUME NEW y \in Sid \X Leg, client'[y] \in {"authing", "ready"}
                   PROVE key'[y] \in known[EndpointOf(y)] \/ y \in accepted
        BY <2>1 DEF VerifiedByTrustOrUser, EndpointOf, RouteOf
      <4>1. CASE y = x
        BY <2>1, <2>4, <3>3, <4>1 DEF TypeOK, VariableTypes
      <4>2. CASE y # x
        BY <2>1, <2>4, <4>2 DEF TypeOK, VariableTypes, ChainInv, VerifiedByTrustOrUser
      <4> QED BY <4>1, <4>2
    <3> QED BY <3>1, <3>2, <3>4 DEF ChainInv
  <2> QED BY <1>3, <2>2, <2>3, <2>4 DEF KeyPresented, Now
<1>4. ASSUME NEW x \in Sid \X Leg, PromptDenied(x) PROVE ChainInv'
  <2>1. Waiting({x}) \in SUBSET (Sid \X Leg) /\ \A y \in Waiting({x}) : client[y] = "verifying"
    BY DEF Waiting
  <2>2. /\ Teardown(SidsOf(Waiting({x})), Denied(Waiting({x})))
        /\ pc' = Failed(SidsOf(Waiting({x}))) /\ SidsOf(Waiting({x})) \in SUBSET Sid
        /\ UNCHANGED <<call, leg, connected, key, accepted, known>>
    BY <1>4 DEF PromptDenied, Rejected, SidsOf, Waiting
  <2> QED BY <2>1, <2>2, DenyKeepsChains
<1>5. ASSUME NEW x \in Sid \X Leg, RespondAccept(x) PROVE ChainInv'
  <2>1. /\ x \in pending /\ accepted' = accepted \cup {x}
        /\ known' = persistKnownHost(EndpointOf(x), key[x])
        /\ client' = IF client[x] = "verifying" THEN [client EXCEPT ![x] = "authing"] ELSE client
        /\ UNCHANGED <<call, pc, leg, sessions, connected, closed, key>>
    BY <1>5 DEF RespondAccept
  <2>2. ReachedLegs'
    BY <2>1 DEF ChainInv, ReachedLegs, Connecting, TypeOK, VariableTypes
  <2>3. OpenChains'
    BY <2>1 DEF ChainInv, OpenChains, LastLeg, RouteOf, TypeOK, VariableTypes
  <2>4. VerifiedByTrustOrUser'
    <3> SUFFICES ASSUME NEW s \in Sid, NEW l \in Leg, client'[<<s, l>>] \in {"authing", "ready"}
                 PROVE key[<<s, l>>] \in known'[EndpointOf(<<s, l>>)] \/ <<s, l>> \in accepted'
      <4>1. key' = key /\ call' = call
        BY <2>1
      <4> QED BY <4>1 DEF VerifiedByTrustOrUser, EndpointOf, RouteOf
    <3>1. CASE <<s, l>> = x
      BY <2>1, <3>1
    <3>2. CASE <<s, l>> # x
      <4>1. client[<<s, l>>] \in {"authing", "ready"}
        BY <2>1, <3>2 DEF TypeOK, VariableTypes
      <4>2. EndpointOf(<<s, l>>) \in Endpoint
        BY <4>1, EndpointReached DEF ChainInv, ReachedLegs
      <4>3. known[EndpointOf(<<s, l>>)] \subseteq known'[EndpointOf(<<s, l>>)]
        BY <2>1, <4>2, TrustGrows
      <4> QED BY <2>1, <4>1, <4>3 DEF ChainInv, VerifiedByTrustOrUser
    <3> QED BY <3>1, <3>2
  <2> QED BY <2>2, <2>3, <2>4 DEF ChainInv
<1>6. ASSUME NEW s \in Sid, ClientReady(s) PROVE ChainInv'
  <2> DEFINE x == <<s, leg[s]>>
             cl == [client EXCEPT ![x] = "ready"]
  <2>1. /\ pc[s] = "connect" /\ client[x] = "authing" /\ x \in Sid \X Leg /\ x = Now(s)
        /\ s \notin connected /\ PathUp(s) /\ leg[s] \in Leg /\ leg[s] <= leg[s]
        /\ UNCHANGED <<call, leg, key, accepted, known>>
    BY <1>6, LegOrder DEF ClientReady, Now, TypeOK, VariableTypes, ChainInv, OpenChains
  <2>2. CASE Rejected({s}, cl) /\ UNCHANGED connected
    <3>1. cl \in [Sid \X Leg -> ClientState] /\ cl[x] = "ready"
      BY <2>1 DEF TypeOK, VariableTypes, ClientState
    <3> QED BY <2>1, <2>2, <3>1, RejectOneKeepsChains DEF Awaiting
  <2>3. CASE ~(Rejected({s}, cl) /\ UNCHANGED connected)
    <3>1. /\ client' = cl
          /\ pc' = [pc EXCEPT ![s] = IF leg[s] # LastLeg(s) THEN "forward"
                                     ELSE IF call[s].kind = "terminal" THEN "shell"
                                     ELSE "up"]
          /\ connected' = IF leg[s] = LastLeg(s) /\ call[s].kind = "dedicated"
                          THEN connected \cup {s} ELSE connected
          /\ UNCHANGED <<sessions, closed>>
      BY <1>6, <2>3 DEF ClientReady, Now
    <3>2. ReachedLegs'
      BY <2>1, <3>1 DEF ChainInv, ReachedLegs, Connecting, TypeOK, VariableTypes
    <3>3. \A l \in Leg : l <= leg[s] => cl[<<s, l>>] = "ready"
      BY <2>1, ReadyPath DEF TypeOK, VariableTypes
    <3>4. OpenChains'
      BY <2>1, <3>1, <3>3 DEF ChainInv, OpenChains, LastLeg, RouteOf, TypeOK, VariableTypes
    <3>5. VerifiedByTrustOrUser'
      BY <2>1, <3>1
      DEF ChainInv, VerifiedByTrustOrUser, EndpointOf, RouteOf, TypeOK, VariableTypes
    <3> QED BY <3>2, <3>4, <3>5 DEF ChainInv
  <2> QED BY <2>2, <2>3
<1>7. ASSUME NEW s \in Sid, ForwardOpened(s) PROVE ChainInv'
  <2>1. CASE Rejected({s}, client) /\ UNCHANGED leg
    BY <1>7, <2>1, RejectOneKeepsChains DEF ForwardOpened, Awaiting, TypeOK, VariableTypes
  <2>2. CASE ~(Rejected({s}, client) /\ UNCHANGED leg)
    <3>1. /\ pc[s] = "forward" /\ leg' = [leg EXCEPT ![s] = leg[s] + 1]
          /\ pc' = [pc EXCEPT ![s] = "auth"]
          /\ \E v \in {"new", "none"} : client' = [client EXCEPT ![<<s, leg[s] + 1>>] = v]
          /\ UNCHANGED <<call, sessions, connected, closed, key, accepted, known>>
      BY <1>7, <2>2 DEF ForwardOpened, Now
    <3>2. /\ leg[s] \in Nat /\ leg[s] + 1 \in Leg /\ leg[s] + 1 <= LastLeg(s)
          /\ s \notin connected
      BY <3>1, LegFacts
      DEF TypeOK, LegsInRoute, VariableTypes, LastLeg, RouteOf, ChainInv, OpenChains
    <3>3. ReachedLegs'
      <4> SUFFICES ASSUME NEW r \in Sid, NEW l \in Leg
                   PROVE /\ client'[<<r, l>>] # "none" => pc'[r] # "idle" /\ l <= leg'[r]
                         /\ client'[<<r, l>>] \in Connecting => pc'[r] = "connect" /\ l = leg'[r]
        BY DEF ReachedLegs
      <4>1. CASE r # s
        BY <3>1, <4>1 DEF ChainInv, ReachedLegs, TypeOK, VariableTypes
      <4>2. CASE r = s /\ l = leg[s] + 1
        BY <3>1, <3>2, <4>2, LegOrder DEF Connecting, TypeOK, VariableTypes
      <4>3. CASE r = s /\ l # leg[s] + 1
        <5>1. client'[<<s, l>>] = client[<<s, l>>] /\ pc'[s] = "auth" /\ leg'[s] = leg[s] + 1
              /\ leg[s] \in Leg
          BY <3>1, <3>2, <4>3 DEF TypeOK, VariableTypes
        <5> QED BY <3>1, <3>2, <4>3, <5>1, LegOrder DEF ChainInv, ReachedLegs
      <4> QED BY <4>1, <4>2, <4>3
    <3>4. OpenChains'
      BY <3>1, <3>2 DEF ChainInv, OpenChains, LastLeg, RouteOf, TypeOK, VariableTypes
    <3>5. VerifiedByTrustOrUser'
      BY <3>1, <3>2
      DEF ChainInv, VerifiedByTrustOrUser, EndpointOf, RouteOf, TypeOK, VariableTypes
    <3> QED BY <3>3, <3>4, <3>5 DEF ChainInv
  <2> QED BY <2>1, <2>2
<1>8. ASSUME NEW s \in Sid, ShellOpened(s) PROVE ChainInv'
  <2>1. /\ pc[s] = "shell" /\ client[<<s, leg[s]>>] = "ready" /\ PathUp(s)
        /\ pc' = [pc EXCEPT ![s] = "up"] /\ connected' = connected \cup {s}
        /\ UNCHANGED <<call, leg, sessions, closed, client, key, accepted, known>>
    BY <1>8 DEF ShellOpened, Now
  <2>2. leg[s] = LastLeg(s)
    BY <2>1 DEF TypeOK, LegsInRoute
  <2>3. ReachedLegs'
    BY <2>1 DEF ChainInv, ReachedLegs, Connecting, TypeOK, VariableTypes
  <2>4. \A l \in Leg : l <= leg[s] => client[<<s, l>>] = "ready"
    BY <2>1, ReadyPath DEF TypeOK, VariableTypes
  <2>5. OpenChains'
    BY <2>1, <2>2, <2>4 DEF ChainInv, OpenChains, LastLeg, RouteOf, TypeOK, VariableTypes
  <2>6. VerifiedByTrustOrUser'
    BY <2>1 DEF ChainInv, VerifiedByTrustOrUser, EndpointOf, RouteOf
  <2> QED BY <2>3, <2>5, <2>6 DEF ChainInv
<1>9. ASSUME NEW s \in Sid, StepFails(s) PROVE ChainInv'
  <2> DEFINE cl == IF pc[s] = "connect" THEN Denied({Now(s)}) ELSE client
  <2>1. /\ cl \in [Sid \X Leg -> ClientState] /\ Now(s) \in Sid \X Leg
        /\ Denied({Now(s)})[Now(s)] = "ended"
    BY DeniedType, DeniedValue DEF TypeOK, VariableTypes, Now
  <2>2. /\ Rejected({s}, cl) /\ pc[s] \in Awaiting
        /\ UNCHANGED <<call, leg, connected, key, accepted, known>>
    BY <1>9 DEF StepFails
  <2> QED BY <2>1, <2>2, RejectOneKeepsChains
<1>10. ASSUME NEW s \in Sid, NEW l \in Leg, NEW type, ClientDropped(s, l, type)
       PROVE ChainInv'
  <2> DEFINE cl == [y \in Sid \X Leg |->
                      IF y[1] = s /\ y[2] >= l /\ client[y] \in Dialed THEN "ended" ELSE client[y]]
             T == (IF s \in connected THEN {s} ELSE {}) \cap sessions
  <2>1. Teardown(T, cl) /\ UNCHANGED <<call, pc, leg, connected, key, accepted, known>>
    BY <1>10 DEF ClientDropped, Finish
  <2>2. ASSUME NEW r \in Sid, NEW m \in Leg, cl[<<r, m>>] # client[<<r, m>>]
        PROVE  /\ pc[r] # "idle" /\ m <= leg[r] /\ cl[<<r, m>>] = "ended"
               /\ r \in T \/ r \notin connected \/ r \in closed
    <3>1. r = s /\ client[<<r, m>>] \in Dialed /\ cl[<<r, m>>] = "ended"
      BY <2>2
    <3>2. pc[r] # "idle" /\ m <= leg[r]
      BY <3>1 DEF Dialed, ChainInv, ReachedLegs
    <3> QED BY <3>1, <3>2 DEF ChainInv, OpenChains
  <2>3. cl \in [Sid \X Leg -> ClientState] /\ T \in SUBSET Sid
    BY DEF TypeOK, VariableTypes, ClientState
  <2>4. Ending(T, {}, cl) /\ pc' = Failed({})
    BY <2>1, <2>2, <2>3 DEF Ending, Failed, TypeOK, VariableTypes
  <2>5. ReachedLegs' /\ OpenChains'
    BY <2>1, <2>4, EndingKeepsChains DEF ChainInv
  <2>6. \A x \in Sid \X Leg : cl[x] \in {"authing", "ready"} =>
          client[x] \in {"authing", "ready"} /\ key'[x] = key[x]
    BY <2>1
  <2>7. VerifiedByTrustOrUser'
    BY <2>1, <2>3, <2>6, EndingKeepsVerified DEF ChainInv
  <2> QED BY <2>5, <2>7 DEF ChainInv
<1>11. ASSUME NEW T \in SUBSET Sid, NEW X \in SUBSET (Sid \X Leg),
              \A x \in X : client[x] = "verifying",
              Teardown(T, Denied(X)), pc' = Failed(SidsOf(X)),
              UNCHANGED <<call, leg, connected, key, accepted, known>>
       PROVE ChainInv'
  BY <1>11, DenyKeepsChains
<1>12. ASSUME NEW s \in Sid, Disconnect(s) PROVE ChainInv'
  <2>1. Denied({}) = client /\ SidsOf({}) = {} /\ pc = Failed({})
    BY DEF Denied, SidsOf, Failed, TypeOK, VariableTypes
  <2>2. Teardown({s} \cap sessions, client) /\ UNCHANGED <<call, pc, leg, connected, key, accepted, known>>
    BY <1>12 DEF Disconnect, Finish
  <2>3. {s} \cap sessions \in SUBSET Sid /\ {} \in SUBSET (Sid \X Leg)
    OBVIOUS
  <2> QED BY <2>1, <2>2, <2>3, <1>11
<1>13. ASSUME NEW h \in Host, NEW o \in Owner, AbortPendingConnect(h, o) PROVE ChainInv'
  <2> DEFINE denied == Waiting(PromptsOf(o))
             hit == {s \in sessions \ connected : call[s].host = h /\ call[s].owner = o}
  <2>1. /\ pc' = Failed(SidsOf(denied)) /\ Teardown(hit \cup SidsOf(denied), Denied(denied))
        /\ UNCHANGED <<call, leg, connected, key, accepted, known>>
    BY <1>13 DEF AbortPendingConnect
  <2>2. /\ hit \cup SidsOf(denied) \in SUBSET Sid /\ denied \in SUBSET (Sid \X Leg)
        /\ \A x \in denied : client[x] = "verifying"
    BY DEF SidsOf, Waiting, PromptsOf, TypeOK, VariableTypes
  <2> QED BY <2>1, <2>2, <1>11
<1>14. ASSUME NEW T \in SUBSET Sid, NEW P \in SUBSET pending, EndWithPrompts(T, P),
              UNCHANGED <<call, leg, connected, key, accepted, known>>
       PROVE ChainInv'
  <2> DEFINE late == {x \in Waiting(P) : x[1] \in closed}
  <2>1. late \in SUBSET (Sid \X Leg) /\ \A x \in late : client[x] = "verifying"
    BY DEF Waiting, TypeOK, VariableTypes
  <2>2. Teardown(T, Denied(late)) /\ pc' = Failed(SidsOf(late))
    BY <1>14 DEF EndWithPrompts
  <2> QED BY <1>14, <2>1, <2>2, <1>11
<1>15. ASSUME NEW o \in Owner, DestroyForOwner(o) PROVE ChainInv'
  <2>1. {s \in sessions : call[s].owner = o} \in SUBSET Sid /\ PromptsOf(o) \in SUBSET pending
    BY DEF PromptsOf, TypeOK, VariableTypes
  <2> QED BY <1>15, <2>1, <1>14 DEF DestroyForOwner
<1>16. ASSUME DestroyAll PROVE ChainInv'
  BY <1>16, <1>14 DEF DestroyAll, TypeOK, VariableTypes
<1>17. CASE UNCHANGED vars
  BY <1>17 DEF vars, ChainInv, ReachedLegs, OpenChains, VerifiedByTrustOrUser, EndpointOf,
              LastLeg, RouteOf
<1> QED
  BY <1>1, <1>2, <1>3, <1>4, <1>5, <1>6, <1>7, <1>8, <1>9, <1>10, <1>12, <1>13, <1>15, <1>16,
     <1>17
  DEF Next, AwaitStep, PromptStep, EndStep, HostKeyTimeout, RespondDeny, Done

LEMMA InitChains == Init => ChainInv
BY LegFacts DEF Init, ChainInv, ReachedLegs, OpenChains, VerifiedByTrustOrUser, Connecting

\* The strengthened invariant.
THEOREM ChainsInvariant == Spec => [](TypeOK /\ ChainInv)
<1>1. Init => TypeOK /\ ChainInv
  BY InitType, InitChains
<1>2. TypeOK /\ ChainInv /\ [Next]_vars => (TypeOK /\ ChainInv)'
  BY NextType, NextChains
<1> QED BY <1>1, <1>2, PTL DEF Spec

\* Whatever prompts, timers, aborts and closed windows interleave, no client
\* authenticates on a key that is neither trusted nor accepted for its leg.
THEOREM VerifiedKeys == Spec => []VerifiedByTrustOrUser
<1>1. TypeOK /\ ChainInv => VerifiedByTrustOrUser
  BY DEF ChainInv
<1> QED BY <1>1, ChainsInvariant, PTL

\* A session that tunnels, SFTP and VNC may borrow is up on a live client of
\* every leg of its route, however long the chain of jump hosts.
THEOREM BorrowedChains == Spec => []BorrowedIsLive
<1>1. TypeOK /\ ChainInv => BorrowedIsLive
  <2> SUFFICES ASSUME TypeOK, ChainInv, NEW h \in Host, NEW o \in Owner, NEW s \in borrowClient(h, o)
               PROVE  pc[s] = "up" /\ Live(s) = 1..LastLeg(s)
    BY DEF BorrowedIsLive
  <2>1. s \in Sid /\ s \in connected \ closed /\ pc[s] = "up"
    BY DEF borrowClient, ChainInv, OpenChains, TypeOK, VariableTypes
  <2>2. leg[s] = LastLeg(s) /\ leg[s] \in Leg
    BY <2>1 DEF TypeOK, VariableTypes, LegsInRoute
  <2>3. \A l \in Leg : client[<<s, l>>] \in Dialed => l <= LastLeg(s)
    BY <2>1, <2>2 DEF ChainInv, ReachedLegs, Dialed
  <2>4. \A l \in Leg : l <= LastLeg(s) => client[<<s, l>>] \in Dialed
    BY <2>1 DEF ChainInv, OpenChains, Dialed
  <2>5. Live(s) = {l \in Leg : l <= LastLeg(s)}
    BY <2>3, <2>4 DEF Live
  <2>6. {l \in Leg : l <= LastLeg(s)} = 1..LastLeg(s)
    BY <2>2, SessionAssumption DEF Leg
  <2> QED BY <2>1, <2>5, <2>6
<1> QED BY <1>1, ChainsInvariant, PTL
-----------------------------------------------------------------------------
(* The end of a session                                                     *)
(*                                                                         *)
(* What a step may do to one session, whichever action it is of.  The      *)
(* three properties about ends follow from these five cases.               *)

Told(s) == sent[<<s, "error">>] + sent[<<s, "hostkey-mismatch">>] + sent[<<s, "disconnected">>]
Undisturbed(s) == s \notin aborted /\ call[s].owner \notin gone /\ ~quitting

\* A session that is closed is not registered, and only a closed one reported a
\* mismatch.
EndInv ==
  /\ closed \cap sessions = {} /\ mismatch \subseteq closed
  /\ \A s \in closed \cup sessions : pc[s] # "idle"
\* Nothing is left of a session that nobody aborted and whose window is there.
ClosedAreQuiet == \A s \in closed : Undisturbed(s) => pc[s] \in Settled /\ Live(s) = {}
\* A session that is not over, or whose connect still runs on, was told nothing.
Untold == ~quitting => \A s \in Sid : s \notin closed \/ pc[s] \in Awaiting => Told(s) = 0
OverInv == EndInv /\ ClosedAreQuiet /\ Untold /\ EndToldOnce

Untouched(s) ==
  /\ pc'[s] = pc[s] /\ Told(s)' = Told(s) /\ (s \in closed' <=> s \in closed)
  /\ (s \in sessions' => s \in sessions) /\ Live(s)' \subseteq Live(s)
Starts(s) == pc[s] = "idle" /\ pc'[s] = "auth" /\ s \notin closed' /\ Told(s)' = Told(s)
GoesOn(s) ==
  /\ pc[s] \in Awaiting /\ pc'[s] \in Awaiting \cup {"up"} /\ Told(s)' = Told(s)
  /\ (s \in closed' <=> s \in closed) /\ (s \in sessions' => s \in sessions)
Heard(s) == call[s].kind = "terminal" /\ s \notin aborted' /\ call[s].owner \notin gone'
Rejects(s) ==
  /\ pc[s] \in Awaiting /\ pc'[s] = "failed" /\ s \in closed' /\ s \notin sessions'
  /\ s \notin closed => Live(s)' = {} /\ (Heard(s) => Told(s)' = Told(s) + 1)
  /\ Told(s)' \in {Told(s), Told(s) + 1}
Ends(s) ==
  /\ s \in sessions /\ pc'[s] = pc[s] /\ s \in closed' /\ s \notin sessions' /\ Live(s)' = {}
  /\ pc[s] = "up" \/ (Told(s)' = Told(s) /\ ~Undisturbed(s)') \/ quitting'
  /\ Heard(s) => Told(s)' = Told(s) + 1
  /\ Told(s)' \in {Told(s), Told(s) + 1}

SessionStep(s) == Untouched(s) \/ Starts(s) \/ GoesOn(s) \/ Rejects(s) \/ Ends(s)

\* The count of what a session was told is a number.
LEMMA ToldNat == VariableTypes => \A s \in Sid : Told(s) \in Nat
BY DEF VariableTypes, Told, Event

\* What emitEvent and the catch block add to what a session was told.
LEMMA EmittedValue ==
  ASSUME VariableTypes, NEW S, NEW e \in Event, NEW s \in Sid, sent' = Emitted(sent, S, e)
  PROVE  /\ e \in {"connecting", "connected"} => Told(s)' = Told(s)
         /\ e \in {"error", "hostkey-mismatch", "disconnected"} =>
              Told(s)' = IF s \in S /\ call[s].owner \notin gone THEN Told(s) + 1 ELSE Told(s)
<1>1. \A f \in Event : sent'[<<s, f>>] =
        IF s \in S /\ f = e /\ call[s].owner \notin gone THEN sent[<<s, f>>] + 1 ELSE sent[<<s, f>>]
  BY DEF Emitted
<1>2. \A f \in Event : sent[<<s, f>>] \in Nat
  BY DEF VariableTypes
<1> DEFINE n(f) == IF s \in S /\ f = e /\ call[s].owner \notin gone THEN 1 ELSE 0
<1>3. \A f \in {"error", "hostkey-mismatch", "disconnected"} :
        f \in Event /\ sent'[<<s, f>>] = sent[<<s, f>>] + n(f)
  BY <1>1, <1>2 DEF Event
<1>4. Told(s)' = (sent[<<s, "error">>] + n("error"))
               + (sent[<<s, "hostkey-mismatch">>] + n("hostkey-mismatch"))
               + (sent[<<s, "disconnected">>] + n("disconnected"))
  BY <1>3 DEF Told
<1>5. CASE s \in S /\ call[s].owner \notin gone
  BY <1>2, <1>3, <1>4, <1>5 DEF Told
<1>6. CASE ~(s \in S /\ call[s].owner \notin gone)
  BY <1>2, <1>3, <1>4, <1>6 DEF Told
<1> QED BY <1>5, <1>6

\* ... and the error that the catch block reports.
LEMMA ToldErrorValue ==
  ASSUME VariableTypes, NEW F, NEW mm, NEW ab, NEW s \in Sid, sent' = ToldError(sent, F, mm, ab)
  PROVE  Told(s)' = IF s \in F /\ call[s].kind = "terminal" /\ s \notin mm /\ s \notin ab
                         /\ call[s].owner \notin gone
                    THEN Told(s) + 1 ELSE Told(s)
<1> DEFINE S == {r \in F : call[r].kind = "terminal"} \ (mm \cup ab)
<1>1. sent' = Emitted(sent, S, "error") /\ "error" \in Event
  BY DEF ToldError, Event
<1>2. Told(s)' = IF s \in S /\ call[s].owner \notin gone THEN Told(s) + 1 ELSE Told(s)
  BY <1>1, EmittedValue
<1> QED BY <1>2

\* A teardown ends what is live of the sessions it closes, and starts nothing.
LEMMA TeardownEnds ==
  ASSUME NEW T, NEW cl, Teardown(T, cl), NEW s \in Sid
  PROVE  /\ s \in T => s \in closed' /\ s \notin sessions'
         /\ s \notin T => (s \in closed' <=> s \in closed) /\ (s \in sessions' <=> s \in sessions)
         /\ s \in T /\ s \notin closed => Live(s)' = {}
         /\ (\A l \in Leg : cl[<<s, l>>] \in Dialed => client[<<s, l>>] \in Dialed)
              => Live(s)' \subseteq Live(s)
<1>1. \A l \in Leg : client'[<<s, l>>] =
        IF s \in T /\ s \notin closed /\ cl[<<s, l>>] \in Dialed THEN "ended" ELSE cl[<<s, l>>]
  BY DEF Teardown
<1>2. s \in T /\ s \notin closed => Live(s)' = {}
  BY <1>1 DEF Live, Dialed
<1>3. (\A l \in Leg : cl[<<s, l>>] \in Dialed => client[<<s, l>>] \in Dialed)
              => Live(s)' \subseteq Live(s)
  BY <1>1 DEF Live, Dialed
<1>4. closed' = closed \cup T /\ sessions' = sessions \ T
  BY DEF Teardown
<1> QED BY <1>2, <1>3, <1>4

\* The prompts of X are denied: what becomes of a session in F = SidsOf(X) and
\* of one that is neither rejected nor torn down.
LEMMA DenialSteps ==
  ASSUME VariableTypes, EndInv, NEW T, NEW F, NEW X, NEW ab, NEW s \in Sid,
         Teardown(T, Denied(X)), pc' = Failed(F), aborted \subseteq aborted', ab = aborted',
         sent' = ToldError(sent, F, mismatch, ab), UNCHANGED <<call, gone>>, F \subseteq T,
         \A r \in F : pc[r] \in Awaiting
  PROVE  /\ s \in F => Rejects(s)
         /\ s \notin T => Untouched(s)
<1>1. \A l \in Leg : Denied(X)[<<s, l>>] \in Dialed => client[<<s, l>>] \in Dialed
  BY DeniedValue DEF Dialed
<1>2. pc'[s] = IF s \in F THEN "failed" ELSE pc[s]
  BY DEF Failed
<1>3. Told(s)' = IF s \in F /\ call[s].kind = "terminal" /\ s \notin mismatch /\ s \notin ab
                         /\ call[s].owner \notin gone
                 THEN Told(s) + 1 ELSE Told(s)
  BY ToldErrorValue
<1>4. s \in F => Rejects(s)
  BY <1>2, <1>3, TeardownEnds DEF Rejects, Heard, EndInv
<1>5. s \notin T => Untouched(s)
  BY <1>1, <1>2, <1>3, TeardownEnds DEF Untouched
<1> QED BY <1>4, <1>5

\* One call rejects.
LEMMA RejectStep ==
  ASSUME VariableTypes, EndInv, NEW r \in Sid, NEW cl, Rejected({r}, cl), pc[r] \in Awaiting,
         \A s \in Sid, l \in Leg : s # r => cl[<<s, l>>] = client[<<s, l>>],
         UNCHANGED <<call, gone, aborted>>, NEW s \in Sid
  PROVE  Rejects(s) \/ Untouched(s)
<1>1. pc'[s] = IF s = r THEN "failed" ELSE pc[s]
  BY DEF Rejected, Failed
<1>2. Told(s)' = IF s = r /\ call[s].kind = "terminal" /\ s \notin mismatch /\ s \notin aborted
                         /\ call[s].owner \notin gone
                 THEN Told(s) + 1 ELSE Told(s)
  BY ToldErrorValue DEF Rejected
<1>3. Teardown({r}, cl)
  BY DEF Rejected
<1>4. CASE s = r
  BY <1>1, <1>2, <1>3, <1>4, TeardownEnds DEF Rejects, Heard, EndInv
<1>5. CASE s # r
  BY <1>1, <1>2, <1>3, <1>5, TeardownEnds DEF Untouched
<1> QED BY <1>4, <1>5

\* finish(): what it does to a registered session of T that is up, and to the rest.
LEMMA FinishStep ==
  ASSUME VariableTypes, EndInv, NEW T, NEW cl, NEW type \in {"disconnected", "error"},
         Finish(T, cl, type), \A r \in T : pc[r] = "up",
         \A s \in Sid, l \in Leg : cl[<<s, l>>] \in Dialed => client[<<s, l>>] \in Dialed,
         UNCHANGED <<call, pc, gone, aborted>>, NEW s \in Sid
  PROVE  Ends(s) \/ Untouched(s)
<1>1. /\ Teardown(T \cap sessions, cl) /\ sent' = Emitted(sent, T \cap sessions, type)
      /\ type \in Event
  BY DEF Finish, Event
<1>2. Told(s)' = IF s \in T \cap sessions /\ call[s].owner \notin gone
                 THEN Told(s) + 1 ELSE Told(s)
  BY <1>1, EmittedValue
<1>3. CASE s \in T \cap sessions
  BY <1>1, <1>2, <1>3, TeardownEnds DEF Ends, Heard, EndInv
<1>4. CASE s \notin T \cap sessions
  BY <1>1, <1>2, <1>4, TeardownEnds DEF Untouched
<1> QED BY <1>3, <1>4

\* Flags only go up, a call is asked once, and every session makes one of the
\* five kinds of step.
SessionsStep ==
  /\ closed \subseteq closed' /\ aborted \subseteq aborted' /\ gone \subseteq gone'
  /\ quitting => quitting'
  /\ mismatch' \subseteq closed'
  /\ \A s \in Sid : pc[s] # "idle" => call'[s] = call[s]
  /\ \A s \in Sid : SessionStep(s)

\* Every action of the model, one step per action.
LEMMA NextSessions == TypeOK /\ ChainInv /\ EndInv /\ [Next]_vars => SessionsStep
<1> SUFFICES ASSUME TypeOK, VariableTypes, ChainInv, EndInv, [Next]_vars PROVE SessionsStep
  BY DEF TypeOK
<1> USE DEF SessionStep
<1>1. ASSUME NEW r \in Sid, NEW c \in Calls, Connect(r, c) PROVE SessionsStep
  <2>1. /\ pc[r] = "idle" /\ pc' = [pc EXCEPT ![r] = "auth"]
        /\ call' = [call EXCEPT ![r] = c] /\ sessions' = sessions \cup {r}
        /\ \E v : client' = [client EXCEPT ![<<r, 1>>] = v]
        /\ UNCHANGED <<closed, aborted, mismatch, gone, quitting>>
        /\ sent' \in {sent, [sent EXCEPT ![<<r, "connecting">>] = @ + 1]}
    BY <1>1 DEF Connect
  <2>2. ASSUME NEW s \in Sid PROVE Told(s)' = Told(s)
    BY <2>1 DEF Told, VariableTypes, Event
  <2>3. r \notin closed
    BY <2>1 DEF EndInv
  <2>4. Starts(r)
    BY <2>1, <2>2, <2>3 DEF Starts, VariableTypes
  <2>5. ASSUME NEW s \in Sid, s # r PROVE Untouched(s)
    <3>1. \A l \in Leg : client'[<<s, l>>] = client[<<s, l>>]
      BY <2>1, <2>5 DEF VariableTypes
    <3> QED BY <2>1, <2>2, <2>5, <3>1 DEF Untouched, Live, VariableTypes
  <2> QED BY <2>1, <2>4, <2>5 DEF SessionsStep, EndInv, VariableTypes
<1>2. ASSUME NEW r \in Sid, NEW cl, Rejected({r}, cl), pc[r] \in Awaiting,
             \A s \in Sid, l \in Leg : s # r => cl[<<s, l>>] = client[<<s, l>>],
             UNCHANGED <<call, gone, aborted, mismatch, quitting>>
      PROVE  SessionsStep
  <2>1. \A s \in Sid : Rejects(s) \/ Untouched(s)
    BY <1>2, RejectStep
  <2>2. closed \subseteq closed'
    BY <1>2 DEF Rejected, Teardown
  <2> QED BY <1>2, <2>1, <2>2 DEF SessionsStep, EndInv
<1>3. ASSUME NEW r \in Sid, pc[r] \in Awaiting, NEW v \in Awaiting \cup {"up"},
             pc' = [pc EXCEPT ![r] = v], Told(r)' = Told(r),
             \A s \in Sid : s # r => Told(s)' = Told(s),
             \A s \in Sid, l \in Leg : s # r => client'[<<s, l>>] = client[<<s, l>>],
             UNCHANGED <<call, sessions, closed, aborted, mismatch, gone, quitting>>
      PROVE  SessionsStep
  <2>1. GoesOn(r)
    BY <1>3 DEF GoesOn, VariableTypes
  <2>2. ASSUME NEW s \in Sid, s # r PROVE Untouched(s)
    BY <1>3, <2>2 DEF Untouched, Live, VariableTypes
  <2> QED BY <1>3, <2>1, <2>2 DEF SessionsStep, EndInv
<1>4. ASSUME NEW r \in Sid, AuthReady(r) PROVE SessionsStep
  <2>1. /\ pc[r] = "auth" /\ UNCHANGED <<call, gone, aborted, mismatch, quitting>>
    BY <1>4 DEF AuthReady
  <2>2. CASE Rejected({r}, client)
    BY <2>1, <2>2, <1>2 DEF Awaiting
  <2>3. CASE ~Rejected({r}, client)
    <3>1. /\ client' = [client EXCEPT ![<<r, leg[r]>>] = "dialing"]
          /\ pc' = [pc EXCEPT ![r] = "connect"] /\ UNCHANGED <<sessions, closed, sent>>
      BY <1>4, <2>3 DEF AuthReady, Now
    <3>2. \A s \in Sid, l \in Leg : s # r => client'[<<s, l>>] = client[<<s, l>>]
      BY <3>1 DEF VariableTypes
    <3>3. \A s \in Sid : Told(s)' = Told(s)
      BY <3>1 DEF Told
    <3> QED BY <2>1, <3>1, <3>2, <3>3, <1>3 DEF Awaiting
  <2> QED BY <2>2, <2>3
<1>5. ASSUME NEW r \in Sid, NEW k \in Key, KeyPresented(r, k) PROVE SessionsStep
  <2> DEFINE x == <<r, leg[r]>>
  <2>1. /\ pc[r] = "connect" /\ x \in Sid \X Leg
        /\ UNCHANGED <<call, gone, aborted, quitting>>
    BY <1>5 DEF KeyPresented, Now, VariableTypes
  <2>2. \A s \in Sid, l \in Leg : s # r => Denied({x})[<<s, l>>] = client[<<s, l>>]
    BY DeniedValue
  <2>3. CASE Rejected({r}, Denied({x})) /\ UNCHANGED mismatch
    BY <2>1, <2>2, <2>3, <1>2 DEF Awaiting
  <2>4. CASE \E v : client' = [client EXCEPT ![x] = v]
                    /\ UNCHANGED <<pc, sessions, closed, sent, mismatch>>
    <3>1. \A s \in Sid, l \in Leg : s # r => client'[<<s, l>>] = client[<<s, l>>]
      BY <2>1, <2>4 DEF VariableTypes
    <3>2. \A s \in Sid : Told(s)' = Told(s)
      BY <2>4 DEF Told
    <3>3. pc' = [pc EXCEPT ![r] = "connect"]
      BY <2>1, <2>4 DEF VariableTypes
    <3> QED BY <2>1, <2>4, <3>1, <3>2, <3>3, <1>3 DEF Awaiting
  <2>5. CASE /\ mismatch' = mismatch \cup {r} /\ pc' = [pc EXCEPT ![r] = "failed"]
             /\ sent' = ToldError(Emitted(sent, {r}, "hostkey-mismatch"), {r}, mismatch', aborted)
             /\ Teardown({r}, Denied({x}))
    <3>1. sent' = Emitted(sent, {r}, "hostkey-mismatch") /\ "hostkey-mismatch" \in Event
      <4>1. {s \in {r} : call[s].kind = "terminal"} \ (mismatch' \cup aborted) = {}
        BY <2>5
      <4> QED BY <2>5, <4>1 DEF ToldError, Emitted, Event
    <3>2. \A s \in Sid :
            Told(s)' = IF s \in {r} /\ call[s].owner \notin gone THEN Told(s) + 1 ELSE Told(s)
      BY <3>1, EmittedValue
    <3>3. Rejects(r)
      <4>1. /\ pc'[r] = "failed" /\ r \in closed' /\ r \notin sessions'
            /\ (r \notin closed => Live(r)' = {})
        BY <2>5, TeardownEnds DEF VariableTypes
      <4> QED BY <2>1, <3>2, <4>1 DEF Rejects, Heard, Awaiting
    <3>4. ASSUME NEW s \in Sid, s # r PROVE Untouched(s)
      <4>1. /\ (s \in closed' <=> s \in closed) /\ (s \in sessions' => s \in sessions)
            /\ Live(s)' \subseteq Live(s)
        BY <2>2, <2>5, <3>4, TeardownEnds
      <4>2. pc'[s] = pc[s] /\ Told(s)' = Told(s)
        BY <2>5, <3>2, <3>4 DEF VariableTypes
      <4> QED BY <4>1, <4>2 DEF Untouched
    <3>5. closed \subseteq closed' /\ mismatch' \subseteq closed'
      BY <2>5 DEF Teardown, EndInv
    <3> QED BY <2>1, <3>3, <3>4, <3>5 DEF SessionsStep
  <2> QED BY <1>5, <2>3, <2>4, <2>5 DEF KeyPresented, Now
<1>6. ASSUME NEW x \in Sid \X Leg, x \in pending, PromptDenied(x) PROVE SessionsStep
  <2> DEFINE X == Waiting({x})
  <2>1. \A r \in SidsOf(X) : r \in Sid /\ pc[r] \in Awaiting
    BY DEF SidsOf, Waiting, ChainInv, ReachedLegs, Connecting, Awaiting
  <2>2. /\ Teardown(SidsOf(X), Denied(X)) /\ pc' = Failed(SidsOf(X))
        /\ sent' = ToldError(sent, SidsOf(X), mismatch, aborted)
        /\ UNCHANGED <<call, gone, aborted, mismatch, quitting>>
    BY <1>6 DEF PromptDenied, Rejected
  <2>3. \A s \in Sid : Rejects(s) \/ Untouched(s)
    BY <2>1, <2>2, DenialSteps
  <2>4. closed \subseteq closed'
    BY <2>2 DEF Teardown
  <2> QED BY <2>2, <2>3, <2>4 DEF SessionsStep, EndInv
<1>7. ASSUME NEW x \in Sid \X Leg, RespondAccept(x) PROVE SessionsStep
  <2>1. /\ client' = IF client[x] = "verifying" THEN [client EXCEPT ![x] = "authing"] ELSE client
        /\ UNCHANGED <<call, pc, sessions, aborted, closed, mismatch, sent, gone, quitting>>
    BY <1>7 DEF RespondAccept
  <2>2. ASSUME NEW s \in Sid PROVE Live(s)' \subseteq Live(s)
    BY <2>1 DEF Live, Dialed, VariableTypes
  <2>3. \A s \in Sid : Told(s)' = Told(s)
    BY <2>1 DEF Told
  <2> QED BY <2>1, <2>2, <2>3 DEF Untouched, SessionsStep, EndInv
<1>8. ASSUME NEW r \in Sid, ClientReady(r) PROVE SessionsStep
  <2> DEFINE cl == [client EXCEPT ![<<r, leg[r]>>] = "ready"]
  <2>1. pc[r] = "connect" /\ UNCHANGED <<call, gone, aborted, mismatch, quitting>>
        /\ \A s \in Sid, l \in Leg : s # r => cl[<<s, l>>] = client[<<s, l>>]
    BY <1>8 DEF ClientReady, VariableTypes
  <2>2. CASE Rejected({r}, cl)
    <3>1. pc[r] \in Awaiting
      BY <2>1 DEF Awaiting
    <3> HIDE DEF cl
    <3> QED BY <2>1, <2>2, <3>1, <1>2
  <2>3. CASE ~Rejected({r}, cl)
    <3>1. /\ client' = cl /\ UNCHANGED <<sessions, closed, sent>>
          /\ \E v \in {"forward", "shell", "up"} : pc' = [pc EXCEPT ![r] = v]
      BY <1>8, <2>3 DEF ClientReady, Now
    <3>2. \A s \in Sid : Told(s)' = Told(s)
      BY <3>1 DEF Told
    <3> QED BY <2>1, <3>1, <3>2, <1>3 DEF Awaiting
  <2> QED BY <2>2, <2>3
<1>9. ASSUME NEW r \in Sid, ForwardOpened(r) PROVE SessionsStep
  <2>1. pc[r] = "forward" /\ UNCHANGED <<call, gone, aborted, mismatch, quitting>>
    BY <1>9 DEF ForwardOpened
  <2>2. CASE Rejected({r}, client)
    BY <2>1, <2>2, <1>2 DEF Awaiting
  <2>3. CASE ~Rejected({r}, client)
    <3>1. /\ \E v : client' = [client EXCEPT ![<<r, leg[r] + 1>>] = v]
          /\ pc' = [pc EXCEPT ![r] = "auth"] /\ UNCHANGED <<sessions, closed, sent>>
      BY <1>9, <2>3 DEF ForwardOpened
    <3>2. \A s \in Sid, l \in Leg : s # r => client'[<<s, l>>] = client[<<s, l>>]
      BY <3>1 DEF VariableTypes
    <3>3. \A s \in Sid : Told(s)' = Told(s)
      BY <3>1 DEF Told
    <3> QED BY <2>1, <3>1, <3>2, <3>3, <1>3 DEF Awaiting
  <2> QED BY <2>2, <2>3
<1>10. ASSUME NEW r \in Sid, ShellOpened(r) PROVE SessionsStep
  <2>1. /\ pc[r] = "shell" /\ pc' = [pc EXCEPT ![r] = "up"]
        /\ sent' = Emitted(sent, {r}, "connected") /\ "connected" \in Event
        /\ UNCHANGED <<call, sessions, client, closed, gone, aborted, mismatch, quitting>>
    BY <1>10 DEF ShellOpened, Event
  <2>2. \A s \in Sid : Told(s)' = Told(s)
    BY <2>1, EmittedValue
  <2> QED BY <2>1, <2>2, <1>3 DEF Awaiting
<1>11. ASSUME NEW r \in Sid, StepFails(r) PROVE SessionsStep
  <2> DEFINE cl == IF pc[r] = "connect" THEN Denied({Now(r)}) ELSE client
  <2>1. /\ pc[r] \in Awaiting /\ Rejected({r}, cl)
        /\ UNCHANGED <<call, gone, aborted, mismatch, quitting>>
    BY <1>11 DEF StepFails
  <2>2. \A s \in Sid, l \in Leg : s # r => cl[<<s, l>>] = client[<<s, l>>]
    BY DeniedValue DEF Now
  <2> QED BY <2>1, <2>2, <1>2
<1>12. ASSUME NEW T, NEW cl, NEW type \in {"disconnected", "error"},
              Finish(T, cl, type), \A r \in T : pc[r] = "up",
              \A s \in Sid, l \in Leg : cl[<<s, l>>] \in Dialed => client[<<s, l>>] \in Dialed,
              UNCHANGED <<call, pc, gone, aborted, mismatch, quitting>>
       PROVE  SessionsStep
  <2>1. \A s \in Sid : Ends(s) \/ Untouched(s)
    BY <1>12, FinishStep
  <2>2. closed \subseteq closed'
    BY <1>12 DEF Finish, Teardown
  <2> QED BY <1>12, <2>1, <2>2 DEF SessionsStep, EndInv
<1>13. ASSUME NEW r \in Sid, NEW l \in Leg, NEW type \in {"disconnected", "error"},
              ClientDropped(r, l, type)
       PROVE  SessionsStep
  <2> DEFINE cl == [y \in Sid \X Leg |->
                      IF y[1] = r /\ y[2] >= l /\ client[y] \in Dialed THEN "ended" ELSE client[y]]
             T  == IF r \in connected THEN {r} ELSE {}
  <2>1. Finish(T, cl, type) /\ UNCHANGED <<call, pc, gone, aborted, mismatch, quitting>>
    BY <1>13 DEF ClientDropped
  <2>2. \A s \in Sid, m \in Leg : cl[<<s, m>>] \in Dialed => client[<<s, m>>] \in Dialed
    BY DEF Dialed
  <2>3. \A s \in T : pc[s] = "up"
    BY DEF ChainInv, OpenChains
  <2> QED BY <2>1, <2>2, <2>3, <1>12
<1>14. ASSUME NEW r \in Sid, Disconnect(r) PROVE SessionsStep
  <2>1. /\ Finish({r}, client, "disconnected") /\ pc[r] = "up"
        /\ UNCHANGED <<call, pc, gone, aborted, mismatch, quitting>>
    BY <1>14 DEF Disconnect
  <2> QED BY <2>1, <1>12
<1>15. ASSUME NEW h \in Host, NEW o \in Owner, AbortPendingConnect(h, o) PROVE SessionsStep
  <2> DEFINE X == Waiting(PromptsOf(o))
             hit == {s \in sessions \ connected : call[s].host = h /\ call[s].owner = o}
  <2>1. /\ aborted' = aborted \cup hit /\ pc' = Failed(SidsOf(X))
        /\ sent' = ToldError(sent, SidsOf(X), mismatch, aborted')
        /\ Teardown(hit \cup SidsOf(X), Denied(X))
        /\ UNCHANGED <<call, mismatch, gone, quitting>>
    BY <1>15 DEF AbortPendingConnect
  <2>2. \A r \in SidsOf(X) : r \in Sid /\ pc[r] \in Awaiting
    BY DEF SidsOf, Waiting, PromptsOf, VariableTypes, ChainInv, ReachedLegs, Connecting, Awaiting
  <2>3. ASSUME NEW s \in Sid
        PROVE (s \in SidsOf(X) => Rejects(s)) /\ (s \notin hit \cup SidsOf(X) => Untouched(s))
    BY <2>1, <2>2, DenialSteps
  <2>4. ASSUME NEW s \in Sid, s \in hit, s \notin SidsOf(X) PROVE Ends(s)
    <3>1. s \in sessions /\ s \notin closed /\ s \in aborted'
      BY <2>1, <2>4 DEF EndInv
    <3>2. s \in closed' /\ s \notin sessions' /\ Live(s)' = {}
      BY <2>1, <2>4, <3>1, TeardownEnds
    <3>3. pc'[s] = pc[s]
      BY <2>1, <2>4 DEF Failed
    <3>4. Told(s)' = Told(s)
      BY <2>1, <2>4, ToldErrorValue
    <3> QED BY <3>1, <3>2, <3>3, <3>4 DEF Ends, Heard, Undisturbed
  <2>5. closed \subseteq closed'
    BY <2>1 DEF Teardown
  <2> QED BY <2>1, <2>3, <2>4, <2>5 DEF SessionsStep, EndInv
<1>16. ASSUME NEW T \in SUBSET sessions, NEW P \in SUBSET pending, EndWithPrompts(T, P),
              UNCHANGED <<call, aborted, mismatch>>, gone \subseteq gone', quitting => quitting',
              \A s \in Sid : Told(s)' \in {Told(s), Told(s) + 1},
              \A s \in Sid : s \notin T => Told(s)' = Told(s),
              \A s \in T : \/ quitting' /\ (call[s].owner \notin gone' => Told(s)' = Told(s) + 1)
                           \/ call[s].owner \in gone' /\ Told(s)' = Told(s)
       PROVE  SessionsStep
  <2> DEFINE X == {x \in Waiting(P) : x[1] \in closed}
  <2>1. Teardown(T, Denied(X)) /\ pc' = Failed(SidsOf(X))
    BY <1>16 DEF EndWithPrompts
  <2>2. /\ \A r \in SidsOf(X) : r \in Sid /\ r \in closed /\ pc[r] \in Awaiting
        /\ \A s \in T : s \in Sid /\ s \in sessions /\ s \notin closed
    BY DEF SidsOf, Waiting, VariableTypes, ChainInv, ReachedLegs, Connecting, Awaiting, EndInv
  <2>3. ASSUME NEW s \in Sid, s \in SidsOf(X) PROVE Rejects(s)
    <3>1. s \notin T /\ s \in closed /\ s \in closed' /\ s \notin sessions' /\ pc'[s] = "failed"
      BY <2>1, <2>2, <2>3, TeardownEnds DEF EndInv, Failed
    <3> QED BY <1>16, <2>2, <2>3, <3>1 DEF Rejects
  <2>4. ASSUME NEW s \in T PROVE Ends(s)
    <3>1. s \in Sid /\ s \in closed' /\ s \notin sessions' /\ Live(s)' = {}
      BY <2>1, <2>2, TeardownEnds
    <3>2. pc'[s] = pc[s] /\ call'[s] = call[s]
      BY <1>16, <2>1, <2>2 DEF Failed
    <3> QED BY <1>16, <2>2, <3>1, <3>2 DEF Ends, Heard, Undisturbed
  <2>5. ASSUME NEW s \in Sid, s \notin T, s \notin SidsOf(X) PROVE Untouched(s)
    <3>1. \A l \in Leg : Denied(X)[<<s, l>>] \in Dialed => client[<<s, l>>] \in Dialed
      BY DeniedValue DEF Dialed
    <3> QED BY <1>16, <2>1, <2>5, <3>1, TeardownEnds DEF Untouched, Failed
  <2>6. closed \subseteq closed'
    BY <2>1 DEF Teardown
  <2> QED BY <1>16, <2>3, <2>4, <2>5, <2>6 DEF SessionsStep, EndInv
<1>17. ASSUME NEW o \in Owner, DestroyForOwner(o) PROVE SessionsStep
  <2> DEFINE T == {s \in sessions : call[s].owner = o}
  <2>1. /\ EndWithPrompts(T, PromptsOf(o)) /\ gone' = gone \cup {o}
        /\ UNCHANGED <<call, aborted, mismatch, sent, quitting>>
    BY <1>17 DEF DestroyForOwner
  <2>2. \A s \in Sid : Told(s)' = Told(s)
    BY <2>1 DEF Told
  <2>3. T \in SUBSET sessions /\ PromptsOf(o) \in SUBSET pending
    BY DEF PromptsOf
  <2>4. \A s \in T : s \in Sid /\ call[s].owner \in gone'
    BY <2>1 DEF VariableTypes
  <2> QED BY <2>1, <2>2, <2>3, <2>4, <1>16
<1>18. ASSUME DestroyAll PROVE SessionsStep
  <2>1. /\ EndWithPrompts(sessions, pending) /\ quitting'
        /\ sent' = Emitted(sent, sessions, "disconnected") /\ "disconnected" \in Event
        /\ UNCHANGED <<call, aborted, mismatch, gone>>
    BY <1>18 DEF DestroyAll, Event
  <2>2. \A s \in Sid :
          Told(s)' = IF s \in sessions /\ call[s].owner \notin gone THEN Told(s) + 1 ELSE Told(s)
    BY <2>1, EmittedValue
  <2>3. \A s \in sessions : s \in Sid
    BY DEF VariableTypes
  <2> QED BY <2>1, <2>2, <2>3, <1>16
<1>19. CASE UNCHANGED vars
  <2>1. \A s \in Sid : Untouched(s)
    BY <1>19 DEF vars, Untouched, Told, Live
  <2> QED BY <1>19, <2>1 DEF vars, SessionsStep, EndInv
<1> QED
  BY <1>1, <1>4, <1>5, <1>6, <1>7, <1>8, <1>9, <1>10, <1>11, <1>13, <1>14, <1>15, <1>17,
     <1>18, <1>19
  DEF Next, AwaitStep, PromptStep, EndStep, HostKeyTimeout, RespondDeny, Done

\* Why each kind of step keeps the invariant: the premises of its parts (nobody
\* aborted, the window is there, the app runs) only ever become false.
LEMMA NextOver == TypeOK /\ ChainInv /\ OverInv /\ [Next]_vars => OverInv'
<1> SUFFICES ASSUME VariableTypes, VariableTypes', OverInv, SessionsStep PROVE OverInv'
  BY NextSessions, NextType DEF TypeOK, OverInv
<1>1. ASSUME NEW s \in Sid
      PROVE  /\ SessionStep(s) /\ Told(s) \in Nat
             /\ (Undisturbed(s)' /\ pc[s] # "idle" => Undisturbed(s))
             /\ (s \in closed => pc[s] # "idle")
  <2>1. SessionStep(s) /\ Told(s) \in Nat /\ (s \in closed => pc[s] # "idle")
    BY ToldNat DEF SessionsStep, OverInv, EndInv
  <2>2. Undisturbed(s)' /\ pc[s] # "idle" => Undisturbed(s)
    BY DEF SessionsStep, Undisturbed
  <2> QED BY <2>1, <2>2
<1>2. "idle" \notin Awaiting \cup Settled /\ Awaiting \cap Settled = {}
      /\ "up" \in Settled /\ "failed" \in Settled
  BY DEF Awaiting, Settled
<1>3. EndInv'
  <2>1. mismatch' \subseteq closed'
    BY DEF SessionsStep
  <2>2. ASSUME NEW s \in Sid, s \in closed' \/ s \in sessions'
        PROVE  ~(s \in closed' /\ s \in sessions') /\ pc'[s] # "idle"
    <3> USE <1>1, <1>2, <2>2
    <3>1. CASE Untouched(s)
      BY <3>1 DEF Untouched, OverInv, EndInv
    <3>2. CASE Starts(s)
      BY <3>2 DEF Starts
    <3>3. CASE GoesOn(s)
      BY <3>3 DEF GoesOn, OverInv, EndInv
    <3>4. CASE Rejects(s)
      BY <3>4 DEF Rejects
    <3>5. CASE Ends(s)
      BY <3>5 DEF Ends, OverInv, EndInv
    <3> QED BY <3>1, <3>2, <3>3, <3>4, <3>5 DEF SessionStep
  <2>3. closed' \subseteq Sid /\ sessions' \subseteq Sid
    BY DEF VariableTypes
  <2> QED BY <2>1, <2>2, <2>3 DEF EndInv
<1>4. ClosedAreQuiet'
  <2> SUFFICES ASSUME NEW s \in Sid, s \in closed', Undisturbed(s)'
               PROVE  pc'[s] \in Settled /\ Live(s)' = {}
    BY DEF ClosedAreQuiet, VariableTypes
  <2>1. CASE Untouched(s)
    BY <1>1, <2>1 DEF Untouched, OverInv, ClosedAreQuiet
  <2>2. CASE Starts(s)
    BY <2>2 DEF Starts
  <2>3. CASE GoesOn(s)
    BY <1>1, <1>2, <2>3 DEF GoesOn, OverInv, ClosedAreQuiet
  <2>4. CASE Rejects(s)
    BY <1>1, <1>2, <2>4 DEF Rejects, OverInv, ClosedAreQuiet
  <2>5. CASE Ends(s)
    BY <1>2, <2>5 DEF Ends, Undisturbed
  <2> QED BY <1>1, <2>1, <2>2, <2>3, <2>4, <2>5 DEF SessionStep
<1>5. Untold'
  <2> SUFFICES ASSUME ~quitting', NEW s \in Sid, s \notin closed' \/ pc'[s] \in Awaiting
               PROVE  Told(s)' = 0
    BY DEF Untold
  <2>1. ~quitting
    BY DEF SessionsStep
  <2>2. CASE Untouched(s)
    BY <2>1, <2>2 DEF Untouched, OverInv, Untold
  <2>3. CASE Starts(s)
    BY <1>1, <2>1, <2>3 DEF Starts, OverInv, Untold
  <2>4. CASE GoesOn(s)
    BY <2>1, <2>4 DEF GoesOn, OverInv, Untold
  <2>5. CASE Rejects(s)
    BY <1>2, <2>5 DEF Rejects
  <2>6. CASE Ends(s)
    BY <1>2, <2>1, <2>6 DEF Ends, OverInv, EndInv, Untold
  <2> QED BY <1>1, <2>2, <2>3, <2>4, <2>5, <2>6 DEF SessionStep
<1>6. EndToldOnce'
  <2> SUFFICES ASSUME NEW s \in Sid
               PROVE  /\ ~quitting' => Told(s)' <= 1
                      /\ s \in closed' /\ call'[s].kind = "terminal" /\ s \notin aborted'
                           /\ call'[s].owner \notin gone' => Told(s)' >= 1
    BY DEF EndToldOnce, Told
  <2>1. /\ ~quitting' => ~quitting /\ Told(s) <= 1
        /\ ~quitting' /\ (s \notin closed \/ pc[s] \in Awaiting) => Told(s) = 0
    BY DEF SessionsStep, OverInv, EndToldOnce, Told, Untold
  <2>2. s \in closed /\ call'[s].kind = "terminal" /\ s \notin aborted'
          /\ call'[s].owner \notin gone' => Told(s) >= 1
    BY <1>1 DEF SessionsStep, OverInv, EndToldOnce, Told
  <2>3. pc[s] # "idle" => call'[s] = call[s]
    BY DEF SessionsStep
  <2>4. CASE Untouched(s)
    BY <1>1, <2>1, <2>2, <2>4 DEF Untouched
  <2>5. CASE Starts(s)
    BY <1>1, <2>1, <2>2, <2>5 DEF Starts, OverInv, EndInv
  <2>6. CASE GoesOn(s)
    BY <1>1, <2>1, <2>2, <2>6 DEF GoesOn
  <2>7. CASE Rejects(s)
    <3>1. ~quitting' => Told(s)' <= 1
      BY <1>1, <2>1, <2>7 DEF Rejects
    <3>2. s \in closed => Told(s)' >= Told(s)
      BY <1>1, <2>7 DEF Rejects
    <3>3. s \notin closed /\ Heard(s) => Told(s)' >= 1
      BY <1>1, <2>7 DEF Rejects
    <3>4. call'[s] = call[s]
      BY <1>2, <2>3, <2>7 DEF Rejects
    <3> QED BY <1>1, <2>2, <2>7, <3>1, <3>2, <3>3, <3>4 DEF Heard, Rejects
  <2>8. CASE Ends(s)
    <3>1. s \notin closed /\ pc[s] # "idle" /\ call'[s] = call[s]
      BY <2>3, <2>8 DEF Ends, OverInv, EndInv
    <3>2. ~quitting' => Told(s)' <= 1
      BY <1>1, <2>1, <2>8, <3>1 DEF Ends
    <3> QED BY <1>1, <2>8, <3>1, <3>2 DEF Ends, Heard
  <2> QED BY <1>1, <2>4, <2>5, <2>6, <2>7, <2>8 DEF SessionStep
<1> QED BY <1>3, <1>4, <1>5, <1>6 DEF OverInv

\* Nothing is over at the start.
LEMMA InitOver == Init => OverInv
<1>1. Init => EndInv /\ ClosedAreQuiet
  BY DEF Init, EndInv, ClosedAreQuiet
<1>2. Init => Untold
  BY DEF Init, Untold, Told, Event
<1>3. Init => EndToldOnce
  <2> SUFFICES ASSUME Init, NEW s \in Sid
               PROVE  /\ Told(s) <= 1
                      /\ s \notin closed
    BY DEF EndToldOnce, Told
  <2>1. Told(s) = 0
    BY DEF Init, Told, Event
  <2> QED BY <2>1 DEF Init
<1> QED BY <1>1, <1>2, <1>3 DEF OverInv

\* The strengthened invariant of the ends.
THEOREM EndsInvariant == Spec => [](TypeOK /\ ChainInv /\ OverInv)
<1>1. Init => TypeOK /\ ChainInv /\ OverInv
  BY InitType, InitChains, InitOver
<1>2. TypeOK /\ ChainInv /\ OverInv /\ [Next]_vars => (TypeOK /\ ChainInv /\ OverInv)'
  BY NextType, NextChains, NextOver
<1> QED BY <1>1, <1>2, PTL DEF Spec

\* However its connect, its prompts and the deaths of its clients interleave, a
\* session that ends by itself or by its user leaves no ssh2 client running on
\* any leg of its route.
THEOREM NoClientLeft == Spec => []NoOrphanedClient
<1>1. OverInv => NoOrphanedClient
  BY DEF OverInv, ClosedAreQuiet, Undisturbed, NoOrphanedClient
<1> QED BY <1>1, EndsInvariant, PTL

\* The catch block, verifyHostKey and finish never tell a terminal of the same
\* end twice, and never leave it untold.
THEOREM EndIsTold == Spec => []EndToldOnce
<1>1. OverInv => EndToldOnce
  BY DEF OverInv
<1> QED BY <1>1, EndsInvariant, PTL

\* No step registers a closed session again or settles a connect twice.
THEOREM OverOnce == Spec => NeverRevived
<1>1. TypeOK /\ ChainInv /\ OverInv /\ [Next]_vars =>
        [\A s \in Sid :
           /\ s \in closed => s \in closed' /\ s \notin sessions'
           /\ pc[s] \in Settled => pc'[s] = pc[s]]_vars
  <2> SUFFICES ASSUME TypeOK, ChainInv, OverInv, [Next]_vars, NEW s \in Sid
               PROVE  /\ s \in closed => s \in closed' /\ s \notin sessions'
                      /\ pc[s] \in Settled => pc'[s] = pc[s]
    OBVIOUS
  <2>1. SessionsStep /\ EndInv'
    BY NextSessions, NextOver DEF OverInv
  <2>2. s \in closed => s \in closed' /\ s \notin sessions'
    BY <2>1 DEF SessionsStep, EndInv
  <2>3. pc[s] \in Settled => pc'[s] = pc[s]
    BY <2>1 DEF SessionsStep, SessionStep, Untouched, Starts, GoesOn, Rejects, Ends, Settled,
                Awaiting
  <2> QED BY <2>2, <2>3
<1> QED BY <1>1, EndsInvariant, PTL DEF Spec, NeverRevived

-----------------------------------------------------------------------------
(* The known_hosts table                                                    *)

\* INSERT ... ON CONFLICT DO NOTHING keeps one key per algorithm.
LEMMA PersistKeepsOne ==
  ASSUME VariableTypes, OneTrustedKeyPerType, NEW e, NEW k
  PROVE  \A f \in Endpoint : \A j1, j2 \in persistKnownHost(e, k)[f] :
           KeyType[j1] = KeyType[j2] => j1 = j2
<1>1. CASE \E t \in known[e] : KeyType[t] = KeyType[k]
  BY <1>1 DEF OneTrustedKeyPerType, persistKnownHost
<1>2. CASE ~\E t \in known[e] : KeyType[t] = KeyType[k]
  <2>1. persistKnownHost(e, k) = [known EXCEPT ![e] = known[e] \cup {k}]
    BY <1>2 DEF persistKnownHost
  <2>2. ASSUME NEW f \in Endpoint, f # e PROVE persistKnownHost(e, k)[f] = known[f]
    BY <2>1, <2>2 DEF VariableTypes
  <2>3. e \in Endpoint => persistKnownHost(e, k)[e] = known[e] \cup {k}
    BY <2>1 DEF VariableTypes
  <2> QED BY <1>2, <2>2, <2>3 DEF OneTrustedKeyPerType
<1> QED BY <1>1, <1>2

\* However many prompts for one server are answered, in whatever order, at most
\* one key of each algorithm is trusted for it.
THEOREM OneKeyPerType == Spec => []OneTrustedKeyPerType
<1>1. Init => OneTrustedKeyPerType
  BY DEF Init, OneTrustedKeyPerType
<1>2. TypeOK /\ OneTrustedKeyPerType /\ [Next]_vars => OneTrustedKeyPerType'
  <2> SUFFICES ASSUME VariableTypes, OneTrustedKeyPerType, [Next]_vars
               PROVE  OneTrustedKeyPerType'
    BY DEF TypeOK
  <2>1. known' = known \/ \E x \in Sid \X Leg : RespondAccept(x)
    BY DEF Next, vars, Connect, AwaitStep, AuthReady, KeyPresented, ClientReady, ForwardOpened,
           ShellOpened, StepFails, PromptStep, HostKeyTimeout, RespondDeny, PromptDenied,
           EndStep, Disconnect, ClientDropped, AbortPendingConnect, DestroyForOwner,
           DestroyAll, Done
  <2>2. ASSUME NEW x \in Sid \X Leg, RespondAccept(x) PROVE OneTrustedKeyPerType'
    BY <2>2, PersistKeepsOne DEF RespondAccept, OneTrustedKeyPerType
  <2>3. CASE known' = known
    BY <2>3 DEF OneTrustedKeyPerType
  <2> QED BY <2>1, <2>2, <2>3
<1> QED BY <1>1, <1>2, TypeCorrect, PTL DEF Spec

=============================================================================
