---------------------------- MODULE SshSessions ----------------------------
(***************************************************************************)
(* The SSH session manager of the main process                             *)
(* (src/src/main/ssh/session-manager.ts): how a connection through a chain  *)
(* of jump hosts is established, verified against known_hosts, handed to   *)
(* its caller, aborted by the user and torn down.                          *)
(*                                                                         *)
(* The main process is one event loop, so the code between two awaits is   *)
(* one atomic step.  A call in flight is suspended in one of four awaits:  *)
(*   "auth"     buildAuthMaterial  (reads a private key from disk)         *)
(*   "connect"  connectClient      (TCP, key exchange, user auth)          *)
(*   "forward"  forwardOut         (opens the tunnel to the next leg)      *)
(*   "shell"    openShell          (terminal sessions only)                *)
(* and everything else -- replies of the servers, the user's answers,      *)
(* timers, closing windows -- may happen while it is.                      *)
(***************************************************************************)
EXTENDS Naturals, Sequences

CONSTANTS
  Sid,       \* connect() / connectDedicated() calls; each makes one session
  Owner,     \* renderer windows (WebContents)
  Host,      \* vault hosts
  Endpoint,  \* (hostname, port) pairs; known_hosts is keyed by them
  Key,       \* host keys a server may present
  KeyType,   \* the algorithm of each key
  Route,     \* per host, the endpoints of its jump hops and, last, its own
  MaxLegs,   \* longest route
  Calls,     \* the connect calls the environment may make
  NoCall,    \* "not called yet"
  NoKey      \* "no key presented yet"

Call == [host : Host, owner : Owner, kind : {"terminal", "dedicated"},
         prompts : BOOLEAN]

ASSUME SessionAssumption ==
  /\ MaxLegs \in Nat \ {0}
  /\ Route \in [Host -> Seq(Endpoint)]
  /\ \A h \in Host : Len(Route[h]) \in 1..MaxLegs
  /\ Calls \subseteq Call
  /\ \A c \in Calls : c.kind = "terminal" => c.prompts
  /\ NoCall \notin Call
  /\ NoKey \notin Key

VARIABLES
  call,      \* what each call asked for
  pc,        \* where each call is suspended, or how it settled
  leg,       \* the leg of the route it is working on
  sessions,  \* the map of registered sessions
  connected, aborted, closed, mismatch,  \* the flags of each session, as sets
  client,    \* the ssh2 client of each leg
  key,       \* the host key each client was shown
  accepted,  \* the legs whose key the user accepted in a prompt
  pending,   \* legs with a host-key prompt in pendingHostKey
  known,     \* the known_hosts table
  sent,      \* lifecycle events sent to the renderer, counted
  gone,      \* destroyed owners
  quitting   \* destroyAll() has run

vars == <<call, pc, leg, sessions, connected, aborted, closed, mismatch,
          client, key, accepted, pending, known, sent, gone, quitting>>

Awaiting  == {"auth", "connect", "forward", "shell"}
Settled   == {"up", "failed"}
ClientState == {"none", "new", "dialing", "verifying", "authing", "ready", "ended"}
Dialed    == {"dialing", "verifying", "authing", "ready"}  \* has a socket
Event     == {"connecting", "connected", "disconnected", "error", "hostkey-mismatch"}
Leg       == 1..MaxLegs

RouteOf(s)     == Route[call[s].host]
LastLeg(s)     == Len(RouteOf(s))
EndpointOf(x)  == RouteOf(x[1])[x[2]]
Now(s)         == <<s, leg[s]>>

\* A leg talks through the tunnels of the legs before it.
PathUp(s) == \A l \in 1..(leg[s] - 1) : client[<<s, l>>] = "ready"

Init ==
  /\ call = [s \in Sid |-> NoCall]
  /\ pc = [s \in Sid |-> "idle"]
  /\ leg = [s \in Sid |-> 1]
  /\ sessions = {} /\ connected = {} /\ aborted = {} /\ closed = {} /\ mismatch = {}
  /\ client = [x \in Sid \X Leg |-> "none"]
  /\ key = [x \in Sid \X Leg |-> NoKey]
  /\ accepted = {} /\ pending = {}
  /\ known = [e \in Endpoint |-> {}]
  /\ sent = [x \in Sid \X Event |-> 0]
  /\ gone = {} /\ quitting = FALSE

-----------------------------------------------------------------------------
(* Helpers of the code: emitEvent, teardown, classifyHostKey and the INSERT *)

\* emitEvent for each session of S; a destroyed window receives nothing.
Emitted(counts, S, e) ==
  [x \in Sid \X Event |->
     IF x[1] \in S /\ x[2] = e /\ call[x[1]].owner \notin gone
     THEN counts[x] + 1 ELSE counts[x]]

\* teardown of each session of T over the clients cl: once per session.  A
\* client that has not dialled yet has no socket to end.
Teardown_TargetOnly(T, cl) ==   \* mutant: the jump chain is not ended
  /\ closed' = closed \cup T
  /\ sessions' = sessions \ T
  /\ client' = [x \in Sid \X Leg |->
                  IF x[1] \in T \ closed /\ cl[x] \in Dialed /\ x[2] = LastLeg(x[1])
                  THEN "ended" ELSE cl[x]]
Teardown_StaysRegistered(T, cl) ==   \* mutant: the map entry is not deleted
  /\ closed' = closed \cup T
  /\ UNCHANGED sessions
  /\ client' = [x \in Sid \X Leg |->
                  IF x[1] \in T \ closed /\ cl[x] \in Dialed THEN "ended" ELSE cl[x]]
Teardown(T, cl) ==
  /\ closed' = closed \cup T
  /\ sessions' = sessions \ T
  /\ client' = [x \in Sid \X Leg |->
                  IF x[1] \in T \ closed /\ cl[x] \in Dialed THEN "ended" ELSE cl[x]]

\* The catch block of connect() / connectDedicated(): each session of F rejects,
\* and those not aborted or reported already are told so.
Failed(F) == [s \in Sid |-> IF s \in F THEN "failed" ELSE pc[s]]

ToldError_MismatchToo(counts, F, mm, ab) ==   \* mutant: mismatchEmitted ignored
  Emitted(counts, {s \in F : call[s].kind = "terminal"} \ ab, "error")
ToldError(counts, F, mm, ab) ==
  Emitted(counts, {s \in F : call[s].kind = "terminal"} \ (mm \cup ab), "error")

Rejected(F, cl) ==
  /\ pc' = Failed(F)
  /\ sent' = ToldError(sent, F, mismatch, aborted)
  /\ Teardown(F, cl)

\* verify(false): ssh2 fails the handshake of the clients that wait for it.
Denied(X) == [x \in Sid \X Leg |-> IF x \in X THEN "ended" ELSE client[x]]
Waiting(X) == {x \in X : client[x] = "verifying"}
SidsOf(X) == {x[1] : x \in X}

classifyHostKey(trusted, k) ==
  IF k \in trusted THEN "match"
  ELSE IF \E t \in trusted : KeyType[t] = KeyType[k] THEN "mismatch"
  ELSE IF trusted # {} THEN "changed" ELSE "unknown"

\* INSERT ... ON CONFLICT DO NOTHING under UNIQUE (host, port, key_type).
persistKnownHost_Always(e, k) == [known EXCEPT ![e] = @ \cup {k}]   \* mutant: no conflict
persistKnownHost(e, k) ==
  IF \E t \in known[e] : KeyType[t] = KeyType[k] THEN known
  ELSE [known EXCEPT ![e] = @ \cup {k}]

-----------------------------------------------------------------------------
(* The connect path *)

\* connect() / connectDedicated() up to its first await.  Only a target is
\* pushed on session.clients before its auth material is read.
Connect(s, c) ==
  /\ pc[s] = "idle" /\ c.owner \notin gone /\ ~quitting
  /\ call' = [call EXCEPT ![s] = c]
  /\ pc' = [pc EXCEPT ![s] = "auth"]
  /\ leg' = [leg EXCEPT ![s] = 1]
  /\ sessions' = sessions \cup {s}
  /\ client' = [client EXCEPT ![<<s, 1>>] = IF Len(Route[c.host]) = 1 THEN "new" ELSE "none"]
  /\ sent' = IF c.kind = "terminal" THEN [sent EXCEPT ![<<s, "connecting">>] = @ + 1]
             ELSE sent
  /\ UNCHANGED <<connected, aborted, closed, mismatch, key, accepted, pending, known,
                 gone, quitting>>

\* buildAuthMaterial resolves.  The target checks for an abort, a hop does not.
AuthReady(s) ==
  /\ pc[s] = "auth"
  /\ IF leg[s] = LastLeg(s) /\ s \in aborted
     THEN Rejected({s}, client)
     ELSE /\ client' = [client EXCEPT ![Now(s)] = "dialing"]
          /\ pc' = [pc EXCEPT ![s] = "connect"]
          /\ UNCHANGED <<sessions, closed, sent>>
  /\ UNCHANGED <<call, leg, connected, aborted, mismatch, key, accepted, pending,
                 known, gone, quitting>>

\* Batch automation (promptHostKey: false) never prompts.
MayPrompt(s) == call[s].prompts

\* The server shows its key: verifyHostKey.
KeyPresented(s, k) ==
  LET x       == Now(s)
      verdict == classifyHostKey(known[EndpointOf(x)], k)
  IN
  /\ pc[s] = "connect" /\ client[x] = "dialing" /\ PathUp(s)
  /\ key' = [key EXCEPT ![x] = k]
  /\ \/ /\ verdict = "match"
        /\ client' = [client EXCEPT ![x] = "authing"]
        /\ UNCHANGED <<pc, sessions, closed, mismatch, pending, sent>>
     \/ /\ verdict = "mismatch"
        /\ mismatch' = mismatch \cup {s}
        /\ pc' = [pc EXCEPT ![s] = "failed"]
        /\ sent' = ToldError(Emitted(sent, {s}, "hostkey-mismatch"), {s}, mismatch', aborted)
        /\ Teardown({s}, Denied({x}))
        /\ UNCHANGED pending
     \/ /\ verdict \in {"changed", "unknown"} /\ ~MayPrompt(s)
        /\ Rejected({s}, Denied({x}))
        /\ UNCHANGED <<mismatch, pending>>
     \/ /\ verdict \in {"changed", "unknown"} /\ MayPrompt(s)
        /\ pending' = pending \cup {x}
        /\ IF call[s].owner \in gone          \* owner.send throws: deny
           THEN Rejected({s}, Denied({x}))
           ELSE /\ client' = [client EXCEPT ![x] = "verifying"]
                /\ UNCHANGED <<pc, sessions, closed, sent>>
        /\ UNCHANGED mismatch
  /\ UNCHANGED <<call, leg, connected, aborted, accepted, known, gone, quitting>>

\* A prompt is answered no (by its user or its timer).  The answer reaches the
\* connection only while that still waits for it.
PromptDenied(x) ==
  /\ pending' = pending \ {x}
  /\ Rejected(SidsOf(Waiting({x})), Denied(Waiting({x})))
  /\ UNCHANGED <<call, leg, connected, aborted, mismatch, key, accepted, known, gone,
                 quitting>>

HostKeyTimeout_Accepts(x) ==   \* mutant: the timer calls verify(true)
  /\ x \in pending
  /\ pending' = pending \ {x}
  /\ client' = IF client[x] = "verifying" THEN [client EXCEPT ![x] = "authing"] ELSE client
  /\ UNCHANGED <<call, pc, leg, sessions, connected, aborted, closed, mismatch, key,
                 accepted, known, sent, gone, quitting>>
HostKeyTimeout(x) == x \in pending /\ PromptDenied(x)

RespondDeny(x) ==
  /\ x \in pending /\ call[x[1]].owner \notin gone
  /\ PromptDenied(x)

\* The user accepts: the key is persisted, then the handshake goes on.
RespondAccept(x) ==
  /\ x \in pending /\ call[x[1]].owner \notin gone
  /\ pending' = pending \ {x}
  /\ accepted' = accepted \cup {x}
  /\ known' = persistKnownHost(EndpointOf(x), key[x])
  /\ client' = IF client[x] = "verifying" THEN [client EXCEPT ![x] = "authing"] ELSE client
  /\ UNCHANGED <<call, pc, leg, sessions, connected, aborted, closed, mismatch, key,
                 sent, gone, quitting>>

\* 'ready': a hop goes on to forwardOut, a terminal to its shell, and a
\* dedicated connection is done.
ClientReady_OneHopTooMany(s) ==   \* mutant: the target is taken for a hop
  /\ pc[s] = "connect" /\ client[Now(s)] = "authing" /\ PathUp(s)
  /\ client' = [client EXCEPT ![Now(s)] = "ready"]
  /\ pc' = [pc EXCEPT ![s] = "forward"]
  /\ UNCHANGED <<call, leg, sessions, connected, aborted, closed, mismatch, key, accepted,
                 pending, known, sent, gone, quitting>>
ClientReady(s) ==
  /\ pc[s] = "connect" /\ client[Now(s)] = "authing" /\ PathUp(s)
  /\ LET cl == [client EXCEPT ![Now(s)] = "ready"]
     IN IF leg[s] = LastLeg(s) /\ s \in aborted
        THEN Rejected({s}, cl) /\ UNCHANGED connected
        ELSE /\ client' = cl
             /\ pc' = [pc EXCEPT ![s] = IF leg[s] # LastLeg(s) THEN "forward"
                                        ELSE IF call[s].kind = "terminal" THEN "shell"
                                        ELSE "up"]
             /\ connected' = IF leg[s] = LastLeg(s) /\ call[s].kind = "dedicated"
                             THEN connected \cup {s} ELSE connected
             /\ UNCHANGED <<sessions, closed, sent>>
  /\ UNCHANGED <<call, leg, aborted, mismatch, key, accepted, pending, known, gone,
                 quitting>>

\* forwardOut opened the stream to the next leg.  Only the target is preceded
\* by assertNotAborted.
ForwardOpened(s) ==
  /\ pc[s] = "forward" /\ client[Now(s)] = "ready" /\ PathUp(s)
  /\ LET target == leg[s] + 1 = LastLeg(s)
     IN IF target /\ s \in aborted
        THEN Rejected({s}, client) /\ UNCHANGED leg
        ELSE /\ leg' = [leg EXCEPT ![s] = @ + 1]
             /\ pc' = [pc EXCEPT ![s] = "auth"]
             /\ client' = [client EXCEPT ![<<s, leg[s] + 1>>] = IF target THEN "new" ELSE "none"]
             /\ UNCHANGED <<sessions, closed, sent>>
  /\ UNCHANGED <<call, connected, aborted, mismatch, key, accepted, pending, known,
                 gone, quitting>>

\* openShell resolved: the session is up.
ShellOpened(s) ==
  /\ pc[s] = "shell" /\ client[Now(s)] = "ready" /\ PathUp(s)
  /\ pc' = [pc EXCEPT ![s] = "up"]
  /\ connected' = connected \cup {s}
  /\ sent' = Emitted(sent, {s}, "connected")
  /\ UNCHANGED <<call, leg, sessions, aborted, closed, mismatch, client, key, accepted,
                 pending, known, gone, quitting>>

\* The await rejects: unreadable key file; connection error, close or
\* readyTimeout; refused forward; refused shell.
StepFails_NotConnect(s) ==   \* mutant: connectClient has no 'close' listener
  /\ pc[s] \in Awaiting /\ (pc[s] = "connect" => client[Now(s)] # "ended")
  /\ Rejected({s}, IF pc[s] = "connect" THEN Denied({Now(s)}) ELSE client)
  /\ UNCHANGED <<call, leg, connected, aborted, mismatch, key, accepted, pending, known,
                 gone, quitting>>
StepFails(s) ==
  /\ pc[s] \in Awaiting
  /\ Rejected({s}, IF pc[s] = "connect" THEN Denied({Now(s)}) ELSE client)
  /\ UNCHANGED <<call, leg, connected, aborted, mismatch, key, accepted, pending, known,
                 gone, quitting>>

-----------------------------------------------------------------------------
(* The end of a session *)

\* finish('disconnected' | 'error') of every registered session of T.
Finish(T, cl, type) ==
  /\ sent' = Emitted(sent, T \cap sessions, type)
  /\ Teardown(T \cap sessions, cl)

\* A ready client dies, and with it every leg tunnelled through it.  Only an
\* established session listens; a connect in flight notices at its await.
ClientDropped_HopUnheard(s, l, type) ==   \* mutant: hops have no listeners
  LET cl == [x \in Sid \X Leg |->
               IF x[1] = s /\ x[2] >= l /\ client[x] \in Dialed THEN "ended" ELSE client[x]]
  IN
  /\ client[<<s, l>>] = "ready"
  /\ Finish(IF s \in connected /\ l = LastLeg(s) THEN {s} ELSE {}, cl, type)
  /\ UNCHANGED <<call, pc, leg, connected, aborted, mismatch, key, accepted, pending,
                 known, gone, quitting>>
ClientDropped(s, l, type) ==
  LET cl == [x \in Sid \X Leg |->
               IF x[1] = s /\ x[2] >= l /\ client[x] \in Dialed THEN "ended" ELSE client[x]]
  IN
  /\ client[<<s, l>>] = "ready"
  /\ Finish(IF s \in connected THEN {s} ELSE {}, cl, type)
  /\ UNCHANGED <<call, pc, leg, connected, aborted, mismatch, key, accepted, pending,
                 known, gone, quitting>>

\* disconnect(): its callers hold the id once their connect has resolved.
Disconnect(s) ==
  /\ s \in sessions /\ pc[s] = "up" /\ call[s].owner \notin gone
  /\ Finish({s}, client, "disconnected")
  /\ UNCHANGED <<call, pc, leg, connected, aborted, mismatch, key, accepted, pending,
                 known, gone, quitting>>

PromptsOf(o) == {x \in pending : call[x[1]].owner = o}

\* abortPendingConnect(): every prompt of the owner is denied, then the matching
\* sessions are torn down.  A connect whose prompt was denied rejects.
AbortPendingConnect(h, o) ==
  LET hit    == {s \in sessions \ connected : call[s].host = h /\ call[s].owner = o}
      denied == Waiting(PromptsOf(o))
  IN
  /\ o \notin gone /\ hit # {}
  /\ aborted' = aborted \cup hit
  /\ pending' = pending \ PromptsOf(o)
  /\ pc' = Failed(SidsOf(denied))
  /\ sent' = ToldError(sent, SidsOf(denied), mismatch, aborted \cup hit)
  /\ Teardown(hit \cup SidsOf(denied), Denied(denied))
  /\ UNCHANGED <<call, leg, connected, mismatch, key, accepted, known, gone, quitting>>

\* What destroyForOwner() and destroyAll() do once the sessions of T are torn
\* down: every prompt of P is denied.  Only a connect that went on after an
\* earlier teardown still has a client waiting for that answer.
EndWithPrompts(T, P) ==
  LET late == {x \in Waiting(P) : x[1] \in closed}
  IN
  /\ Teardown(T, Denied(late))
  /\ pending' = pending \ P
  /\ pc' = Failed(SidsOf(late))

\* The window is destroyed: destroyForOwner(); no event reaches it any more.
DestroyForOwner(o) ==
  /\ o \notin gone
  /\ gone' = gone \cup {o}
  /\ EndWithPrompts({s \in sessions : call[s].owner = o}, PromptsOf(o))
  /\ UNCHANGED <<call, leg, connected, aborted, mismatch, key, accepted, known, sent,
                 quitting>>

\* before-quit: destroyAll().
DestroyAll ==
  /\ ~quitting /\ quitting' = TRUE
  /\ sent' = Emitted(sent, sessions, "disconnected")
  /\ EndWithPrompts(sessions, pending)
  /\ UNCHANGED <<call, leg, connected, aborted, mismatch, key, accepted, known, gone>>

\* Every call has settled and every window is gone: nothing is left to happen.
Done ==
  /\ \A s \in Sid : pc[s] \notin Awaiting
  /\ pending = {}
  /\ Owner \subseteq gone \/ quitting
  /\ UNCHANGED vars

-----------------------------------------------------------------------------
borrowClient(h, o) ==
  {s \in sessions \cap connected : call[s].host = h /\ call[s].owner = o /\ s \notin closed}

\* One await of the call ends, one way or the other.
AwaitStep(s) ==
  \/ AuthReady(s) \/ ClientReady(s) \/ ForwardOpened(s) \/ ShellOpened(s) \/ StepFails(s)
  \/ \E k \in Key : KeyPresented(s, k)

PromptStep(x) == HostKeyTimeout(x) \/ RespondDeny(x) \/ RespondAccept(x)

EndStep ==
  \/ \E s \in Sid : Disconnect(s)
  \/ \E s \in Sid, l \in Leg, type \in {"disconnected", "error"} : ClientDropped(s, l, type)
  \/ \E h \in Host, o \in Owner : AbortPendingConnect(h, o)
  \/ \E o \in Owner : DestroyForOwner(o)
  \/ DestroyAll

Next ==
  \/ \E s \in Sid, c \in Calls : Connect(s, c)
  \/ \E s \in Sid : AwaitStep(s)
  \/ \E x \in Sid \X Leg : PromptStep(x)
  \/ EndStep
  \/ Done

Spec == Init /\ [][Next]_vars

\* What the runtime does by itself: file reads finish, connections answer or
\* time out (READY_TIMEOUT_MS, keepalives), prompts time out.
Fairness ==
  /\ \A s \in Sid : WF_vars(AwaitStep(s))
  /\ \A x \in Sid \X Leg : WF_vars(HostKeyTimeout(x))

FairSpec == Spec /\ Fairness

-----------------------------------------------------------------------------
(* Properties *)

VariableTypes ==
  /\ call \in [Sid -> Calls \cup {NoCall}]
  /\ pc \in [Sid -> Awaiting \cup Settled \cup {"idle"}]
  /\ leg \in [Sid -> Leg]
  /\ sessions \in SUBSET Sid /\ connected \in SUBSET Sid /\ aborted \in SUBSET Sid
  /\ closed \in SUBSET Sid /\ mismatch \in SUBSET Sid
  /\ client \in [Sid \X Leg -> ClientState]
  /\ key \in [Sid \X Leg -> Key \cup {NoKey}]
  /\ accepted \in SUBSET (Sid \X Leg) /\ pending \in SUBSET (Sid \X Leg)
  /\ known \in [Endpoint -> SUBSET Key]
  /\ sent \in [Sid \X Event -> Nat]
  /\ gone \in SUBSET Owner /\ quitting \in BOOLEAN

\* A started call works on a leg of its route and forwards from its hops only; a
\* prompt is about a key shown on a leg its call has reached.
LegsInRoute ==
  \A s \in Sid : pc[s] # "idle" =>
    /\ call[s] \in Calls /\ leg[s] <= LastLeg(s)
    /\ pc[s] = "forward" => leg[s] # LastLeg(s)
    /\ pc[s] \in {"shell", "up"} => leg[s] = LastLeg(s)
PromptsShown ==
  \A s \in Sid, l \in Leg :
    <<s, l>> \in pending => pc[s] # "idle" /\ l <= leg[s] /\ key[<<s, l>>] \in Key

TypeOK == VariableTypes /\ LegsInRoute /\ PromptsShown

Live(s) == {l \in Leg : client[<<s, l>>] \in Dialed}

\* What borrowClient() hands to a tunnel, an SFTP or a VNC session is a target
\* whose whole jump chain is up (session-manager.ts 334-351: no connected,
\* registered session sits on a dead or half-built chain).
BorrowedIsLive ==
  \A h \in Host, o \in Owner : \A s \in borrowClient(h, o) :
    pc[s] = "up" /\ Live(s) = 1..LastLeg(s)

\* A session that ends by itself, by its user after it came up, or because its
\* own connect failed leaves no ssh2 client running (teardown, 751-774).
NoOrphanedClient ==
  \A s \in closed :
    pc[s] \in Settled /\ s \notin aborted /\ call[s].owner \notin gone /\ ~quitting
      => Live(s) = {}

\* While the app runs, a terminal whose session is over was told so by exactly
\* one of 'error', 'hostkey-mismatch' and 'disconnected', unless the user aborted
\* it or closed its window (the catch block, verifyHostKey and finish together).
EndToldOnce ==
  \A s \in Sid :
    LET told == sent[<<s, "error">>] + sent[<<s, "hostkey-mismatch">>]
                + sent[<<s, "disconnected">>]
    IN /\ ~quitting => told <= 1
       /\ s \in closed /\ call[s].kind = "terminal" /\ s \notin aborted
            /\ call[s].owner \notin gone => told >= 1

\* No client authenticates to a server whose key is neither trusted for its
\* endpoint nor accepted by the user for this very leg: a timer, an abort or a
\* closed window never lets a key through (verifyHostKey, 531-627).
VerifiedByTrustOrUser ==
  \A x \in Sid \X Leg :
    client[x] \in {"authing", "ready"} => key[x] \in known[EndpointOf(x)] \/ x \in accepted

\* An endpoint never trusts two keys of one algorithm (UNIQUE host, port,
\* key_type), however many prompts for it are answered.
OneTrustedKeyPerType ==
  \A e \in Endpoint : \A k1, k2 \in known[e] : KeyType[k1] = KeyType[k2] => k1 = k2

\* A session is over once: nothing is registered, borrowed or connected again
\* under its id, and its connect never settles twice.
NeverRevived ==
  [][\A s \in Sid :
       /\ s \in closed => s \in closed' /\ s \notin sessions'
       /\ pc[s] \in Settled => pc'[s] = pc[s]]_vars

\* Every connect call resolves or rejects, whatever prompts, aborts and window
\* closings meet it on the way.
ConnectSettles == \A s \in Sid : (pc[s] \in Awaiting) ~> (pc[s] \in Settled)

\* Every host-key prompt is resolved, also when nobody answers it.
PromptResolved == \A x \in Sid \X Leg : (x \in pending) ~> (x \notin pending)

-----------------------------------------------------------------------------
(* What comments of the code say and the code does not do *)

\* session-manager.ts 436, "Stops an in-flight connect": once an aborted connect
\* has rejected, none of its clients runs on.  A hop whose key file was being
\* read when the abort came is pushed and dialled after the teardown.
AbortStopsConnect ==
  \A s \in aborted : pc[s] = "failed" => Live(s) = {}

\* 719, "Tears down every session owned by the given WebContents id": a settled
\* session of a destroyed window has no client running.  A connect cut short while
\* it reads its key file goes on to 'connected' on a session nobody can close.
DestroyedOwnerHoldsNoClient ==
  \A s \in Sid \ aborted :
    pc[s] \in Settled /\ call[s].owner \in gone /\ ~quitting => Live(s) = {}

\* 724-725, "so nothing lingers past teardown": no prompt, hence no timer, is
\* outstanding for a destroyed window.
DestroyedOwnerHoldsNoPrompt ==
  \A x \in pending : call[x[1]].owner \notin gone

\* 436 again: an abort is for "this owner+host"; the prompts of connects to other
\* hosts stay open.
AbortKeepsOtherPrompts ==
  [][\A x \in pending \ pending' :
       aborted' # aborted => call[x[1]].host \in {call[s].host : s \in aborted' \ aborted}]_vars

\* 39-42 and 524-525, every leg is "verified against the known_hosts table" and a
\* mismatch aborts: a client that authenticates shows a key trusted for its
\* endpoint.  The verdict of a prompt is stale once another prompt was accepted.
VerifiedKeyIsTrusted ==
  \A x \in Sid \X Leg : client[x] \in {"authing", "ready"} => key[x] \in known[EndpointOf(x)]
=============================================================================
