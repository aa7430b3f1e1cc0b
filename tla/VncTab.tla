------------------------------- MODULE VncTab -------------------------------
(***************************************************************************)
(* The tab of a VNC host (renderer/components/vnc/VncTab): it asks main for  *)
(* a bridge, makes an RFB connection over it, and shows its state.  The RFB  *)
(* client is noVNC: it tells of its end after disconnect() or a failure, and  *)
(* waits for the verification of the server's key.                           *)
(***************************************************************************)
EXTENDS Naturals, FiniteSets

CONSTANTS
  Rfb,    \* connections that can be made
  None

VARIABLES
  mount,              \* "new", "on", "off"
  alive, started, aborted, cleanup,   \* refs of the hook; a clean-up's timer is set
  opens,              \* vnc:open calls on their way
  rfb,                \* noVNC's side of each connection
  ref,                \* the connection that the tab holds
  watchdog,           \* connections whose ten seconds run
  verifying,          \* connections whose server key main is asked about
  status,
  overtaken           \* history: Reconnect came before the last attempt was over

refs    == <<mount, alive, started, aborted, cleanup>>
vncVars == <<refs, opens, rfb, ref, watchdog, verifying, status, overtaken>>

VncInit ==
  /\ mount = "new" /\ alive = FALSE /\ started = FALSE /\ aborted = FALSE /\ cleanup = FALSE
  /\ opens = 0 /\ rfb = [r \in Rfb |-> "none"] /\ ref = None
  /\ watchdog = {} /\ verifying = {} /\ status = "connecting" /\ overtaken = FALSE

Live(r) == rfb[r] \in {"handshake", "up"}
Over    == opens = 0 /\ verifying = {} /\ \A r \in Rfb : rfb[r] \in {"none", "gone"}

\* Disconnects what the tab holds, whichever attempt made it.
disconnectRfb ==
  /\ rfb' = IF ref # None /\ Live(ref) THEN [rfb EXCEPT ![ref] = "closing"] ELSE rfb
  /\ ref' = None

connect == opens < 2 /\ opens' = opens + 1 /\ status' = "connecting"

\* In a development build the tab is mounted twice, which sets the timer of the clean-up.
Mount ==
  /\ mount = "new" /\ mount' = "on" /\ alive' = TRUE /\ started' = TRUE /\ connect
  /\ cleanup' \in BOOLEAN
  /\ UNCHANGED <<aborted, rfb, ref, watchdog, verifying, overtaken>>

\* The effect's clean-up and its set-up run at once: the timer finds the tab alive.
reconnect ==
  /\ mount = "on" /\ disconnectRfb /\ connect
  /\ alive' = TRUE /\ aborted' = FALSE /\ cleanup' = TRUE /\ started' = TRUE
  /\ overtaken' = (overtaken \/ ~Over)
  /\ UNCHANGED <<mount, watchdog, verifying>>

Unmount ==
  /\ mount = "on" /\ mount' = "off" /\ alive' = FALSE /\ cleanup' = TRUE
  /\ UNCHANGED <<started, aborted, opens, rfb, ref, watchdog, verifying, status, overtaken>>
CleanUp ==
  /\ cleanup /\ cleanup' = FALSE
  /\ IF alive THEN UNCHANGED <<started, rfb, ref>> ELSE disconnectRfb /\ started' = FALSE
  /\ UNCHANGED <<mount, alive, aborted, opens, watchdog, verifying, status, overtaken>>

abortConnect ==
  /\ mount = "on" /\ status = "connecting" /\ aborted' = TRUE /\ disconnectRfb /\ status' = "disconnected"
  /\ UNCHANGED <<mount, alive, started, cleanup, opens, watchdog, verifying, overtaken>>

\* The bridge is there: a connection is made over it, unless the tab is gone or aborted.
Opened ==
  /\ opens > 0 /\ opens' = opens - 1
  /\ IF ~alive \/ aborted THEN UNCHANGED <<rfb, ref, watchdog>>
     ELSE \E r \in Rfb : /\ rfb[r] = "none" /\ rfb' = [rfb EXCEPT ![r] = "handshake"]
                         /\ ref' = r /\ watchdog' = watchdog \cup {r}
  /\ UNCHANGED <<refs, verifying, status, overtaken>>
OpenFailed ==
  /\ opens > 0 /\ opens' = opens - 1
  /\ IF ~alive \/ aborted THEN UNCHANGED status ELSE status' \in {"disconnected", "error"}
  /\ UNCHANGED <<refs, rfb, ref, watchdog, verifying, overtaken>>

Shows(s) == status' = IF alive THEN s ELSE status

\* The ten seconds are over, and the connection is still the one that is held.
Watchdog ==
  /\ \E r \in watchdog :
       /\ watchdog' = watchdog \ {r}
       /\ IF alive /\ ref = r THEN status' = "error" /\ disconnectRfb ELSE UNCHANGED <<status, rfb, ref>>
  /\ UNCHANGED <<refs, opens, verifying, overtaken>>

Connected ==
  /\ \E r \in Rfb : /\ rfb[r] = "handshake" /\ r \notin verifying /\ rfb' = [rfb EXCEPT ![r] = "up"]
                    /\ watchdog' = watchdog \ {r} /\ Shows("connected")
  /\ UNCHANGED <<refs, opens, ref, verifying, overtaken>>

\* securityfailure, rfberror: noVNC ends the connection.
Failed ==
  /\ \E r \in Rfb : /\ Live(r) /\ rfb' = [rfb EXCEPT ![r] = "closing"]
                    /\ watchdog' = watchdog \ {r} /\ Shows("error")
  /\ UNCHANGED <<refs, opens, ref, verifying, overtaken>>

\* credentialsrequired, with none: the connection goes on waiting for them.
CredentialsRequired ==
  /\ \E r \in Rfb : rfb[r] = "handshake" /\ watchdog' = watchdog \ {r} /\ Shows("error")
  /\ UNCHANGED <<refs, opens, rfb, ref, verifying, overtaken>>

Dropped ==
  /\ \E r \in Rfb : Live(r) /\ rfb' = [rfb EXCEPT ![r] = "closing"]
  /\ UNCHANGED <<refs, opens, ref, watchdog, verifying, status, overtaken>>

\* The end of a connection: the tab lets go of what it holds, whichever that is.
Disconnect ==
  /\ \E r \in Rfb : /\ rfb[r] = "closing" /\ rfb' = [rfb EXCEPT ![r] = "gone"]
                    /\ watchdog' = watchdog \ {r}
  /\ ref' = IF alive THEN None ELSE ref
  /\ status' = IF ~alive \/ status = "error" THEN status ELSE "disconnected"
  /\ UNCHANGED <<refs, opens, verifying, overtaken>>

\* serververification: main compares the key with the one it has pinned.
ServerVerification ==
  /\ \E r \in Rfb : /\ rfb[r] = "handshake" /\ r \notin verifying /\ verifying' = verifying \cup {r}
  /\ UNCHANGED <<refs, opens, rfb, ref, watchdog, status, overtaken>>
Refuse == /\ Shows("error")
          /\ IF alive THEN disconnectRfb ELSE UNCHANGED <<rfb, ref>>
Verified ==
  /\ \E r \in verifying :
       /\ verifying' = verifying \ {r}
       /\ \/ UNCHANGED <<rfb, ref, status, watchdog>>    \* trusted, or no longer held
          \/ ref = r /\ watchdog' = watchdog \ {r} /\ Refuse
          \/ watchdog' = watchdog \ {r} /\ Refuse        \* the call itself failed
  /\ UNCHANGED <<refs, opens, overtaken>>

VncNext ==
  \/ Mount \/ reconnect \/ Unmount \/ CleanUp \/ abortConnect \/ Opened \/ OpenFailed \/ Watchdog
  \/ Connected \/ Failed \/ CredentialsRequired \/ Dropped \/ Disconnect \/ ServerVerification \/ Verified

VncSpec == VncInit /\ [][VncNext]_vncVars

-----------------------------------------------------------------------------
\* Types of the state.
VncTypeOK ==
  /\ mount \in {"new", "on", "off"} /\ {alive, started, aborted, cleanup, overtaken} \subseteq BOOLEAN
  /\ opens \in 0 .. 2 /\ rfb \in [Rfb -> {"none", "handshake", "up", "closing", "gone"}]
  /\ ref \in Rfb \cup {None} /\ watchdog \subseteq Rfb /\ verifying \subseteq Rfb
  /\ status \in {"connecting", "connected", "disconnected", "error"}

\* Unless Reconnect overtook an attempt, a connection that lives is the one that the tab holds, and
\* none lives that was made when the tab was closed or its attempt aborted.
RfbIsHeld ==
  ~overtaken => \A r \in Rfb : Live(r) => ref = r /\ ~aborted /\ (mount = "on" \/ cleanup)

\* The tab does not spin for ever: it shows Connecting only while main is asked for a bridge or
\* the ten seconds of a handshake run.
NeverSpins ==
  ~overtaken /\ alive /\ status = "connecting" =>
    opens > 0 \/ \E r \in Rfb : r \in watchdog \/ rfb[r] = "closing"

\* A tab that shows its host as connected holds a connection that is up, or is about to hear
\* of its end.
ConnectedIsUp ==
  ~overtaken /\ alive /\ status = "connected" => \E r \in Rfb : rfb[r] \in {"up", "closing"}
=============================================================================
