------------------------------- MODULE RdpTab -------------------------------
(***************************************************************************)
(* The tab of an RDP host (renderer/components/rdp/RdpTab): it asks main for  *)
(* a proxy, loads the viewer and puts its element in the page; the element   *)
(* hands over its interface when it is ready, and the session runs in it.    *)
(***************************************************************************)
EXTENDS Naturals, FiniteSets

CONSTANTS
  Element,   \* elements that can be made
  None

VARIABLES
  mount, alive, started, cleanup,   \* the effect: a clean-up's timer is set
  opens, loading,      \* rdp:open calls and loads of the viewer on their way
  element,             \* the state of each element and its session
  elementRef, uiRef,   \* what the tab holds
  status, listed,      \* the tab's status, and what the list of sessions says of the tab
  overtaken            \* history: Reconnect came before the last attempt was over

refs    == <<mount, alive, started, cleanup>>
held    == <<elementRef, uiRef>>
shows   == <<status, listed>>
rdpVars == <<refs, opens, loading, element, held, shows, overtaken>>

Status == {"connecting", "connected", "disconnected", "error"}

RdpInit ==
  /\ mount = "new" /\ alive = FALSE /\ started = FALSE /\ cleanup = FALSE /\ opens = 0 /\ loading = 0
  /\ element = [e \in Element |-> "none"] /\ elementRef = None /\ uiRef = None
  /\ status = "connecting" /\ listed = None /\ overtaken = FALSE

Live(e) == element[e] \in {"made", "connecting", "up"}
Over    == opens + loading = 0 /\ \A e \in Element : ~Live(e)

Shows(s) == IF alive THEN status' = s /\ listed' = s ELSE UNCHANGED shows

connect == opens + loading < 2 /\ opens' = opens + 1 /\ status' = "connecting" /\ listed' = "connecting"

\* In a development build the tab is mounted twice, which sets the timer of the clean-up.
Mount ==
  /\ mount = "new" /\ mount' = "on" /\ alive' = TRUE /\ started' = TRUE /\ connect
  /\ cleanup' \in BOOLEAN
  /\ UNCHANGED <<loading, element, held, overtaken>>

\* The clean-up's timer finds the tab alive: what the last attempt made stays.
reconnect ==
  /\ mount = "on" /\ connect /\ cleanup' = TRUE
  /\ overtaken' = (overtaken \/ ~Over)
  /\ UNCHANGED <<mount, alive, started, loading, element, held>>

Unmount ==
  /\ mount = "on" /\ mount' = "off" /\ alive' = FALSE /\ cleanup' = TRUE
  /\ UNCHANGED <<started, opens, loading, element, held, shows, overtaken>>

\* teardown(): the session is shut down and its element removed, whichever the tab holds.
Ended(e) == e \in {elementRef, uiRef}
CleanUp ==
  /\ cleanup /\ cleanup' = FALSE
  /\ IF alive THEN UNCHANGED <<started, element, held, listed>>
     ELSE /\ element' = [e \in Element |-> IF Ended(e) THEN "gone" ELSE element[e]]
          /\ elementRef' = None /\ uiRef' = None /\ listed' = None /\ started' = FALSE
  /\ UNCHANGED <<mount, alive, opens, loading, status, overtaken>>

\* The proxy is there: the viewer is loaded, and its element made, while the tab is open.
Opened ==
  /\ opens > 0 /\ opens' = opens - 1 /\ loading' = IF alive THEN loading + 1 ELSE loading
  /\ UNCHANGED <<refs, element, held, shows, overtaken>>
Loaded ==
  /\ loading > 0 /\ loading' = loading - 1
  /\ IF ~alive THEN UNCHANGED <<element, elementRef>>
     ELSE \E e \in Element : /\ element[e] = "none" /\ element' = [element EXCEPT ![e] = "made"]
                             /\ elementRef' = e
  /\ UNCHANGED <<refs, opens, uiRef, shows, overtaken>>
OpenFailed ==
  /\ \/ opens > 0 /\ opens' = opens - 1 /\ UNCHANGED loading
     \/ loading > 0 /\ loading' = loading - 1 /\ UNCHANGED opens
  /\ Shows("error") /\ UNCHANGED <<refs, element, held, overtaken>>

\* An element that is in the page becomes ready, and its session is started.
Ready ==
  /\ \E e \in Element : element[e] = "made" /\ element' = [element EXCEPT ![e] = "connecting"] /\ uiRef' = e
  /\ UNCHANGED <<refs, opens, loading, elementRef, shows, overtaken>>
Connected ==
  /\ \E e \in Element : element[e] = "connecting" /\ element' = [element EXCEPT ![e] = "up"]
  /\ Shows("connected") /\ UNCHANGED <<refs, opens, loading, held, overtaken>>

\* The session ends, or fails: the tab tells what it ends with, and keeps the element.
SessionEnds ==
  /\ \E e \in Element :
       \/ /\ element[e] = "up" /\ element' = [element EXCEPT ![e] = "over"]
          /\ IF status = "error" /\ alive THEN UNCHANGED status /\ listed' = "disconnected"
             ELSE Shows("disconnected")
       \/ element[e] \in {"connecting", "up"} /\ element' = [element EXCEPT ![e] = "over"] /\ Shows("error")
  /\ UNCHANGED <<refs, opens, loading, held, overtaken>>

RdpNext ==
  \/ Mount \/ reconnect \/ Unmount \/ CleanUp \/ Opened \/ Loaded \/ OpenFailed \/ Ready \/ Connected
  \/ SessionEnds

RdpSpec == RdpInit /\ [][RdpNext]_rdpVars

-----------------------------------------------------------------------------
\* Types of the state.
RdpTypeOK ==
  /\ mount \in {"new", "on", "off"} /\ {alive, started, cleanup, overtaken} \subseteq BOOLEAN
  /\ opens \in 0 .. 2 /\ loading \in 0 .. 2
  /\ element \in [Element -> {"none", "made", "connecting", "up", "over", "gone"}]
  /\ elementRef \in Element \cup {None} /\ uiRef \in Element \cup {None}
  /\ status \in Status /\ listed \in Status \cup {None}

\* Unless Reconnect overtook an attempt, a session that lives is one that the tab holds, and none
\* lives in a tab that is closed and cleaned up; such a tab is no longer in the list.
RdpIsHeld ==
  /\ ~overtaken => \A e \in Element : Live(e) => e \in {elementRef, uiRef} /\ (mount = "on" \/ cleanup)
  /\ mount = "off" /\ ~cleanup => listed = None

\* The list of sessions shows what the tab shows, and Connected only of a session that is up.
RdpShowsItsSession ==
  ~overtaken /\ mount = "on" =>
    /\ listed = status
    /\ status = "connected" <=> \E e \in Element : element[e] = "up"
=============================================================================
