----------------------------- MODULE MCServices -----------------------------
(***************************************************************************)
(* What main runs beside the sessions: routines, the bridges to the window  *)
(* (RdpProxy, VncBridge), the MCP server (McpGate), commands on many hosts  *)
(* (Automation), the tests of hosts (HostTests) and the reconnect policy      *)
(* (Reconnect), in one instance.  They share no state, so none can disturb    *)
(* another, and a behaviour is one of one of them: part says of which.         *)
(***************************************************************************)
EXTENDS Routines, Reconnect, Sequences, FiniteSets

CONSTANTS
  r1,
  q1, q2, h1, h2, a1, a2, k1, k2, c1, c2, x1, group, single, v1, v2,
  Req, Addr, Cert, Conn, Call, Srv, Limit, Run, MaxConcurrent,
  TEST_CONCURRENCY_CAP, MaxAddr, RdpHost, Host, Hosts, Shape

ASSUME RdpHostAssumption == None \notin RdpHost
ASSUME CallsAssumption ==
  IsFiniteSet(Host) /\ Hosts \in [Call -> Seq(Host)] /\ Shape \in [Call -> {"blocked", "listed", "other"}]
ASSUME LimitsAssumption == Limit \in Nat /\ MaxConcurrent \in Nat /\ TEST_CONCURRENCY_CAP \in Nat /\ MaxAddr \in Nat

VARIABLES
  part,
  row, pins, presented, rdpHost, target, pending, told, ws, step, closed, stream, cert,
  pc, ded, held, vncPending, expired, timers, vncTold, conn, starts, bound, server,
  mcpEnabled, execHosts, approvalMode, srv, mcpServer, token, at, exec, rows, approved,
  st, outcome, aborted, autoDed, window, events, replies, autoRows, shown,
  hosts, addr, tests, inFlight, activeTestCount, waiting

\* Delays are small: what matters is that an edit may lengthen and shorten a period and that a
\* program can be closed for longer than one.  Manual, a short and a long interval, daily, and a
\* cron expression that never matches; an interval and a daily schedule.
AllSchedules == {{}, {1}, {3}, {1, 2, 3}, {None}}
TwoSchedules == {{2}, {1, 2}}
\* A group call on two hosts of a command that matches a pattern, and another one on one of them
GroupOnBoth == [c \in Call |-> IF c = group THEN <<h1, h2>> ELSE <<h2>>]
GroupIsListed == [c \in Call |-> IF c = group THEN "listed" ELSE "other"]

Rdp == INSTANCE RdpProxy WITH Host <- RdpHost, host <- rdpHost
rdp == <<row, pins, presented, rdpHost, target, pending, told, ws, step, closed, stream, cert>>

Vnc == INSTANCE VncBridge WITH pending <- vncPending, told <- vncTold
vnc == <<pc, ded, held, vncPending, expired, timers, vncTold, conn, starts, bound, server>>

Mcp == INSTANCE McpGate WITH enabled <- mcpEnabled, server <- mcpServer
mcp == <<mcpEnabled, execHosts, approvalMode, srv, mcpServer, token, at, exec, rows, approved>>

Fleet == INSTANCE Automation WITH ded <- autoDed, rows <- autoRows
ASSUME StatusAssumption == None \notin Fleet!Outcome \cup {"running", "testing"}
auto == <<st, outcome, aborted, autoDed, window, events, replies, autoRows, shown>>

Tests == INSTANCE HostTests
test == <<hosts, addr, tests, inFlight, activeTestCount, waiting>>

all == <<part, vars, rdp, vnc, mcp, auto, test, reconnectVars>>

ServicesInit ==
  /\ part \in {"routines", "rdp", "vnc", "mcp", "automation", "tests", "reconnect"}
  /\ Init /\ Rdp!Init /\ Vnc!Init /\ Mcp!Init /\ Fleet!Init /\ Tests!Init /\ ReconnectInit
  /\ part # "rdp" => row = [h \in RdpHost |-> a1]   \* one start of the others is enough
  /\ part # "mcp" => execHosts = {} /\ approvalMode = "always"
RoutineStep == part = "routines" /\ Next /\ UNCHANGED <<part, rdp, vnc, mcp, auto, test, reconnectVars>>
RdpStep == part = "rdp" /\ Rdp!Next /\ UNCHANGED <<part, vars, vnc, mcp, auto, test, reconnectVars>>
VncStep == part = "vnc" /\ Vnc!Next /\ UNCHANGED <<part, vars, rdp, mcp, auto, test, reconnectVars>>
McpStep == part = "mcp" /\ Mcp!Next /\ UNCHANGED <<part, vars, rdp, vnc, auto, test, reconnectVars>>
AutoStep == part = "automation" /\ Fleet!Next /\ UNCHANGED <<part, vars, rdp, vnc, mcp, test, reconnectVars>>
TestStep == part = "tests" /\ Tests!Next /\ UNCHANGED <<part, vars, rdp, vnc, mcp, auto, reconnectVars>>
RetryStep ==
  part = "reconnect" /\ ReconnectNext /\ UNCHANGED <<part, vars, rdp, vnc, mcp, auto, test>>

\* What is fair in one part is disabled where another runs; but minutes always pass.
ServicesSpec ==
  /\ ServicesInit
  /\ [][RoutineStep \/ RdpStep \/ VncStep \/ McpStep \/ AutoStep \/ TestStep \/ RetryStep]_all
  /\ Live /\ Rdp!Fairness /\ Vnc!Fairness /\ Mcp!Fairness /\ Fleet!Fairness /\ Tests!Fairness
  /\ ReconnectFairness

\* The type invariants of all
ServicesTypeOK ==
  TypeOK /\ Rdp!TypeOK /\ Vnc!TypeOK /\ Mcp!TypeOK /\ Fleet!TypeOK /\ Tests!TypeOK
  /\ ReconnectTypeOK

\* The owner of an RDP or a VNC target is told its end exactly once, by whatever ends it;
\* a relay runs over the pinned certificate; a dedicated session of a VNC call lives only
\* while something may use it; and however starts and errors overlap there is one listener.
BridgesHold ==
  /\ Rdp!ClosedOnce /\ Vnc!ClosedOnce /\ Rdp!RelayIsPinned
  /\ Vnc!SessionInUse /\ Vnc!OneListener

\* Every command of an agent has its one audit row; lanes and the slots of tests are those
\* in use; a connection made for a command is open only while the command is on it; and a drop is
\* followed by no more dials than the policy allows, and by none once nobody retries.
CommandsAccounted ==
  Mcp!AuditedOnce /\ Mcp!LanesBounded /\ Fleet!ConnectionsEnd /\ Tests!TestsAccounted
  /\ DialsBounded /\ OnlyRetriesDial

\* A command of an agent runs only by the policy of that moment or an approval.
RunsByConsent == Mcp!RunsByConsent

\* docs/MCP-INTEGRATION.md:97, "immediately stops the server and rejects in-flight calls":
\* nothing begins while MCP is off.
StopRejectsCalls == Mcp!StopRejectsCalls

\* With nothing on its way, the window shows of a run what main did.
ResultsShown == Fleet!ResultsShown

\* Without a further call every RDP handshake, VNC token, call of an agent and run on many
\* hosts comes to its end, retries are over, and a routine that stays scheduled is run again.
ServicesSettle ==
  /\ []<>(Rdp!HandshakesOver /\ Vnc!TokensResolved /\ Mcp!CallsEnded /\ Fleet!RunsEnded /\ RetriesEnd)
  /\ RunsAgain
=============================================================================
