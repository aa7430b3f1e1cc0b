------------------------------ MODULE McpGate ------------------------------
(***************************************************************************)
(* Agent access over MCP (src/src/main/mcp): the HTTP server that follows   *)
(* a setting, the tool calls it takes, and for each host of a call the path *)
(* policy -> approval -> command -> audit row (execOnHost).  A group call   *)
(* works on its hosts in order, on at most Limit lanes.  A command text is  *)
(* reduced to what decide() tells apart.                                    *)
(***************************************************************************)
EXTENDS Naturals, Sequences, FiniteSets

CONSTANTS
  Call,    \* run_command and run_on_group calls of agents
  Host,
  Hosts,   \* the hosts of each call, in order
  Shape,   \* of its command: "blocked", "listed" (matches an allow pattern) or "other"
  Limit,   \* GROUP_FANOUT_LIMIT
  Srv,     \* HTTP servers ever created
  None

Exec == UNION {{c} \X (1 .. Len(Hosts[c])) : c \in Call}   \* one command on one host

VARIABLES
  enabled, execHosts, approvalMode,   \* settings
  srv,      \* each server: "none", "starting", "listening", "closed" or "failed"
  server,   \* httpServer and its port
  token,    \* is there a token?
  at,       \* each call: the server whose connection it is on, or None
  exec,     \* where each command of a call is
  rows,     \* rows of the audit log per command, counted
  approved  \* commands the user approved

vars == <<enabled, execHosts, approvalMode, srv, server, token, at, exec, rows, approved>>
settings == <<enabled, execHosts, approvalMode>>
http     == <<srv, server, token>>

Busy == {"asking", "running"}
Ended == {"denied", "ran", "failed"}
HostOf(x) == Hosts[x[1]][x[2]]
Of(c) == {x \in Exec : x[1] = c}
In(states) == {x \in Exec : exec[x] \in states}

Init ==
  /\ enabled = FALSE /\ execHosts \in SUBSET Host /\ approvalMode \in {"always", "allowlist"}
  /\ srv = [s \in Srv |-> "none"] /\ server = None /\ token = FALSE
  /\ at = [c \in Call |-> None] /\ exec = [x \in Exec |-> "none"]
  /\ rows = [x \in Exec |-> 0] /\ approved = {}

-----------------------------------------------------------------------------
(* decide() and execOnHost() *)

decide_AnyMode(x) ==   \* mutant: the allow patterns count in every mode
  IF HostOf(x) \notin execHosts \/ Shape[x[1]] = "blocked" THEN "deny"
  ELSE IF Shape[x[1]] = "listed" THEN "allow" ELSE "needs_approval"
decide(x) ==
  IF HostOf(x) \notin execHosts \/ Shape[x[1]] = "blocked" THEN "deny"
  ELSE IF approvalMode = "allowlist" /\ Shape[x[1]] = "listed" THEN "allow"
  ELSE "needs_approval"

Taken(x) == [deny |-> "denied", allow |-> "running", needs_approval |-> "asking"][decide(x)]

\* The lanes of a call after its commands are as in st: free lanes take the next
\* hosts; a denied command frees its lane in the same turn.
Reached(st, x) ==
  Cardinality({y \in Of(x[1]) : st[y] \in Busy
                 \/ (st[y] = "queued" /\ y[2] < x[2] /\ decide(y) # "deny")}) < Limit
Lanes(st) ==
  [x \in Exec |->
    IF st[x] # "queued" \/ ~Reached(st, x) THEN st[x]
    ELSE Taken(x)]

\* The commands X become "to", each with its audit row if it ended, and the
\* lanes go on.
Moved(X, to) ==
  LET st == [x \in Exec |-> IF x \in X THEN to ELSE exec[x]] IN
  /\ exec' = Lanes(st)
  /\ rows' = [x \in Exec |-> rows[x] + (IF x \in X /\ to \in Ended THEN 1 ELSE 0)
                                     + (IF st[x] = "queued" /\ exec'[x] = "denied" THEN 1 ELSE 0)]

-----------------------------------------------------------------------------
(* The server follows the setting *)

\* startMcpServer() up to the listen; there is a token before there is a server.
Start ==
  IF server # None THEN UNCHANGED http
  ELSE /\ token' = TRUE /\ UNCHANGED server
       /\ \E s \in Srv : srv[s] = "none" /\ srv' = [srv EXCEPT ![s] = "starting"]

Enable ==   \* mcpSetEnabled(true), and the launch
  /\ enabled' = TRUE /\ Start
  /\ UNCHANGED <<execHosts, approvalMode, at, exec, rows, approved>>
Listening(s) ==
  /\ srv[s] = "starting" /\ srv' = [srv EXCEPT ![s] = "listening"] /\ server' = s
  /\ UNCHANGED <<settings, token, at, exec, rows, approved>>
ListenFails(s) ==
  /\ srv[s] = "starting" /\ srv' = [srv EXCEPT ![s] = "failed"]
  /\ UNCHANGED <<settings, server, token, at, exec, rows, approved>>

\* mcpSetEnabled(false): stopMcpServer() denies what is pending and closes the server.
Disable ==
  /\ enabled' = FALSE
  /\ Moved(In({"asking"}), "denied")
  /\ srv' = [s \in Srv |-> IF s = server THEN "closed" ELSE srv[s]]
  /\ server' = None /\ token' = FALSE
  /\ UNCHANGED <<execHosts, approvalMode, at, approved>>

\* The user edits the opted-in hosts or the approval mode.
EditPolicy ==
  /\ \E h \in Host : execHosts' \in {execHosts \cup {h}, execHosts \ {h}}
  /\ approvalMode' \in {"always", "allowlist"}
  /\ UNCHANGED <<enabled, http, at, exec, rows, approved>>

-----------------------------------------------------------------------------
(* A tool call *)

\* A request with the token; its body is being read.
Arrive(c, s) ==
  /\ at[c] = None /\ srv[s] = "listening" /\ token
  /\ at' = [at EXCEPT ![c] = s]
  /\ UNCHANGED <<settings, http, exec, rows, approved>>

\* The body is read.  allowedHosts names the port of the server that is current
\* by then, so a request on any other connection is refused.
Handle(c) ==
  /\ at[c] # None /\ at[c] = server /\ \A x \in Of(c) : exec[x] = "none"
  /\ Moved(Of(c), "queued")
  /\ UNCHANGED <<settings, http, at, approved>>

\* resolveApproval(id, true)
Approve(x) ==
  /\ exec[x] = "asking" /\ approved' = approved \cup {x} /\ Moved({x}, "running")
  /\ UNCHANGED <<settings, http, at>>
\* resolveApproval(id, false), or the approval times out.
Deny(x) ==
  /\ exec[x] = "asking" /\ Moved({x}, "denied") /\ UNCHANGED <<settings, http, at, approved>>

\* runCommandCapture() settles: it is aborted after COMMAND_TIMEOUT_MS at the latest.
Settle(x) ==
  /\ exec[x] = "running" /\ \E to \in {"ran", "failed"} : Moved({x}, to)
  /\ UNCHANGED <<settings, http, at, approved>>

Next ==
  \/ Enable \/ Disable \/ EditPolicy
  \/ \E s \in Srv : Listening(s) \/ ListenFails(s) \/ \E c \in Call : Arrive(c, s)
  \/ \E c \in Call : Handle(c)
  \/ \E x \in Exec : Approve(x) \/ Deny(x) \/ Settle(x)

Spec == Init /\ [][Next]_vars

\* Approvals and commands have timers.
Fairness == \A x \in Exec : WF_vars(Deny(x)) /\ WF_vars(Settle(x))

-----------------------------------------------------------------------------
(* Properties *)

TypeOK ==
  /\ enabled \in BOOLEAN /\ execHosts \subseteq Host /\ approvalMode \in {"always", "allowlist"}
  /\ srv \in [Srv -> {"none", "starting", "listening", "closed", "failed"}]
  /\ server \in Srv \cup {None} /\ token \in BOOLEAN /\ at \in [Call -> Srv \cup {None}]
  /\ exec \in [Exec -> {"none", "queued"} \cup Busy \cup Ended]
  /\ rows \in [Exec -> {0, 1}] /\ approved \subseteq Exec

Begins(x) == exec[x] # "running" /\ exec'[x] = "running"

\* A command begins only by the user's approval of that command, or in allowlist
\* mode, if it matches a pattern, on a host that is opted in (policy.ts 8-11);
\* whatever the lanes, timers and edits of the policy do in between.
RunsByConsent ==
  [][\A x \in Exec : Begins(x) =>
       \/ exec[x] = "asking" /\ x \in approved' \ approved
       \/ approvalMode = "allowlist" /\ Shape[x[1]] = "listed" /\ HostOf(x) \in execHosts]_vars

\* docs/MCP-INTEGRATION.md section 11, "every tool call is audited before its result
\* is returned": a command that has ended has one row, and no other has one.
AuditedOnce == \A x \in Exec : rows[x] = IF exec[x] \in Ended THEN 1 ELSE 0

\* A call touches at most Limit hosts at once, and in order (tools.ts 28-44, 293-294).
LanesBounded ==
  \A c \in Call :
    /\ Cardinality(Of(c) \cap In(Busy)) <= Limit
    /\ \A x \in Of(c), y \in Of(c) : exec[x] = "queued" /\ x[2] < y[2] => exec[y] = "queued"

\* A call that began ends, whoever does not answer.
CallsEnded == \A x \in Exec : exec[x] \in Ended \cup {"none"}
CallEnds == []<>CallsEnded

-----------------------------------------------------------------------------
(* What docs and comments say and the code does not do *)

\* docs/MCP-INTEGRATION.md section 5: the Settings toggle "immediately stops the server
\* and rejects in-flight calls".  A group call goes on with its next hosts.
StopRejectsCalls ==
  [][~enabled' => \A x \in Exec : exec'[x] \in Busy => exec[x] = exec'[x]]_vars

\* server.ts 187, "Start or stop the server to match the persisted setting": a start
\* whose listen() answers after the stop.
ServerMatchesSetting == ~enabled => server = None /\ \A s \in Srv : srv[s] # "listening"

\* docs/MCP-INTEGRATION.md section 11, the token "rotates on every enable".
EnableIssuesToken == [][~enabled /\ enabled' => token']_vars

\* Section 11, "no exec/mutation without per-host opt-in": the policy is read before
\* the approval, and not after it.
RunsOnOptedInHosts == [][\A x \in Exec : Begins(x) => HostOf(x) \in execHosts]_vars
=============================================================================
