----------------------------- MODULE HostTests -----------------------------
(***************************************************************************)
(* The reachability tests of hosts: the badges of the list (runTest() of    *)
(* HostList.tsx) and main's sockets behind them (src/src/main/ipc/hosts.ts).*)
(***************************************************************************)
EXTENDS FiniteSets, Naturals

CONSTANTS
  Host, None,
  TEST_CONCURRENCY_CAP,
  MaxAddr   \* bound on the edits of a host's address

VARIABLES
  hosts,        \* the hosts there are
  addr,         \* hostname and port of a host, counted
  tests,        \* the badges: by host and address
  inFlight,     \* main: the address that is tested, by host
  activeTestCount,
  waiting       \* the badges that wait for an answer

vars == <<hosts, addr, tests, inFlight, activeTestCount, waiting>>

Key == Host \X (0..MaxAddr)

Init ==
  /\ hosts = Host /\ addr = [h \in Host |-> 0]
  /\ tests = [k \in Key |-> None] /\ inFlight = [h \in Host |-> None]
  /\ activeTestCount = 0 /\ waiting = {}

editAddress(h) ==
  /\ h \in hosts /\ addr[h] < MaxAddr /\ addr' = [addr EXCEPT ![h] = @ + 1]
  /\ UNCHANGED <<hosts, tests, inFlight, activeTestCount, waiting>>
deleteHost(h) ==
  /\ h \in hosts /\ hosts' = hosts \ {h}
  /\ UNCHANGED <<addr, tests, inFlight, activeTestCount, waiting>>

\* runTest(), with IPC.hostsTest: a test of the host that runs already answers this one too;
\* past the cap the answer is at once that there are too many.
Admitted == activeTestCount < TEST_CONCURRENCY_CAP
runTest(h) ==
  LET k == <<h, addr[h]>>
  IN /\ h \in hosts /\ tests[k] # "testing"
     /\ \/ /\ inFlight[h] # None /\ waiting' = waiting \cup {k}
           /\ tests' = [tests EXCEPT ![k] = "testing"] /\ UNCHANGED <<inFlight, activeTestCount>>
        \/ /\ inFlight[h] = None /\ Admitted /\ waiting' = waiting \cup {k}
           /\ tests' = [tests EXCEPT ![k] = "testing"]
           /\ inFlight' = [inFlight EXCEPT ![h] = addr[h]] /\ activeTestCount' = activeTestCount + 1
        \/ /\ inFlight[h] = None /\ ~Admitted /\ tests' = [tests EXCEPT ![k] = "error"]
           /\ UNCHANGED <<inFlight, activeTestCount, waiting>>
     /\ UNCHANGED <<hosts, addr>>

\* The socket connects, fails or is silent for TEST_TIMEOUT_MS; whoever waits is told.
Tested(h) ==
  /\ inFlight[h] # None
  /\ \E result \in {"ok", "error"} :
       tests' = [k \in Key |-> IF k \in waiting /\ k[1] = h THEN result ELSE tests[k]]
  /\ waiting' = {k \in waiting : k[1] # h}
  /\ inFlight' = [inFlight EXCEPT ![h] = None] /\ activeTestCount' = activeTestCount - 1
  /\ UNCHANGED <<hosts, addr>>

Next ==
  \E h \in Host : editAddress(h) \/ deleteHost(h) \/ runTest(h) \/ Tested(h)

\* The timeout of the socket
Fairness == \A h \in Host : WF_vars(Tested(h))

Spec == Init /\ [][Next]_vars

-----------------------------------------------------------------------------
(* Properties *)

TypeOK ==
  /\ hosts \in SUBSET Host /\ addr \in [Host -> 0..MaxAddr]
  /\ tests \in [Key -> {None, "testing", "ok", "error"}]
  /\ inFlight \in [Host -> (0..MaxAddr) \cup {None}] /\ waiting \in SUBSET Key

\* The slots of tests are those of the sockets there are, and no badge spins without one: no
\* order of clicks, edits, deletes and answers uses the cap up (hosts.ts 19-26).
TestsAccounted ==
  /\ activeTestCount = Cardinality({h \in Host : inFlight[h] # None})
  /\ activeTestCount <= TEST_CONCURRENCY_CAP
  /\ \A k \in Key : tests[k] = "testing" => k \in waiting /\ inFlight[k[1]] # None
=============================================================================
