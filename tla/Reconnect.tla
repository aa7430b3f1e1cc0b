------------------------------ MODULE Reconnect ------------------------------
(***************************************************************************)
(* The reconnect state machine (shared/reconnect.ts), driven by a transport  *)
(* as its header asks: one dial at a time, after nextDelayMs, and cancelled   *)
(* before give-up and manual-retry.  Nothing in the program drives it yet;    *)
(* a terminal tab has a retry of its own (SshTab).                            *)
(***************************************************************************)
EXTENDS Integers

CONSTANTS
  BaseDelay, Factor, MaxDelay, MaxRetries,   \* ReconnectOptions
  MaxCalls                                   \* bound: drops and retries by hand

ASSUME ReconnectAssumption ==
  /\ BaseDelay \in Nat /\ MaxDelay \in Nat /\ MaxRetries \in Nat /\ MaxCalls \in Nat
  /\ Factor \in Nat \ {0}

VARIABLES
  state,   \* ReconnectState
  dial,    \* of the transport: "none", "waiting" for nextDelayMs, or "dialing"
  dials,   \* history: dials since the link was last up or a retry by hand
  free,    \* history: 1 if a retry by hand started them, whose first dial is always allowed; else 0
  dropped     \* drops and retries made

reconnectVars == <<state, dial, dials, free, dropped>>

\* factor ** n, as a function: the provers know nothing of ^.
power[n \in Nat] == IF n = 0 THEN 1 ELSE Factor * power[n - 1]
nextBackoff(n) ==
  LET raw == BaseDelay * power[n - 1] IN
  IF n <= 0 THEN 0 ELSE IF raw < MaxDelay THEN raw ELSE MaxDelay

initialReconnectState == [status |-> "connected", attempt |-> 0, nextDelayMs |-> 0]

shouldGiveUp(n) == n > MaxRetries
Failed(n)   == [status |-> "failed", attempt |-> n, nextDelayMs |-> 0]
Retrying(n) == [status |-> "reconnecting", attempt |-> n, nextDelayMs |-> nextBackoff(n)]

\* reduceReconnect(): what each event makes of the state.
OnGiveUp      == Failed(state.attempt)
OnManualRetry == IF state.status = "connected" THEN state ELSE [Retrying(1) EXCEPT !.nextDelayMs = 0]
OnSuccess     == initialReconnectState
OnDrop ==
  IF state.status # "connected" THEN state ELSE IF shouldGiveUp(1) THEN Failed(0) ELSE Retrying(1)
OnAttemptFailed ==
  IF state.status # "reconnecting" THEN state
  ELSE IF shouldGiveUp(state.attempt + 1) THEN Failed(state.attempt) ELSE Retrying(state.attempt + 1)

isRetrying(s) == s.status = "reconnecting"
Enter(s) == state' = s /\ dial' = IF isRetrying(s) THEN "waiting" ELSE "none"

ReconnectInit ==
  state = initialReconnectState /\ dial = "none" /\ dials = 0 /\ free = 0 /\ dropped = 0

-----------------------------------------------------------------------------
(* The transport *)

\* The link is lost, or an old stream says so once more.
Drop ==
  /\ dropped < MaxCalls /\ dropped' = dropped + 1
  /\ IF state.status = "connected" THEN Enter(OnDrop) /\ dials' = 0 /\ free' = 0
     ELSE state' = OnDrop /\ UNCHANGED <<dial, dials, free>>

\* nextDelayMs is over.
Dial ==
  /\ dial = "waiting" /\ dial' = "dialing" /\ dials' = dials + 1
  /\ UNCHANGED <<state, free, dropped>>
Succeeds == dial = "dialing" /\ Enter(OnSuccess) /\ UNCHANGED <<dials, free, dropped>>
Fails    == dial = "dialing" /\ Enter(OnAttemptFailed) /\ UNCHANGED <<dials, free, dropped>>

\* The user: a dial on its way is cancelled first.
ManualRetry ==
  /\ dropped < MaxCalls /\ dropped' = dropped + 1
  /\ Enter(OnManualRetry)
  /\ IF state.status = "connected" THEN UNCHANGED <<dials, free>> ELSE dials' = 0 /\ free' = 1
GiveUp ==
  /\ state.status # "failed" /\ Enter(OnGiveUp) /\ UNCHANGED <<dials, free, dropped>>

ReconnectNext == Drop \/ Dial \/ Succeeds \/ Fails \/ ManualRetry \/ GiveUp

ReconnectFairness == WF_reconnectVars(Dial) /\ WF_reconnectVars(Succeeds \/ Fails)
ReconnectSpec == ReconnectInit /\ [][ReconnectNext]_reconnectVars /\ ReconnectFairness

-----------------------------------------------------------------------------
\* Types of the state.
ReconnectTypeOK ==
  /\ state \in [status : {"connected", "reconnecting", "failed"}, attempt : Nat, nextDelayMs : 0 .. MaxDelay]
  /\ dial \in {"none", "waiting", "dialing"} /\ dials \in Nat /\ free \in {0, 1} /\ dropped \in 0 .. MaxCalls

\* "maxRetries: N dials exactly N times" (reconnect.ts, 47): a drop is followed by at most
\* MaxRetries dials, however drops, failures and give-ups are mixed; a retry by hand dials once
\* even then.
DialsBounded == dials <= MaxRetries \/ dials <= free

\* A session nobody retries has no dial on its way that could revive it, one that is retried has
\* one; the delay that is waited never shrinks from one failure to the next.
OnlyRetriesDial ==
  /\ isRetrying(state) <=> dial # "none"
  /\ isRetrying(state) /\ dials > 1 => state.nextDelayMs >= nextBackoff(dials - 1)

\* Left alone, the retries end: connected or failed.
RetriesEnd == ~isRetrying(state)
=============================================================================
