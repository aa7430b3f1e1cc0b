--------------------------- MODULE MCSshSessions ---------------------------
(* Small instances of SshSessions: one host behind a jump host, one reached *)
(* directly, and keys of two algorithms.                                    *)
EXTENDS SshSessions, TLC

CONSTANTS s1, s2, w1, viaHop, direct, jump, a, b, k1, k2, k3

MCRoute == (viaHop :> <<jump, a>>) @@ (direct :> <<b>>)
HopRoute == (viaHop :> <<jump, a>>)
MCKeyType == (k1 :> "ed25519") @@ (k2 :> "ed25519") @@ (k3 :> "rsa")
OneKeyType == (k1 :> "ed25519")

CallOf(h, o, kd, p) == [host |-> h, owner |-> o, kind |-> kd, prompts |-> p]

\* Two terminals and a batch connection of one window, over the jump host or not.
MCCalls == {CallOf(viaHop, w1, "terminal", TRUE), CallOf(direct, w1, "terminal", TRUE),
            CallOf(direct, w1, "dedicated", FALSE)}
HopTerminal == {CallOf(viaHop, w1, "terminal", TRUE)}

SidSymmetry == Permutations({s1, s2})

\* Whatever the order of prompts, timeouts, failures and closings: a connect is answered, and
\* a prompt is answered or dropped.
ConnectsSettle == ConnectSettles /\ PromptResolved
=============================================================================
