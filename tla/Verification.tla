---------------------------- MODULE Verification ----------------------------
(***************************************************************************)
(* verify.py: what each check of an active kill switch finds in the state  *)
(* of KillSwitches.  The checks change nothing, so they are operators.     *)
(***************************************************************************)
EXTENDS KillSwitches

(* What the checks cannot know of the network: does 1.1.1.1 answer a ping, *)
(* is there a ping program, is the exit of the tunnel as it should be, are *)
(* the resolvers in /etc/resolv.conf local ones?                           *)
Surroundings == [answers : BOOLEAN, ping : BOOLEAN, exit : BOOLEAN, localDns : BOOLEAN]
Healthy == [answers |-> TRUE, ping |-> TRUE, exit |-> TRUE, localDns |-> TRUE]

(* ICMP, like "appUdp", is what no rule of the program names.  No ping     *)
(* program and no answer both count as blocked.                            *)
DirectTrafficBlocked(n) == n.ping /\ n.answers => Path(fw4, "appUdp") # "clear"

(* Asked through Tor's SOCKS port, at 127.0.0.1: a question that the nat   *)
(* table turns to the transparent port is not understood there.            *)
ThroughTor(n) == Path(fw4, "loTcp") = "clear" /\ tor.up /\ n.exit
ThroughProxy(n) ==
    CASE Path(fw4, "appTcp") = "clear"    -> n.answers
      [] Path(fw4, "appTcp") = "redsocks" -> redsocks # "down" /\ n.exit
      [] OTHER                            -> FALSE

TorChecks(n)   == <<DirectTrafficBlocked(n), ThroughTor(n), n.localDns>>
ProxyChecks(n) == <<DirectTrafficBlocked(n), ThroughProxy(n), n.localDns>>
V6Checks       == <<"OUTPUT" \in fw6.drop>>

(* verify_active goes by the state file. *)
VerifyActive(n) ==
    (IF st.tor THEN TorChecks(n) ELSE IF st.proxy THEN ProxyChecks(n) ELSE <<>>)
        \o (IF st.v6 THEN V6Checks ELSE <<>>)
Passes(checks) == \A i \in DOMAIN checks : checks[i]

(* The two checks that look at the rules are evidence of what they stand   *)
(* for: on a network that answers, a ping that is blocked means that no    *)
(* connection of an application leaves in clear, and an OUTPUT policy of   *)
(* DROP that none leaves over IPv6, at every step of every operation       *)
(* (verify.py:31-34, 102-104).                                             *)
ChecksAreEvidence ==
    /\ DirectTrafficBlocked(Healthy) => TorOnly(fw4)
    /\ Passes(V6Checks) => NoV6(fw6)

(* A kill switch that is on can be verified: there are surroundings in     *)
(* which every check of verify_active passes (README: "confirming the      *)
(* tunneled path works"; verify.py:31-34, the ping "correctly falls        *)
(* through to the final DROP").                                            *)
OnVerifies ==
    Settled /\ (st.tor \/ st.proxy) =>
        \E n \in Surroundings : n.ping /\ n.answers /\ Passes(VerifyActive(n))
=============================================================================
