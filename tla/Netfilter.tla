------------------------------ MODULE Netfilter ------------------------------
(***************************************************************************)
(* The kernel's packet filter and the iptables tools, external to the      *)
(* program: what the argument lists that privacyguard/*.py passes to       *)
(* iptables, iptables-save and iptables-restore do to a ruleset, and what  *)
(* becomes of a packet.  Only the rules the program writes, and two a user *)
(* may have written before, are distinguished.  Packets open connections,  *)
(* apart from "reply", which belongs to one.                               *)
(***************************************************************************)
EXTENDS Naturals, Sequences, SequencesExt

Tables == {"filter", "nat"}
FilterChains == {"INPUT", "OUTPUT", "FORWARD"}
NatChains == {"natOUTPUT", "natPREROUTING"}
UserChains == {"PG_PORTSCAN", "PG_REDSOCKS"}      \* the second one is in nat
Chains == FilterChains \cup NatChains \cup UserChains

TableOf(at) == IF at \in NatChains \cup {"PG_REDSOCKS", "nat"} THEN "nat" ELSE "filter"
Builtin(table) == IF table = "nat" THEN NatChains ELSE FilterChains

(* Packets by who sends them and where to: the Tor daemon to a relay, the  *)
(* redsocks daemon to the upstream proxy, an application to the Internet   *)
(* or to a port of this machine, the workstation behind a gateway, and     *)
(* what arrives from outside: a connection, one connection too many in the *)
(* window of the "recent" match, an answer.                                *)
TcpOut == {"torTcp", "redsocksTcp", "appTcp", "loTcp"}
AppOut == {"appTcp", "appDns", "appUdp"}
Workstation == {"wsTcp", "wsDns", "wsUdp"}
Inbound == {"newTcp", "scanTcp", "reply", "loIn"}
Packets == TcpOut \cup AppOut \cup Workstation \cup Inbound

(* A rule: the packets it matches and where it sends them.  A packet that  *)
(* a REDIRECT has turned to a local port is no longer one of these.        *)
Rule(match, target) == [match |-> match, target |-> target]

(* Ruleset: the rules of each chain of the tables the kernel has loaded,   *)
(* and the built-in filter chains whose policy is DROP.                    *)
RuleType == [match : SUBSET Packets,
             target : {"ACCEPT", "DROP", "RETURN", "LOG", "tor", "redsocks"} \cup UserChains]
IsRuleset(fw) ==
    /\ fw = [rules |-> fw.rules, drop |-> fw.drop]
    /\ DOMAIN fw.rules \subseteq Chains
    /\ fw.rules \in [DOMAIN fw.rules -> Seq(RuleType)]
    /\ fw.drop \subseteq FilterChains
EmptyTables(ts) ==
    [rules |-> [c \in UNION {Builtin(table) : table \in ts} |-> <<>>], drop |-> {}]
TablesOf(fw) == {TableOf(c) : c \in DOMAIN fw.rules}
-----------------------------------------------------------------------------
(* Packet traversal.  A jump ends in the user chain or returns from it.    *)
InUserChain(fw, chain, p) ==
    LET i == SelectInSeq(fw.rules[chain], LAMBDA r : p \in r.match /\ r.target # "LOG")
    IN  IF i = 0 THEN "RETURN" ELSE fw.rules[chain][i].target
Fate(fw, r, p) ==
    CASE p \notin r.match \/ r.target = "LOG" -> "RETURN"
      [] p \in r.match /\ r.target \in UserChains -> InUserChain(fw, r.target, p)
      [] OTHER -> r.target
Verdict(fw, chain, p) ==
    LET rules == IF chain \in DOMAIN fw.rules THEN fw.rules[chain] ELSE <<>>
        i == SelectInSeq(rules, LAMBDA r : Fate(fw, r, p) # "RETURN")
    IN  IF i # 0 THEN Fate(fw, rules[i], p)
        ELSE IF chain \in fw.drop THEN "DROP" ELSE "ACCEPT"

(* Where a packet of this machine ends up: at the port of a local daemon   *)
(* ("tor", "redsocks"), dropped, or at its destination, in clear.          *)
Through(fw, nat, filter, p) ==
    IF Verdict(fw, nat, p) # "ACCEPT" THEN Verdict(fw, nat, p)
    ELSE IF Verdict(fw, filter, p) = "ACCEPT" THEN "clear" ELSE "dropped"
Path(fw, p) == Through(fw, "natOUTPUT", "OUTPUT", p)
Forwarded(fw, p) == Through(fw, "natPREROUTING", "FORWARD", p)
Accepts(fw, p) == Verdict(fw, "INPUT", p) = "ACCEPT"
-----------------------------------------------------------------------------
(* Commands: an operation, the chain (or whole table) it works on, a rule. *)
Nothing == Rule({}, "RETURN")
Flush(at) == [op |-> "-F", at |-> at, rule |-> Nothing]
NewChain(at) == [op |-> "-N", at |-> at, rule |-> Nothing]
RemoveChain(at) == [op |-> "-X", at |-> at, rule |-> Nothing]
AppendRule(at, r) == [op |-> "-A", at |-> at, rule |-> r]
InsertRule(at, r) == [op |-> "-I", at |-> at, rule |-> r]
DeleteRule(at, r) == [op |-> "-D", at |-> at, rule |-> r]
AcceptAll(at) == [op |-> "-P", at |-> at, rule |-> Rule({}, "ACCEPT")]
DropAll(at) == [op |-> "-P", at |-> at, rule |-> Rule({}, "DROP")]

Command == {c \in [op : {"-F", "-N", "-X", "-A", "-I", "-D", "-P"}, at : Chains \cup Tables,
                   rule : RuleType] :
              (c.op = "-N" => c.at \in UserChains) /\ (c.op = "-P" => c.at \in FilterChains)}

(* The first command on a table loads it. *)
WithTable(fw, table) ==
    [fw EXCEPT !.rules = [c \in DOMAIN @ \cup Builtin(table) |->
                            IF c \in DOMAIN @ THEN @[c] ELSE <<>>]]

(* iptables refuses what does not fit the ruleset; "Chain already exists"  *)
(* is the one refusal callers may tolerate.                                *)
AlreadyExists(fw, c) == c.op = "-N" /\ c.at \in DOMAIN fw.rules
Refused(fw, c) ==
    \/ AlreadyExists(fw, c)
    \/ c.op # "-N" /\ c.at \in UserChains /\ c.at \notin DOMAIN fw.rules
    \/ c.rule.target \in UserChains /\ c.rule.target \notin DOMAIN fw.rules
    \/ c.op = "-D" /\ (c.at \notin DOMAIN fw.rules \/ ~Contains(fw.rules[c.at], c.rule))
    \/ /\ c.op = "-X" /\ c.at \in DOMAIN fw.rules
       /\ \/ fw.rules[c.at] # <<>>
          \/ \E k \in DOMAIN fw.rules : \E i \in DOMAIN fw.rules[k] :
                fw.rules[k][i].target = c.at

(* What an accepted command makes of the ruleset. *)
Exec(before, c) ==
    LET fw == WithTable(before, TableOf(c.at)) IN
    CASE c.op = "-F" -> [fw EXCEPT !.rules = [k \in DOMAIN @ |->
                            IF k = c.at \/ TableOf(k) = c.at THEN <<>> ELSE @[k]]]
      [] c.op = "-A" -> [fw EXCEPT !.rules[c.at] = Append(@, c.rule)]
      [] c.op = "-I" -> [fw EXCEPT !.rules[c.at] = <<c.rule>> \o @]
      [] c.op = "-D" -> [fw EXCEPT !.rules[c.at] = RemoveFirst(@, c.rule)]
      [] c.op = "-N" -> [fw EXCEPT !.rules = [k \in DOMAIN @ \cup {c.at} |->
                            IF k = c.at THEN <<>> ELSE @[k]]]
      [] c.op = "-X" -> [fw EXCEPT !.rules = [k \in DOMAIN @ \ {c.at} |-> @[k]]]
      [] c.op = "-P" -> [fw EXCEPT !.drop = IF c.rule.target = "DROP"
                                            THEN @ \cup {c.at} ELSE @ \ {c.at}]

(* iptables-save writes each table that is loaded, whole, so that its file *)
(* is a ruleset; iptables-restore replaces the tables its file has, user   *)
(* chains and policies with them, and leaves the other tables alone.       *)
Restored(fw, file) ==
    LET kept == {c \in DOMAIN fw.rules : TableOf(c) \notin TablesOf(file)}
    IN  [rules |-> [c \in kept \cup DOMAIN file.rules |->
                      IF c \in DOMAIN file.rules THEN file.rules[c] ELSE fw.rules[c]],
         drop  |-> IF "filter" \in TablesOf(file) THEN file.drop ELSE fw.drop]
=============================================================================
