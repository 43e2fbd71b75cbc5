--------------------------- MODULE NetfilterProofs ---------------------------
(***************************************************************************)
(* What the commands of iptables keep of a ruleset: that it is one, and    *)
(* the chains they do not name.                                            *)
(***************************************************************************)
EXTENDS Rulesets, SequenceTheorems, WellFoundedInduction, TLAPS

(* The least of some natural numbers. *)
LEMMA LeastNat ==
    ASSUME NEW T, T \subseteq Nat, T # {}
    PROVE  Min(T) \in T /\ \A y \in T : Min(T) <= y
  <1> DEFINE R == OpToRel(<, Nat)
  <1>1. IsWellFoundedOn(R, Nat) /\ R = {ss \in Nat \X Nat : ss[1] < ss[2]}
    BY NatLessThanWellFounded DEF OpToRel
  <1> HIDE DEF R
  <1>2. PICK x \in T : \A y \in T : ~(<<y, x>> \in R)
    BY <1>1, WFMin
  <1>3. ASSUME NEW y \in T PROVE x <= y
    <2>1. x \in Nat /\ y \in Nat /\ ~(<<y, x>> \in R)
      BY <1>2
    <2> QED BY <1>1, <2>1
  <1> QED BY <1>2, <1>3 DEF Min

(* What a search in a sequence of n elements returns: 0 if none, the least *)
(* of those it looks for if some are.                                      *)
LEMMA Selected ==
    ASSUME NEW n \in Nat, NEW I \in SUBSET (1 .. n), NEW k, k = IF I # {} THEN Min(I) ELSE 0
    PROVE  (k = 0 /\ I = {}) \/ (k # 0 /\ k \in I /\ \A j \in I : k <= j)
  <1>1. CASE I # {}
    <2>1. I \subseteq Nat \ {0}
      OBVIOUS
    <2>2. Min(I) \in I /\ \A j \in I : Min(I) <= j
      BY <1>1, <2>1, LeastNat
    <2> QED BY <1>1, <2>1, <2>2
  <1>2. CASE I = {}
    BY <1>2
  <1> QED BY <1>1, <1>2

(* A sequence less one element. *)
LEMMA RemoveFirstType ==
    ASSUME NEW S, NEW s \in Seq(S), NEW e
    PROVE  RemoveFirst(s, e) \in Seq(S)
  <1>1. CASE \E i \in 1 .. Len(s) : s[i] = e
    <2> DEFINE I == {i \in 1 .. Len(s) : s[i] = e}
               k == Min(I)
    <2>1. I # {} /\ I \subseteq Nat /\ Len(s) \in Nat
      BY <1>1, LenProperties
    <2>2. k \in 1 .. Len(s)
      BY <2>1, LeastNat
    <2>3. RemoveFirst(s, e) = SubSeq(s, 1, k - 1) \o SubSeq(s, k + 1, Len(s))
      BY <1>1, <2>1 DEF RemoveFirst, SelectInSeq, RemoveAt
    <2> HIDE DEF k
    <2>4. SubSeq(s, 1, k - 1) \in Seq(S) /\ SubSeq(s, k + 1, Len(s)) \in Seq(S)
      <3>1. \A i \in 1 .. Len(s) : s[i] \in S
        BY ElementOfSeq
      <3> QED BY <2>1, <2>2, <3>1, SubSeqProperties
    <2> QED BY <2>3, <2>4, ConcatProperties
  <1>2. CASE ~\E i \in 1 .. Len(s) : s[i] = e
    BY <1>2 DEF RemoveFirst
  <1> QED BY <1>1, <1>2
-----------------------------------------------------------------------------
(* The first command on a table adds its empty chains. *)
LEMMA Loaded ==
    ASSUME NEW fw, IsRuleset(fw), NEW table, NEW w, w = WithTable(fw, table)
    PROVE  /\ IsRuleset(w) /\ w.drop = fw.drop
           /\ DOMAIN w.rules = DOMAIN fw.rules \cup Builtin(table)
           /\ \A c \in DOMAIN w.rules :
                w.rules[c] = IF c \in DOMAIN fw.rules THEN fw.rules[c] ELSE <<>>
  <1>1. /\ w = [rules |-> w.rules, drop |-> w.drop] /\ w.drop = fw.drop
        /\ w.rules = [c \in DOMAIN fw.rules \cup Builtin(table) |->
                        IF c \in DOMAIN fw.rules THEN fw.rules[c] ELSE <<>>]
    BY DEF WithTable, IsRuleset
  <1>2. DOMAIN fw.rules \cup Builtin(table) \subseteq Chains
    BY DEF IsRuleset, Builtin, Chains
  <1>3. \A c \in DOMAIN fw.rules : fw.rules[c] \in Seq(RuleType)
    BY DEF IsRuleset
  <1>4. <<>> \in Seq(RuleType)
    BY EmptySeq
  <1> QED BY <1>1, <1>2, <1>3, <1>4 DEF IsRuleset

(* Another set of chains. *)
LEMMA ChainsChanged ==
    ASSUME NEW w, IsRuleset(w), NEW D, D \subseteq Chains, NEW g,
           g \in [D -> Seq(RuleType)], NEW x, x = [w EXCEPT !.rules = g]
    PROVE  IsRuleset(x) /\ x.drop = w.drop /\ x.rules = g
  <1>1. DOMAIN x = {"rules", "drop"} /\ x.drop = w.drop /\ x.rules = g
    BY DEF IsRuleset
  <1> QED BY <1>1 DEF IsRuleset

(* A command that iptables accepts makes a ruleset of a ruleset, and keeps *)
(* every chain that it does not name, nor the table of.                    *)
LEMMA Executed ==
    ASSUME NEW fw, IsRuleset(fw), NEW c \in Command, ~Refused(fw, c)
    PROVE  /\ IsRuleset(Exec(fw, c))
           /\ \A k \in DOMAIN fw.rules :
                k # c.at /\ TableOf(k) # c.at =>
                    k \in DOMAIN Exec(fw, c).rules /\ Exec(fw, c).rules[k] = fw.rules[k]
  <1> DEFINE w == WithTable(fw, TableOf(c.at))
             x == Exec(fw, c)
  <1>1. /\ IsRuleset(w) /\ DOMAIN w.rules = DOMAIN fw.rules \cup Builtin(TableOf(c.at))
        /\ \A k \in DOMAIN w.rules :
                w.rules[k] = IF k \in DOMAIN fw.rules THEN fw.rules[k] ELSE <<>>
    BY Loaded
  <1>2. /\ c.op \in {"-F", "-N", "-X", "-A", "-I", "-D", "-P"} /\ c.rule \in RuleType
        /\ c.op = "-N" => c.at \in UserChains
        /\ c.op = "-P" => c.at \in FilterChains
    BY DEF Command
  <1>3. /\ w = [rules |-> w.rules, drop |-> w.drop] /\ DOMAIN w.rules \subseteq Chains
        /\ \A k \in DOMAIN w.rules : w.rules[k] \in Seq(RuleType)
        /\ <<>> \in Seq(RuleType)
    BY <1>1, EmptySeq DEF IsRuleset
  <1>4. CASE c.op = "-F"
    <2> DEFINE g == [k \in DOMAIN w.rules |->
                        IF k = c.at \/ TableOf(k) = c.at THEN <<>> ELSE w.rules[k]]
    <2>1. x = [w EXCEPT !.rules = g]
      BY <1>4 DEF Exec
    <2>2. g \in [DOMAIN w.rules -> Seq(RuleType)]
      BY <1>3
    <2>3. IsRuleset(x) /\ x.rules = g
      <3> HIDE DEF w, x, g
      <3> QED BY <1>1, <1>3, <2>1, <2>2, ChainsChanged
    <2> QED BY <1>1, <2>3
  <1>5. CASE c.op \in {"-A", "-I", "-D"}
    <2>1. PICK s : /\ x = [w EXCEPT !.rules[c.at] = s]
                   /\ c.at \in DOMAIN w.rules => s \in Seq(RuleType)
      <3>1. CASE c.op = "-A"
        <4>1. x = [w EXCEPT !.rules[c.at] = Append(w.rules[c.at], c.rule)]
          BY <3>1 DEF Exec
        <4>2. c.at \in DOMAIN w.rules => Append(w.rules[c.at], c.rule) \in Seq(RuleType)
          BY <1>2, <1>3, AppendProperties
        <4> QED BY <4>1, <4>2
      <3>2. CASE c.op = "-I"
        <4>1. x = [w EXCEPT !.rules[c.at] = <<c.rule>> \o w.rules[c.at]]
          BY <3>2 DEF Exec
        <4>2. c.at \in DOMAIN w.rules => <<c.rule>> \o w.rules[c.at] \in Seq(RuleType)
          <5>1. <<c.rule>> \in Seq(RuleType)
            BY <1>2
          <5> QED BY <1>3, <5>1, ConcatProperties
        <4> QED BY <4>1, <4>2
      <3>3. CASE c.op = "-D"
        <4>1. x = [w EXCEPT !.rules[c.at] = RemoveFirst(w.rules[c.at], c.rule)]
          BY <3>3 DEF Exec
        <4>2. c.at \in DOMAIN w.rules => RemoveFirst(w.rules[c.at], c.rule) \in Seq(RuleType)
          BY <1>3, RemoveFirstType
        <4> QED BY <4>1, <4>2
      <3> QED BY <1>5, <3>1, <3>2, <3>3
    <2>2. /\ IsRuleset(x) /\ DOMAIN x.rules = DOMAIN w.rules
          /\ \A k \in DOMAIN w.rules : x.rules[k] = IF k = c.at THEN s ELSE w.rules[k]
      <3> DEFINE at == c.at
      <3>1. x = [w EXCEPT !.rules[at] = s] /\ (at \in DOMAIN w.rules => s \in Seq(RuleType))
        BY <2>1
      <3> HIDE DEF w, x, at
      <3>2. /\ IsRuleset(x) /\ DOMAIN x.rules = DOMAIN w.rules
            /\ \A k \in DOMAIN w.rules : x.rules[k] = IF k = at THEN s ELSE w.rules[k]
        <4>1. /\ x = [rules |-> x.rules, drop |-> x.drop] /\ x.drop = w.drop
              /\ x.rules = [w.rules EXCEPT ![at] = s]
          BY <1>3, <3>1
        <4> QED BY <1>1, <3>1, <4>1 DEF IsRuleset
      <3> QED BY <3>2 DEF at
    <2> QED BY <1>1, <2>2
  <1>6. CASE c.op = "-N"
    <2> DEFINE g == [k \in DOMAIN w.rules \cup {c.at} |-> IF k = c.at THEN <<>> ELSE w.rules[k]]
    <2>1. x = [w EXCEPT !.rules = g]
      BY <1>6 DEF Exec
    <2>2. g \in [DOMAIN w.rules \cup {c.at} -> Seq(RuleType)]
      BY <1>3
    <2>3. DOMAIN w.rules \cup {c.at} \subseteq Chains
      BY <1>2, <1>3, <1>6 DEF Chains
    <2>4. IsRuleset(x) /\ x.rules = g
      <3> DEFINE D == DOMAIN w.rules \cup {c.at}
      <3>1. g \in [D -> Seq(RuleType)] /\ D \subseteq Chains
        BY <2>2, <2>3
      <3> HIDE DEF w, x, g, D
      <3>2. x = [rules |-> x.rules, drop |-> x.drop] /\ x.drop = w.drop /\ x.rules = g
        BY <1>3, <2>1
      <3> QED BY <1>1, <3>1, <3>2 DEF IsRuleset
    <2> QED BY <1>1, <2>4
  <1>7. CASE c.op = "-X"
    <2> DEFINE D == DOMAIN w.rules \ {c.at}
               g == [k \in D |-> w.rules[k]]
    <2>1. x = [w EXCEPT !.rules = g]
      BY <1>7 DEF Exec
    <2>2. g \in [D -> Seq(RuleType)] /\ D \subseteq Chains
      BY <1>3
    <2>3. IsRuleset(x) /\ x.rules = g
      <3> HIDE DEF w, x, g, D
      <3>1. x = [rules |-> x.rules, drop |-> x.drop] /\ x.drop = w.drop /\ x.rules = g
        BY <1>3, <2>1
      <3> QED BY <1>1, <2>2, <3>1 DEF IsRuleset
    <2> QED BY <1>1, <2>3
  <1>8. CASE c.op = "-P"
    <2>1. PICK d : x = [w EXCEPT !.drop = d] /\ d \in {w.drop \cup {c.at}, w.drop \ {c.at}}
      BY <1>8 DEF Exec
    <2>2. d \subseteq FilterChains
      BY <1>1, <1>2, <1>8, <2>1 DEF IsRuleset
    <2>3. x = [rules |-> x.rules, drop |-> x.drop] /\ x.rules = w.rules /\ x.drop = d
      <3> HIDE DEF w, x
      <3> QED BY <1>3, <2>1
    <2>4. IsRuleset(x)
      <3> HIDE DEF w, x
      <3> QED BY <1>1, <2>2, <2>3 DEF IsRuleset
    <2> QED BY <1>1, <2>3, <2>4
  <1> QED BY <1>2, <1>4, <1>5, <1>6, <1>7, <1>8

(* So does the restore of a backup. *)
LEMMA RestoredRuleset ==
    ASSUME NEW fw, IsRuleset(fw), NEW file, IsRuleset(file)
    PROVE  IsRuleset(Restored(fw, file))
  <1> DEFINE kept == {c \in DOMAIN fw.rules : TableOf(c) \notin TablesOf(file)}
             x == Restored(fw, file)
  <1>1. /\ x = [rules |-> x.rules, drop |-> x.drop] /\ x.drop \in {file.drop, fw.drop}
        /\ x.rules = [c \in kept \cup DOMAIN file.rules |->
                        IF c \in DOMAIN file.rules THEN file.rules[c] ELSE fw.rules[c]]
    BY DEF Restored
  <1>2. kept \subseteq DOMAIN fw.rules
    OBVIOUS
  <1> HIDE DEF kept, x
  <1>3. /\ \A c \in DOMAIN fw.rules : c \in Chains /\ fw.rules[c] \in Seq(RuleType)
        /\ \A c \in DOMAIN file.rules : c \in Chains /\ file.rules[c] \in Seq(RuleType)
        /\ fw.drop \subseteq FilterChains /\ file.drop \subseteq FilterChains
    BY DEF IsRuleset
  <1>4. x.rules \in [kept \cup DOMAIN file.rules -> Seq(RuleType)]
    BY <1>1, <1>2, <1>3
  <1>5. IsRuleset(x)
    BY <1>1, <1>2, <1>3, <1>4 DEF IsRuleset
  <1> QED BY <1>5 DEF x

(* An element of a sequence. *)
Holds(s, e) == \E j \in 1 .. Len(s) : s[j] = e

(* What a sequence holds less one element it held before. *)
LEMMA RemoveFirstHolds ==
    ASSUME NEW S, NEW s \in Seq(S), NEW e, NEW r, Holds(RemoveFirst(s, e), r)
    PROVE  Holds(s, r)
  <1> DEFINE T == {s[j] : j \in 1 .. Len(s)}
  <1>1. s \in Seq(T)
    <2>1. Len(s) \in Nat /\ s = [j \in 1 .. Len(s) |-> s[j]]
      BY LenProperties, SeqDef
    <2> QED BY <2>1, SeqDef
  <1>2. RemoveFirst(s, e) \in Seq(T)
    <2> HIDE DEF T
    <2> QED BY <1>1, RemoveFirstType
  <1>3. r \in T
    <2> HIDE DEF T
    <2> QED BY <1>2, ElementOfSeq DEF Holds
  <1> QED BY <1>3 DEF Holds

(* A rule of the ruleset that a command leaves is one of before, or the    *)
(* one the command adds.                                                   *)
LEMMA Origin ==
    ASSUME NEW fw, IsRuleset(fw), NEW c \in Command, ~Refused(fw, c),
           NEW k \in DOMAIN Exec(fw, c).rules, NEW r, Holds(Exec(fw, c).rules[k], r)
    PROVE  \/ k \in DOMAIN fw.rules /\ Holds(fw.rules[k], r)
           \/ k = c.at /\ c.op \in {"-A", "-I"} /\ r = c.rule
  <1> DEFINE w == WithTable(fw, TableOf(c.at))
             x == Exec(fw, c)
  <1>1. /\ IsRuleset(w) /\ DOMAIN w.rules = DOMAIN fw.rules \cup Builtin(TableOf(c.at))
        /\ \A at \in DOMAIN w.rules :
                w.rules[at] = IF at \in DOMAIN fw.rules THEN fw.rules[at] ELSE <<>>
    BY Loaded
  <1>2. /\ c.op \in {"-F", "-N", "-X", "-A", "-I", "-D", "-P"} /\ c.rule \in RuleType
        /\ ~Holds(<<>>, r) /\ DOMAIN w = {"rules", "drop"}
        /\ \A at \in DOMAIN w.rules : w.rules[at] \in Seq(RuleType)
    BY <1>1, EmptySeq DEF Command, Holds, IsRuleset
  <1>3. SUFFICES \/ k \in DOMAIN w.rules /\ Holds(w.rules[k], r)
                 \/ k = c.at /\ c.op \in {"-A", "-I"} /\ r = c.rule
    BY <1>1, <1>2
  <1>4. Holds(x.rules[k], r)
    OBVIOUS
  <1>5. CASE c.op \in {"-F", "-N", "-X", "-P"}
    <2>1. x.rules[k] = <<>> \/ (k \in DOMAIN w.rules /\ x.rules[k] = w.rules[k])
      <3> HIDE DEF w
      <3>1. CASE c.op = "-F"
        BY <1>2, <3>1 DEF Exec, w
      <3>2. CASE c.op = "-N"
        BY <1>2, <3>2 DEF Exec, w
      <3>3. CASE c.op = "-X"
        BY <1>2, <3>3 DEF Exec, w
      <3>4. CASE c.op = "-P"
        <4>1. \E d : x = [w EXCEPT !.drop = d]
          BY <3>4 DEF Exec, w
        <4> HIDE DEF x
        <4>2. x.rules = w.rules
          BY <1>2, <4>1
        <4> QED BY <4>2 DEF x
      <3> QED BY <1>5, <3>1, <3>2, <3>3, <3>4
    <2> QED BY <1>2, <1>4, <2>1
  <1>6. CASE c.op \in {"-A", "-I", "-D"}
    <2> DEFINE at == c.at
               old == w.rules[at]
    <2>1. PICK s : /\ x = [w EXCEPT !.rules[at] = s]
                   /\ \/ c.op = "-A" /\ s = Append(old, c.rule)
                      \/ c.op = "-I" /\ s = <<c.rule>> \o old
                      \/ c.op = "-D" /\ s = RemoveFirst(old, c.rule)
      BY <1>6 DEF Exec
    <2>2. DOMAIN x.rules = DOMAIN w.rules /\ x.rules[k] = IF k = at THEN s ELSE w.rules[k]
      <3>1. k \in DOMAIN x.rules
        OBVIOUS
      <3> HIDE DEF w, x, at, old
      <3>2. x.rules = [w.rules EXCEPT ![at] = s]
        BY <1>2, <2>1
      <3> QED BY <3>1, <3>2
    <2>3. CASE k # at
      BY <1>4, <2>2, <2>3
    <2>4. CASE k = at
      <3>1. at \in DOMAIN w.rules /\ old \in Seq(RuleType) /\ Holds(s, r)
        BY <1>2, <1>4, <2>2, <2>4
      <3>2. Holds(old, r) \/ (c.op \in {"-A", "-I"} /\ r = c.rule)
        <4> HIDE DEF old
        <4>1. CASE c.op = "-A"
          <5>1. Len(s) = Len(old) + 1 /\ Len(old) \in Nat
                /\ \A j \in 1 .. Len(old) + 1 : s[j] = IF j <= Len(old) THEN old[j] ELSE c.rule
            BY <1>2, <2>1, <3>1, <4>1, AppendProperties, LenProperties
          <5> QED BY <3>1, <4>1, <5>1 DEF Holds
        <4>2. CASE c.op = "-I"
          <5> DEFINE one == <<c.rule>>
          <5>1. one \in Seq(RuleType) /\ Len(one) = 1 /\ one[1] = c.rule
            BY <1>2
          <5>2. s = one \o old
            BY <2>1, <4>2
          <5> HIDE DEF one
          <5>3. Len(s) = 1 + Len(old) /\ Len(old) \in Nat
                /\ \A j \in 1 .. 1 + Len(old) : s[j] = IF j <= 1 THEN one[j] ELSE old[j - 1]
            BY <3>1, <5>1, <5>2, ConcatProperties, LenProperties
          <5> QED BY <3>1, <4>2, <5>1, <5>3 DEF Holds
        <4>3. CASE c.op = "-D"
          BY <2>1, <3>1, <4>3, RemoveFirstHolds
        <4> QED BY <1>6, <4>1, <4>2, <4>3
      <3> QED BY <2>4, <3>1, <3>2
    <2> QED BY <2>3, <2>4
  <1> QED BY <1>2, <1>5, <1>6

(* One a restore leaves is of the backup, or of a table the backup lacks.  *)
LEMMA RestoredOrigin ==
    ASSUME NEW fw, NEW file, NEW k \in DOMAIN Restored(fw, file).rules
    PROVE  \/ k \in DOMAIN file.rules /\ Restored(fw, file).rules[k] = file.rules[k]
           \/ k \in DOMAIN fw.rules /\ Restored(fw, file).rules[k] = fw.rules[k]
  BY DEF Restored

(* So are the tables the kernel loads at first. *)
LEMMA EmptyRuleset ==
    ASSUME NEW ts, ts \subseteq Tables
    PROVE  IsRuleset(EmptyTables(ts))
  <1> DEFINE D == UNION {Builtin(table) : table \in ts}
  <1>1. D \subseteq Chains
    BY DEF Builtin, Chains
  <1>2. <<>> \in Seq(RuleType)
    BY EmptySeq
  <1> QED BY <1>1, <1>2 DEF EmptyTables, IsRuleset
-----------------------------------------------------------------------------
(* The program's lists are lists of commands. *)
Targets == {"ACCEPT", "DROP", "RETURN", "LOG", "tor", "redsocks"} \cup UserChains

(* The rules of the program are rules, ... *)
LEMMA RuleTyped ==
    ASSUME NEW match \in SUBSET Packets, NEW target \in Targets
    PROVE  Rule(match, target) \in RuleType
  BY DEF Rule, RuleType, Targets

(* ... by name, ... *)
LEMMA RulesTyped ==
    /\ Lo \in RuleType /\ Established \in RuleType /\ RedirectedOnly \in RuleType
    /\ TorUid \in RuleType /\ TcpToTor \in RuleType /\ DnsToTor \in RuleType
    /\ Scanning \in RuleType /\ Counted \in RuleType /\ Nothing \in RuleType
    /\ \A target \in Targets : Everything(target) \in RuleType
  BY RuleTyped
  DEF Lo, Established, RedirectedOnly, TorUid, TcpToTor, DnsToTor, Scanning, Counted, Nothing,
      Everything, Packets, TcpOut, AppOut, Workstation, Inbound, Targets, UserChains

(* ... its commands commands ... *)
LEMMA CommandTyped ==
    /\ \A at \in Chains \cup Tables : Flush(at) \in Command
    /\ \A at \in UserChains : NewChain(at) \in Command /\ RemoveChain(at) \in Command
    /\ \A at \in Chains, r \in RuleType :
          AppendRule(at, r) \in Command /\ InsertRule(at, r) \in Command /\ DeleteRule(at, r) \in Command
    /\ \A at \in FilterChains : AcceptAll(at) \in Command /\ DropAll(at) \in Command
  <1>1. Rule({}, "ACCEPT") \in RuleType /\ Rule({}, "DROP") \in RuleType
    BY RuleTyped DEF Targets
  <1> QED BY <1>1, RulesTyped
      DEF Flush, NewChain, RemoveChain, AppendRule, InsertRule, DeleteRule, AcceptAll, DropAll,
          Command, Chains

(* ... and its lists lists of them. *)
LEMMA ListsTyped ==
    /\ TorRules \in Seq(Command) /\ ProxyRules \in Seq(Command) /\ GatewayRules \in Seq(Command)
    /\ GatewayV6Rules \in Seq(Command) /\ BlockV6Rules \in Seq(Command)
    /\ OpenV4Rules \in Seq(Command) /\ OpenV6Rules \in Seq(Command)
    /\ ScanRules \in Seq(Command) /\ ScanRemoval \in Seq(Command)
  <1>1. /\ {"OUTPUT", "INPUT", "FORWARD"} \subseteq FilterChains
        /\ FilterChains \subseteq Chains /\ NatChains \subseteq Chains /\ UserChains \subseteq Chains
        /\ {"natOUTPUT", "natPREROUTING"} \subseteq NatChains
        /\ {"PG_PORTSCAN", "PG_REDSOCKS"} \subseteq UserChains
        /\ {"filter", "nat"} \subseteq Tables
        /\ {"ACCEPT", "DROP", "LOG", "RETURN"} \subseteq Targets
    BY DEF FilterChains, NatChains, UserChains, Chains, Tables, Targets
  <1>2. /\ Rule({"loTcp"}, "RETURN") \in RuleType /\ Rule(TcpOut, "redsocks") \in RuleType
        /\ Rule(TcpOut, "PG_REDSOCKS") \in RuleType
        /\ Rule({"wsTcp"}, "tor") \in RuleType /\ Rule({"wsDns"}, "tor") \in RuleType
    BY RuleTyped DEF Packets, TcpOut, Workstation, Targets, UserChains
  <1>3. TorRules \in Seq(Command)
    BY <1>1, CommandTyped, RulesTyped DEF TorRules
  <1>4. ProxyRules \in Seq(Command)
    BY <1>1, <1>2, CommandTyped DEF ProxyRules
  <1>5. GatewayRules \in Seq(Command)
    BY <1>1, <1>2, CommandTyped, RulesTyped DEF GatewayRules
  <1>6. GatewayV6Rules \in Seq(Command) /\ BlockV6Rules \in Seq(Command)
    BY <1>1, CommandTyped, RulesTyped DEF GatewayV6Rules, BlockV6Rules
  <1>7. OpenV4Rules \in Seq(Command) /\ OpenV6Rules \in Seq(Command)
    BY <1>1, CommandTyped DEF OpenV4Rules, OpenV6Rules
  <1>8. ScanRules \in Seq(Command) /\ ScanRemoval \in Seq(Command)
    BY <1>1, CommandTyped, RulesTyped DEF ScanRules, ScanRemoval
  <1> QED BY <1>3, <1>4, <1>5, <1>6, <1>7, <1>8
-----------------------------------------------------------------------------
(* The rules of a chain: none is about the connections of applications;    *)
(* all redirect to Tor; the last one drops what the others are not about.  *)
Silent(rs) == \A i \in 1 .. Len(rs) : rs[i].match \cap AppOut = {}
ToTor(rs)  == \A i \in 1 .. Len(rs) : rs[i].target = "tor"
Closed(rs) ==
    /\ Len(rs) > 0 /\ rs[Len(rs)] = Everything("DROP")
    /\ \A i \in 1 .. Len(rs) - 1 : rs[i].match \cap AppOut = {}

(* What the Tor switch, and block_ipv6, leave behind. *)
Sealed(fw) ==
    /\ {"OUTPUT", "natOUTPUT"} \subseteq DOMAIN fw.rules
    /\ Closed(fw.rules["OUTPUT"]) /\ ToTor(fw.rules["natOUTPUT"])
V6Closed(fw) ==
    "OUTPUT" \in DOMAIN fw.rules /\ Silent(fw.rules["OUTPUT"]) /\ "OUTPUT" \in fw.drop

(* A rule that a packet does not match leaves it to the next. *)
LEMMA NoDecision ==
    ASSUME NEW fw, NEW r, NEW p, p \notin r.match
    PROVE  Fate(fw, r, p) = "RETURN"
  BY DEF Fate

(* Then no connection of an application leaves in clear, *)
LEMMA SealedIsTorOnly ==
    ASSUME NEW fw, IsRuleset(fw), Sealed(fw)
    PROVE  TorOnly(fw)
  <1> SUFFICES ASSUME NEW p \in AppOut PROVE Path(fw, p) # "clear"
    BY DEF TorOnly
  <1> DEFINE rs == fw.rules["OUTPUT"]
             ns == fw.rules["natOUTPUT"]
  <1>1. rs \in Seq(RuleType) /\ ns \in Seq(RuleType) /\ Len(rs) \in Nat /\ Len(ns) \in Nat
    BY LenProperties DEF IsRuleset, Sealed
  <1>2. Closed(rs) /\ ToTor(ns)
    BY DEF Sealed
  <1>3. Verdict(fw, "OUTPUT", p) = "DROP"
    <2> DEFINE I == {i \in 1 .. Len(rs) : Fate(fw, rs[i], p) # "RETURN"}
    <2>1. \A i \in 1 .. Len(rs) - 1 : Fate(fw, rs[i], p) = "RETURN"
      BY <1>2, NoDecision DEF Closed
    <2>2. rs[Len(rs)] = Everything("DROP") /\ Len(rs) > 0
      BY <1>2 DEF Closed
    <2>3. Fate(fw, rs[Len(rs)], p) = "DROP"
      <3>1. p \in Everything("DROP").match /\ Everything("DROP").target = "DROP"
        BY DEF Everything, Rule, Packets
      <3> QED BY <2>2, <3>1 DEF Fate, UserChains
    <2>4. I = {Len(rs)}
      BY <1>1, <2>1, <2>2, <2>3
    <2>5. Min(I) = Len(rs)
      BY <1>1, <2>4, LeastNat
    <2>6. SelectInSeq(rs, LAMBDA r : Fate(fw, r, p) # "RETURN") = Len(rs)
      BY <2>4, <2>5 DEF SelectInSeq
    <2>7. "OUTPUT" \in DOMAIN fw.rules
      BY DEF Sealed
    <2> HIDE DEF I
    <2> QED BY <1>1, <2>2, <2>3, <2>6, <2>7 DEF Verdict
  <1>4. Verdict(fw, "natOUTPUT", p) # "clear"
    <2> DEFINE I == {i \in 1 .. Len(ns) : Fate(fw, ns[i], p) # "RETURN"}
               k == SelectInSeq(ns, LAMBDA r : Fate(fw, r, p) # "RETURN")
    <2>1. k = 0 \/ k \in 1 .. Len(ns)
      <3>1. I # {} => Min(I) \in I
        <4>1. I \subseteq Nat
          BY <1>1
        <4> HIDE DEF I
        <4> QED BY <4>1, LeastNat
      <3> QED BY <3>1 DEF SelectInSeq
    <2>2. "natOUTPUT" \in DOMAIN fw.rules
      BY DEF Sealed
    <2>3. Verdict(fw, "natOUTPUT", p) = IF k # 0 THEN Fate(fw, ns[k], p)
                                       ELSE IF "natOUTPUT" \in fw.drop THEN "DROP" ELSE "ACCEPT"
      BY <2>2 DEF Verdict
    <2> HIDE DEF k
    <2>4. k # 0 => Fate(fw, ns[k], p) \in {"RETURN", "tor"}
      BY <1>2, <2>1 DEF ToTor, Fate, UserChains
    <2> QED BY <2>3, <2>4
  <1> QED BY <1>3, <1>4 DEF Path, Through

(* and none over IPv6. *)
LEMMA ClosedIsNoV6 ==
    ASSUME NEW fw, IsRuleset(fw), V6Closed(fw)
    PROVE  NoV6(fw)
  <1> SUFFICES ASSUME NEW p \in AppOut PROVE Verdict(fw, "OUTPUT", p) = "DROP"
    BY DEF NoV6
  <1> DEFINE rs == fw.rules["OUTPUT"]
  <1>1. \A i \in 1 .. Len(rs) : Fate(fw, rs[i], p) = "RETURN"
    BY NoDecision DEF V6Closed, Silent
  <1>2. SelectInSeq(rs, LAMBDA r : Fate(fw, r, p) # "RETURN") = 0
    BY <1>1 DEF SelectInSeq
  <1> QED BY <1>2 DEF V6Closed, Verdict
-----------------------------------------------------------------------------
(* The commands the two lists are made of. *)
(* -F *)
LEMMA Flushed ==
    ASSUME NEW fw, IsRuleset(fw), NEW table \in Tables, NEW at \in Builtin(table)
    PROVE  /\ at \in DOMAIN Exec(fw, Flush(table)).rules
           /\ Exec(fw, Flush(table)).rules[at] = <<>>
  <1> DEFINE w == WithTable(fw, TableOf(table))
  <1>1. TableOf(table) = table /\ TableOf(at) = table
    BY DEF TableOf, Tables, Builtin, FilterChains, NatChains
  <1>2. IsRuleset(w) /\ at \in DOMAIN w.rules
    BY <1>1, Loaded
  <1>3. DOMAIN w = {"rules", "drop"}
    BY <1>2 DEF IsRuleset
  <1>4. Exec(fw, Flush(table)) =
          [w EXCEPT !.rules = [k \in DOMAIN w.rules |->
                                IF k = table \/ TableOf(k) = table THEN <<>> ELSE w.rules[k]]]
    BY DEF Exec, Flush
  <1> HIDE DEF w
  <1> QED BY <1>1, <1>2, <1>3, <1>4

(* -A *)
LEMMA Appended ==
    ASSUME NEW fw, IsRuleset(fw), NEW r \in RuleType, NEW at \in DOMAIN fw.rules
    PROVE  /\ at \in DOMAIN Exec(fw, AppendRule(at, r)).rules
           /\ Exec(fw, AppendRule(at, r)).rules[at] = Append(fw.rules[at], r)
           /\ Exec(fw, AppendRule(at, r)).drop = fw.drop
  <1> DEFINE w == WithTable(fw, TableOf(at))
  <1>1. IsRuleset(w) /\ at \in DOMAIN w.rules /\ w.rules[at] = fw.rules[at] /\ w.drop = fw.drop
    BY Loaded
  <1>2. DOMAIN w = {"rules", "drop"}
    BY <1>1 DEF IsRuleset
  <1>3. Exec(fw, AppendRule(at, r)) = [w EXCEPT !.rules[at] = Append(w.rules[at], r)]
    BY DEF Exec, AppendRule
  <1> HIDE DEF w
  <1> QED BY <1>1, <1>2, <1>3

(* -P DROP *)
LEMMA PolicySet ==
    ASSUME NEW fw, IsRuleset(fw), NEW at \in FilterChains
    PROVE  /\ Exec(fw, DropAll(at)).drop = fw.drop \cup {at}
           /\ \A k \in DOMAIN fw.rules : /\ k \in DOMAIN Exec(fw, DropAll(at)).rules
                                         /\ Exec(fw, DropAll(at)).rules[k] = fw.rules[k]
  <1> DEFINE w == WithTable(fw, TableOf(at))
  <1>1. /\ IsRuleset(w) /\ w.drop = fw.drop
        /\ \A k \in DOMAIN fw.rules : k \in DOMAIN w.rules /\ w.rules[k] = fw.rules[k]
    BY Loaded
  <1>2. DOMAIN w = {"rules", "drop"}
    BY <1>1 DEF IsRuleset
  <1>3. Exec(fw, DropAll(at)) = [w EXCEPT !.drop = w.drop \cup {at}]
    BY DEF Exec, DropAll, Rule
  <1> HIDE DEF w
  <1> QED BY <1>1, <1>2, <1>3

(* A rule more at the end. *)
LEMMA SilentAppend ==
    ASSUME NEW rs \in Seq(RuleType), NEW r \in RuleType
    PROVE  /\ Silent(rs) /\ r.match \cap AppOut = {} => Silent(Append(rs, r))
           /\ ToTor(rs) /\ r.target = "tor" => ToTor(Append(rs, r))
           /\ Silent(rs) => Closed(Append(rs, Everything("DROP")))
  <1>1. Everything("DROP") \in RuleType
    BY RulesTyped DEF Targets
  <1>2. \A x \in RuleType : /\ Len(Append(rs, x)) = Len(rs) + 1
                            /\ \A i \in 1 .. Len(rs) : Append(rs, x)[i] = rs[i]
                            /\ Append(rs, x)[Len(rs) + 1] = x
    BY AppendProperties
  <1>3. Len(rs) \in Nat
    BY LenProperties
  <1> QED BY <1>1, <1>2, <1>3 DEF Silent, ToTor, Closed
-----------------------------------------------------------------------------
(* Half-way through the list of the Tor switch, with n commands to go.     *)
TorApplying(fw, todo) ==
    LET n == Len(todo) IN
    /\ n \in 0 .. 9 /\ \A i \in 1 .. n : todo[i] = TorRules[9 - n + i]
    /\ n < 9 => "OUTPUT" \in DOMAIN fw.rules
    /\ n < 8 => "natOUTPUT" \in DOMAIN fw.rules /\ ToTor(fw.rules["natOUTPUT"])
    /\ n \in 1 .. 8 => Silent(fw.rules["OUTPUT"])
    /\ n = 0 => Closed(fw.rules["OUTPUT"])

(* Every command of it that succeeds takes it one further. *)
LEMMA TorRuleApplied ==
    ASSUME NEW fw, IsRuleset(fw), NEW todo \in Seq(Command), todo # <<>>, TorApplying(fw, todo),
           ~Refused(fw, Head(todo))
    PROVE  TorApplying(Exec(fw, Head(todo)), Tail(todo))
  <1> DEFINE n == Len(todo)
             c == Head(todo)
             x == Exec(fw, c)
             rest == Tail(todo)
             out == fw.rules["OUTPUT"]
             nat == fw.rules["natOUTPUT"]
  <1>1. /\ n \in 1 .. 9 /\ c = todo[1] /\ Len(rest) = n - 1
        /\ \A i \in 1 .. n - 1 : rest[i] = todo[i + 1]
    BY HeadTailProperties, EmptySeq, LenProperties DEF TorApplying
  <1>2. c = TorRules[10 - n] /\ \A i \in 1 .. n - 1 : rest[i] = TorRules[9 - (n - 1) + i]
    BY <1>1 DEF TorApplying
  <1>3. /\ n < 9 => "OUTPUT" \in DOMAIN fw.rules
        /\ n < 8 => "natOUTPUT" \in DOMAIN fw.rules /\ ToTor(nat)
        /\ n < 9 => Silent(out)
    <2>1. /\ n < 9 => "OUTPUT" \in DOMAIN fw.rules
          /\ n < 8 => "natOUTPUT" \in DOMAIN fw.rules /\ ToTor(nat)
          /\ n \in 1 .. 8 => Silent(out)
      BY DEF TorApplying
    <2>2. n < 9 <=> n \in 1 .. 8
      <3>1. n \in 1 .. 9
        BY <1>1
      <3> HIDE DEF n
      <3> QED BY <3>1
    <2> QED BY <2>1, <2>2
  <1>4. \A k \in DOMAIN fw.rules : fw.rules[k] \in Seq(RuleType)
    BY DEF IsRuleset
  <1>5. \A k \in DOMAIN fw.rules :
            k # c.at /\ TableOf(k) # c.at => k \in DOMAIN x.rules /\ x.rules[k] = fw.rules[k]
    BY <1>1, HeadTailProperties, Executed
  <1>6. /\ TableOf("OUTPUT") = "filter" /\ TableOf("natOUTPUT") = "nat"
        /\ "OUTPUT" \in Builtin("filter") /\ "natOUTPUT" \in Builtin("nat")
        /\ "filter" \in Tables /\ "nat" \in Tables
    BY DEF TableOf, Builtin, FilterChains, NatChains, Tables
  (* After the command. *)
  <1> DEFINE After == /\ "OUTPUT" \in DOMAIN x.rules
                      /\ n < 9 => "natOUTPUT" \in DOMAIN x.rules /\ ToTor(x.rules["natOUTPUT"])
                      /\ n > 1 => Silent(x.rules["OUTPUT"])
                      /\ n = 1 => Closed(x.rules["OUTPUT"])
  <1>7. Silent(<<>>) /\ ToTor(<<>>)
    BY EmptySeq DEF Silent, ToTor
  <1> HIDE DEF n, c, x
  <1>8. ASSUME n = 9 PROVE After
    <2>1. c = Flush("filter")
      BY <1>2, <1>8 DEF TorRules
    <2> QED BY <1>6, <1>7, <1>8, <2>1, Flushed DEF x
  <1>9. ASSUME n = 8 PROVE After
    <2>1. c = Flush("nat") /\ c.at = "nat"
      BY <1>2, <1>9 DEF TorRules, Flush
    <2> QED BY <1>3, <1>5, <1>6, <1>7, <1>9, <2>1, Flushed DEF x
  <1>10. ASSUME NEW r \in {Lo, TorUid, Established, RedirectedOnly}, c = AppendRule("OUTPUT", r), n \in 2 .. 7
         PROVE  After
    <2>1. r \in RuleType /\ r.match \cap AppOut = {}
      <3>1. r \in RuleType
        BY <1>10, RulesTyped
      <3>2. r.match \in {{"loTcp", "loIn"}, {"torTcp"}, {"reply"}, {}}
        BY <1>10 DEF Lo, TorUid, Established, RedirectedOnly, Rule
      <3> QED BY <3>1, <3>2 DEF AppOut
    <2>2. c.at = "OUTPUT"
      BY <1>10 DEF AppendRule
    <2>3. "OUTPUT" \in DOMAIN x.rules /\ x.rules["OUTPUT"] = Append(out, r)
      BY <1>3, <1>10, <2>1, Appended DEF x
    <2>4. Silent(x.rules["OUTPUT"])
      BY <1>3, <1>4, <1>10, <2>1, <2>3, SilentAppend
    <2> QED BY <1>3, <1>5, <1>6, <1>10, <2>2, <2>3, <2>4
  <1>11. ASSUME NEW r \in {TcpToTor, DnsToTor}, c = AppendRule("natOUTPUT", r), n \in 2 .. 7
         PROVE  After
    <2>1. r \in RuleType /\ r.target = "tor"
      <3>1. r \in RuleType
        BY <1>11, RulesTyped
      <3> QED BY <1>11, <3>1 DEF TcpToTor, DnsToTor, Rule
    <2>2. c.at = "natOUTPUT"
      BY <1>11 DEF AppendRule
    <2>3. "natOUTPUT" \in DOMAIN x.rules /\ x.rules["natOUTPUT"] = Append(nat, r)
      BY <1>3, <1>11, <2>1, Appended DEF x
    <2>4. ToTor(x.rules["natOUTPUT"])
      BY <1>3, <1>4, <1>11, <2>1, <2>3, SilentAppend
    <2> QED BY <1>3, <1>5, <1>6, <1>11, <2>2, <2>3, <2>4
  <1>12. ASSUME n \in 2 .. 7 PROVE After
    <2>1. \/ \E r \in {Lo, TorUid, Established, RedirectedOnly} : c = AppendRule("OUTPUT", r)
          \/ \E r \in {TcpToTor, DnsToTor} : c = AppendRule("natOUTPUT", r)
      BY <1>2, <1>12 DEF TorRules
    <2> QED BY <1>10, <1>11, <1>12, <2>1
  <1>13. ASSUME n = 1 PROVE After
    <2>1. c = AppendRule("OUTPUT", Everything("DROP")) /\ c.at = "OUTPUT"
      BY <1>2, <1>13 DEF TorRules, AppendRule
    <2>2. Everything("DROP") \in RuleType
      BY RulesTyped DEF Targets
    <2>3. "OUTPUT" \in DOMAIN x.rules /\ x.rules["OUTPUT"] = Append(out, Everything("DROP"))
      BY <1>3, <1>13, <2>1, <2>2, Appended DEF x
    <2>4. Closed(x.rules["OUTPUT"])
      <3>1. Silent(out) /\ out \in Seq(RuleType)
        <4>1. n < 9
          BY <1>13
        <4> QED BY <1>3, <1>4, <4>1
      <3>2. Closed(Append(out, Everything("DROP")))
        BY <2>2, <3>1, SilentAppend
      <3> QED BY <2>3, <3>2
    <2> QED BY <1>3, <1>5, <1>6, <1>13, <2>1, <2>3, <2>4
  <1>14. After
    <2>1. n = 9 \/ n = 8 \/ n \in 2 .. 7 \/ n = 1
      BY <1>1
    <2> QED BY <1>8, <1>9, <1>12, <1>13, <2>1
  <1>15. /\ n - 1 \in 0 .. 9 /\ (n - 1 < 8 <=> n < 9)
         /\ (n - 1 \in 1 .. 8 => n > 1) /\ (n - 1 = 0 <=> n = 1)
    BY <1>1
  <1> DEFINE k == n - 1
  <1>16. k \in 0 .. 9 /\ \A i \in 1 .. k : rest[i] = TorRules[9 - k + i]
    BY <1>2, <1>15
  <1>17. /\ k < 9 => "OUTPUT" \in DOMAIN x.rules
         /\ k < 8 => "natOUTPUT" \in DOMAIN x.rules /\ ToTor(x.rules["natOUTPUT"])
         /\ k \in 1 .. 8 => Silent(x.rules["OUTPUT"])
         /\ k = 0 => Closed(x.rules["OUTPUT"])
    BY <1>14, <1>15
  <1>18. Len(rest) = k
    BY <1>1 DEF n
  <1> QED BY <1>16, <1>17, <1>18 DEF TorApplying, c, x

(* The same for block_ipv6. *)
V6Applying(fw, todo) ==
    LET n == Len(todo) IN
    /\ n \in 0 .. 6 /\ \A i \in 1 .. n : todo[i] = BlockV6Rules[6 - n + i]
    /\ n < 6 => /\ {"OUTPUT", "INPUT"} \subseteq DOMAIN fw.rules
                /\ Silent(fw.rules["OUTPUT"])
    /\ n < 4 => "OUTPUT" \in fw.drop

(* Every command of it that succeeds takes it one further. *)
LEMMA V6RuleApplied ==
    ASSUME NEW fw, IsRuleset(fw), NEW todo \in Seq(Command), todo # <<>>, V6Applying(fw, todo),
           ~Refused(fw, Head(todo))
    PROVE  V6Applying(Exec(fw, Head(todo)), Tail(todo))
  <1> DEFINE n == Len(todo)
             c == Head(todo)
             x == Exec(fw, c)
             rest == Tail(todo)
             out == fw.rules["OUTPUT"]
  <1>1. /\ n \in 1 .. 6 /\ c = todo[1] /\ Len(rest) = n - 1
        /\ \A i \in 1 .. n - 1 : rest[i] = todo[i + 1]
    BY HeadTailProperties, EmptySeq, LenProperties DEF V6Applying
  <1>2. c = BlockV6Rules[7 - n] /\ \A i \in 1 .. n - 1 : rest[i] = BlockV6Rules[6 - (n - 1) + i]
    BY <1>1 DEF V6Applying
  <1>3. /\ n < 6 => {"OUTPUT", "INPUT"} \subseteq DOMAIN fw.rules /\ Silent(out)
        /\ n < 4 => "OUTPUT" \in fw.drop
    BY DEF V6Applying
  <1>4. \A k \in DOMAIN fw.rules : fw.rules[k] \in Seq(RuleType)
    BY DEF IsRuleset
  <1>5. \A k \in DOMAIN fw.rules :
            k # c.at /\ TableOf(k) # c.at => k \in DOMAIN x.rules /\ x.rules[k] = fw.rules[k]
    BY <1>1, HeadTailProperties, Executed
  <1>6. /\ TableOf("OUTPUT") = "filter" /\ TableOf("INPUT") = "filter" /\ "filter" \in Tables
        /\ {"INPUT", "OUTPUT", "FORWARD"} \subseteq FilterChains
        /\ {"INPUT", "OUTPUT"} \subseteq Builtin("filter")
    BY DEF TableOf, Builtin, FilterChains, NatChains, Tables
  <1> DEFINE After == /\ {"OUTPUT", "INPUT"} \subseteq DOMAIN x.rules
                      /\ Silent(x.rules["OUTPUT"])
                      /\ n < 5 => "OUTPUT" \in x.drop
  <1>7. Silent(<<>>)
    BY EmptySeq DEF Silent
  <1>8. Lo \in RuleType /\ Lo.match \cap AppOut = {}
    BY RulesTyped DEF Lo, Rule, AppOut
  <1> HIDE DEF n, c, x
  <1>9. ASSUME n = 6 PROVE After
    <2>1. c = Flush("filter")
      BY <1>2, <1>9 DEF BlockV6Rules
    <2> QED BY <1>6, <1>7, <1>9, <2>1, Flushed DEF x
  <1>10. ASSUME n \in 3 .. 5 PROVE After
    <2>1. PICK at \in FilterChains : c = DropAll(at) /\ (n = 4 => at = "OUTPUT")
      BY <1>2, <1>6, <1>10 DEF BlockV6Rules
    <2>2. /\ x.drop = fw.drop \cup {at}
          /\ \A k \in DOMAIN fw.rules : k \in DOMAIN x.rules /\ x.rules[k] = fw.rules[k]
      BY <2>1, PolicySet DEF x
    <2>3. {"OUTPUT", "INPUT"} \subseteq DOMAIN fw.rules /\ Silent(out)
      <3>1. n < 6
        BY <1>10
      <3> QED BY <1>3, <3>1
    <2>4. n < 5 => "OUTPUT" \in x.drop
      BY <1>3, <1>10, <2>1, <2>2
    <2> QED BY <2>2, <2>3, <2>4
  <1>11. ASSUME n \in 1 .. 2 PROVE After
    <2>1. n < 6 /\ n < 4
      BY <1>11
    <2>2. PICK at \in {"OUTPUT", "INPUT"} : c = AppendRule(at, Lo)
      BY <1>2, <1>11 DEF BlockV6Rules
    <2>3. c.at = at
      BY <2>2 DEF AppendRule
    <2>4. at \in DOMAIN x.rules /\ x.rules[at] = Append(fw.rules[at], Lo) /\ x.drop = fw.drop
      BY <1>3, <1>8, <2>1, <2>2, Appended DEF x
    <2>5. Silent(Append(out, Lo))
      BY <1>3, <1>4, <1>8, <2>1, SilentAppend
    <2>6. \A k \in {"OUTPUT", "INPUT"} \ {at} : k \in DOMAIN x.rules /\ x.rules[k] = fw.rules[k]
      BY <1>3, <1>5, <1>6, <2>1, <2>3
    <2> QED BY <1>3, <2>1, <2>4, <2>5, <2>6
  <1>12. After
    <2>1. n = 6 \/ n \in 3 .. 5 \/ n \in 1 .. 2
      BY <1>1
    <2> QED BY <1>9, <1>10, <1>11, <2>1
  <1>13. n - 1 \in 0 .. 6 /\ (n - 1 < 4 => n < 5)
    BY <1>1
  <1>14. Len(rest) = n - 1
    BY <1>1 DEF n
  <1> QED BY <1>2, <1>12, <1>13, <1>14 DEF V6Applying, c, x

(* A list that has run without a failure has done its work. *)
LEMMA ListDone ==
    ASSUME NEW fw
    PROVE  /\ TorApplying(fw, <<>>) => Sealed(fw)
           /\ V6Applying(fw, <<>>) => V6Closed(fw)
           /\ TorApplying(fw, TorRules) /\ V6Applying(fw, BlockV6Rules)
  <1>1. TorApplying(fw, <<>>) => Sealed(fw)
    BY EmptySeq DEF TorApplying, Sealed
  <1>2. V6Applying(fw, <<>>) => V6Closed(fw)
    BY EmptySeq DEF V6Applying, V6Closed
  <1>3. Len(TorRules) = 9 /\ TorApplying(fw, TorRules)
    <2>1. Len(TorRules) = 9
      BY DEF TorRules
    <2> QED BY <2>1 DEF TorApplying
  <1>4. Len(BlockV6Rules) = 6 /\ V6Applying(fw, BlockV6Rules)
    <2>1. Len(BlockV6Rules) = 6
      BY DEF BlockV6Rules
    <2> QED BY <2>1 DEF V6Applying
  <1> QED BY <1>1, <1>2, <1>3, <1>4
(* The commands of portscan protection leave the Tor switch's rules alone. *)
LEMMA SealedKept ==
    ASSUME NEW fw, IsRuleset(fw), NEW c \in Command, ~Refused(fw, c),
           c.at \in {"INPUT", "PG_PORTSCAN"}, Sealed(fw)
    PROVE  Sealed(Exec(fw, c))
  <1>1. TableOf("OUTPUT") = "filter" /\ TableOf("natOUTPUT") = "nat"
    BY DEF TableOf, NatChains
  <1>2. \A k \in {"OUTPUT", "natOUTPUT"} :
            k \in DOMAIN Exec(fw, c).rules /\ Exec(fw, c).rules[k] = fw.rules[k]
    BY <1>1, Executed DEF Sealed
  <1> QED BY <1>2 DEF Sealed

(* block_ipv6 adds no chain, so no failure of its commands is tolerated. *)
LEMMA V6AddsNoChain ==
    ASSUME NEW fw, NEW todo \in Seq(Command), todo # <<>>, V6Applying(fw, todo)
    PROVE  ~AlreadyExists(fw, Head(todo))
  <1> DEFINE n == Len(todo)
  <1>1. n \in 1 .. 6 /\ Head(todo) = todo[1]
    BY HeadTailProperties, EmptySeq, LenProperties DEF V6Applying
  <1>2. Head(todo) = BlockV6Rules[7 - n]
    BY <1>1 DEF V6Applying
  <1> HIDE DEF n
  <1>3. Head(todo).op # "-N"
    BY <1>1, <1>2 DEF BlockV6Rules, Flush, DropAll, AppendRule
  <1> QED BY <1>3 DEF AlreadyExists

-----------------------------------------------------------------------------
(* A rule is tame if it cannot tell one connection of an application from  *)
(* another where the program looks at one for all of them: OUTPUT drops    *)
(* all or is about none, the nat table is not about UDP at large, and TCP  *)
(* that it takes hold of does not get away.  A ruleset is tame if its      *)
(* rules are, and no jump leads out of the table or nowhere.               *)
TameRule(at, r) ==
    /\ at = "OUTPUT" => r.match \cap AppOut = {} \/ (AppOut \subseteq r.match /\ r.target = "DROP")
    /\ at = "natOUTPUT" => "appUdp" \notin r.match
    /\ at \in {"natOUTPUT", "PG_REDSOCKS"} /\ "appTcp" \in r.match =>
          r.target \in {"DROP", "tor", "redsocks"} \/ (at = "natOUTPUT" /\ r.target = "PG_REDSOCKS")
    /\ r.target \in UserChains => TableOf(at) = TableOf(r.target)
Tame(fw) ==
    \A at \in DOMAIN fw.rules, r \in RuleType :
        Holds(fw.rules[at], r) => /\ TameRule(at, r)
                                  /\ r.target \in UserChains => r.target \in DOMAIN fw.rules
TameCommand(c) == c.op \in {"-A", "-I"} => TameRule(c.at, c.rule)
TameList(cs) == \A i \in 1 .. Len(cs) : TameCommand(cs[i])

(* The rules a chain holds are rules. *)
LEMMA HeldTyped ==
    ASSUME NEW fw, IsRuleset(fw), NEW at \in DOMAIN fw.rules
    PROVE  /\ fw.rules[at] \in Seq(RuleType) /\ Len(fw.rules[at]) \in Nat
           /\ \A i \in 1 .. Len(fw.rules[at]) : fw.rules[at][i] \in RuleType /\ Holds(fw.rules[at], fw.rules[at][i])
           /\ \A r : Holds(fw.rules[at], r) => r \in RuleType
  <1>1. fw.rules[at] \in Seq(RuleType)
    BY DEF IsRuleset
  <1> QED BY <1>1, ElementOfSeq, LenProperties DEF Holds

(* A chain that is left, and a rule's chain, after a command. *)
LEMMA ChainsLeft ==
    ASSUME NEW fw, IsRuleset(fw), NEW c \in Command, NEW k \in DOMAIN fw.rules,
           c.op = "-X" => k # c.at
    PROVE  k \in DOMAIN Exec(fw, c).rules
  <1> DEFINE w == WithTable(fw, TableOf(c.at))
             x == Exec(fw, c)
             at == c.at
  <1>1. IsRuleset(w) /\ k \in DOMAIN w.rules
    BY Loaded
  <1>2. DOMAIN w = {"rules", "drop"} /\ c.op \in {"-F", "-N", "-X", "-A", "-I", "-D", "-P"}
    BY <1>1 DEF IsRuleset, Command
  <1>3. CASE c.op = "-F"
    BY <1>1, <1>2, <1>3 DEF Exec
  <1>4. CASE c.op = "-N"
    BY <1>1, <1>2, <1>4 DEF Exec
  <1>5. CASE c.op = "-X"
    BY <1>1, <1>2, <1>5 DEF Exec
  <1>6. CASE c.op = "-P"
    <2>1. \E d : x = [w EXCEPT !.drop = d]
      BY <1>6 DEF Exec
    <2> HIDE DEF w, x
    <2>2. x.rules = w.rules
      BY <1>2, <2>1
    <2> QED BY <1>1, <2>2 DEF x
  <1>7. CASE c.op \in {"-A", "-I", "-D"}
    <2>1. \E s : x = [w EXCEPT !.rules[at] = s]
      BY <1>7 DEF Exec
    <2> HIDE DEF w, x, at
    <2>2. DOMAIN x.rules = DOMAIN w.rules
      BY <1>2, <2>1
    <2> QED BY <1>1, <2>2 DEF x
  <1> QED BY <1>2, <1>3, <1>4, <1>5, <1>6, <1>7

(* Tame commands keep a ruleset tame, ... *)
LEMMA TameExec ==
    ASSUME NEW fw, IsRuleset(fw), Tame(fw), NEW c \in Command, ~Refused(fw, c), TameCommand(c)
    PROVE  Tame(Exec(fw, c))
  <1> SUFFICES ASSUME NEW at \in DOMAIN Exec(fw, c).rules, NEW r \in RuleType,
                      Holds(Exec(fw, c).rules[at], r)
               PROVE  /\ TameRule(at, r)
                      /\ r.target \in UserChains => r.target \in DOMAIN Exec(fw, c).rules
    BY DEF Tame
  <1>1. CASE at \in DOMAIN fw.rules /\ Holds(fw.rules[at], r)
    <2>1. TameRule(at, r) /\ (r.target \in UserChains => r.target \in DOMAIN fw.rules)
      BY <1>1 DEF Tame
    <2>2. ASSUME c.op = "-X", r.target \in UserChains PROVE r.target # c.at
      <3>1. PICK i \in 1 .. Len(fw.rules[at]) : fw.rules[at][i] = r
        BY <1>1 DEF Holds
      <3>2. i \in DOMAIN fw.rules[at] /\ fw.rules[at][i].target = r.target
        <4>1. DOMAIN fw.rules[at] = 1 .. Len(fw.rules[at])
          BY <1>1, HeldTyped, LenProperties
        <4> QED BY <3>1, <4>1
      <3>3. CASE c.at \in DOMAIN fw.rules
        BY <1>1, <2>2, <3>2, <3>3 DEF Refused
      <3>4. CASE c.at \notin DOMAIN fw.rules
        BY <2>1, <2>2, <3>4
      <3> QED BY <3>3, <3>4
    <2> QED BY <2>1, <2>2, ChainsLeft
  <1>2. CASE at = c.at /\ c.op \in {"-A", "-I"} /\ r = c.rule
    <2>1. TameRule(at, r)
      BY <1>2 DEF TameCommand
    <2>2. r.target \in UserChains => r.target \in DOMAIN fw.rules
      BY <1>2 DEF Refused
    <2> QED BY <1>2, <2>1, <2>2, ChainsLeft
  <1> QED BY <1>1, <1>2, Origin

(* ... and so does the restore of a tame backup; *)
LEMMA TameRestored ==
    ASSUME NEW fw, Tame(fw), NEW file, Tame(file)
    PROVE  Tame(Restored(fw, file))
  <1> DEFINE x == Restored(fw, file)
             kept == {c \in DOMAIN fw.rules : TableOf(c) \notin TablesOf(file)}
  <1> SUFFICES ASSUME NEW at \in DOMAIN x.rules, NEW r \in RuleType, Holds(x.rules[at], r)
               PROVE  TameRule(at, r) /\ (r.target \in UserChains => r.target \in DOMAIN x.rules)
    BY DEF Tame
  <1>1. /\ DOMAIN x.rules = kept \cup DOMAIN file.rules
        /\ x.rules[at] = IF at \in DOMAIN file.rules THEN file.rules[at] ELSE fw.rules[at]
    BY DEF Restored
  <1> HIDE DEF x
  <1>2. CASE at \in DOMAIN file.rules
    BY <1>1, <1>2 DEF Tame
  <1>3. CASE at \notin DOMAIN file.rules
    <2>1. at \in kept /\ Holds(fw.rules[at], r)
      BY <1>1, <1>3
    <2>2. TameRule(at, r) /\ (r.target \in UserChains => r.target \in DOMAIN fw.rules)
      BY <2>1 DEF Tame
    <2>3. r.target \in UserChains => TableOf(r.target) \notin TablesOf(file)
      BY <2>1, <2>2 DEF TameRule
    <2> QED BY <1>1, <2>2, <2>3
  <1> QED BY <1>2, <1>3

(* empty tables are tame. *)
LEMMA TameEmpty ==
    ASSUME NEW ts
    PROVE  Tame(EmptyTables(ts))
  <1>1. \A r : ~Holds(<<>>, r)
    BY EmptySeq DEF Holds
  <1> QED BY <1>1 DEF Tame, EmptyTables

(* Every list of the program's, and what is left of one at the end, is tame. *)
LEMMA TameLists ==
    /\ TameList(TorRules) /\ TameList(ProxyRules) /\ TameList(GatewayRules)
    /\ TameList(GatewayV6Rules) /\ TameList(BlockV6Rules)
    /\ TameList(OpenV4Rules) /\ TameList(OpenV6Rules)
    /\ TameList(ScanRules) /\ TameList(ScanRemoval) /\ TameList(<<>>)
  <1>1. \A at : /\ TameCommand(Flush(at)) /\ TameCommand(NewChain(at)) /\ TameCommand(RemoveChain(at))
                /\ TameCommand(AcceptAll(at)) /\ TameCommand(DropAll(at))
                /\ \A r : TameCommand(DeleteRule(at, r))
    BY DEF TameCommand, Flush, NewChain, RemoveChain, AcceptAll, DropAll, DeleteRule
  <1>2. \A at, r : TameRule(at, r) => TameCommand(AppendRule(at, r)) /\ TameCommand(InsertRule(at, r))
    BY DEF TameCommand, AppendRule, InsertRule
  <1> DEFINE Quiet(r) == r.match \cap AppOut = {} /\ r.target \notin UserChains
  <1>3. \A at, r : Quiet(r) => TameRule(at, r)
    BY DEF TameRule, AppOut
  <1>4. /\ Quiet(Lo) /\ Quiet(TorUid) /\ Quiet(Established) /\ Quiet(RedirectedOnly)
        /\ Quiet(Counted) /\ Quiet(Rule({"loTcp"}, "RETURN"))
        /\ Quiet(Rule({"wsTcp"}, "tor")) /\ Quiet(Rule({"wsDns"}, "tor"))
    BY DEF Lo, TorUid, Established, RedirectedOnly, Counted, Rule, AppOut, UserChains
  <1>5. /\ TameRule("OUTPUT", Everything("DROP")) /\ TameRule("FORWARD", Everything("DROP"))
        /\ TameRule("PG_PORTSCAN", Everything("DROP")) /\ TameRule("PG_PORTSCAN", Everything("LOG"))
    BY DEF TameRule, Everything, Rule, Packets, UserChains
  <1>6. TameRule("natOUTPUT", TcpToTor) /\ TameRule("natOUTPUT", DnsToTor)
    BY DEF TameRule, TcpToTor, DnsToTor, Rule, TcpOut, UserChains
  <1>7. /\ TameRule("PG_REDSOCKS", Rule(TcpOut, "redsocks"))
        /\ TameRule("natOUTPUT", Rule(TcpOut, "PG_REDSOCKS"))
    BY DEF TameRule, Rule, TcpOut, UserChains, TableOf, NatChains
  <1>8. TameRule("INPUT", Scanning)
    BY DEF TameRule, Scanning, Rule, UserChains, TableOf, NatChains
  <1> HIDE DEF Quiet
  <1>9. /\ Len(TorRules) = 9 /\ Len(ProxyRules) = 4 /\ Len(GatewayRules) = 16
        /\ Len(GatewayV6Rules) = 2 /\ Len(BlockV6Rules) = 6 /\ Len(OpenV4Rules) = 5
        /\ Len(OpenV6Rules) = 4 /\ Len(ScanRules) = 6 /\ Len(ScanRemoval) = 4
    BY DEF TorRules, ProxyRules, GatewayRules, GatewayV6Rules, BlockV6Rules, OpenV4Rules,
           OpenV6Rules, ScanRules, ScanRemoval
  <1>10. TameList(TorRules)
    BY <1>1, <1>2, <1>3, <1>4, <1>5, <1>6, <1>9 DEF TameList, TorRules
  <1>11. TameList(ProxyRules)
    BY <1>1, <1>2, <1>3, <1>4, <1>7, <1>9 DEF TameList, ProxyRules
  <1>12. TameList(GatewayRules)
    BY <1>1, <1>2, <1>3, <1>4, <1>5, <1>6, <1>9 DEF TameList, GatewayRules
  <1>13. TameList(GatewayV6Rules) /\ TameList(BlockV6Rules)
    BY <1>1, <1>2, <1>3, <1>4, <1>9 DEF TameList, GatewayV6Rules, BlockV6Rules
  <1>14. TameList(OpenV4Rules) /\ TameList(OpenV6Rules)
    BY <1>1, <1>9 DEF TameList, OpenV4Rules, OpenV6Rules
  <1>15. TameList(ScanRules) /\ TameList(ScanRemoval)
    BY <1>1, <1>2, <1>3, <1>4, <1>5, <1>8, <1>9 DEF TameList, ScanRules, ScanRemoval
  <1>16. TameList(<<>>)
    BY EmptySeq DEF TameList
  <1> QED BY <1>10, <1>11, <1>12, <1>13, <1>14, <1>15, <1>16

(* A packet's verdict, if it is neither the policy's nor a return, is the  *)
(* target of some rule.                                                    *)
LEMMA VerdictOfRule ==
    ASSUME NEW fw, IsRuleset(fw), Tame(fw), NEW chain, NEW p, NEW x,
           x \notin {"ACCEPT", "DROP", "RETURN"},
           \A k \in DOMAIN fw.rules, r \in RuleType : Holds(fw.rules[k], r) => r.target # x
    PROVE  Verdict(fw, chain, p) # x
  <1> DEFINE rs == IF chain \in DOMAIN fw.rules THEN fw.rules[chain] ELSE <<>>
             i == SelectInSeq(rs, LAMBDA r : Fate(fw, r, p) # "RETURN")
             I == {n \in 1 .. Len(rs) : Fate(fw, rs[n], p) # "RETURN"}
  <1>1. /\ rs \in Seq(RuleType) /\ Len(rs) \in Nat
        /\ \A j \in 1 .. Len(rs) : Holds(fw.rules[chain], rs[j]) /\ chain \in DOMAIN fw.rules
    BY HeldTyped, EmptySeq
  <1>2. i = 0 \/ i \in 1 .. Len(rs)
    <2>1. i = IF I # {} THEN Min(I) ELSE 0
      BY DEF SelectInSeq
    <2>2. I \in SUBSET (1 .. Len(rs))
      OBVIOUS
    <2> HIDE DEF i, I
    <2> QED BY <1>1, <2>1, <2>2, Selected
  <1>3. ASSUME NEW r \in RuleType, r.target # x, r.target \in UserChains => r.target \in DOMAIN fw.rules
        PROVE  Fate(fw, r, p) # x
    <2> DEFINE us == fw.rules[r.target]
               k == SelectInSeq(us, LAMBDA u : p \in u.match /\ u.target # "LOG")
               K == {n \in 1 .. Len(us) : p \in us[n].match /\ us[n].target # "LOG"}
    <2>1. r.target \in UserChains => InUserChain(fw, r.target, p) # x
      <3> SUFFICES ASSUME r.target \in UserChains PROVE InUserChain(fw, r.target, p) # x
        OBVIOUS
      <3>1. /\ us \in Seq(RuleType) /\ Len(us) \in Nat
            /\ \A n \in 1 .. Len(us) : us[n] \in RuleType /\ Holds(us, us[n])
        BY <1>3, HeldTyped
      <3>2. k = 0 \/ k \in 1 .. Len(us)
        <4>1. k = IF K # {} THEN Min(K) ELSE 0
          BY DEF SelectInSeq
        <4>2. K \in SUBSET (1 .. Len(us))
          OBVIOUS
        <4> HIDE DEF k, K
        <4> QED BY <3>1, <4>1, <4>2, Selected
      <3>3. k # 0 => us[k].target # x
        <4> HIDE DEF k, K
        <4> QED BY <1>3, <3>1, <3>2
      <3> QED BY <3>2, <3>3 DEF InUserChain
    <2> QED BY <1>3, <2>1 DEF Fate
  <1>4. i # 0 => Fate(fw, rs[i], p) # x
    <2> SUFFICES ASSUME i # 0 PROVE Fate(fw, rs[i], p) # x
      OBVIOUS
    <2> HIDE DEF i, I
    <2>1. rs[i] \in RuleType /\ Holds(fw.rules[chain], rs[i]) /\ chain \in DOMAIN fw.rules
      BY <1>1, <1>2, ElementOfSeq
    <2>2. rs[i].target # x /\ (rs[i].target \in UserChains => rs[i].target \in DOMAIN fw.rules)
      <3> HIDE DEF rs
      <3> QED BY <2>1 DEF Tame
    <2> HIDE DEF rs
    <2> QED BY <1>3, <2>1, <2>2
  <1> QED BY <1>4 DEF Verdict

(* None is that it goes out in clear: that is what becomes of a packet     *)
(* that both tables accept.                                                *)
LEMMA NeverClear ==
    ASSUME NEW fw, IsRuleset(fw), Tame(fw), NEW chain, NEW p
    PROVE  Verdict(fw, chain, p) # "clear"
  <1>1. \A r \in RuleType : r.target # "clear"
    BY DEF RuleType, UserChains
  <1> QED BY <1>1, VerdictOfRule

(* OUTPUT decides alike on every connection of an application. *)
LEMMA OneForAll ==
    ASSUME NEW fw, IsRuleset(fw), Tame(fw), NEW p \in AppOut, NEW q \in AppOut
    PROVE  /\ Verdict(fw, "OUTPUT", p) = Verdict(fw, "OUTPUT", q)
           /\ "OUTPUT" \in fw.drop => Verdict(fw, "OUTPUT", p) = "DROP"
  <1> DEFINE rs == IF "OUTPUT" \in DOMAIN fw.rules THEN fw.rules["OUTPUT"] ELSE <<>>
             i == SelectInSeq(rs, LAMBDA r : Fate(fw, r, p) # "RETURN")
             j == SelectInSeq(rs, LAMBDA r : Fate(fw, r, q) # "RETURN")
             I == {n \in 1 .. Len(rs) : Fate(fw, rs[n], p) # "RETURN"}
             J == {n \in 1 .. Len(rs) : Fate(fw, rs[n], q) # "RETURN"}
  <1>1. /\ rs \in Seq(RuleType) /\ Len(rs) \in Nat
        /\ \A n \in 1 .. Len(rs) : rs[n] \in RuleType /\ TameRule("OUTPUT", rs[n])
    BY HeldTyped, EmptySeq DEF Tame
  <1>2. \A n \in 1 .. Len(rs) : /\ Fate(fw, rs[n], p) = Fate(fw, rs[n], q)
                                /\ Fate(fw, rs[n], p) \in {"RETURN", "DROP"}
    <2> TAKE n \in 1 .. Len(rs)
    <2>1. CASE rs[n].match \cap AppOut = {}
      BY <2>1 DEF Fate
    <2>2. CASE AppOut \subseteq rs[n].match /\ rs[n].target = "DROP"
      BY <2>2 DEF Fate, UserChains
    <2> QED BY <1>1, <2>1, <2>2 DEF TameRule
  <1>3. I = J
    BY <1>2
  <1>4. i = IF I # {} THEN Min(I) ELSE 0
    BY DEF SelectInSeq
  <1>5. j = IF J # {} THEN Min(J) ELSE 0
    BY DEF SelectInSeq
  <1>6. i = j
    BY <1>3, <1>4, <1>5
  <1>7. i = 0 \/ (i \in 1 .. Len(rs) /\ Fate(fw, rs[i], p) # "RETURN")
    <2>1. I \in SUBSET (1 .. Len(rs)) /\ \A n \in I : Fate(fw, rs[n], p) # "RETURN"
      OBVIOUS
    <2> HIDE DEF i, I
    <2> QED BY <1>1, <1>4, <2>1, Selected
  <1>8. /\ Verdict(fw, "OUTPUT", p) = IF i # 0 THEN Fate(fw, rs[i], p)
                                      ELSE IF "OUTPUT" \in fw.drop THEN "DROP" ELSE "ACCEPT"
        /\ Verdict(fw, "OUTPUT", q) = IF j # 0 THEN Fate(fw, rs[j], q)
                                      ELSE IF "OUTPUT" \in fw.drop THEN "DROP" ELSE "ACCEPT"
    BY DEF Verdict
  <1> HIDE DEF rs, i, j
  <1>9. i # 0 => Fate(fw, rs[i], p) = Fate(fw, rs[i], q) /\ Fate(fw, rs[i], p) \in {"RETURN", "DROP"}
    BY <1>2, <1>7
  <1> QED BY <1>6, <1>7, <1>8, <1>9

(* So a ping that does not get out speaks for all of them: no rule of the  *)
(* nat table turns it anywhere.                                            *)
LEMMA PingSpeaksForAll ==
    ASSUME NEW fw, IsRuleset(fw), Tame(fw), Path(fw, "appUdp") # "clear"
    PROVE  TorOnly(fw)
  <1> SUFFICES ASSUME NEW p \in AppOut PROVE Path(fw, p) # "clear"
    BY DEF TorOnly
  <1>1. Verdict(fw, "natOUTPUT", "appUdp") = "ACCEPT"
    <2> DEFINE rs == IF "natOUTPUT" \in DOMAIN fw.rules THEN fw.rules["natOUTPUT"] ELSE <<>>
    <2>1. rs \in Seq(RuleType) /\ \A n \in 1 .. Len(rs) : rs[n] \in RuleType /\ TameRule("natOUTPUT", rs[n])
      BY HeldTyped, EmptySeq DEF Tame
    <2>2. \A n \in 1 .. Len(rs) : Fate(fw, rs[n], "appUdp") = "RETURN"
      BY <2>1, NoDecision DEF TameRule
    <2>3. SelectInSeq(rs, LAMBDA r : Fate(fw, r, "appUdp") # "RETURN") = 0
      BY <2>2 DEF SelectInSeq
    <2>4. "natOUTPUT" \notin fw.drop
      BY DEF IsRuleset, FilterChains
    <2> QED BY <2>3, <2>4 DEF Verdict
  <1>2. Verdict(fw, "OUTPUT", "appUdp") # "ACCEPT"
    BY <1>1 DEF Path, Through
  <1>3. Verdict(fw, "OUTPUT", p) # "ACCEPT"
    BY <1>2, OneForAll DEF AppOut
  <1>4. Verdict(fw, "natOUTPUT", p) # "clear"
    BY NeverClear
  <1> QED BY <1>3, <1>4 DEF Path, Through
-----------------------------------------------------------------------------
(* What the program's commands make of a ruleset, chain by chain. *)
(* -F of a table *)
LEMMA ExecFlushTable ==
    ASSUME NEW fw, IsRuleset(fw), NEW table \in Tables, NEW x, x = Exec(fw, Flush(table))
    PROVE  /\ x.drop = fw.drop /\ DOMAIN x.rules = DOMAIN fw.rules \cup Builtin(table)
           /\ \A k \in DOMAIN x.rules :
                x.rules[k] = IF TableOf(k) = table THEN <<>> ELSE fw.rules[k]
  <1> DEFINE w == WithTable(fw, table)
  <1>1. TableOf(table) = table /\ table \notin Chains /\ \A k \in Builtin(table) : TableOf(k) = table
    BY DEF TableOf, Tables, Builtin, FilterChains, NatChains, UserChains, Chains
  <1>2. /\ IsRuleset(w) /\ w.drop = fw.drop /\ DOMAIN w.rules = DOMAIN fw.rules \cup Builtin(table)
        /\ \A k \in DOMAIN w.rules : w.rules[k] = IF k \in DOMAIN fw.rules THEN fw.rules[k] ELSE <<>>
    BY Loaded
  <1>3. DOMAIN w = {"rules", "drop"} /\ DOMAIN w.rules \subseteq Chains
    BY <1>2 DEF IsRuleset
  <1> DEFINE g == [k \in DOMAIN w.rules |-> IF k = table \/ TableOf(k) = table THEN <<>> ELSE w.rules[k]]
  <1>4. x = [w EXCEPT !.rules = g]
    BY <1>1 DEF Exec, Flush
  <1>5. x.drop = w.drop /\ x.rules = g
    <2> HIDE DEF w, g
    <2> QED BY <1>3, <1>4
  <1> HIDE DEF w
  <1> QED BY <1>1, <1>2, <1>3, <1>5

(* -F of a chain *)
LEMMA ExecFlushChain ==
    ASSUME NEW fw, IsRuleset(fw), NEW at \in DOMAIN fw.rules, NEW x, x = Exec(fw, Flush(at))
    PROVE  /\ x.drop = fw.drop /\ DOMAIN fw.rules \subseteq DOMAIN x.rules
           /\ x.rules[at] = <<>> /\ \A k \in DOMAIN fw.rules \ {at} : x.rules[k] = fw.rules[k]
  <1> DEFINE w == WithTable(fw, TableOf(at))
  <1>1. at \in Chains /\ \A k : TableOf(k) \in Tables
    BY DEF IsRuleset, TableOf, Tables
  <1>2. Chains \cap Tables = {}
    BY DEF Tables, FilterChains, NatChains, UserChains, Chains
  <1>3. /\ IsRuleset(w) /\ w.drop = fw.drop /\ DOMAIN fw.rules \subseteq DOMAIN w.rules
        /\ \A k \in DOMAIN fw.rules : w.rules[k] = fw.rules[k]
    BY Loaded
  <1>4. DOMAIN w = {"rules", "drop"}
    BY <1>3 DEF IsRuleset
  <1> DEFINE g == [k \in DOMAIN w.rules |-> IF k = at \/ TableOf(k) = at THEN <<>> ELSE w.rules[k]]
  <1>5. x = [w EXCEPT !.rules = g]
    BY DEF Exec, Flush
  <1>6. x.drop = w.drop /\ x.rules = g
    <2> HIDE DEF w, g
    <2> QED BY <1>4, <1>5
  <1> HIDE DEF w
  <1> QED BY <1>1, <1>2, <1>3, <1>6

(* -A *)
LEMMA ExecAppend ==
    ASSUME NEW fw, IsRuleset(fw), NEW r, NEW at \in DOMAIN fw.rules, NEW x,
           x = Exec(fw, AppendRule(at, r))
    PROVE  /\ x.drop = fw.drop /\ DOMAIN fw.rules \subseteq DOMAIN x.rules
           /\ x.rules[at] = Append(fw.rules[at], r)
           /\ \A k \in DOMAIN fw.rules \ {at} : x.rules[k] = fw.rules[k]
  <1> DEFINE w == WithTable(fw, TableOf(at))
             s == Append(w.rules[at], r)
  <1>1. /\ IsRuleset(w) /\ w.drop = fw.drop /\ DOMAIN fw.rules \subseteq DOMAIN w.rules
        /\ \A k \in DOMAIN fw.rules : w.rules[k] = fw.rules[k]
    BY Loaded
  <1>2. DOMAIN w = {"rules", "drop"}
    BY <1>1 DEF IsRuleset
  <1>3. x = [w EXCEPT !.rules[at] = s]
    BY DEF Exec, AppendRule
  <1>4. x.drop = w.drop /\ x.rules = [w.rules EXCEPT ![at] = s]
    <2> HIDE DEF w, s
    <2> QED BY <1>2, <1>3
  <1> HIDE DEF w
  <1> QED BY <1>1, <1>4

(* -P ACCEPT *)
LEMMA ExecPolicy ==
    ASSUME NEW fw, IsRuleset(fw), NEW at, NEW x, x = Exec(fw, AcceptAll(at))
    PROVE  /\ x.drop = fw.drop \ {at}
           /\ DOMAIN x.rules = DOMAIN fw.rules \cup Builtin(TableOf(at))
           /\ \A k \in DOMAIN x.rules :
                x.rules[k] = IF k \in DOMAIN fw.rules THEN fw.rules[k] ELSE <<>>
  <1> DEFINE w == WithTable(fw, TableOf(at))
             d == w.drop \ {at}
  <1>1. /\ IsRuleset(w) /\ w.drop = fw.drop
        /\ DOMAIN w.rules = DOMAIN fw.rules \cup Builtin(TableOf(at))
        /\ \A k \in DOMAIN w.rules : w.rules[k] = IF k \in DOMAIN fw.rules THEN fw.rules[k] ELSE <<>>
    BY Loaded
  <1>2. DOMAIN w = {"rules", "drop"}
    BY <1>1 DEF IsRuleset
  <1>3. AcceptAll(at).op = "-P" /\ AcceptAll(at).at = at /\ AcceptAll(at).rule.target # "DROP"
    BY DEF AcceptAll, Rule
  <1>4. x = [w EXCEPT !.drop = d]
    BY <1>3 DEF Exec
  <1>5. x.drop = d /\ x.rules = w.rules
    <2> HIDE DEF w, d
    <2> QED BY <1>2, <1>4
  <1> HIDE DEF w
  <1> QED BY <1>1, <1>5

(* Whatever the command, the other policies stay. *)
LEMMA PoliciesKept ==
    ASSUME NEW fw, IsRuleset(fw), NEW c \in Command, NEW k, k # c.at
    PROVE  k \in Exec(fw, c).drop <=> k \in fw.drop
  <1> DEFINE w == WithTable(fw, TableOf(c.at))
             x == Exec(fw, c)
             at == c.at
  <1>1. w.drop = fw.drop /\ DOMAIN w = {"rules", "drop"}
    BY Loaded DEF IsRuleset
  <1>2. c.op \in {"-F", "-N", "-X", "-A", "-I", "-D", "-P"}
    BY DEF Command
  <1>3. CASE c.op \in {"-F", "-N", "-X"}
    <2>1. \E g : x = [w EXCEPT !.rules = g]
      BY <1>3 DEF Exec
    <2> HIDE DEF w, x
    <2>2. x.drop = w.drop
      BY <1>1, <2>1
    <2> QED BY <1>1, <2>2 DEF x
  <1>4. CASE c.op = "-P"
    <2>1. \E d \in {w.drop \cup {at}, w.drop \ {at}} : x = [w EXCEPT !.drop = d]
      BY <1>4 DEF Exec
    <2> HIDE DEF w, x, at
    <2>2. x.drop \in {w.drop \cup {at}, w.drop \ {at}}
      BY <1>1, <2>1
    <2> QED BY <1>1, <2>2 DEF x, at
  <1>5. CASE c.op \in {"-A", "-I", "-D"}
    <2>1. \E s : x = [w EXCEPT !.rules[at] = s]
      BY <1>5 DEF Exec
    <2> HIDE DEF w, x, at
    <2>2. x.drop = w.drop
      BY <1>1, <2>1
    <2> QED BY <1>1, <2>2 DEF x
  <1> QED BY <1>2, <1>3, <1>4, <1>5
-----------------------------------------------------------------------------
(* What the proxy switch leaves behind: the jump and the redirection.      *)
Has(fw, at, r) == at \in DOMAIN fw.rules /\ Holds(fw.rules[at], r)
ToRedsocks == Rule(TcpOut, "redsocks")
ToChain    == Rule(TcpOut, "PG_REDSOCKS")
Routed(fw) == Has(fw, "PG_REDSOCKS", ToRedsocks) /\ Has(fw, "natOUTPUT", ToChain)

(* Half-way through its list, with n commands to go. *)
ProxyApplying(fw, todo) ==
    LET n == Len(todo) IN
    /\ n \in 0 .. 4 /\ \A i \in 1 .. n : todo[i] = ProxyRules[4 - n + i]
    /\ n < 4 => "PG_REDSOCKS" \in DOMAIN fw.rules
    /\ n < 2 => Has(fw, "PG_REDSOCKS", ToRedsocks)
    /\ n < 1 => Has(fw, "natOUTPUT", ToChain)

(* A rule more at the end is held, and so are those of before. *)
LEMMA AppendHolds ==
    ASSUME NEW s \in Seq(RuleType), NEW r \in RuleType
    PROVE  Holds(Append(s, r), r) /\ \A q : Holds(s, q) => Holds(Append(s, r), q)
  <1>1. /\ Len(Append(s, r)) = Len(s) + 1 /\ Len(s) \in Nat
        /\ \A i \in 1 .. Len(s) : Append(s, r)[i] = s[i]
        /\ Append(s, r)[Len(s) + 1] = r
    BY AppendProperties, LenProperties
  <1>2. Len(s) + 1 \in 1 .. Len(Append(s, r)) /\ \A i \in 1 .. Len(s) : i \in 1 .. Len(Append(s, r))
    BY <1>1
  <1> QED BY <1>1, <1>2 DEF Holds

(* A chain the table has had since it was loaded, after -A. *)
LEMMA AppendedThere ==
    ASSUME NEW fw, IsRuleset(fw), NEW r \in RuleType, NEW at \in DOMAIN fw.rules \cup {"natOUTPUT"},
           NEW x, x = Exec(fw, AppendRule(at, r))
    PROVE  Has(x, at, r) /\ \A k, q : Has(fw, k, q) => Has(x, k, q)
  <1> DEFINE w == WithTable(fw, TableOf(at))
             s == Append(w.rules[at], r)
  <1>1. /\ IsRuleset(w) /\ DOMAIN fw.rules \subseteq DOMAIN w.rules /\ at \in DOMAIN w.rules
        /\ \A k \in DOMAIN fw.rules : w.rules[k] = fw.rules[k]
    BY Loaded DEF TableOf, NatChains, Builtin
  <1>2. DOMAIN w = {"rules", "drop"} /\ w.rules[at] \in Seq(RuleType)
    BY <1>1 DEF IsRuleset
  <1>3. x = [w EXCEPT !.rules[at] = s]
    BY DEF Exec, AppendRule
  <1>4. x.rules = [w.rules EXCEPT ![at] = s]
    <2> HIDE DEF w, s
    <2> QED BY <1>2, <1>3
  <1>5. Holds(s, r) /\ \A q : Holds(w.rules[at], q) => Holds(s, q)
    BY <1>2, AppendHolds
  <1> HIDE DEF w, s
  <1> QED BY <1>1, <1>4, <1>5 DEF Has

(* Every command of the list that succeeds takes it one further, and so    *)
(* does the refusal to add a chain that is there.                          *)
LEMMA ProxyRuleApplied ==
    ASSUME NEW fw, IsRuleset(fw), NEW todo \in Seq(Command), todo # <<>>, ProxyApplying(fw, todo),
           NEW x, \/ ~Refused(fw, Head(todo)) /\ x = Exec(fw, Head(todo))
                  \/ AlreadyExists(fw, Head(todo)) /\ x = fw
    PROVE  ProxyApplying(x, Tail(todo))
  <1> DEFINE n == Len(todo)
             c == Head(todo)
             rest == Tail(todo)
  <1>1. /\ n \in 1 .. 4 /\ c = todo[1] /\ Len(rest) = n - 1 /\ c \in Command
        /\ \A i \in 1 .. n - 1 : rest[i] = todo[i + 1]
    BY HeadTailProperties, EmptySeq, LenProperties DEF ProxyApplying
  <1>2. c = ProxyRules[5 - n] /\ \A i \in 1 .. n - 1 : rest[i] = ProxyRules[4 - (n - 1) + i]
    BY <1>1 DEF ProxyApplying
  <1>3. /\ n < 4 => "PG_REDSOCKS" \in DOMAIN fw.rules
        /\ n < 2 => Has(fw, "PG_REDSOCKS", ToRedsocks)
    BY DEF ProxyApplying
  <1>4. /\ Rule({"loTcp"}, "RETURN") \in RuleType /\ ToRedsocks \in RuleType /\ ToChain \in RuleType
    BY RuleTyped DEF Packets, TcpOut, Targets, UserChains, ToRedsocks, ToChain
  <1> DEFINE After == /\ "PG_REDSOCKS" \in DOMAIN x.rules
                      /\ n < 3 => Has(x, "PG_REDSOCKS", ToRedsocks)
                      /\ n < 2 => Has(x, "natOUTPUT", ToChain)
  <1>5. \/ ~Refused(fw, c) /\ x = Exec(fw, c)
        \/ AlreadyExists(fw, c) /\ x = fw
    OBVIOUS
  <1> HIDE DEF n, c
  <1>6. ASSUME n = 4 PROVE After
    <2>1. c = NewChain("PG_REDSOCKS")
      BY <1>2, <1>6 DEF ProxyRules
    <2>2. CASE AlreadyExists(fw, c) /\ x = fw
      BY <1>6, <2>1, <2>2 DEF AlreadyExists, NewChain
    <2>3. CASE ~Refused(fw, c) /\ x = Exec(fw, c)
      <3> DEFINE w == WithTable(fw, TableOf("PG_REDSOCKS"))
                 g == [k \in DOMAIN w.rules \cup {"PG_REDSOCKS"} |->
                         IF k = "PG_REDSOCKS" THEN <<>> ELSE w.rules[k]]
      <3>1. DOMAIN w = {"rules", "drop"}
        BY Loaded DEF IsRuleset
      <3>2. x = [w EXCEPT !.rules = g]
        BY <2>1, <2>3 DEF Exec, NewChain
      <3>3. x.rules = g
        <4> HIDE DEF w, g
        <4> QED BY <3>1, <3>2
      <3> HIDE DEF w
      <3> QED BY <1>6, <3>3
    <2> QED BY <1>5, <2>2, <2>3
  <1>7. ASSUME n \in 1 .. 3 PROVE After
    <2>1. /\ n = 3 => c = AppendRule("PG_REDSOCKS", Rule({"loTcp"}, "RETURN"))
          /\ n = 2 => c = AppendRule("PG_REDSOCKS", ToRedsocks)
          /\ n = 1 => c = AppendRule("natOUTPUT", ToChain)
      BY <1>2, <1>7 DEF ProxyRules, ToRedsocks, ToChain
    <2>2. c.op = "-A"
      BY <1>7, <2>1 DEF AppendRule
    <2>3. x = Exec(fw, c)
      BY <1>5, <2>2 DEF AlreadyExists
    <2>4. PICK at \in {"PG_REDSOCKS", "natOUTPUT"}, r \in RuleType :
            /\ c = AppendRule(at, r) /\ at \in DOMAIN fw.rules \cup {"natOUTPUT"}
            /\ n = 2 => at = "PG_REDSOCKS" /\ r = ToRedsocks
            /\ n = 1 => at = "natOUTPUT" /\ r = ToChain
      <3>1. CASE n = 3
        BY <1>3, <1>4, <2>1, <3>1
      <3>2. CASE n = 2
        BY <1>3, <1>4, <2>1, <3>2
      <3>3. CASE n = 1
        BY <1>3, <1>4, <2>1, <3>3
      <3> QED BY <1>7, <3>1, <3>2, <3>3
    <2>5. Has(x, at, r) /\ \A k, q : Has(fw, k, q) => Has(x, k, q)
      BY <2>3, <2>4, AppendedThere
    <2>6. "PG_REDSOCKS" \in DOMAIN x.rules
      <3>1. "PG_REDSOCKS" \in DOMAIN fw.rules /\ c \in Command /\ (c.op = "-X" => FALSE)
        BY <1>1, <1>3, <1>7, <2>2 DEF c
      <3> QED BY <2>3, <3>1, ChainsLeft
    <2>7. n = 1 \/ n = 2 \/ n = 3
      BY <1>7
    <2> QED BY <1>3, <2>4, <2>5, <2>6, <2>7
  <1>8. After
    <2>1. n = 4 \/ n \in 1 .. 3
      BY <1>1 DEF n
    <2> QED BY <1>6, <1>7, <2>1
  <1>9. n - 1 \in 0 .. 4 /\ (n - 1 < 2 => n < 3) /\ (n - 1 < 1 => n < 2) /\ Len(rest) = n - 1
    BY <1>1 DEF n
  <1> QED BY <1>2, <1>8, <1>9 DEF ProxyApplying

(* Then TCP of an application goes to redsocks, or is taken or dropped     *)
(* before, if no rule of before lets it past.                              *)
LEMMA RoutedIsProxyOnly ==
    ASSUME NEW fw, IsRuleset(fw), Tame(fw), Routed(fw)
    PROVE  ProxyOnly(fw)
  <1> DEFINE p == "appTcp"
             Taken == {"DROP", "tor", "redsocks"}
             us == fw.rules["PG_REDSOCKS"]
             ns == fw.rules["natOUTPUT"]
             U == {n \in 1 .. Len(us) : p \in us[n].match /\ us[n].target # "LOG"}
             N == {n \in 1 .. Len(ns) : Fate(fw, ns[n], p) # "RETURN"}
             k == SelectInSeq(us, LAMBDA u : p \in u.match /\ u.target # "LOG")
             i == SelectInSeq(ns, LAMBDA r : Fate(fw, r, p) # "RETURN")
  <1>1. /\ {"PG_REDSOCKS", "natOUTPUT"} \subseteq DOMAIN fw.rules
        /\ Holds(us, ToRedsocks) /\ Holds(ns, ToChain)
    BY DEF Routed, Has
  <1>2. /\ Len(us) \in Nat /\ Len(ns) \in Nat
        /\ \A n \in 1 .. Len(us) : us[n] \in RuleType /\ TameRule("PG_REDSOCKS", us[n])
        /\ \A n \in 1 .. Len(ns) : ns[n] \in RuleType /\ TameRule("natOUTPUT", ns[n])
    BY <1>1, HeldTyped DEF Tame
  <1>3. InUserChain(fw, "PG_REDSOCKS", p) \in Taken
    <2>1. \A n \in U : us[n].target \in Taken
      BY <1>2 DEF TameRule
    <2>2. U # {} /\ U \in SUBSET (1 .. Len(us))
      <3>1. PICK n \in 1 .. Len(us) : us[n] = ToRedsocks
        BY <1>1 DEF Holds
      <3>2. n \in U
        BY <3>1 DEF ToRedsocks, Rule, TcpOut
      <3> QED BY <3>2
    <2>3. k = IF U # {} THEN Min(U) ELSE 0
      BY DEF SelectInSeq
    <2>4. k # 0 /\ k \in U
      <3> HIDE DEF k, U
      <3> QED BY <1>2, <2>2, <2>3, Selected
    <2> QED BY <2>1, <2>4 DEF InUserChain
  <1>4. \A n \in N : Fate(fw, ns[n], p) \in Taken
    <2> TAKE n \in N
    <2>1. p \in ns[n].match
      BY NoDecision
    <2>2. ns[n].target \in Taken \/ ns[n].target = "PG_REDSOCKS"
      BY <1>2, <2>1 DEF TameRule
    <2> HIDE DEF Taken
    <2> QED BY <1>3, <2>1, <2>2 DEF Fate, UserChains, Taken
  <1>5. N # {} /\ N \in SUBSET (1 .. Len(ns))
    <2>1. PICK n \in 1 .. Len(ns) : ns[n] = ToChain
      BY <1>1 DEF Holds
    <2>2. p \in ns[n].match /\ ns[n].target = "PG_REDSOCKS"
      BY <2>1 DEF ToChain, Rule, TcpOut
    <2>3. Fate(fw, ns[n], p) = InUserChain(fw, "PG_REDSOCKS", p)
      BY <2>2 DEF Fate, UserChains
    <2>4. n \in N
      BY <1>3, <2>3
    <2> QED BY <2>4
  <1>6. i = IF N # {} THEN Min(N) ELSE 0
    BY DEF SelectInSeq
  <1>7. i # 0 /\ i \in N
    <2> HIDE DEF i, N
    <2> QED BY <1>2, <1>5, <1>6, Selected
  <1>8. Verdict(fw, "natOUTPUT", p) = Fate(fw, ns[i], p)
    BY <1>1, <1>7 DEF Verdict
  <1>9. Verdict(fw, "natOUTPUT", p) \in Taken
    BY <1>4, <1>7, <1>8
  <1> QED BY <1>9 DEF ProxyOnly, Path, Through
-----------------------------------------------------------------------------
(* What gateway mode leaves behind: what the Tor switch does, and nothing  *)
(* forwarded but what goes to Tor.                                         *)
Dropping(rs) == \A i \in 1 .. Len(rs) : rs[i] = Everything("DROP")
Walled(fw) ==
    /\ Sealed(fw) /\ {"FORWARD", "natPREROUTING"} \subseteq DOMAIN fw.rules
    /\ Dropping(fw.rules["FORWARD"]) /\ "FORWARD" \in fw.drop /\ ToTor(fw.rules["natPREROUTING"])

(* Half-way through its list, with n commands to go. *)
GatewayApplying(fw, todo) ==
    LET n == Len(todo) IN
    /\ n \in 0 .. 16 /\ \A i \in 1 .. n : todo[i] = GatewayRules[16 - n + i]
    /\ n < 16 => {"OUTPUT", "FORWARD"} \subseteq DOMAIN fw.rules /\ Dropping(fw.rules["FORWARD"])
    /\ n < 15 => /\ {"natOUTPUT", "natPREROUTING"} \subseteq DOMAIN fw.rules
                 /\ ToTor(fw.rules["natOUTPUT"]) /\ ToTor(fw.rules["natPREROUTING"])
    /\ n \in 7 .. 15 => Silent(fw.rules["OUTPUT"])
    /\ n < 7 => Closed(fw.rules["OUTPUT"])
    /\ n < 4 => "FORWARD" \in fw.drop

(* A rule more at the end of a chain of each kind. *)
LEMMA MoreOfTheSame ==
    ASSUME NEW rs \in Seq(RuleType), NEW r \in RuleType
    PROVE  Dropping(rs) /\ r = Everything("DROP") => Dropping(Append(rs, r))
  <1>1. /\ Len(Append(rs, r)) = Len(rs) + 1 /\ Len(rs) \in Nat
        /\ \A i \in 1 .. Len(rs) : Append(rs, r)[i] = rs[i]
        /\ Append(rs, r)[Len(rs) + 1] = r
    BY AppendProperties, LenProperties
  <1> QED BY <1>1 DEF Dropping

(* Every command of the list that succeeds takes it one further. *)
LEMMA GatewayRuleApplied ==
    ASSUME NEW fw, IsRuleset(fw), NEW todo \in Seq(Command), todo # <<>>, GatewayApplying(fw, todo)
    PROVE  GatewayApplying(Exec(fw, Head(todo)), Tail(todo))
  <1> DEFINE n == Len(todo)
             c == Head(todo)
             x == Exec(fw, c)
             rest == Tail(todo)
             out == fw.rules["OUTPUT"]
             fwd == fw.rules["FORWARD"]
             nat == fw.rules["natOUTPUT"]
             pre == fw.rules["natPREROUTING"]
             InFilter == {"OUTPUT", "FORWARD"}
             InNat == {"natOUTPUT", "natPREROUTING"}
  <1>1. /\ n \in 1 .. 16 /\ c = todo[1] /\ Len(rest) = n - 1
        /\ \A i \in 1 .. n - 1 : rest[i] = todo[i + 1]
    BY HeadTailProperties, EmptySeq, LenProperties DEF GatewayApplying
  <1>2. c = GatewayRules[17 - n] /\ \A i \in 1 .. n - 1 : rest[i] = GatewayRules[16 - (n - 1) + i]
    BY <1>1 DEF GatewayApplying
  <1>3. /\ n < 16 => InFilter \subseteq DOMAIN fw.rules /\ Dropping(fwd)
        /\ n < 15 => InNat \subseteq DOMAIN fw.rules /\ ToTor(nat) /\ ToTor(pre)
        /\ n \in 7 .. 15 => Silent(out)
        /\ n < 7 => Closed(out)
        /\ n < 4 => "FORWARD" \in fw.drop
    BY DEF GatewayApplying
  <1>4. \A k \in DOMAIN fw.rules : fw.rules[k] \in Seq(RuleType)
    BY DEF IsRuleset
  <1>5. /\ \A k \in InFilter \cup {"INPUT"} : TableOf(k) = "filter" /\ k \in Builtin("filter")
        /\ \A k \in InNat : TableOf(k) = "nat" /\ k \in Builtin("nat")
        /\ "filter" \in Tables /\ "nat" \in Tables
    BY DEF TableOf, Builtin, FilterChains, NatChains, Tables
  <1>6. Silent(<<>>) /\ ToTor(<<>>) /\ Dropping(<<>>)
    BY EmptySeq DEF Silent, ToTor, Dropping
  (* After the command. *)
  <1> DEFINE After == /\ InFilter \subseteq DOMAIN x.rules /\ Dropping(x.rules["FORWARD"])
                      /\ n < 16 => /\ InNat \subseteq DOMAIN x.rules
                                   /\ ToTor(x.rules["natOUTPUT"]) /\ ToTor(x.rules["natPREROUTING"])
                      /\ n > 7 => Silent(x.rules["OUTPUT"])
                      /\ n < 8 => Closed(x.rules["OUTPUT"])
                      /\ n < 5 => "FORWARD" \in x.drop
  <1> HIDE DEF n, c, x
  <1>7. ASSUME n \in {15, 16} PROVE After
    <2>1. PICK table \in Tables : c = Flush(table) /\ table = IF n = 16 THEN "filter" ELSE "nat"
      BY <1>2, <1>5, <1>7 DEF GatewayRules
    <2>2. /\ DOMAIN x.rules = DOMAIN fw.rules \cup Builtin(table)
          /\ \A k \in DOMAIN x.rules : x.rules[k] = IF TableOf(k) = table THEN <<>> ELSE fw.rules[k]
      BY <2>1, ExecFlushTable DEF x
    <2>3. CASE n = 16
      BY <1>5, <1>6, <2>1, <2>2, <2>3
    <2>4. CASE n = 15
      BY <1>3, <1>5, <1>6, <2>1, <2>2, <2>4
    <2> QED BY <1>7, <2>3, <2>4
  <1>8. ASSUME n = 14 PROVE After
    <2>1. c = Flush("FORWARD") /\ "FORWARD" \in DOMAIN fw.rules
      BY <1>2, <1>3, <1>8 DEF GatewayRules
    <2>2. /\ DOMAIN fw.rules \subseteq DOMAIN x.rules /\ x.rules["FORWARD"] = <<>>
          /\ \A k \in DOMAIN fw.rules \ {"FORWARD"} : x.rules[k] = fw.rules[k]
      BY <2>1, ExecFlushChain DEF x
    <2> QED BY <1>3, <1>6, <1>8, <2>2
  <1>9. ASSUME NEW at \in InFilter \cup InNat \cup {"INPUT"}, NEW r \in RuleType, c = AppendRule(at, r), n < 14,
               at = "OUTPUT" => \/ n > 7 /\ r.match \cap AppOut = {}
                                \/ n = 7 /\ r = Everything("DROP"),
               at = "FORWARD" => r = Everything("DROP"),
               at \in InNat => r.target = "tor",
               n = 7 => at = "OUTPUT",
               n # 4
        PROVE  After
    <2>1. /\ InFilter \cup InNat \subseteq DOMAIN fw.rules /\ (n > 6 => Silent(out)) /\ (n < 7 => Closed(out))
          /\ ToTor(nat) /\ ToTor(pre) /\ Dropping(fwd) /\ (n < 4 => "FORWARD" \in fw.drop)
      <3>1. n < 14 /\ n \in 1 .. 16
        BY <1>1, <1>9
      <3> QED BY <1>3, <3>1
    <2>2. /\ x.drop = fw.drop /\ InFilter \cup InNat \subseteq DOMAIN x.rules
          /\ \A k \in (InFilter \cup InNat) \ {at} : x.rules[k] = fw.rules[k]
          /\ at \in InFilter \cup InNat => x.rules[at] = Append(fw.rules[at], r)
      <3>1. CASE at \in InFilter \cup InNat
        BY <1>9, <2>1, <3>1, ExecAppend DEF x
      <3>2. CASE at = "INPUT"
        <4> DEFINE w == WithTable(fw, "filter")
                   s == Append(w.rules["INPUT"], r)
        <4>2. /\ w.drop = fw.drop /\ DOMAIN fw.rules \subseteq DOMAIN w.rules /\ DOMAIN w = {"rules", "drop"}
              /\ \A k \in DOMAIN fw.rules : w.rules[k] = fw.rules[k]
          BY Loaded DEF IsRuleset
        <4>3. x = [w EXCEPT !.rules["INPUT"] = s]
          BY <1>5, <1>9, <3>2 DEF Exec, AppendRule, x
        <4>4. x.drop = w.drop /\ x.rules = [w.rules EXCEPT !["INPUT"] = s]
          <5> HIDE DEF w, s
          <5> QED BY <4>2, <4>3
        <4> HIDE DEF w
        <4> QED BY <2>1, <3>2, <4>2, <4>4
      <3> QED BY <1>9, <3>1, <3>2
    <2>3. Dropping(x.rules["FORWARD"])
      BY <1>4, <1>9, <2>1, <2>2, MoreOfTheSame
    <2>4. ToTor(x.rules["natOUTPUT"]) /\ ToTor(x.rules["natPREROUTING"])
      BY <1>4, <1>9, <2>1, <2>2, SilentAppend
    <2>5. (n > 7 => Silent(x.rules["OUTPUT"])) /\ (n < 8 => Closed(x.rules["OUTPUT"]))
      <3>1. out \in Seq(RuleType) /\ n \in 1 .. 16
        BY <1>1, <1>4, <2>1
      <3>2. CASE at = "OUTPUT" /\ n > 7
        <4>1. r.match \cap AppOut = {} /\ Silent(out) /\ x.rules["OUTPUT"] = Append(out, r)
          BY <1>9, <2>1, <2>2, <3>1, <3>2
        <4>2. Silent(Append(out, r))
          BY <3>1, <4>1, SilentAppend
        <4> QED BY <3>1, <3>2, <4>1, <4>2
      <3>3. CASE at = "OUTPUT" /\ n = 7
        <4>1. r = Everything("DROP") /\ Silent(out) /\ x.rules["OUTPUT"] = Append(out, r)
          BY <1>9, <2>1, <2>2, <3>1, <3>3
        <4>2. Closed(Append(out, r))
          BY <3>1, <4>1, SilentAppend
        <4> QED BY <3>1, <3>3, <4>1, <4>2
      <3>4. CASE at # "OUTPUT"
        <4>1. x.rules["OUTPUT"] = out /\ n # 7
          BY <1>9, <2>2, <3>4
        <4> QED BY <2>1, <3>1, <4>1
      <3> QED BY <1>9, <3>1, <3>2, <3>3, <3>4
    <2>6. n < 5 => "FORWARD" \in x.drop
      <3>1. n < 5 => n < 4
        BY <1>1, <1>9
      <3> QED BY <2>1, <2>2, <3>1
    <2> QED BY <2>2, <2>3, <2>4, <2>5, <2>6
  <1>10. ASSUME n = 4 PROVE After
    <2>1. c = DropAll("FORWARD")
      BY <1>2, <1>10 DEF GatewayRules
    <2>2. /\ x.drop = fw.drop \cup {"FORWARD"}
          /\ \A k \in DOMAIN fw.rules : k \in DOMAIN x.rules /\ x.rules[k] = fw.rules[k]
      BY <2>1, PolicySet DEF x, FilterChains
    <2> QED BY <1>3, <1>10, <2>2
  <1>11. ASSUME n \in 1 .. 13, n # 4 PROVE After
    <2> DEFINE E == Everything("DROP")
    <2>1. /\ {Lo, TorUid, Established, RedirectedOnly, TcpToTor, DnsToTor, E} \subseteq RuleType
          /\ Rule({"wsTcp"}, "tor") \in RuleType /\ Rule({"wsDns"}, "tor") \in RuleType
      BY RulesTyped, RuleTyped DEF Packets, Workstation, Targets
    <2>2. \A r \in {Lo, TorUid, Established, RedirectedOnly} : r.match \cap AppOut = {}
      BY DEF Lo, TorUid, Established, RedirectedOnly, Rule, AppOut
    <2>3. \A r \in {TcpToTor, DnsToTor, Rule({"wsTcp"}, "tor"), Rule({"wsDns"}, "tor")} : r.target = "tor"
      BY DEF TcpToTor, DnsToTor, Rule
    <2>4. CASE n \in {13, 12, 9, 8}
      <3>1. \E r \in {Lo, TorUid, Established, RedirectedOnly} : c = AppendRule("OUTPUT", r)
        BY <1>2, <2>4 DEF GatewayRules
      <3> QED BY <1>9, <2>1, <2>2, <2>4, <3>1
    <2>5. CASE n \in {11, 10, 6, 5}
      <3>1. \E at \in InNat :
               \E r \in {TcpToTor, DnsToTor, Rule({"wsTcp"}, "tor"), Rule({"wsDns"}, "tor")} : c = AppendRule(at, r)
        BY <1>2, <2>5 DEF GatewayRules
      <3> QED BY <1>9, <2>1, <2>3, <2>5, <3>1
    <2>6. CASE n = 7
      <3>1. c = AppendRule("OUTPUT", E)
        BY <1>2, <2>6 DEF GatewayRules
      <3> QED BY <1>9, <2>1, <2>6, <3>1
    <2>7. CASE n = 3
      <3>1. c = AppendRule("FORWARD", E)
        BY <1>2, <2>7 DEF GatewayRules
      <3> QED BY <1>9, <2>1, <2>7, <3>1
    <2>8. CASE n \in {2, 1}
      <3>1. c = AppendRule("INPUT", RedirectedOnly)
        BY <1>2, <2>8 DEF GatewayRules
      <3> QED BY <1>9, <2>1, <2>8, <3>1
    <2> QED BY <1>11, <2>4, <2>5, <2>6, <2>7, <2>8
  <1>12. After
    <2>1. n \in {15, 16} \/ n = 14 \/ n = 4 \/ (n \in 1 .. 13 /\ n # 4)
      BY <1>1
    <2> QED BY <1>7, <1>8, <1>10, <1>11, <2>1
  <1> DEFINE k == n - 1
  <1>13. /\ k \in 0 .. 16 /\ \A i \in 1 .. k : rest[i] = GatewayRules[16 - k + i]
         /\ (k < 15 => n < 16) /\ (k \in 7 .. 15 => n > 7) /\ (k < 7 => n < 8) /\ (k < 4 => n < 5)
    BY <1>1, <1>2
  <1>14. Len(rest) = k
    BY <1>1 DEF n
  <1> HIDE DEF k
  <1> QED BY <1>12, <1>13, <1>14 DEF GatewayApplying, c, x

(* Then nothing of the workstation is forwarded in clear. *)
LEMMA WalledIsContained ==
    ASSUME NEW fw, IsRuleset(fw), Walled(fw)
    PROVE  Contained(fw)
  <1> SUFFICES ASSUME NEW p \in Workstation PROVE Forwarded(fw, p) # "clear"
    BY DEF Contained
  <1> DEFINE rs == fw.rules["FORWARD"]
             ns == fw.rules["natPREROUTING"]
             i == SelectInSeq(rs, LAMBDA r : Fate(fw, r, p) # "RETURN")
             j == SelectInSeq(ns, LAMBDA r : Fate(fw, r, p) # "RETURN")
             I == {n \in 1 .. Len(rs) : Fate(fw, rs[n], p) # "RETURN"}
             J == {n \in 1 .. Len(ns) : Fate(fw, ns[n], p) # "RETURN"}
  <1>1. /\ {"FORWARD", "natPREROUTING"} \subseteq DOMAIN fw.rules /\ Dropping(rs) /\ ToTor(ns)
        /\ "FORWARD" \in fw.drop /\ Len(rs) \in Nat /\ Len(ns) \in Nat
    BY HeldTyped DEF Walled
  <1>2. Verdict(fw, "FORWARD", p) = "DROP"
    <2>1. \A n \in 1 .. Len(rs) : Fate(fw, rs[n], p) \in {"RETURN", "DROP"}
      BY <1>1 DEF Dropping, Fate, Everything, Rule, UserChains
    <2>2. i = 0 \/ i \in I
      <3>1. i = (IF I # {} THEN Min(I) ELSE 0) /\ I \in SUBSET (1 .. Len(rs))
        BY DEF SelectInSeq
      <3> HIDE DEF i, I
      <3> QED BY <1>1, <3>1, Selected
    <2> QED BY <1>1, <2>1, <2>2 DEF Verdict
  <1>3. Verdict(fw, "natPREROUTING", p) # "clear"
    <2>1. \A n \in 1 .. Len(ns) : Fate(fw, ns[n], p) \in {"RETURN", "tor"}
      BY <1>1 DEF ToTor, Fate, UserChains
    <2>2. j = 0 \/ j \in J
      <3>1. j = (IF J # {} THEN Min(J) ELSE 0) /\ J \in SUBSET (1 .. Len(ns))
        BY DEF SelectInSeq
      <3> HIDE DEF j, J
      <3> QED BY <1>1, <3>1, Selected
    <2> QED BY <1>1, <2>1, <2>2 DEF Verdict
  <1> QED BY <1>2, <1>3 DEF Forwarded, Through
=============================================================================
