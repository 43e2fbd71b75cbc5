-------------------------- MODULE SwitchFlagsProofs --------------------------
(***************************************************************************)
(* What the flags of the two kill switches, of gateway mode and of         *)
(* block_ipv6 are worth: with one thread that works the kill switches or   *)
(* gateway mode, and any number that work portscan protection and the Tor  *)
(* service, a flag that is up stands for rules in force, whatever fails;   *)
(* at rest, with every flag down, the rulesets are those of before; and    *)
(* rules redirect traffic only to a daemon that serves it.                 *)
(***************************************************************************)
EXTENDS KillSwitchesProofs

(* Gateway mode replaces the rules of a kill switch that is on, and undoing*)
(* it restores the rules of before: a machine uses one kind or the other.  *)
Switches == {"tor", "proxy", "gw"}
SwitchOps == {"torOn", "torOff", "proxyOn", "proxyOff", "gwOn", "gwOff"}
Kinds == {{"tor", "proxy"}, {"gw"}}
Within(plan, kind) == \A i \in 1 .. Len(plan) : plan[i] \in SwitchOps => Flag[plan[i]] \in kind
Unmixed ==
    \A name \in DOMAIN Machines : \E kind \in Kinds :
        \A t \in Threads : \A plan \in Machines[name].plans[t] : Within(plan, kind)

(* The rules a flag stands for, and the list that puts them in force; the  *)
(* flags that an update could not lower stand for nothing.                 *)
InForce(flag, fw) ==
    CASE flag = "tor" -> Sealed(fw) [] flag = "proxy" -> Routed(fw) [] flag = "gw" -> Walled(fw)
Applying(op, fw, todo) ==
    CASE op = "torOn"   -> TorApplying(fw, todo)
      [] op = "proxyOn" -> ProxyApplying(fw, todo)
      [] op = "gwOn"    -> GatewayApplying(fw, todo)
Standing(s, g, f4, f6) ==
    /\ \A flag \in Switches : s[flag] /\ flag \notin g => InForce(flag, f4)
    /\ s.v6 /\ "v6" \notin g => V6Closed(f6)

(* Where a thread may have commands left to run, where it restores, and    *)
(* what it does.                                                           *)
Lists == {"apply", "gateway6", "block6", "scan", "unscan", "open4", "open6"}
Restoring == {"restore4", "open4", "restore6", "open6", "restored", "clear"}
Does(r, ops) == r.plan # <<>> /\ Head(r.plan) \in ops
Undoes(r, flag) == Does(r, Disabling) /\ Flag[Head(r.plan)] = flag

(* Machine m's plans are of one kind, and no switch of the other kind is on. *)
OfOneKind(plan, s, m) ==
    \E kind \in Kinds :
        /\ Within(plan, kind) /\ \A flag \in Switches \ kind : ~s[flag]
        /\ \A u \in Threads : \A p \in m.plans[u] : Within(p, kind)

Calm(m) == ~(m.mayCrash \/ m.mayReboot)

(* While thread r works: rules are restored only under a flag that is about*)
(* to go down, all others being down; the lists of the switches and of     *)
(* block_ipv6 are on course; portscan protection keeps to its chains. While*)
(* none are restored, a flag that is up stands for rules in force, if the  *)
(* machine is calm.                                                        *)
Held(r, s, g, f4, f6, m) ==
    /\ OfOneKind(r.plan, s, m)
    /\ r.todo # <<>> => r.pc \in Lists
    /\ r.pc = "scan" => Does(r, {"scanOn"}) /\ OnlyScans(r.todo)
    /\ r.pc = "unscan" => Does(r, {"scanOff"}) /\ OnlyScans(r.todo)
    /\ r.pc \in Restoring => \A flag \in Switches : s[flag] => Undoes(r, flag)
    /\ r.pc = "apply" /\ r.ok => Applying(Head(r.plan), f4, r.todo)
    /\ r.pc \in {"record", "gateway6"} => InForce(Flag[Head(r.plan)], f4)
    /\ r.pc = "block6" => ~s.v6 /\ (r.ok => V6Applying(f6, r.todo))
    /\ Calm(m) /\ r.pc \notin Restoring => Standing(s, g, f4, f6)
Hold(t) == Held(th[t], st, stale, fw4, fw6, Here)
-----------------------------------------------------------------------------
(* Every command of a switch's list that succeeds, or adds a chain that is *)
(* there, takes the list one further; *)
LEMMA RuleApplied ==
    ASSUME NEW fw, IsRuleset(fw), NEW op \in Switching, NEW todo \in Seq(Command), todo # <<>>,
           Applying(op, fw, todo),
           NEW x, \/ ~Refused(fw, Head(todo)) /\ x = Exec(fw, Head(todo))
                  \/ AlreadyExists(fw, Head(todo)) /\ op \in Tolerant /\ x = fw
    PROVE  Applying(op, x, Tail(todo))
  <1>1. CASE op = "torOn"
    <2>1. ~Refused(fw, Head(todo)) /\ x = Exec(fw, Head(todo)) /\ TorApplying(fw, todo)
      BY <1>1 DEF Tolerant, Applying
    <2>2. TorApplying(x, Tail(todo))
      BY <2>1, TorRuleApplied
    <2> QED BY <1>1, <2>2 DEF Applying
  <1>2. CASE op = "proxyOn"
    <2>1. ProxyApplying(fw, todo)
      BY <1>2 DEF Applying
    <2>2. ProxyApplying(x, Tail(todo))
      BY <2>1, ProxyRuleApplied
    <2> QED BY <1>2, <2>2 DEF Applying
  <1>3. CASE op = "gwOn"
    <2>1. x = Exec(fw, Head(todo)) /\ GatewayApplying(fw, todo)
      BY <1>3 DEF Tolerant, Applying
    <2>2. GatewayApplying(x, Tail(todo))
      BY <2>1, GatewayRuleApplied
    <2> QED BY <1>3, <2>2 DEF Applying
  <1> QED BY <1>1, <1>2, <1>3 DEF Switching

(* at first all of it is to be run, and at the end the rules are in force. *)
LEMMA RulesDone ==
    ASSUME NEW fw, NEW op \in Switching
    PROVE  Applying(op, fw, Rules(op)) /\ (Applying(op, fw, <<>>) => InForce(Flag[op], fw))
  <1>1. CASE op = "torOn"
    BY <1>1, ListDone DEF Applying, Rules, InForce, Flag
  <1>2. CASE op = "proxyOn"
    <2>1. Len(ProxyRules) = 4
      BY DEF ProxyRules
    <2>2. ProxyApplying(fw, ProxyRules)
      BY <2>1 DEF ProxyApplying
    <2>3. ProxyApplying(fw, <<>>) => Routed(fw)
      BY EmptySeq DEF ProxyApplying, Routed
    <2> QED BY <1>2, <2>2, <2>3 DEF Applying, Rules, InForce, Flag
  <1>3. CASE op = "gwOn"
    <2>1. Len(GatewayRules) = 16
      BY DEF GatewayRules
    <2>2. GatewayApplying(fw, GatewayRules)
      BY <2>1 DEF GatewayApplying
    <2>3. GatewayApplying(fw, <<>>) => Walled(fw)
      BY EmptySeq DEF GatewayApplying, Walled, Sealed
    <2> QED BY <1>3, <2>2, <2>3 DEF Applying, Rules, InForce, Flag
  <1> QED BY <1>1, <1>2, <1>3 DEF Switching

(* The commands of portscan protection leave the switches' rules alone. *)
LEMMA InForceKept ==
    ASSUME NEW fw, IsRuleset(fw), NEW c \in Command, ~Refused(fw, c), c.at \in ScanChains,
           NEW flag \in Switches, InForce(flag, fw)
    PROVE  InForce(flag, Exec(fw, c))
  <1> DEFINE x == Exec(fw, c)
  <1>1. \A k \in {"OUTPUT", "natOUTPUT", "FORWARD", "natPREROUTING", "PG_REDSOCKS"} \cap DOMAIN fw.rules :
            k \in DOMAIN x.rules /\ x.rules[k] = fw.rules[k]
    <2>1. \A k : TableOf(k) \notin ScanChains
      BY DEF TableOf, ScanChains
    <2> QED BY <2>1, Executed DEF ScanChains
  <1>2. "FORWARD" \in x.drop <=> "FORWARD" \in fw.drop
    BY PoliciesKept DEF ScanChains
  <1> HIDE DEF x
  <1>3. Sealed(fw) => Sealed(x)
    BY <1>1 DEF Sealed
  <1>4. Routed(fw) => Routed(x)
    BY <1>1 DEF Routed, Has
  <1>5. Walled(fw) => Walled(x)
    BY <1>1, <1>2, <1>3 DEF Walled
  <1> QED BY <1>3, <1>4, <1>5 DEF InForce, Switches, x

(* Nor do they disturb the lists of the switches. *)
LEMMA ApplyingKept ==
    ASSUME NEW fw, IsRuleset(fw), NEW c \in Command, ~Refused(fw, c), c.at \in ScanChains,
           NEW op \in Switching, NEW todo, Applying(op, fw, todo)
    PROVE  Applying(op, Exec(fw, c), todo)
  <1> DEFINE x == Exec(fw, c)
  <1>1. \A k \in {"OUTPUT", "natOUTPUT", "FORWARD", "natPREROUTING", "PG_REDSOCKS"} \cap DOMAIN fw.rules :
            k \in DOMAIN x.rules /\ x.rules[k] = fw.rules[k]
    <2>1. \A k : TableOf(k) \notin ScanChains
      BY DEF TableOf, ScanChains
    <2> QED BY <2>1, Executed DEF ScanChains
  <1>2. "FORWARD" \in x.drop <=> "FORWARD" \in fw.drop
    BY PoliciesKept DEF ScanChains
  <1> HIDE DEF x
  <1> DEFINE n == Len(todo)
  <1>3. ASSUME TorApplying(fw, todo) PROVE TorApplying(x, todo)
    <2>1. n \in 0 .. 9 /\ (n < 9 => "OUTPUT" \in DOMAIN fw.rules) /\ (n < 8 => "natOUTPUT" \in DOMAIN fw.rules)
      BY <1>3 DEF TorApplying
    <2>2. /\ n < 9 => "OUTPUT" \in DOMAIN x.rules /\ x.rules["OUTPUT"] = fw.rules["OUTPUT"]
          /\ n < 8 => "natOUTPUT" \in DOMAIN x.rules /\ x.rules["natOUTPUT"] = fw.rules["natOUTPUT"]
      BY <1>1, <2>1
    <2> HIDE DEF n
    <2>3. (n \in 1 .. 8 => n < 9) /\ (n = 0 => n < 9)
      BY <2>1
    <2> QED BY <1>3, <2>1, <2>2, <2>3 DEF TorApplying, n
  <1>4. ProxyApplying(fw, todo) => ProxyApplying(x, todo)
    BY <1>1 DEF ProxyApplying, Has
  <1>5. ASSUME GatewayApplying(fw, todo) PROVE GatewayApplying(x, todo)
    <2>1. /\ n \in 0 .. 16 /\ (n < 16 => {"OUTPUT", "FORWARD"} \subseteq DOMAIN fw.rules)
          /\ n < 15 => {"natOUTPUT", "natPREROUTING"} \subseteq DOMAIN fw.rules
      BY <1>5 DEF GatewayApplying
    <2>2. /\ n < 16 => /\ {"OUTPUT", "FORWARD"} \subseteq DOMAIN x.rules
                       /\ x.rules["OUTPUT"] = fw.rules["OUTPUT"] /\ x.rules["FORWARD"] = fw.rules["FORWARD"]
          /\ n < 15 => /\ {"natOUTPUT", "natPREROUTING"} \subseteq DOMAIN x.rules
                       /\ x.rules["natOUTPUT"] = fw.rules["natOUTPUT"]
                       /\ x.rules["natPREROUTING"] = fw.rules["natPREROUTING"]
      BY <1>1, <2>1
    <2> HIDE DEF n
    <2>3. (n \in 7 .. 15 => n < 16) /\ (n \in 0 .. 16 /\ n < 7 => n < 16)
      BY <2>1
    <2> QED BY <1>2, <1>5, <2>1, <2>2, <2>3 DEF GatewayApplying, n
  <1> QED BY <1>3, <1>4, <1>5 DEF Applying, Switching, x
-----------------------------------------------------------------------------
(* What is left of a plan of one kind is one, too. *)
LEMMA TailWithin ==
    ASSUME NEW plan \in Seq(Ops), plan # <<>>, NEW s, NEW m, OfOneKind(plan, s, m)
    PROVE  OfOneKind(Tail(plan), s, m)
  <1>1. PICK kind \in Kinds : /\ Within(plan, kind) /\ \A flag \in Switches \ kind : ~s[flag]
                              /\ \A u \in Threads : \A p \in m.plans[u] : Within(p, kind)
    BY DEF OfOneKind
  <1>2. /\ Len(plan) \in Nat /\ Len(Tail(plan)) = Len(plan) - 1
        /\ \A i \in 1 .. Len(plan) - 1 : Tail(plan)[i] = plan[i + 1]
    BY HeadTailProperties, LenProperties, EmptySeq
  <1>3. Within(Tail(plan), kind)
    BY <1>1, <1>2 DEF Within
  <1> QED BY <1>1, <1>3 DEF OfOneKind

(* Nothing is planned. *)
LEMMA NothingPlanned ==
    ASSUME NEW plan \in Seq(Ops), NEW s, NEW m, OfOneKind(plan, s, m)
    PROVE  OfOneKind(<<>>, s, m)
  BY EmptySeq DEF OfOneKind, Within

(* Another state with the same flags. *)
LEMMA SameFlags ==
    ASSUME NEW plan, NEW s, NEW m, OfOneKind(plan, s, m), NEW z, \A flag \in Switches : z[flag] => s[flag]
    PROVE  OfOneKind(plan, z, m)
  BY DEF OfOneKind

(* A switch that is checked or recorded is of the machine's kind, *)
LEMMA HeadWithin ==
    ASSUME NEW plan \in Seq(Ops), plan # <<>>, NEW s, NEW m, OfOneKind(plan, s, m), Head(plan) \in SwitchOps
    PROVE  \E kind \in Kinds : Flag[Head(plan)] \in kind /\ \A flag \in Switches \ kind : ~s[flag]
  <1>1. PICK kind \in Kinds : Within(plan, kind) /\ \A flag \in Switches \ kind : ~s[flag]
    BY DEF OfOneKind
  <1>2. Head(plan) = plan[1] /\ 1 \in 1 .. Len(plan)
    BY HeadTailProperties, LenProperties, EmptySeq
  <1> QED BY <1>1, <1>2 DEF Within

(* so that until it records an enable function has every switch off, *)
LEMMA AllOff ==
    ASSUME Inv, NEW t \in Threads, ThreadTyped(th[t]), Hold(t), th[t].pc \in BeforeRecord
    PROVE  /\ \A flag \in Switches : ~st[flag]
           /\ ~st.v6 /\ Op(t) \in Switching /\ th[t].plan # <<>>
  <1>1. Doing(t, Switching) /\ ~st[Flag[Op(t)]] /\ ~Conflict(Op(t))
    BY DEF Inv, Checked
  <1>2. /\ OfOneKind(th[t].plan, st, Here) /\ th[t].plan \in Seq(Ops) /\ th[t].plan # <<>>
        /\ Op(t) \in Switching /\ Head(th[t].plan) = Op(t)
    BY <1>1 DEF Hold, Held, ThreadTyped, Doing, Op
  <1>3. PICK kind \in Kinds : Flag[Op(t)] \in kind /\ \A flag \in Switches \ kind : ~st[flag]
    BY <1>2, HeadWithin DEF Switching, SwitchOps
  <1>4. \A flag \in Switches : ~st[flag]
    <2>1. CASE Op(t) = "torOn"
      BY <1>1, <1>3, <2>1 DEF Flag, Conflict, Kinds, Switches
    <2>2. CASE Op(t) = "proxyOn"
      BY <1>1, <1>3, <2>2 DEF Flag, Conflict, Kinds, Switches
    <2>3. CASE Op(t) = "gwOn"
      BY <1>1, <1>3, <2>3 DEF Flag, Conflict, Kinds, Switches
    <2> QED BY <1>2, <2>1, <2>2, <2>3 DEF Switching
  <1> QED BY <1>2, <1>4 DEF Inv, V6OnlyWithSwitch, Switches

(* and a disable function every other switch. *)
LEMMA OthersOff ==
    ASSUME Inv, NEW t \in Threads, ThreadTyped(th[t]), Hold(t), Op(t) \in SwitchOps, th[t].plan # <<>>,
           st[Flag[Op(t)]]
    PROVE  \A flag \in Switches : st[flag] => flag = Flag[Op(t)]
  <1>1. OfOneKind(th[t].plan, st, Here) /\ th[t].plan \in Seq(Ops) /\ Head(th[t].plan) = Op(t)
    BY DEF Hold, Held, ThreadTyped, Op
  <1>2. PICK kind \in Kinds : Flag[Op(t)] \in kind /\ \A flag \in Switches \ kind : ~st[flag]
    BY <1>1, HeadWithin
  <1> QED BY <1>2 DEF Kinds, Switches, Inv, OneSwitch

(* A thread that is neither restoring nor at one of the lists. *)
LEMMA Elsewhere ==
    ASSUME NEW r, NEW s, NEW g, NEW f4, NEW f6, NEW m, OfOneKind(r.plan, s, m), r.todo = <<>>,
           r.pc \notin Restoring \cup Lists \cup {"record"}, Calm(m) => Standing(s, g, f4, f6)
    PROVE  Held(r, s, g, f4, f6, m)
  BY DEF Held, Lists

(* A thread that is restoring. *)
LEMMA InRestoring ==
    ASSUME NEW r, NEW s, NEW g, NEW f4, NEW f6, NEW m, OfOneKind(r.plan, s, m), r.pc \in Restoring,
           r.todo # <<>> => r.pc \in Lists, \A flag \in Switches : s[flag] => Undoes(r, flag)
    PROVE  Held(r, s, g, f4, f6, m)
  BY DEF Held, Restoring

(* With every flag down there is nothing to stand for. *)
LEMMA NothingStands ==
    ASSUME NEW s, NEW g, NEW f4, NEW f6, \A flag \in Switches : ~s[flag], ~s.v6
    PROVE  Standing(s, g, f4, f6)
  BY DEF Standing
-----------------------------------------------------------------------------
(* One command of whichever list. *)
LEMMA CommandHeld ==
    ASSUME NEW t \in Threads, TypeInv, Inv, Hold(t), RunCommand(t)
    PROVE  Hold(t)'
  <1> DEFINE a == th[t]
             b == th'[t]
             c == Head(a.todo)
  <1>1. /\ ThreadTyped(a) /\ ThShape /\ IsRuleset(fw4) /\ IsRuleset(fw6)
        /\ a.todo # <<>> /\ a.pc \in Lists /\ OfOneKind(a.plan, st, Here)
    BY DEF TypeInv, ThreadsTyped, MachineTyped, Inv, RunCommand, Hold, Held
  <1>2. /\ a.todo \in Seq(Command) /\ c \in Command /\ c = a.todo[1]
        /\ Len(a.todo) \in Nat \ {0} /\ Len(Tail(a.todo)) = Len(a.todo) - 1
        /\ \A i \in 1 .. Len(Tail(a.todo)) : Tail(a.todo)[i] = a.todo[i + 1]
    BY <1>1, HeadTailProperties, EmptySeq, LenProperties DEF ThreadTyped
  <1>3. /\ b.pc = a.pc /\ b.plan = a.plan
        /\ CarriedOut(t) \/ Failed(t) \/ Tolerated(t)
    BY <1>1, CommandRun
  <1>4. UNCHANGED <<st, stale, on>> /\ Here' = Here
    BY DEF RunCommand, hist, fixed, Here
  <1>5. /\ OfOneKind(b.plan, st, Here) /\ b.pc \in Lists
        /\ \A ops : Does(b, ops) <=> Does(a, ops)
        /\ \A flag : Undoes(b, flag) <=> Undoes(a, flag)
    BY <1>1, <1>3 DEF Does, Undoes
  <1>6. a.pc \in BeforeRecord => /\ \A flag \in Switches : ~st[flag]
                                 /\ ~st.v6 /\ Op(t) \in Switching
    BY <1>1, AllOff
  <1>7. CASE a.pc = "apply"
    <2>1. Standing(st, stale, fw4', fw6') /\ Op(t) \in Switching
      BY <1>6, <1>7, NothingStands DEF BeforeRecord
    <2>2. ASSUME b.ok PROVE Applying(Op(t), fw4', b.todo)
      <3>1. a.ok /\ b.todo = Tail(a.todo)
            /\ \/ ~Refused(fw4, c) /\ fw4' = Exec(fw4, c)
               \/ AlreadyExists(fw4, c) /\ Op(t) \in Tolerant /\ fw4' = fw4
        BY <1>3, <1>7, <2>2 DEF CarriedOut, Failed, Tolerated, Firewall, V6Lists, Doing
      <3>2. Applying(Op(t), fw4, a.todo)
        BY <1>7, <3>1 DEF Hold, Held, Op
      <3> QED BY <1>1, <1>2, <2>1, <3>1, <3>2, RuleApplied
    <2> QED BY <1>3, <1>4, <1>5, <1>7, <2>1, <2>2 DEF Hold, Held, Restoring, Op
  <1>8. CASE a.pc = "gateway6"
    <2>1. Standing(st, stale, fw4', fw6')
      BY <1>6, <1>8, NothingStands DEF BeforeRecord
    <2>2. InForce(Flag[Head(b.plan)], fw4') 
      BY <1>3, <1>8 DEF Hold, Held, CarriedOut, Failed, Tolerated, V6Lists
    <2> QED BY <1>3, <1>4, <1>5, <1>8, <2>1, <2>2 DEF Hold, Held, Restoring
  <1>9. CASE a.pc = "block6"
    <2>1. ~st.v6 /\ UNCHANGED fw4 /\ (Calm(Here) => Standing(st, stale, fw4, fw6'))
      <3>1. ~st.v6 /\ (Calm(Here) => Standing(st, stale, fw4, fw6))
        BY <1>9 DEF Hold, Held, Restoring
      <3>2. UNCHANGED fw4
        BY <1>3, <1>9 DEF CarriedOut, Failed, Tolerated, V6Lists
      <3> QED BY <3>1, <3>2 DEF Standing
    <2>2. ASSUME b.ok PROVE V6Applying(fw6', b.todo)
      <3>1. a.ok /\ b.todo = Tail(a.todo)
            /\ \/ ~Refused(fw6, c) /\ fw6' = Exec(fw6, c)
               \/ AlreadyExists(fw6, c)
        BY <1>3, <1>9, <2>2 DEF CarriedOut, Failed, Tolerated, Firewall, V6Lists
      <3>2. V6Applying(fw6, a.todo)
        BY <1>9, <3>1 DEF Hold, Held
      <3>3. ~AlreadyExists(fw6, c)
        BY <1>1, <1>2, <3>2, V6AddsNoChain
      <3> QED BY <1>1, <1>2, <3>1, <3>2, <3>3, V6RuleApplied
    <2> QED BY <1>3, <1>4, <1>5, <1>9, <2>1, <2>2 DEF Hold, Held, Restoring
  <1>10. CASE a.pc \in {"scan", "unscan"}
    <2>1. OnlyScans(a.todo) /\ (Calm(Here) => Standing(st, stale, fw4, fw6))
      BY <1>10 DEF Hold, Held, Restoring
    <2>2. b.todo = Tail(a.todo) /\ UNCHANGED fw6
          /\ (fw4' = fw4 \/ (~Refused(fw4, c) /\ fw4' = Exec(fw4, c)))
      <3>1. Firewall(t) = fw4 /\ a.pc \notin V6Lists /\ a.pc # "block6"
        BY <1>10 DEF Firewall, V6Lists
      <3> QED BY <1>3, <3>1 DEF CarriedOut, Failed, Tolerated
    <2>3. OnlyScans(b.todo) /\ c.at \in ScanChains
      BY <1>1, <1>2, <2>1, <2>2, TailOnlyScans DEF ScanWork
    <2>4. Calm(Here) => Standing(st, stale, fw4', fw6')
      <3>1. ASSUME NEW flag \in Switches, InForce(flag, fw4) PROVE InForce(flag, fw4')
        BY <1>1, <1>2, <2>2, <2>3, <3>1, InForceKept
      <3> QED BY <2>1, <2>2, <3>1 DEF Standing
    <2> QED BY <1>3, <1>4, <1>5, <1>10, <2>3, <2>4 DEF Hold, Held, Restoring
  <1>11. CASE a.pc \in {"open4", "open6"}
    <2>1. \A flag \in Switches : st[flag] => Undoes(a, flag)
      BY <1>11 DEF Hold, Held, Restoring
    <2>2. Held(b, st, stale, fw4', fw6', Here)
      BY <1>3, <1>5, <1>11, <2>1, InRestoring DEF Restoring
    <2> QED BY <1>4, <2>2 DEF Hold
  <1> QED BY <1>1, <1>7, <1>8, <1>9, <1>10, <1>11 DEF Lists
-----------------------------------------------------------------------------
(* The end of an operation, whatever it changed. *)
LEMMA OverHeld ==
    ASSUME NEW t \in Threads, TypeInv, Inv, Hold(t), NEW result, Finish(t, result),
           th[t].plan # <<>>, UNCHANGED on, \A flag \in Switches : st'[flag] => st[flag],
           Calm(Here) => Standing(st', stale', fw4', fw6')
    PROVE  Hold(t)'
  <1>1. ThShape /\ ThreadTyped(th[t]) /\ OfOneKind(th[t].plan, st, Here) /\ Here' = Here
    BY DEF TypeInv, ThreadsTyped, Inv, Hold, Held, Here
  <1>2. th'[t].pc \in {"idle", "check"} /\ th'[t].plan = Tail(th[t].plan) /\ th'[t].todo = <<>>
    BY <1>1, Finished
  <1>3. OfOneKind(th'[t].plan, st', Here)
    BY <1>1, <1>2, TailWithin, SameFlags DEF ThreadTyped
  <1>4. th'[t].pc \notin Restoring \cup Lists \cup {"record"}
    BY <1>2 DEF Restoring, Lists
  <1>5. Held(th'[t], st', stale', fw4', fw6', Here)
    BY <1>2, <1>3, <1>4, Elsewhere
  <1> QED BY <1>1, <1>5 DEF Hold

(* The steps that change neither the rulesets nor the state file. *)
LEMMA PassingHeld ==
    ASSUME NEW t \in Threads, TypeInv, Inv, Hold(t), UNCHANGED <<st, fw4, fw6, on>>, stale \subseteq stale',
           th[t].pc \notin Restoring, th[t].plan # <<>>, th[t].todo = <<>>,
           \/ \E result : Finish(t, result)
           \/ \E l : Goto(t, l) /\ l \notin Restoring \cup Lists \cup {"record"}
           \/ Become(t, Idle)
    PROVE  Hold(t)'
  <1>1. /\ ThShape /\ ThreadTyped(th[t]) /\ OfOneKind(th[t].plan, st, Here) /\ Here' = Here
        /\ Calm(Here) => Standing(st', stale', fw4', fw6')
    BY DEF TypeInv, ThreadsTyped, Inv, Hold, Held, Here, Standing
  <1>2. CASE \E result : Finish(t, result)
    BY <1>1, <1>2, OverHeld
  <1>3. CASE \E l : Goto(t, l) /\ l \notin Restoring \cup Lists \cup {"record"}
    <2>1. PICK l : Goto(t, l) /\ l \notin Restoring \cup Lists \cup {"record"}
      BY <1>3
    <2>2. th'[t].pc = l /\ th'[t].plan = th[t].plan /\ th'[t].todo = <<>>
      BY <1>1, <2>1, Gone
    <2>3. Held(th'[t], st', stale', fw4', fw6', Here)
      BY <1>1, <2>1, <2>2, Elsewhere
    <2> QED BY <1>1, <2>3 DEF Hold
  <1>4. CASE Become(t, Idle)
    <2>1. th'[t] = Idle
      BY <1>1, <1>4, Became
    <2>2. Idle.pc = "idle" /\ Idle.plan = <<>> /\ Idle.todo = <<>>
      BY DEF Idle
    <2>3. OfOneKind(<<>>, st, Here)
      BY <1>1, NothingPlanned DEF ThreadTyped
    <2>4. Held(Idle, st', stale', fw4', fw6', Here)
      BY <1>1, <2>2, <2>3, Elsewhere DEF Restoring, Lists
    <2> QED BY <1>1, <2>1, <2>4 DEF Hold
  <1> QED BY <1>2, <1>3, <1>4

(* An operation that raises while the flags it was about to lower are up:  *)
(* they are stale from now on.                                             *)
LEMMA GivenUpHeld ==
    ASSUME NEW t \in Threads, TypeInv, Inv, Hold(t), UNCHANGED <<st, on>>, Become(t, Idle),
           \A flag \in Switches : st[flag] => flag \in stale', st.v6 => "v6" \in stale'
    PROVE  Hold(t)'
  <1>1. ThShape /\ ThreadTyped(th[t]) /\ OfOneKind(th[t].plan, st, Here) /\ Here' = Here
    BY DEF TypeInv, ThreadsTyped, Inv, Hold, Held, Here
  <1>2. th'[t] = Idle
    BY <1>1, Became
  <1>3. Idle.pc = "idle" /\ Idle.plan = <<>> /\ Idle.todo = <<>>
    BY DEF Idle
  <1>4. OfOneKind(<<>>, st, Here)
    BY <1>1, NothingPlanned DEF ThreadTyped
  <1>5. Standing(st', stale', fw4', fw6')
    BY DEF Standing
  <1>6. Held(Idle, st', stale', fw4', fw6', Here)
    BY <1>3, <1>4, <1>5, Elsewhere DEF Restoring, Lists
  <1> QED BY <1>1, <1>2, <1>6 DEF Hold

(* The checks, the daemons and the backups. *)
LEMMA PreparingHeld ==
    ASSUME NEW t \in Threads, TypeInv, Inv, Hold(t),
           \/ CheckEnable(t) \/ PrepareTor(t) \/ PrepareTorFails(t) \/ AskTor(t) \/ AskTorAgain(t)
           \/ PrepareProxy(t) \/ PrepareProxyFails(t) \/ PrepareGateway(t) \/ PrepareRaises(t)
           \/ Backup4(t) \/ Backup6(t) \/ TorService(t)
    PROVE  Hold(t)'
  <1> USE DEF At
  <1>1. /\ ThShape /\ ThreadTyped(th[t]) /\ OfOneKind(th[t].plan, st, Here)
        /\ th[t].pc \notin Restoring => (Calm(Here) => Standing(st, stale, fw4, fw6))
    BY DEF TypeInv, ThreadsTyped, Inv, Hold, Held
  <1>2. UNCHANGED <<st, stale, fw4, fw6, on>> /\ th[t].todo = <<>>
    BY DEF CheckEnable, PrepareTor, PrepareTorFails, AskTor, AskTorAgain, PrepareProxy,
           PrepareProxyFails, PrepareGateway, PrepareRaises, Backup4, Backup6, TorService, hist, fixed
  <1>3. th[t].pc \in {"check", "prepare", "bootstrap", "waiting", "save4", "save6"}
    BY DEF CheckEnable, PrepareTor, PrepareTorFails, AskTor, AskTorAgain, PrepareProxy,
           PrepareProxyFails, PrepareGateway, PrepareRaises, Backup4, Backup6, TorService
  <1>4. th[t].pc \notin Restoring /\ th[t].plan # <<>>
    BY <1>1, <1>3 DEF Restoring, ThreadTyped
  <1>5. Here' = Here
    BY <1>2 DEF Here
  <1>6. CASE CheckEnable(t)
    <2>1. CASE Op(t) = "scanOn" /\ Run(t, "scan", ScanRules)
      <3>1. th'[t].pc = "scan" /\ th'[t].plan = th[t].plan /\ th'[t].todo = ScanRules
        BY <1>1, <2>1, Ran
      <3>2. OnlyScans(ScanRules)
        BY ScanListsKeep
      <3>3. Does(th'[t], {"scanOn"})
        BY <1>4, <2>1, <3>1 DEF Does, Op
      <3>4. Held(th'[t], st', stale', fw4', fw6', Here)
        BY <1>1, <1>2, <1>4, <3>1, <3>2, <3>3 DEF Held, Lists, Restoring
      <3> QED BY <1>5, <3>4 DEF Hold
    <2>2. CASE (\E result : Finish(t, result)) \/ Goto(t, "prepare")
      BY <1>2, <1>4, <2>2, PassingHeld DEF Restoring, Lists
    <2> QED BY <1>6, <2>1, <2>2 DEF CheckEnable
  <1>7. CASE \/ PrepareTor(t) \/ PrepareTorFails(t) \/ AskTor(t) \/ AskTorAgain(t) \/ PrepareProxy(t)
             \/ PrepareProxyFails(t) \/ PrepareGateway(t) \/ PrepareRaises(t) \/ TorService(t)
    <2>1. \/ \E result : Finish(t, result)
          \/ \E l \in {"bootstrap", "waiting", "save4"} : Goto(t, l)
          \/ Become(t, Idle)
      BY <1>7 DEF PrepareTor, PrepareTorFails, AskTor, AskTorAgain, PrepareProxy, PrepareProxyFails,
                  PrepareGateway, PrepareRaises, TorService
    <2> QED BY <1>2, <1>4, <2>1, PassingHeld DEF Restoring, Lists
  <1>8. CASE Backup4(t)
    <2>1. PICK b : Become(t, [th[t] EXCEPT !.pc = "save6", !.b4 = b])
      BY <1>8 DEF Backup4
    <2> DEFINE r == [th[t] EXCEPT !.pc = "save6", !.b4 = b]
    <2>2. r.pc = "save6" /\ r.plan = th[t].plan /\ r.todo = <<>>
      BY <1>1, <1>2 DEF ThShape, Idle
    <2>3. th'[t] = r
      BY <1>1, <2>1, Became
    <2> HIDE DEF r
    <2>4. Held(r, st', stale', fw4', fw6', Here)
      BY <1>1, <1>2, <1>4, <2>2, Elsewhere DEF Restoring, Lists
    <2> QED BY <1>5, <2>3, <2>4 DEF Hold
  <1>9. CASE Backup6(t)
    <2> DEFINE cs == Rules(Op(t))
    <2>1. PICK b : Become(t, [th[t] EXCEPT !.pc = "apply", !.b6 = b, !.ok = TRUE, !.todo = cs])
      BY <1>9 DEF Backup6
    <2>2. Op(t) \in Switching /\ th[t].pc = "save6"
      BY <1>1, <1>9, AllOff DEF Backup6, BeforeRecord
    <2>3. Applying(Op(t), fw4, cs)
      BY <2>2, RulesDone
    <2> HIDE DEF cs
    <2> DEFINE r == [th[t] EXCEPT !.pc = "apply", !.b6 = b, !.ok = TRUE, !.todo = cs]
    <2>4. r.pc = "apply" /\ r.plan = th[t].plan /\ r.todo = cs
      BY <1>1 DEF ThShape, Idle
    <2>5. th'[t] = r
      BY <1>1, <2>1, Became
    <2> HIDE DEF r
    <2>6. Held(r, st', stale', fw4', fw6', Here)
      BY <1>1, <1>2, <1>4, <2>3, <2>4 DEF Held, Lists, Restoring, Op
    <2> QED BY <1>5, <2>5, <2>6 DEF Hold
  <1> QED BY <1>6, <1>7, <1>8, <1>9

(* What a switch records, and what it does not. *)
LEMMA RecordedFlags ==
    ASSUME Inv, NEW t \in Threads, Record(t)
    PROVE  /\ Op(t) \in Switching /\ st'[Flag[Op(t)]] /\ ~st[Flag[Op(t)]]
           /\ \A flag \in Switches : flag # Flag[Op(t)] => st'[flag] = st[flag]
           /\ st'.v6 = st.v6
  <1>1. /\ StShape /\ Doing(t, Switching) /\ ~st[Flag[Op(t)]]
        /\ st' = Recorded(Op(t), th[t].b4, th[t].b6)
    BY DEF Record, At, Inv, Checked, BeforeRecord
  <1>2. CASE Op(t) = "torOn"
    <2>1. st' = [st EXCEPT !.tor = TRUE, !.iptables = th[t].b4, !.ip6tables = th[t].b6]
          /\ Flag[Op(t)] = "tor"
      BY <1>1, <1>2 DEF Recorded, Flag
    <2> QED BY <1>1, <1>2, <2>1 DEF StShape, Off, Switches, Switching
  <1>3. CASE Op(t) = "proxyOn"
    <2>1. st' = [st EXCEPT !.proxy = TRUE, !.nat = th[t].b4, !.ip6tables = th[t].b6]
          /\ Flag[Op(t)] = "proxy"
      BY <1>1, <1>3 DEF Recorded, Flag
    <2> QED BY <1>1, <1>3, <2>1 DEF StShape, Off, Switches, Switching
  <1>4. CASE Op(t) = "gwOn"
    <2>1. st' = [st EXCEPT !.gw = TRUE, !.gwIptables = th[t].b4, !.gwIp6tables = th[t].b6]
          /\ Flag[Op(t)] = "gw"
      BY <1>1, <1>4 DEF Recorded, Flag
    <2> QED BY <1>1, <1>4, <2>1 DEF StShape, Off, Switches, Switching
  <1> QED BY <1>1, <1>2, <1>3, <1>4 DEF Doing, Switching

(* The verdict on the rules, the records, and block_ipv6. *)
LEMMA RecordingHeld ==
    ASSUME NEW t \in Threads, TypeInv, Inv, Hold(t),
           \/ Applied(t) \/ Record(t) \/ CheckV6(t) \/ V6Blocked(t) \/ ScanApplied(t) \/ ScanRemoved(t)
           \/ UpdateRaises(t) /\ ~Undone(t)
    PROVE  Hold(t)'
  <1> USE DEF At
  <1>1. /\ ThShape /\ ThreadTyped(th[t]) /\ OfOneKind(th[t].plan, st, Here) /\ StShape
        /\ th[t].pc \notin Restoring => (Calm(Here) => Standing(st, stale, fw4, fw6))
    BY DEF TypeInv, ThreadsTyped, Inv, Hold, Held
  <1>2. UNCHANGED <<fw4, fw6, on>> /\ th[t].todo = <<>>
    BY DEF Applied, Record, CheckV6, V6Blocked, ScanApplied, ScanRemoved, UpdateRaises, hist, fixed
  <1>3. th[t].pc \in {"apply", "record", "gateway6", "v6", "block6", "scan", "unscan"}
    BY DEF Applied, Record, CheckV6, V6Blocked, ScanApplied, ScanRemoved, UpdateRaises
  <1>4. th[t].pc \notin Restoring /\ th[t].plan # <<>>
    BY <1>1, <1>3 DEF Restoring, ThreadTyped
  <1>5. Here' = Here
    BY <1>2 DEF Here
  <1>6. CASE Applied(t)
    <2>1. /\ \A flag \in Switches : ~st[flag]
          /\ Op(t) \in Switching /\ UNCHANGED <<st, stale>> /\ Standing(st, stale, fw4, fw6)
      BY <1>1, <1>6, AllOff, NothingStands DEF Applied, BeforeRecord, hist
    <2>2. CASE ~th[t].ok /\ Goto(t, "restore4")
      <3>1. th'[t].pc = "restore4" /\ th'[t].plan = th[t].plan /\ th'[t].todo = <<>>
        BY <1>1, <1>2, <2>2, Gone
      <3>2. Held(th'[t], st', stale', fw4', fw6', Here)
        BY <1>1, <1>2, <2>1, <3>1, InRestoring DEF Restoring
      <3> QED BY <1>5, <3>2 DEF Hold
    <2>3. CASE /\ th[t].ok
               /\ Goto(t, "record") \/ Run(t, "gateway6", GatewayV6Rules)
      <3>1. /\ th'[t].pc \in {"record", "gateway6"} /\ th'[t].plan = th[t].plan
            /\ th'[t].todo # <<>> => th'[t].pc \in Lists
        BY <1>1, <1>2, <2>3, Gone, Ran DEF Lists
      <3>2. InForce(Flag[Op(t)], fw4)
        <4>1. Applying(Op(t), fw4, <<>>)
          BY <1>2, <1>6, <2>3 DEF Applied, Hold, Held, Op
        <4> QED BY <2>1, <4>1, RulesDone
      <3>3. Held(th'[t], st', stale', fw4', fw6', Here)
        BY <1>1, <1>2, <2>1, <3>1, <3>2 DEF Held, Restoring, Op
      <3> QED BY <1>5, <3>3 DEF Hold
    <2> QED BY <1>6, <2>2, <2>3 DEF Applied
  <1>7. CASE Record(t)
    <2>1. (\A flag \in Switches : ~st[flag]) /\ ~st.v6 /\ th[t].pc \in {"record", "gateway6"}
      BY <1>1, <1>7, AllOff DEF Record, BeforeRecord
    <2>2. th'[t].pc = "v6" /\ th'[t].plan = th[t].plan /\ th'[t].todo = <<>>
      BY <1>1, <1>2, <1>7, Gone DEF Record
    <2>3. /\ Op(t) \in Switching
          /\ \A flag \in Switches : flag # Flag[Op(t)] => st'[flag] = st[flag]
          /\ st'.v6 = st.v6
      BY <1>7, RecordedFlags
    <2>4. Standing(st', stale', fw4', fw6')
      <3>1. InForce(Flag[Op(t)], fw4)
        BY <2>1 DEF Hold, Held, Op
      <3> QED BY <1>2, <2>1, <2>3, <3>1 DEF Standing
    <2>5. OfOneKind(th[t].plan, st', Here)
      <3>1. PICK kind \in Kinds : /\ Within(th[t].plan, kind) /\ \A flag \in Switches \ kind : ~st[flag]
                                  /\ \A u \in Threads : \A p \in Here.plans[u] : Within(p, kind)
        BY <1>1 DEF OfOneKind
      <3>2. th[t].plan[1] = Op(t) /\ 1 \in 1 .. Len(th[t].plan)
        BY <1>1, <1>4, HeadTailProperties, LenProperties, EmptySeq DEF Op, ThreadTyped
      <3>3. Flag[Op(t)] \in kind
        BY <2>3, <3>1, <3>2 DEF Within, Switching, SwitchOps
      <3> QED BY <2>3, <3>1, <3>3 DEF OfOneKind
    <2>6. Held(th'[t], st', stale', fw4', fw6', Here)
      BY <2>2, <2>4, <2>5, Elsewhere DEF Restoring, Lists
    <2> QED BY <1>5, <2>6 DEF Hold
  <1>8. CASE CheckV6(t)
    <2>1. UNCHANGED <<st, stale>>
      BY <1>8 DEF CheckV6, hist
    <2>2. CASE Finish(t, TRUE)
      BY <1>2, <1>4, <2>1, <2>2, PassingHeld
    <2>3. CASE ~st.v6 /\ Run(t, "block6", BlockV6Rules)
      <3>1. /\ th'[t].pc = "block6" /\ th'[t].plan = th[t].plan /\ th'[t].todo = BlockV6Rules
        BY <1>1, <2>3, Ran
      <3>2. V6Applying(fw6, BlockV6Rules)
        BY ListDone
      <3>3. Held(th'[t], st', stale', fw4', fw6', Here)
        BY <1>1, <1>2, <1>4, <2>1, <2>3, <3>1, <3>2 DEF Held, Restoring, Lists
      <3> QED BY <1>5, <3>3 DEF Hold
    <2> QED BY <1>8, <2>2, <2>3 DEF CheckV6
  <1>9. CASE V6Blocked(t)
    <2>1. st' = (IF th[t].ok THEN [st EXCEPT !.v6 = TRUE] ELSE st) /\ Finish(t, TRUE) /\ th[t].pc = "block6"
          /\ UNCHANGED stale
      BY <1>9 DEF V6Blocked, hist
    <2>2. (\A flag \in Switches : st'[flag] = st[flag]) /\ (th[t].ok \/ st' = st)
      BY <1>1, <2>1 DEF StShape, Off, Switches
    <2>3. th[t].ok => V6Closed(fw6)
      BY <1>2, <2>1, ListDone DEF Hold, Held
    <2>4. Calm(Here) => Standing(st', stale', fw4', fw6')
      BY <1>1, <1>2, <1>4, <2>1, <2>2, <2>3 DEF Standing
    <2> QED BY <1>2, <1>4, <2>1, <2>2, <2>4, OverHeld
  <1>10. CASE ScanApplied(t) \/ ScanRemoved(t)
    <2>1. /\ st' = st \/ \E b \in BOOLEAN : st' = [st EXCEPT !.scan = b]
          /\ stale' \in {stale, stale \ {"scan"}}
      BY <1>10 DEF ScanApplied, ScanRemoved, hist
    <2>2. (\A flag \in Switches : st'[flag] = st[flag]) /\ st'.v6 = st.v6
      BY <1>1, <2>1 DEF StShape, Off, Switches
    <2>3. \E result : Finish(t, result)
      BY <1>10 DEF ScanApplied, ScanRemoved
    <2>4. Calm(Here) => Standing(st', stale', fw4', fw6')
      BY <1>1, <1>2, <1>4, <2>1, <2>2 DEF Standing, Switches
    <2> QED BY <1>2, <1>4, <2>2, <2>3, <2>4, OverHeld
  <1>11. CASE UpdateRaises(t) /\ ~Undone(t)
    <2>1. UNCHANGED <<st, fw4, fw6, on>> /\ Become(t, Idle) /\ stale \subseteq stale'
      BY <1>11 DEF UpdateRaises, fixed
    <2> QED BY <1>2, <1>4, <2>1, PassingHeld
  <1> QED BY <1>6, <1>7, <1>8, <1>9, <1>10, <1>11

(* What an update that undoes a switch leaves up. *)
LEMMA ClearedFlags ==
    ASSUME StShape, NEW op \in {"torOff", "proxyOff", "gwOff"}, st' = Cleared(op)
    PROVE  /\ ~st'[Flag[op]] /\ ~st'.v6
           /\ \A flag \in Switches : flag # Flag[op] => st'[flag] = st[flag]
  <1>1. CASE op = "torOff"
    BY <1>1 DEF Cleared, StShape, Off, Switches, Flag
  <1>2. CASE op = "proxyOff"
    <2>1. st' = [st EXCEPT !.proxy = FALSE, !.v6 = FALSE, !.nat = None, !.ip6tables = None]
          /\ Flag[op] = "proxy"
      BY <1>2 DEF Cleared, Flag
    <2> QED BY <2>1 DEF StShape, Off, Switches
  <1>3. CASE op = "gwOff"
    <2>1. st' = [st EXCEPT !.gw = FALSE, !.v6 = FALSE, !.gwIptables = None, !.gwIp6tables = None]
          /\ Flag[op] = "gw"
      BY <1>3 DEF Cleared, Flag
    <2> QED BY <2>1 DEF StShape, Off, Switches
  <1> QED BY <1>1, <1>2, <1>3

(* The way back, to the update that lowers the flags. *)
LEMMA RestoringHeld ==
    ASSUME NEW t \in Threads, TypeInv, Inv, Hold(t),
           \/ CheckDisable(t) \/ Restore4(t) \/ Restore6(t) \/ RolledBack(t)
           \/ StopRedsocks(t) \/ StopRedsocksFails(t) \/ Clear(t)
           \/ UpdateRaises(t) /\ Undone(t)
    PROVE  Hold(t)'
  <1> USE DEF At
  <1>1. /\ ThShape /\ ThreadTyped(th[t]) /\ OfOneKind(th[t].plan, st, Here) /\ StShape
        /\ OneSwitch /\ V6OnlyWithSwitch
    BY DEF TypeInv, ThreadsTyped, Inv, Hold, Held
  <1>2. UNCHANGED on /\ th[t].todo = <<>> /\ Here' = Here
    BY DEF CheckDisable, Restore4, Restore6, RolledBack, StopRedsocks, StopRedsocksFails, Clear,
           UpdateRaises, Undone, hist, fixed, Here
  <1>3. th[t].pc \in {"check"} \cup Restoring
    BY DEF CheckDisable, Restore4, Restore6, RolledBack, StopRedsocks, StopRedsocksFails, Clear,
           Undone, Restoring
  <1>4. th[t].plan # <<>>
    BY <1>1, <1>3 DEF Restoring, ThreadTyped
  <1>5. th[t].pc \in Restoring => \A flag \in Switches : st[flag] => Undoes(th[t], flag)
    BY DEF Hold, Held
  <1>6. CASE CheckDisable(t)
    <2>1. UNCHANGED <<st, stale, fw4, fw6>> /\ th[t].pc \notin Restoring /\ Op(t) \in Disabling
      BY <1>6 DEF CheckDisable, Restoring, Doing, hist
    <2>2. CASE Finish(t, FALSE)
      BY <1>2, <1>4, <2>1, <2>2, PassingHeld
    <2>3. CASE Op(t) = "scanOff" /\ Run(t, "unscan", ScanRemoval)
      <3>1. th'[t].pc = "unscan" /\ th'[t].plan = th[t].plan /\ th'[t].todo = ScanRemoval
        BY <1>1, <2>3, Ran
      <3>2. OnlyScans(ScanRemoval)
        BY ScanListsKeep
      <3>3. Does(th'[t], {"scanOff"})
        BY <1>4, <2>3, <3>1 DEF Does, Op
      <3>4. Calm(Here) => Standing(st', stale', fw4', fw6')
        BY <2>1 DEF Hold, Held
      <3>5. Held(th'[t], st', stale', fw4', fw6', Here)
        BY <1>1, <2>1, <3>1, <3>2, <3>3, <3>4 DEF Held, Lists, Restoring
      <3> QED BY <1>2, <3>5 DEF Hold
    <2>4. CASE /\ st[Flag[Op(t)]] /\ Op(t) # "scanOff"
               /\ Become(t, [th[t] EXCEPT !.pc = "restore4", !.b4 = Backups(Op(t))[1],
                                          !.b6 = Backups(Op(t))[2]])
      <3> DEFINE b4 == Backups(Op(t))[1]
                 b6 == Backups(Op(t))[2]
      <3>0. Become(t, [th[t] EXCEPT !.pc = "restore4", !.b4 = b4, !.b6 = b6])
        BY <2>4
      <3> HIDE DEF b4, b6
      <3> DEFINE r == [th[t] EXCEPT !.pc = "restore4", !.b4 = b4, !.b6 = b6]
      <3>1. r.pc = "restore4" /\ r.plan = th[t].plan /\ r.todo = <<>>
        BY <1>1, <1>2 DEF ThShape, Idle
      <3>2. th'[t] = r
        BY <1>1, <3>0, Became
      <3> HIDE DEF r
      <3>3. \A flag \in Switches : st[flag] => flag = Flag[Op(t)]
        BY <1>1, <1>4, <2>1, <2>4, OthersOff DEF Disabling, SwitchOps
      <3>4. \A flag \in Switches : st[flag] => Undoes(r, flag)
        BY <1>4, <2>1, <3>1, <3>3 DEF Undoes, Does, Op
      <3>5. Held(r, st', stale', fw4', fw6', Here)
        BY <1>1, <2>1, <3>1, <3>4, InRestoring DEF Restoring
      <3> QED BY <1>2, <3>2, <3>5 DEF Hold
    <2> QED BY <1>6, <2>2, <2>3, <2>4 DEF CheckDisable
  <1>7. CASE Restore4(t) \/ Restore6(t) \/ (StopRedsocks(t) /\ Here.systemctl) \/ StopRedsocksFails(t)
    <2>1. UNCHANGED <<st, stale>> /\ th[t].pc \in Restoring
      BY <1>7 DEF Restore4, Restore6, StopRedsocks, StopRedsocksFails, Restoring, hist
    <2>2. \/ \E l \in {"restore6", "restored", "clear"} : Goto(t, l)
          \/ Run(t, "open4", OpenV4Rules) \/ Run(t, "open6", OpenV6Rules)
      BY <1>7 DEF Restore4, Restore6, StopRedsocks, StopRedsocksFails
    <2>3. /\ th'[t].pc \in Restoring /\ th'[t].plan = th[t].plan
          /\ th'[t].todo # <<>> => th'[t].pc \in Lists
      BY <1>1, <1>2, <2>2, Gone, Ran DEF Restoring, Lists
    <2>4. \A flag \in Switches : st[flag] => Undoes(th'[t], flag)
      BY <1>5, <2>1, <2>3 DEF Undoes, Does
    <2>5. Held(th'[t], st', stale', fw4', fw6', Here)
      BY <1>1, <2>1, <2>3, <2>4, InRestoring
    <2> QED BY <1>2, <2>5 DEF Hold
  <1>8. CASE RolledBack(t)
    <2>1. UNCHANGED <<st, fw4, fw6>> /\ th[t].pc \in Restoring /\ Finish(t, FALSE) /\ Doing(t, Enabling)
      BY <1>8 DEF RolledBack, Restoring
    <2>2. \A flag \in Switches : ~st[flag]
      BY <1>5, <2>1 DEF Undoes, Does, Doing, Op, Enabling, Disabling
    <2>3. ~st.v6
      BY <1>1, <2>2 DEF V6OnlyWithSwitch, Switches
    <2>4. Standing(st', stale', fw4', fw6')
      BY <2>1, <2>2, <2>3, NothingStands
    <2> QED BY <1>2, <1>4, <2>1, <2>4, OverHeld
  <1>9. CASE Clear(t)
    <2>1. /\ Finish(t, TRUE) /\ st' = Cleared(Op(t)) /\ th[t].pc \in Restoring
          /\ Op(t) \in {"torOff", "proxyOff", "gwOff"}
      BY <1>9 DEF Clear, Undone, Doing, Restoring
    <2>2. /\ ~st'[Flag[Op(t)]] /\ ~st'.v6
          /\ \A flag \in Switches : flag # Flag[Op(t)] => st'[flag] = st[flag]
      BY <1>1, <2>1, ClearedFlags
    <2>3. \A flag \in Switches : ~st'[flag]
      BY <1>5, <2>1, <2>2 DEF Undoes, Op
    <2>4. Standing(st', stale', fw4', fw6')
      BY <2>2, <2>3, NothingStands
    <2> QED BY <1>2, <1>4, <2>1, <2>3, <2>4, OverHeld
  <1>10. CASE (StopRedsocks(t) /\ ~Here.systemctl) \/ (UpdateRaises(t) /\ Undone(t))
    <2>1. /\ UNCHANGED <<st, on>> /\ Become(t, Idle) /\ th[t].pc \in Restoring
          /\ Flag[Op(t)] \in stale' /\ "v6" \in stale'
      <3>1. CASE StopRedsocks(t) /\ ~Here.systemctl
        BY <3>1 DEF StopRedsocks, Doing, Flag, Restoring, fixed
      <3>2. CASE UpdateRaises(t) /\ Undone(t)
        BY <3>2 DEF UpdateRaises, Undone, Doing, Restoring, fixed
      <3> QED BY <1>10, <3>1, <3>2
    <2>2. \A flag \in Switches : st[flag] => flag \in stale'
      BY <1>5, <2>1 DEF Undoes, Op
    <2> QED BY <2>1, <2>2, GivenUpHeld
  <1> QED BY <1>6, <1>7, <1>8, <1>9, <1>10
-----------------------------------------------------------------------------
(* Nothing is on, and nothing under way, at first. *)
LEMMA HeldInit ==
    ASSUME NEW t \in Threads, Unmixed, Init
    PROVE  Hold(t)
  <1>1. th[t] = Idle /\ st = Off /\ on \in DOMAIN Machines
    BY DEF Init
  <1>2. Idle.pc = "idle" /\ Idle.plan = <<>> /\ Idle.todo = <<>>
    BY DEF Idle
  <1>3. (\A flag \in Switches : ~st[flag]) /\ ~st.v6
    BY <1>1 DEF Off, Switches
  <1>4. OfOneKind(<<>>, st, Here)
    <2>1. PICK kind \in Kinds : \A u \in Threads : \A p \in Here.plans[u] : Within(p, kind)
      BY <1>1 DEF Unmixed, Here
    <2>2. Within(<<>>, kind)
      BY EmptySeq DEF Within
    <2> QED BY <1>3, <2>1, <2>2 DEF OfOneKind
  <1>5. Standing(st, stale, fw4, fw6)
    BY <1>3, NothingStands
  <1>6. Held(Idle, st, stale, fw4, fw6, Here)
    BY <1>2, <1>4, <1>5, Elsewhere DEF Restoring, Lists
  <1> QED BY <1>1, <1>6 DEF Hold

(* A bystander's step leaves thread t's work alone. *)
LEMMA AsideHeld ==
    ASSUME NEW t \in Threads, TypeInv, Inv, Hold(t), th'[t] = th[t],
           ScanOnly(st, st'), ScanCommand(fw4, fw4'), UNCHANGED <<fw6, on>>, ScanMishap
    PROVE  Hold(t)'
  <1>1. IsRuleset(fw4) /\ Here' = Here /\ StShape
    BY DEF TypeInv, MachineTyped, Here, Inv
  <1>2. (\A flag \in Switches : st'[flag] = st[flag]) /\ st'.v6 = st.v6
    BY <1>1 DEF ScanOnly, StShape, Off, Switches
  <1>3. \A flag \in Switches : InForce(flag, fw4) => InForce(flag, fw4')
    BY <1>1, InForceKept DEF ScanCommand, ScanWork
  <1>4. \A op \in Switching : \A todo : Applying(op, fw4, todo) => Applying(op, fw4', todo)
    BY <1>1, ApplyingKept DEF ScanCommand, ScanWork
  <1>5. th[t].pc \in BeforeRecord => Head(th[t].plan) \in Switching /\ Flag[Head(th[t].plan)] \in Switches
    BY DEF Inv, Checked, Doing, Op, Switching, Switches, Flag
  <1>6. OfOneKind(th[t].plan, st', Here)
    BY <1>2, SameFlags DEF Hold, Held
  <1>7. Held(th[t], st', stale', fw4', fw6', Here)
    <2>1. Calm(Here) /\ th[t].pc \notin Restoring => Standing(st', stale', fw4', fw6')
      <3>1. \A flag \in Switches \cup {"v6"} : flag \in stale => flag \in stale'
        BY DEF ScanMishap, Switches
      <3> QED BY <1>2, <1>3, <3>1 DEF Hold, Held, Standing
    <2>2. th[t].pc \in Restoring => \A flag \in Switches : st'[flag] => Undoes(th[t], flag)
      BY <1>2 DEF Hold, Held
    <2>3. th[t].pc = "apply" /\ th[t].ok => Applying(Head(th[t].plan), fw4', th[t].todo)
      BY <1>4, <1>5 DEF Hold, Held, BeforeRecord
    <2>4. th[t].pc \in {"record", "gateway6"} => InForce(Flag[Head(th[t].plan)], fw4')
      BY <1>3, <1>5 DEF Hold, Held, BeforeRecord
    <2> QED BY <1>2, <1>6, <2>1, <2>2, <2>3, <2>4 DEF Hold, Held
  <1> QED BY <1>1, <1>7 DEF Hold

(* Every step keeps it so, or the machine is not calm. *)
LEMMA HeldNext ==
    ASSUME NEW t, SwitchesBelongTo(t), Unmixed, TypeInv, Bystanders(t), Inv, Hold(t), [Next]_vars
    PROVE  Hold(t)'
  <1>0. ThShape /\ ThreadTyped(th[t]) /\ OfOneKind(th[t].plan, st, Here) /\ t \in Threads
    BY DEF SwitchesBelongTo, Inv, TypeInv, ThreadsTyped, Hold, Held
  <1>1. CASE Step(t)
    BY <1>0, <1>1, CommandHeld, PreparingHeld, RecordingHeld, RestoringHeld DEF Step
  <1>2. ASSUME NEW plan \in Here.plans[t], Ask(t, plan) PROVE Hold(t)'
    <2> DEFINE r == [Idle EXCEPT !.plan = plan, !.pc = "check"]
    <2>1. r.pc = "check" /\ r.plan = plan /\ r.todo = <<>>
      BY DEF Idle
    <2>2. th'[t] = r
      BY <1>0, <1>2, Became DEF Ask
    <2> HIDE DEF r
    <2>3. UNCHANGED <<st, stale, fw4, fw6, on>> /\ th[t].pc = "idle" /\ Here' = Here
      BY <1>2 DEF Ask, Here
    <2>4. OfOneKind(plan, st, Here)
      BY <1>0 DEF OfOneKind
    <2>5. Calm(Here) => Standing(st, stale, fw4, fw6)
      BY <2>3 DEF Hold, Held, Restoring
    <2>6. Held(r, st', stale', fw4', fw6', Here)
      BY <2>1, <2>3, <2>4, <2>5, Elsewhere DEF Restoring, Lists
    <2> QED BY <2>2, <2>3, <2>6 DEF Hold
  <1>3. CASE (Crash \/ Reboot) /\ Stopped
    <2>1. th'[t] = Idle /\ UNCHANGED <<st, on>> /\ ~Calm(Here) /\ Here' = Here
      BY <1>0, <1>3 DEF Crash, Reboot, Stopped, Calm, Here
    <2>2. Idle.pc = "idle" /\ Idle.plan = <<>> /\ Idle.todo = <<>>
      BY DEF Idle
    <2>3. OfOneKind(<<>>, st, Here)
      BY <1>0, NothingPlanned DEF ThreadTyped
    <2>4. Held(Idle, st', stale', fw4', fw6', Here)
      BY <2>1, <2>2, <2>3, Elsewhere DEF Restoring, Lists
    <2> QED BY <2>1, <2>4 DEF Hold
  <1>4. CASE UNCHANGED vars
    BY <1>4 DEF vars, hist, fixed, Hold, Here
  <1>5. Watched(t) \/ UNCHANGED vars
    BY BystandersNext
  <1> QED BY <1>0, <1>1, <1>2, <1>3, <1>4, <1>5, AsideHeld DEF Watched

(* The invariant of the thread that works the switches, on machines of one *)
(* kind each.                                                              *)
HoldInv(t) == TypeInv /\ Bystanders(t) /\ Inv /\ Hold(t)

(* It holds in every reachable state. *)
LEMMA HeldHolds ==
    ASSUME NEW t, SwitchesBelongTo(t), Unmixed
    PROVE  Spec => []HoldInv(t)
  <1>1. t \in Threads
    BY DEF SwitchesBelongTo
  <1>2. Init => HoldInv(t)
    BY <1>1, TypesInit, BystandersInit, InvInit, HeldInit DEF HoldInv
  <1>3. HoldInv(t) /\ [Next]_vars => HoldInv(t)'
    BY TypesNext, BystandersNext, InvNext, HeldNext DEF HoldInv
  <1> QED BY <1>2, <1>3, PTL DEF Spec
-----------------------------------------------------------------------------
(* Where a flag that is up stands for rules in force: until the thread     *)
(* undoes that switch.                                                     *)
LEMMA FlagStands ==
    ASSUME NEW t, SwitchesBelongTo(t), HoldInv(t), Undisturbed,
           NEW flag \in Switches, st[flag], NEW op \in Disabling, Flag[op] = flag, ~Undoing(op)
    PROVE  /\ flag \notin stale => InForce(flag, fw4)
           /\ st.v6 /\ "v6" \notin stale => V6Closed(fw6)
           /\ th[t].pc \notin Restoring
  <1>1. Undoes(th[t], flag) => Op(t) = op
    BY DEF Undoes, Does, Disabling, Flag, Op
  <1>2. th[t].pc \notin Restoring
    BY <1>1 DEF SwitchesBelongTo, HoldInv, Hold, Held, Undoing, Doing, Undoes, Does, Restoring
  <1> QED BY <1>2 DEF HoldInv, Hold, Held, Standing, Calm, Undisturbed

(* The Tor switch the state file calls on is on: whatever the machine had  *)
(* in its tables, however many commands, backups and restores fail, no     *)
(* connection of an application leaves in clear from the update that       *)
(* records the switch until its disable function starts to restore, on a   *)
(* machine that is not restarted and a program that is not killed.         *)
THEOREM TorFlagCanBeTrusted ==
    ASSUME NEW t, SwitchesBelongTo(t), Unmixed
    PROVE  Spec => []TorFlagIsTrue
  <1>1. HoldInv(t) => TorFlagIsTrue
    <2> SUFFICES ASSUME HoldInv(t), Undisturbed, st.tor, "tor" \notin stale, ~Undoing("torOff")
                 PROVE  TorOnly(fw4)
      BY DEF TorFlagIsTrue, Says
    <2>1. InForce("tor", fw4)
      BY FlagStands DEF Switches, Disabling, Flag
    <2>2. Sealed(fw4) /\ IsRuleset(fw4)
      BY <2>1 DEF InForce, HoldInv, TypeInv, MachineTyped
    <2> QED BY <2>2, SealedIsTorOnly
  <1>2. Spec => []HoldInv(t)
    BY HeldHolds
  <1> QED BY <1>1, <1>2, PTL

(* No machine restarts, and no process is killed. *)
NoneKilled == \A name \in DOMAIN Machines : ~Machines[name].mayCrash /\ ~Machines[name].mayReboot

(* Such a machine is undisturbed. *)
LEMMA NoneDisturbs == NoneKilled /\ TypeInv => Undisturbed
  BY DEF NoneKilled, Undisturbed, Here, TypeInv, MachineTyped

(* The proxy switch the state file calls on is on: what applications send  *)
(* goes to redsocks or nowhere, whatever fails, from the record to the     *)
(* start of its undoing, on a machine that is neither restarted nor its    *)
(* program killed and whose own nat table does not send traffic around the *)
(* chain the switch adds.                                                  *)
THEOREM ProxyFlagCanBeTrusted ==
    ASSUME NEW t, SwitchesBelongTo(t), Unmixed, NoneKilled, TameBases
    PROVE  Spec => []ProxyFlagIsTrue
  <1>1. HoldInv(t) /\ AllTame => ProxyFlagIsTrue
    <2> SUFFICES ASSUME HoldInv(t), AllTame, st.proxy, "proxy" \notin stale, ~Undoing("proxyOff")
                 PROVE  ProxyOnly(fw4)
      BY DEF ProxyFlagIsTrue, Says
    <2>1. InForce("proxy", fw4)
      BY NoneDisturbs, FlagStands DEF HoldInv, Switches, Disabling, Flag
    <2>2. Routed(fw4) /\ Tame(fw4) /\ IsRuleset(fw4)
      BY <2>1 DEF InForce, AllTame, HoldInv, TypeInv, MachineTyped
    <2> QED BY <2>2, RoutedIsProxyOnly
  <1>2. Spec => []HoldInv(t)
    BY HeldHolds
  <1>3. Spec => [](TypeInv /\ AllTame)
    BY TameHolds
  <1> QED BY <1>1, <1>2, <1>3, PTL

(* So is gateway mode: applications go out through Tor only, and what the  *)
(* internal interface brings in is handed to Tor or dropped.               *)
THEOREM GatewayFlagCanBeTrusted ==
    ASSUME NEW t, SwitchesBelongTo(t), Unmixed, NoneKilled
    PROVE  Spec => []GatewayFlagIsTrue
  <1>1. HoldInv(t) => GatewayFlagIsTrue
    <2> SUFFICES ASSUME HoldInv(t), st.gw, "gw" \notin stale, ~Undoing("gwOff")
                 PROVE  TorOnly(fw4) /\ Contained(fw4)
      BY DEF GatewayFlagIsTrue, Says
    <2>1. InForce("gw", fw4)
      BY NoneDisturbs, FlagStands DEF HoldInv, Switches, Disabling, Flag
    <2>2. Walled(fw4) /\ Sealed(fw4) /\ IsRuleset(fw4)
      BY <2>1 DEF InForce, Walled, HoldInv, TypeInv, MachineTyped
    <2> QED BY <2>2, SealedIsTorOnly, WalledIsContained
  <1>2. Spec => []HoldInv(t)
    BY HeldHolds
  <1> QED BY <1>1, <1>2, PTL

(* What the state file calls blocked IPv6 is blocked, on a machine that is *)
(* neither restarted nor its program killed.                               *)
THEOREM V6FlagCanBeTrusted ==
    ASSUME NEW t, SwitchesBelongTo(t), Unmixed, NoneKilled
    PROVE  Spec => []V6FlagIsTrue
  <1>1. HoldInv(t) => V6FlagIsTrue
    <2> SUFFICES ASSUME HoldInv(t), st.v6, "v6" \notin stale, ~(\E op \in Disabling : Undoing(op))
                 PROVE  NoV6(fw6)
      BY DEF V6FlagIsTrue, Says
    <2>1. PICK op \in {"torOff", "proxyOff", "gwOff"} : st[Flag[op]]
      BY DEF HoldInv, Inv, V6OnlyWithSwitch, Flag
    <2>2. V6Closed(fw6)
      BY <2>1, NoneDisturbs, FlagStands DEF HoldInv, Switches, Disabling, Flag
    <2>3. IsRuleset(fw6)
      BY DEF HoldInv, TypeInv, MachineTyped
    <2> QED BY <2>2, <2>3, ClosedIsNoV6
  <1>2. Spec => []HoldInv(t)
    BY HeldHolds
  <1> QED BY <1>1, <1>2, PTL
-----------------------------------------------------------------------------
(* The rules a flag stands for do what the program says of them. *)
LEMMA InForceWorks ==
    ASSUME NEW fw, IsRuleset(fw)
    PROVE  /\ InForce("tor", fw) => TorOnly(fw)
           /\ InForce("proxy", fw) /\ Tame(fw) => ProxyOnly(fw)
           /\ InForce("gw", fw) => Contained(fw)
  BY SealedIsTorOnly, RoutedIsProxyOnly, WalledIsContained DEF InForce

(* A flag goes up in the update of an enable function, and nowhere else. *)
LEMMA RaisedByRecord ==
    ASSUME Inv, NEW t \in Threads, Step(t), NEW flag \in Switches, ~st[flag], st'[flag]
    PROVE  Record(t) /\ flag = Flag[Op(t)]
  <1>1. StShape
    BY DEF Inv
  <1>2. CASE Record(t)
    BY <1>2, RecordedFlags
  <1>3. CASE V6Blocked(t) \/ ScanApplied(t) \/ ScanRemoved(t)
    <2>1. \/ st' = st \/ st' = [st EXCEPT !.v6 = TRUE]
          \/ \E b \in BOOLEAN : st' = [st EXCEPT !.scan = b]
      BY <1>3 DEF V6Blocked, ScanApplied, ScanRemoved
    <2> QED BY <1>1, <2>1 DEF StShape, Off, Switches
  <1>4. CASE Clear(t)
    <2>1. st' = Cleared(Op(t)) /\ Op(t) \in {"torOff", "proxyOff", "gwOff"}
      BY <1>4 DEF Clear, Undone, Doing
    <2> QED BY <1>1, <2>1, ClearedFlags
  <1>5. CASE UNCHANGED st
    BY <1>5
  <1> QED BY <1>2, <1>3, <1>4, <1>5
      DEF Step, RunCommand, CheckEnable, PrepareTor, PrepareTorFails, AskTor, AskTorAgain,
          PrepareProxy, PrepareProxyFails, PrepareGateway, PrepareRaises, Backup4, Backup6, Applied,
          CheckV6, CheckDisable, Restore4, Restore6, RolledBack, StopRedsocks, StopRedsocksFails,
          UpdateRaises, TorService

(* What such an update finds in the kernel. *)
RaisedRight ==
    /\ ~st.tor /\ st'.tor => TorOnly(fw4')
    /\ ~st.proxy /\ st'.proxy => ProxyOnly(fw4')

(* The rules of the list that has run. *)
LEMMA RaisedOverRules ==
    ASSUME NEW t, SwitchesBelongTo(t), HoldInv(t), AllTame, [Next]_vars
    PROVE  RaisedRight
  <1>1. t \in Threads /\ Inv /\ IsRuleset(fw4) /\ Tame(fw4)
    BY DEF SwitchesBelongTo, HoldInv, TypeInv, MachineTyped, AllTame
  <1>2. ASSUME NEW flag \in {"tor", "proxy"}, ~st[flag], st'[flag]
        PROVE  InForce(flag, fw4) /\ fw4' = fw4
    <2>1. st' # st /\ ~ScanOnly(st, st')
      BY <1>1, <1>2 DEF ScanOnly, Inv, StShape, Off
    <2>2. Step(t)
      <3>1. Watched(t) \/ UNCHANGED vars
        BY BystandersNext DEF HoldInv
      <3> QED BY <2>1, <3>1 DEF Watched, Stopped, Ask, vars
    <2>3. Record(t) /\ flag = Flag[Op(t)]
      BY <1>1, <1>2, <2>2, RaisedByRecord DEF Switches
    <2> QED BY <2>3 DEF Record, At, HoldInv, Hold, Held, Op
  <1> QED BY <1>1, <1>2, InForceWorks DEF RaisedRight

(* A flag is raised over rules in force: a program killed, or a machine    *)
(* restarted, at whatever point may lose the record of rules but never     *)
(* records rules that are not there; nor do failing commands, or a thread  *)
(* that works portscan protection meanwhile, bring it about.               *)
THEOREM RecordsAreTrue ==
    ASSUME NEW t, SwitchesBelongTo(t), Unmixed, TameBases
    PROVE  Spec => RecordedOnceApplied
  <1>1. HoldInv(t) /\ AllTame /\ [Next]_vars => [RaisedRight]_vars
    BY RaisedOverRules
  <1>2. Spec => []HoldInv(t)
    BY HeldHolds
  <1>3. Spec => [](TypeInv /\ AllTame)
    BY TameHolds
  <1> QED BY <1>1, <1>2, <1>3, PTL DEF Spec, RecordedOnceApplied, RaisedRight
-----------------------------------------------------------------------------
(* An operation that is over has left the plan. *)
LEMMA PlanMoves == ASSUME NEW plan \in Seq(Ops), plan # <<>> PROVE Tail(plan) # plan
  BY HeadTailProperties, EmptySeq, LenProperties

(* Where an enable function returns True: past its record, or at the check *)
(* that finds the flag up.                                                 *)
LEMMA TrueIsOn ==
    ASSUME NEW t, SwitchesBelongTo(t), HoldInv(t), Step(t), NEW op \in Switching, Returns(t, op, TRUE)
    PROVE  st[Flag[op]] /\ Flag[op] \notin stale /\ th[t].pc \notin Restoring /\ UNCHANGED fw4
  <1>1. /\ t \in Threads /\ ThShape /\ ThreadTyped(th[t]) /\ Checked(t)
        /\ th[t].plan # <<>> /\ Op(t) = op /\ th'[t].plan = Tail(th[t].plan) /\ th'[t].ok = TRUE
        /\ Flag[op] \notin stale
    BY DEF SwitchesBelongTo, HoldInv, Inv, TypeInv, ThreadsTyped, Returns, Doing
  <1>2. th'[t].plan # th[t].plan
    BY <1>1, PlanMoves DEF ThreadTyped
  <1>3. \A l : ~Goto(t, l)
    BY <1>1, <1>2, Gone
  <1>4. \A l, cs : ~Run(t, l, cs)
    BY <1>1, <1>2, Ran
  <1>5. ~Finish(t, FALSE)
    BY <1>1, Finished
  <1>6. ~RunCommand(t)
    BY <1>1, <1>2, CommandRun
  <1>7. ~Backup4(t) /\ ~Backup6(t)
    <2>1. th[t] = [f \in DOMAIN Idle |-> th[t][f]]
      BY <1>1 DEF ThShape
    <2>2. ASSUME Backup4(t) PROVE FALSE
      <3>1. PICK b : Become(t, [th[t] EXCEPT !.pc = "save6", !.b4 = b])
        BY <2>2 DEF Backup4
      <3>2. th'[t] = [th[t] EXCEPT !.pc = "save6", !.b4 = b]
        BY <1>1, <3>1, Became
      <3> QED BY <1>2, <2>1, <3>2 DEF Idle
    <2>3. ASSUME Backup6(t) PROVE FALSE
      <3> DEFINE cs == Rules(Op(t))
      <3>1. PICK b : Become(t, [th[t] EXCEPT !.pc = "apply", !.b6 = b, !.ok = TRUE, !.todo = cs])
        BY <2>3 DEF Backup6
      <3> HIDE DEF cs
      <3>2. th'[t] = [th[t] EXCEPT !.pc = "apply", !.b6 = b, !.ok = TRUE, !.todo = cs]
        BY <1>1, <3>1, Became
      <3> QED BY <1>2, <2>1, <3>2 DEF Idle
    <2> QED BY <2>2, <2>3
  <1>8. /\ ~PrepareProxy(t) /\ ~PrepareTor(t) /\ ~PrepareGateway(t) /\ ~PrepareTorFails(t)
        /\ ~PrepareProxyFails(t) /\ ~PrepareRaises(t) /\ ~UpdateRaises(t)
    <2>1. ~Become(t, Idle)
      BY <1>1, Became DEF Idle
    <2> QED BY <1>3, <2>1 DEF PrepareProxy, PrepareTor, PrepareGateway, PrepareTorFails,
                              PrepareProxyFails, PrepareRaises, UpdateRaises
  <1>9. op \notin Disabling \cup {"scanOn", "scanOff", "startTor", "stopTor"}
    BY DEF Switching, Disabling
  <1>10. CASE CheckEnable(t)
    BY <1>1, <1>3, <1>4, <1>5, <1>9, <1>10 DEF CheckEnable, At, Restoring
  <1>11. CASE CheckV6(t) \/ V6Blocked(t)
    BY <1>1, <1>4, <1>11 DEF CheckV6, V6Blocked, At, Restoring, Checked, AfterRecord
  <1>12. ~ScanApplied(t) /\ ~ScanRemoved(t)
    <2>1. th[t].pc \notin {"scan", "unscan"}
      BY <1>1, <1>9 DEF HoldInv, Hold, Held, Does, Op
    <2> QED BY <2>1 DEF ScanApplied, ScanRemoved, At
  <1>13. /\ ~CheckDisable(t) /\ ~StopRedsocks(t) /\ ~StopRedsocksFails(t) /\ ~Clear(t)
         /\ ~TorService(t)
    BY <1>1, <1>9 DEF CheckDisable, StopRedsocks, StopRedsocksFails, Clear, Undone, TorService,
                      Doing, Disabling
  <1>14. ~AskTor(t) /\ ~AskTorAgain(t) /\ ~Applied(t) /\ ~Record(t) /\ ~Restore4(t) /\ ~Restore6(t)
         /\ ~RolledBack(t)
    BY <1>3, <1>4, <1>5 DEF AskTor, AskTorAgain, Applied, Record, Restore4, Restore6, RolledBack
  <1> QED BY <1>6, <1>7, <1>8, <1>10, <1>11, <1>12, <1>13, <1>14 DEF Step

(* What it promises when it does. *)
TrueIsApplied ==
    \A t \in Threads : /\ Returns(t, "torOn", TRUE) => TorOnly(fw4')
                       /\ Returns(t, "proxyOn", TRUE) => ProxyOnly(fw4')
                       /\ Returns(t, "gwOn", TRUE) => Contained(fw4')

(* It keeps the promise at every step. *)
LEMMA TrueKept ==
    ASSUME NEW t, SwitchesBelongTo(t), NoneKilled, HoldInv(t), AllTame, [Next]_vars
    PROVE  TrueIsApplied
  <1>1. /\ t \in Threads /\ ThShape /\ IsRuleset(fw4) /\ Tame(fw4) /\ Undisturbed
        /\ ThreadTyped(th[t])
    BY NoneDisturbs DEF SwitchesBelongTo, HoldInv, Inv, TypeInv, MachineTyped, ThreadsTyped, AllTame
  <1>2. ASSUME NEW u \in Threads, NEW op \in Switching, Returns(u, op, TRUE)
        PROVE  InForce(Flag[op], fw4) /\ fw4' = fw4
    <2>1. u = t
      <3>1. ASSUME u # t PROVE FALSE
        <4>1. th[u].plan \in Seq(BystanderOps) /\ th[u].plan # <<>> /\ Head(th[u].plan) \in Switching
          BY <1>2, <3>1 DEF HoldInv, Bystanders, Bystanding, Returns, Doing, Op
        <4>2. Head(th[u].plan) \in BystanderOps
          BY <4>1, HeadTailProperties
        <4> QED BY <4>1, <4>2 DEF BystanderOps, Switching
      <3> QED BY <3>1
    <2>2. th[t].plan # <<>> /\ th'[t] # th[t] /\ th'[t].ok = TRUE
      BY <1>1, <1>2, <2>1, PlanMoves DEF Returns, Doing, ThreadTyped
    <2>3. Step(t)
      <3>1. Watched(t) \/ UNCHANGED vars
        BY BystandersNext DEF HoldInv
      <3>2. \A plan : ~Ask(t, plan)
        BY <1>1, <2>2 DEF Ask, ThreadTyped
      <3>3. ~Stopped
        BY <1>1, <2>2 DEF Stopped, Idle
      <3> QED BY <2>2, <3>1, <3>2, <3>3 DEF Watched, vars
    <2>4. st[Flag[op]] /\ Flag[op] \notin stale /\ th[t].pc \notin Restoring /\ UNCHANGED fw4
      BY <1>2, <2>1, <2>3, TrueIsOn
    <2>5. Flag[op] \in Switches
      BY DEF Flag, Switching, Switches
    <2> QED BY <1>1, <2>4, <2>5 DEF HoldInv, Hold, Held, Standing, Calm, Undisturbed
  <1> QED BY <1>1, <1>2, InForceWorks DEF TrueIsApplied, Switching, Flag

(* enable_kill_switch, enable_proxy_kill_switch and enable_gateway return  *)
(* True over rules in force only, whatever commands failed before, on a    *)
(* machine that is neither restarted nor its program killed.               *)
THEOREM TrueCanBeTrusted ==
    ASSUME NEW t, SwitchesBelongTo(t), Unmixed, NoneKilled, TameBases
    PROVE  Spec => TrueMeansApplied
  <1>1. HoldInv(t) /\ AllTame /\ [Next]_vars => [TrueIsApplied]_vars
    BY TrueKept
  <1>2. Spec => []HoldInv(t)
    BY HeldHolds
  <1>3. Spec => [](TypeInv /\ AllTame)
    BY TameHolds
  <1> QED BY <1>1, <1>2, <1>3, PTL DEF Spec, TrueMeansApplied, TrueIsApplied
-----------------------------------------------------------------------------
(* What is off is undone.  The rules that redirect a ruleset's packets:    *)
(* none; only to some of the daemons.                                      *)
Redirecting == {"tor", "redsocks"}
Aimed(rs, ds) == \A i \in 1 .. Len(rs) : rs[i].target \in Redirecting => rs[i].target \in ds
AllAimed(fw, ds) == \A k \in DOMAIN fw.rules : Aimed(fw.rules[k], ds)
Direct(fw) == AllAimed(fw, {})

(* A command changes the tables by the one it loads. *)
LEMMA ExecTables ==
    ASSUME NEW fw, IsRuleset(fw), NEW c \in Command
    PROVE  TablesOf(Exec(fw, c)) = TablesOf(fw) \cup {TableOf(c.at)}
  <1> DEFINE w == WithTable(fw, TableOf(c.at))
             x == Exec(fw, c)
             at == c.at
             table == TableOf(c.at)
  <1>1. /\ IsRuleset(w) /\ DOMAIN w.rules = DOMAIN fw.rules \cup Builtin(table)
        /\ DOMAIN w = {"rules", "drop"}
    BY Loaded DEF IsRuleset
  <1>2. c.op \in {"-F", "-N", "-X", "-A", "-I", "-D", "-P"}
    BY DEF Command
  <1>3. DOMAIN w.rules \ {at} \subseteq DOMAIN x.rules /\ DOMAIN x.rules \subseteq DOMAIN w.rules \cup {at}
    <2>1. CASE c.op = "-F"
      BY <1>1, <2>1 DEF Exec
    <2>2. CASE c.op = "-N"
      BY <1>1, <2>2 DEF Exec
    <2>3. CASE c.op = "-X"
      BY <1>1, <2>3 DEF Exec
    <2>4. CASE c.op = "-P"
      <3>1. \E d : x = [w EXCEPT !.drop = d]
        BY <2>4 DEF Exec
      <3> HIDE DEF w, x
      <3> QED BY <1>1, <3>1
    <2>5. CASE c.op \in {"-A", "-I", "-D"}
      <3>1. \E s : x = [w EXCEPT !.rules[at] = s]
        BY <2>5 DEF Exec
      <3> HIDE DEF w, x, at
      <3> QED BY <1>1, <3>1
    <2> QED BY <1>2, <2>1, <2>2, <2>3, <2>4, <2>5
  <1>4. \E k \in Builtin(table) : k # at /\ TableOf(k) = table
    BY DEF Builtin, TableOf, NatChains, FilterChains
  <1>5. \A k \in Builtin(table) : TableOf(k) = table
    BY DEF Builtin, TableOf, NatChains, FilterChains
  <1> HIDE DEF w, x
  <1>6. ASSUME NEW k \in DOMAIN fw.rules PROVE TableOf(k) \in TablesOf(x)
    <2>1. CASE k = at
      BY <1>1, <1>3, <1>4, <2>1 DEF TablesOf
    <2>2. CASE k # at
      BY <1>1, <1>3, <2>2 DEF TablesOf
    <2> QED BY <2>1, <2>2
  <1>7. table \in TablesOf(x)
    BY <1>1, <1>3, <1>4 DEF TablesOf
  <1>8. ASSUME NEW k \in DOMAIN x.rules PROVE TableOf(k) \in TablesOf(fw) \cup {table}
    BY <1>1, <1>3, <1>5 DEF TablesOf
  <1> QED BY <1>6, <1>7, <1>8 DEF TablesOf, x

(* The restore of a backup that has every table is all there is. *)
LEMMA RestoredAll ==
    ASSUME NEW fw, NEW b, IsRuleset(b), TablesOf(fw) \subseteq TablesOf(b), "filter" \in TablesOf(b)
    PROVE  Restored(fw, b) = b
  <1>1. {c \in DOMAIN fw.rules : TableOf(c) \notin TablesOf(b)} = {}
    BY DEF TablesOf
  <1>2. b = [rules |-> b.rules, drop |-> b.drop] /\ b.rules = [c \in DOMAIN b.rules |-> b.rules[c]]
    BY DEF IsRuleset
  <1>3. Restored(fw, b) = [rules |-> [c \in DOMAIN b.rules |-> b.rules[c]], drop |-> b.drop]
    BY <1>1 DEF Restored
  <1> QED BY <1>2, <1>3

(* A command that redirects to those daemons only, or not at all. *)
LEMMA AimedExec ==
    ASSUME NEW fw, IsRuleset(fw), NEW c \in Command, ~Refused(fw, c), NEW ds,
           c.rule.target \in Redirecting => c.rule.target \in ds
    PROVE  /\ AllAimed(fw, ds) => AllAimed(Exec(fw, c), ds)
           /\ \A k \in DOMAIN Exec(fw, c).rules :
                (k \in DOMAIN fw.rules => Aimed(fw.rules[k], ds)) => Aimed(Exec(fw, c).rules[k], ds)
  <1> DEFINE x == Exec(fw, c)
  <1>1. ASSUME NEW k \in DOMAIN x.rules, k \in DOMAIN fw.rules => Aimed(fw.rules[k], ds)
        PROVE  Aimed(x.rules[k], ds)
    <2> SUFFICES ASSUME NEW i \in 1 .. Len(x.rules[k]), x.rules[k][i].target \in Redirecting
                 PROVE  x.rules[k][i].target \in ds
      BY DEF Aimed
    <2>1. PICK r : r = x.rules[k][i]
      OBVIOUS
    <2>2. Holds(x.rules[k], r) /\ r.target \in Redirecting
      BY <2>1 DEF Holds
    <2>3. (k \in DOMAIN fw.rules /\ Holds(fw.rules[k], r)) \/ r = c.rule
      BY <2>2, Origin
    <2>4. ASSUME k \in DOMAIN fw.rules, Holds(fw.rules[k], r)
          PROVE  r.target \in ds
      BY <1>1, <2>2, <2>4 DEF Holds, Aimed
    <2> HIDE DEF x
    <2> QED BY <2>1, <2>2, <2>3, <2>4
  <1> QED BY <1>1 DEF AllAimed

-----------------------------------------------------------------------------
(* No machine is asked for portscan protection, whose rules come and go    *)
(* under a switch that is on and outlast a rule that fails; on none does   *)
(* more than one command fail, for a second one may leave the open default *)
(* half-way; and each has the tables loaded that the switches work on, for *)
(* a backup has no other.                                                  *)
ScanOps == {"scanOn", "scanOff"}
NoScans ==
    \A name \in DOMAIN Machines : \A u \in Threads : Machines[name].plans[u] \subseteq Seq(Ops \ ScanOps)
OneFault == \A name \in DOMAIN Machines : Machines[name].maxFaults <= 1
TablesLoaded ==
    \A name \in DOMAIN Machines :
        /\ \A fw \in Machines[name].bases4 : TablesOf(fw) = Tables
        /\ \A fw \in Machines[name].bases6 : TablesOf(fw) = {"filter"}

(* Ruleset x is as good as b, that of before: it has no redirection of the *)
(* switches, and without portscan protection it is b or, with f commands   *)
(* failed, the open default.                                               *)
Good(x, b, f) ==
    /\ TablesOf(x) = TablesOf(b) /\ (Direct(b) => Direct(x))
    /\ NoScans => x = b \/ (f > 0 /\ Opened(x))
GoodBackup(x, b, f) == IF x = None THEN f > 0 ELSE Good(x, b, f)

(* The open default with commands to go: each opens, and what none opens   *)
(* any more is open.                                                       *)
Cleaned(fw, table) ==
    \A k \in DOMAIN fw.rules : TableOf(k) = table => /\ Aimed(fw.rules[k], {})
                                                     /\ NoScans => fw.rules[k] = <<>>
Opening(fw, todo, tables) ==
    /\ \A i \in 1 .. Len(todo) : todo[i] \in {Flush(table) : table \in tables}
                                            \cup {AcceptAll(k) : k \in FilterChains}
    /\ \A table \in tables : Holds(todo, Flush(table)) \/ Cleaned(fw, table)
    /\ NoScans => \A k \in FilterChains : Holds(todo, AcceptAll(k)) \/ k \notin fw.drop

(* A ruleset is as good as itself, and stays so when commands fail. *)
LEMMA GoodSelf ==
    ASSUME NEW b, NEW f \in Nat, NEW g \in Nat, f <= g
    PROVE  /\ Good(b, b, f)
           /\ \A x : Good(x, b, f) => Good(x, b, g)
           /\ \A x : GoodBackup(x, b, f) => GoodBackup(x, b, g)
  BY DEF Good, GoodBackup

(* The commands of portscan protection leave it so. *)
LEMMA GoodScans ==
    ASSUME ~NoScans, NEW x, IsRuleset(x), NEW c \in Command, ~Refused(x, c), ScanWork(c),
           NEW b, NEW f, "filter" \in TablesOf(b), Good(x, b, f)
    PROVE  Good(Exec(x, c), b, f)
  <1>1. TableOf(c.at) = "filter" /\ c.rule.target \notin Redirecting
    BY DEF ScanWork, ScanChains, TableOf, NatChains, Redirecting
  <1>2. TablesOf(Exec(x, c)) = TablesOf(x) \cup {"filter"}
    BY <1>1, ExecTables
  <1>3. Direct(x) => Direct(Exec(x, c))
    BY <1>1, AimedExec DEF Direct
  <1> QED BY <1>2, <1>3 DEF Good

(* All is to be opened at first; *)
LEMMA OpeningStarts ==
    ASSUME NEW fw
    PROVE  Opening(fw, OpenV4Rules, Tables) /\ Opening(fw, OpenV6Rules, {"filter"})
  <1>1. /\ Len(OpenV4Rules) = 5 /\ Len(OpenV6Rules) = 4
        /\ OpenV4Rules[1] = Flush("filter") /\ OpenV4Rules[2] = Flush("nat")
        /\ OpenV4Rules[3] = AcceptAll("INPUT") /\ OpenV4Rules[4] = AcceptAll("OUTPUT")
        /\ OpenV4Rules[5] = AcceptAll("FORWARD")
        /\ OpenV6Rules[1] = Flush("filter") /\ OpenV6Rules[2] = AcceptAll("INPUT")
        /\ OpenV6Rules[3] = AcceptAll("OUTPUT") /\ OpenV6Rules[4] = AcceptAll("FORWARD")
    BY DEF OpenV4Rules, OpenV6Rules
  <1>2. 1 .. 5 = {1, 2, 3, 4, 5} /\ 1 .. 4 = {1, 2, 3, 4}
    OBVIOUS
  <1>3. Opening(fw, OpenV4Rules, Tables)
    <2>1. /\ Holds(OpenV4Rules, Flush("filter")) /\ Holds(OpenV4Rules, Flush("nat"))
          /\ \A k \in FilterChains : Holds(OpenV4Rules, AcceptAll(k))
      BY <1>1, <1>2 DEF Holds, FilterChains
    <2>2. \A i \in 1 .. Len(OpenV4Rules) : OpenV4Rules[i] \in {Flush(table) : table \in Tables}
                                            \cup {AcceptAll(k) : k \in FilterChains}
      BY <1>1, <1>2 DEF FilterChains, Tables
    <2> QED BY <2>1, <2>2 DEF Opening, Tables
  <1>4. Opening(fw, OpenV6Rules, {"filter"})
    <2>1. /\ Holds(OpenV6Rules, Flush("filter"))
          /\ \A k \in FilterChains : Holds(OpenV6Rules, AcceptAll(k))
      BY <1>1, <1>2 DEF Holds, FilterChains
    <2>2. \A i \in 1 .. Len(OpenV6Rules) : OpenV6Rules[i] \in {Flush(table) : table \in {"filter"}}
                                            \cup {AcceptAll(k) : k \in FilterChains}
      BY <1>1, <1>2 DEF FilterChains
    <2> QED BY <2>1, <2>2 DEF Opening
  <1> QED BY <1>3, <1>4

(* each command is accepted and opens what it is for; *)
LEMMA OpeningGoes ==
    ASSUME NEW fw, IsRuleset(fw), NEW todo \in Seq(Command), todo # <<>>,
           NEW tables, tables \subseteq Tables, Opening(fw, todo, tables)
    PROVE  ~Refused(fw, Head(todo)) /\ Opening(Exec(fw, Head(todo)), Tail(todo), tables)
  <1> DEFINE c == Head(todo)
             x == Exec(fw, c)
             rest == Tail(todo)
  <1>1. /\ Len(todo) \in Nat \ {0} /\ Len(rest) = Len(todo) - 1 /\ c = todo[1]
        /\ \A i \in 1 .. Len(rest) : rest[i] = todo[i + 1]
    BY HeadTailProperties, EmptySeq, LenProperties
  <1>2. 1 \in 1 .. Len(todo) /\ \A i \in 1 .. Len(rest) : i + 1 \in 1 .. Len(todo)
    BY <1>1
  <1>3. c \in {Flush(table) : table \in tables} \cup {AcceptAll(k) : k \in FilterChains}
    BY <1>1, <1>2 DEF Opening
  <1>4. \A e : Holds(todo, e) => e = c \/ Holds(rest, e)
    <2> SUFFICES ASSUME NEW e, NEW j \in 1 .. Len(todo), todo[j] = e, e # c PROVE Holds(rest, e)
      BY DEF Holds
    <2>1. j - 1 \in 1 .. Len(rest) /\ rest[j - 1] = todo[j]
      BY <1>1
    <2> QED BY <2>1 DEF Holds
  <1>5. \A i \in 1 .. Len(rest) : rest[i] \in {Flush(table) : table \in tables}
                                              \cup {AcceptAll(k) : k \in FilterChains}
    BY <1>1, <1>2 DEF Opening
  <1>6. \A table \in tables : Holds(todo, Flush(table)) \/ Cleaned(fw, table)
    BY DEF Opening
  <1>7. NoScans => \A k \in FilterChains : Holds(todo, AcceptAll(k)) \/ k \notin fw.drop
    BY DEF Opening
  <1>8. \A table, k : Flush(table) # AcceptAll(k)
    BY DEF Flush, AcceptAll
  <1> HIDE DEF rest
  <1>9. Aimed(<<>>, {})
    BY EmptySeq DEF Aimed
  <1>10. CASE \E table \in tables : c = Flush(table)
    <2>1. PICK table \in tables : c = Flush(table)
      BY <1>10
    <2>2. /\ x.drop = fw.drop /\ DOMAIN x.rules = DOMAIN fw.rules \cup Builtin(table)
          /\ \A k \in DOMAIN x.rules : x.rules[k] = IF TableOf(k) = table THEN <<>> ELSE fw.rules[k]
      BY <2>1, ExecFlushTable
    <2>3. \A k \in Builtin(table) : TableOf(k) = table
      BY <2>1 DEF Builtin, TableOf, NatChains, FilterChains, Tables
    <2>4. table \notin UserChains /\ "RETURN" \notin UserChains
      BY <2>1 DEF Tables, UserChains
    <2>5. ~Refused(fw, c)
      BY <2>1, <2>4 DEF Refused, AlreadyExists, Flush, Nothing, Rule
    <2> HIDE DEF x
    <2>6. Cleaned(x, table)
      BY <1>9, <2>2 DEF Cleaned
    <2>7. \A other : other # table /\ Cleaned(fw, other) => Cleaned(x, other)
      BY <2>2, <2>3 DEF Cleaned
    <2>8. ASSUME NEW other \in tables PROVE Holds(rest, Flush(other)) \/ Cleaned(x, other)
      BY <1>4, <1>6, <2>1, <2>6, <2>7 DEF Flush
    <2>9. NoScans => \A k \in FilterChains : Holds(rest, AcceptAll(k)) \/ k \notin x.drop
      BY <1>4, <1>7, <1>8, <2>1, <2>2
    <2> QED BY <1>5, <2>5, <2>8, <2>9 DEF Opening, x, rest
  <1>11. CASE \E k \in FilterChains : c = AcceptAll(k)
    <2>1. PICK at \in FilterChains : c = AcceptAll(at)
      BY <1>11
    <2>3. /\ x.drop = fw.drop \ {at} /\ DOMAIN x.rules = DOMAIN fw.rules \cup Builtin(TableOf(at))
          /\ \A k \in DOMAIN x.rules : x.rules[k] = IF k \in DOMAIN fw.rules THEN fw.rules[k] ELSE <<>>
      <3>1. x = Exec(fw, AcceptAll(at))
        BY <2>1
      <3> HIDE DEF x
      <3> QED BY <3>1, ExecPolicy
    <2>4. at \notin UserChains /\ "ACCEPT" \notin UserChains
      BY DEF UserChains, FilterChains
    <2>5. ~Refused(fw, c)
      BY <2>1, <2>4 DEF Refused, AlreadyExists, AcceptAll, Rule
    <2> HIDE DEF x
    <2>6. \A table : Cleaned(fw, table) => Cleaned(x, table)
      BY <1>9, <2>3 DEF Cleaned
    <2>7. \A table \in tables : Holds(rest, Flush(table)) \/ Cleaned(x, table)
      BY <1>4, <1>6, <1>8, <2>1, <2>6
    <2>8. NoScans => \A k \in FilterChains : Holds(rest, AcceptAll(k)) \/ k \notin x.drop
      BY <1>4, <1>7, <2>1, <2>3 DEF AcceptAll
    <2> QED BY <1>5, <2>5, <2>7, <2>8 DEF Opening, x, rest
  <1> QED BY <1>3, <1>10, <1>11

(* so do not the commands of portscan protection undo it; *)
LEMMA OpeningScans ==
    ASSUME ~NoScans, NEW fw, IsRuleset(fw), NEW c \in Command, ~Refused(fw, c), ScanWork(c),
           NEW todo, NEW tables, Opening(fw, todo, tables)
    PROVE  Opening(Exec(fw, c), todo, tables)
  <1>1. c.rule.target \notin Redirecting
    BY DEF ScanWork, Redirecting
  <1>2. ASSUME NEW table, Cleaned(fw, table) PROVE Cleaned(Exec(fw, c), table)
    BY <1>1, <1>2, AimedExec DEF Cleaned
  <1> QED BY <1>2 DEF Opening

(* and at the end it is as good as done. *)
LEMMA OpeningDone ==
    ASSUME NEW fw, IsRuleset(fw), NEW b, TablesOf(fw) = TablesOf(b), NEW f, f > 0,
           Opening(fw, <<>>, TablesOf(b))
    PROVE  Good(fw, b, f)
  <1>1. \A e : ~Holds(<<>>, e)
    BY EmptySeq DEF Holds
  <1>2. \A k \in DOMAIN fw.rules : Cleaned(fw, TableOf(k))
    BY <1>1 DEF Opening, TablesOf
  <1>3. Direct(fw)
    BY <1>2 DEF Cleaned, Direct, AllAimed
  <1>4. NoScans => Opened(fw)
    BY <1>1, <1>2 DEF Cleaned, Opening, Opened, IsRuleset
  <1> QED BY <1>3, <1>4 DEF Good
-----------------------------------------------------------------------------
(* A thread that was not asked for portscan protection is not at it. *)
Scanless(r) == r.plan \in Seq(Ops \ ScanOps) /\ r.pc \notin {"scan", "unscan"}

(* Nor does a step take it there. *)
LEMMA ScanlessStep ==
    ASSUME TypeInv, NEW t \in Threads, Scanless(th[t]), Step(t)
    PROVE  Scanless(th'[t]) /\ \A u \in Threads \ {t} : th'[u] = th[u]
  <1>1. ThShape /\ ThreadTyped(th[t])
    BY DEF TypeInv, ThreadsTyped, ThreadTyped, ThShape
  <1>2. \A u \in Threads \ {t} : th'[u] = th[u]
    BY StepFlows DEF Flow
  <1> SUFFICES Scanless(th'[t])
    BY <1>2
  <1>3. th[t].plan # <<>> => /\ Op(t) \in Ops \ ScanOps
                             /\ Tail(th[t].plan) \in Seq(Ops \ ScanOps)
    BY HeadTailProperties DEF Scanless, Op
  <1>4. ASSUME NEW l, Goto(t, l), l \notin {"scan", "unscan"} PROVE Scanless(th'[t])
    <2>1. th'[t].pc = l /\ th'[t].plan = th[t].plan
      BY <1>1, <1>4, Gone
    <2> QED BY <1>4, <2>1 DEF Scanless
  <1>5. ASSUME NEW l, NEW cs, Run(t, l, cs), l \notin {"scan", "unscan"} PROVE Scanless(th'[t])
    <2>1. th'[t].pc = l /\ th'[t].plan = th[t].plan
      BY <1>1, <1>5, Ran
    <2> QED BY <1>5, <2>1 DEF Scanless
  <1>6. ASSUME NEW result, Finish(t, result), th[t].plan # <<>> PROVE Scanless(th'[t])
    <2>1. th'[t].pc \in {"idle", "check"} /\ th'[t].plan = Tail(th[t].plan)
      BY <1>1, <1>6, Finished
    <2> QED BY <1>3, <1>6, <2>1 DEF Scanless
  <1>7. CASE RunCommand(t)
    <2>1. th'[t].pc = th[t].pc /\ th'[t].plan = th[t].plan
      BY <1>1, <1>7, CommandRun
    <2> QED BY <2>1 DEF Scanless
  <1>8. ASSUME th[t].pc # "idle" PROVE th[t].plan # <<>>
    BY <1>1, <1>8 DEF ThreadTyped
  <1>9. CASE CheckEnable(t) \/ CheckDisable(t)
    <2>1. th[t].plan # <<>> /\ Op(t) \notin ScanOps
      BY <1>3, <1>9 DEF CheckEnable, CheckDisable, Doing
    <2>2. \/ \E result : Finish(t, result)
          \/ Goto(t, "prepare")
          \/ Become(t, [th[t] EXCEPT !.pc = "restore4", !.b4 = Backups(Op(t))[1],
                                     !.b6 = Backups(Op(t))[2]])
      BY <1>9, <2>1 DEF CheckEnable, CheckDisable, ScanOps
    <2>3. CASE Become(t, [th[t] EXCEPT !.pc = "restore4", !.b4 = Backups(Op(t))[1],
                                       !.b6 = Backups(Op(t))[2]])
      <3> DEFINE b4 == Backups(Op(t))[1]
                 b6 == Backups(Op(t))[2]
      <3>1. th'[t] = [th[t] EXCEPT !.pc = "restore4", !.b4 = b4, !.b6 = b6]
        BY <1>1, <2>3, Became
      <3> HIDE DEF b4, b6
      <3>2. th'[t].pc = "restore4" /\ th'[t].plan = th[t].plan
        BY <1>1, <3>1 DEF ThShape, Idle
      <3> QED BY <3>2 DEF Scanless
    <2> QED BY <1>4, <1>6, <2>1, <2>2, <2>3
  <1>10. CASE \/ PrepareProxy(t) \/ PrepareTorFails(t) \/ PrepareProxyFails(t) \/ PrepareRaises(t)
              \/ StopRedsocks(t) \/ StopRedsocksFails(t) \/ UpdateRaises(t)
    <2>1. (\E l \in {"save4", "bootstrap", "clear"} : Goto(t, l)) \/ Become(t, Idle)
      BY <1>10 DEF PrepareProxy, PrepareTorFails, PrepareProxyFails, PrepareRaises, StopRedsocks,
                   StopRedsocksFails, UpdateRaises
    <2>2. CASE Become(t, Idle)
      <3>1. th'[t] = Idle /\ Idle.plan = <<>> /\ Idle.pc = "idle"
        BY <1>1, <2>2, Became DEF Idle
      <3> QED BY <3>1, EmptySeq DEF Scanless
    <2> QED BY <1>4, <2>1, <2>2
  <1>11. CASE Backup4(t)
    <2>1. PICK b : Become(t, [th[t] EXCEPT !.pc = "save6", !.b4 = b])
      BY <1>11 DEF Backup4
    <2>2. th'[t] = [th[t] EXCEPT !.pc = "save6", !.b4 = b]
      BY <1>1, <2>1, Became
    <2>3. th'[t].pc = "save6" /\ th'[t].plan = th[t].plan
      BY <1>1, <2>2 DEF ThShape, Idle
    <2> QED BY <2>3 DEF Scanless
  <1>12. CASE Backup6(t)
    <2> DEFINE cs == Rules(Op(t))
    <2>1. PICK b : Become(t, [th[t] EXCEPT !.pc = "apply", !.b6 = b, !.ok = TRUE, !.todo = cs])
      BY <1>12 DEF Backup6
    <2> HIDE DEF cs
    <2>2. th'[t] = [th[t] EXCEPT !.pc = "apply", !.b6 = b, !.ok = TRUE, !.todo = cs]
      BY <1>1, <2>1, Became
    <2>3. th'[t].pc = "apply" /\ th'[t].plan = th[t].plan
      BY <1>1, <2>2 DEF ThShape, Idle
    <2> QED BY <2>3 DEF Scanless
  <1>13. CASE \/ PrepareTor(t) \/ AskTor(t) \/ AskTorAgain(t) \/ PrepareGateway(t) \/ Applied(t)
              \/ Record(t) \/ CheckV6(t) \/ V6Blocked(t) \/ ScanApplied(t) \/ ScanRemoved(t)
              \/ Restore4(t) \/ Restore6(t) \/ RolledBack(t) \/ Clear(t) \/ TorService(t)
    <2>1. th[t].pc # "idle"
      BY <1>13 DEF PrepareTor, AskTor, AskTorAgain, PrepareGateway, Applied, Record, CheckV6, V6Blocked,
                   ScanApplied, ScanRemoved, Restore4, Restore6, RolledBack, Clear, Undone, TorService, At
    <2>2. \/ \E result : Finish(t, result)
          \/ \E l \in Labels \ {"scan", "unscan"} : Goto(t, l)
          \/ \E l \in Labels \ {"scan", "unscan"} : \E cs \in CommandLists : Run(t, l, cs)
      <3>1. CASE PrepareTor(t) \/ AskTor(t) \/ AskTorAgain(t) \/ PrepareGateway(t) \/ Record(t)
                 \/ V6Blocked(t) \/ ScanApplied(t) \/ ScanRemoved(t) \/ RolledBack(t)
                 \/ Clear(t) \/ TorService(t)
        BY <3>1 DEF PrepareTor, AskTor, AskTorAgain, PrepareGateway, Record, V6Blocked, ScanApplied,
                    ScanRemoved, RolledBack, Clear, TorService, Labels
      <3>2. CASE Applied(t) \/ CheckV6(t) \/ Restore4(t) \/ Restore6(t)
        BY <3>2 DEF Applied, CheckV6, Restore4, Restore6, Labels, CommandLists
      <3> QED BY <1>13, <3>1, <3>2
    <2> QED BY <1>4, <1>5, <1>6, <1>8, <2>1, <2>2
  <1> QED BY <1>7, <1>9, <1>10, <1>11, <1>12, <1>13 DEF Step

AllScanless == NoScans => \A u \in Threads : Scanless(th[u])
(* So none is ever at it. *)
LEMMA ScanlessNext ==
    ASSUME TypeInv, AllScanless, [Next]_vars
    PROVE  AllScanless'
  <1> SUFFICES ASSUME NoScans, \A u \in Threads : Scanless(th[u])
               PROVE  \A u \in Threads : Scanless(th'[u])
    BY DEF AllScanless
  <1>1. ThShape /\ on \in DOMAIN Machines
    BY DEF TypeInv, ThreadsTyped, ThreadTyped, ThShape, MachineTyped
  <1>2. Scanless(Idle)
    BY EmptySeq DEF Scanless, Idle
  <1>3. ASSUME NEW t \in Threads, Step(t) PROVE \A u \in Threads : Scanless(th'[u])
    BY <1>3, ScanlessStep
  <1>4. ASSUME NEW t \in Threads, NEW plan \in Here.plans[t], Ask(t, plan)
        PROVE  \A u \in Threads : Scanless(th'[u])
    <2> DEFINE r == [Idle EXCEPT !.plan = plan, !.pc = "check"]
    <2>1. r.plan = plan /\ r.pc = "check"
      BY DEF Idle
    <2>2. Become(t, r)
      BY <1>4 DEF Ask
    <2> HIDE DEF r
    <2>3. th'[t] = r /\ \A u \in Threads \ {t} : th'[u] = th[u]
      BY <1>1, <2>2, Became
    <2>4. plan \in Seq(Ops \ ScanOps)
      BY <1>1 DEF NoScans, Here
    <2> QED BY <2>1, <2>3, <2>4 DEF Scanless
  <1>5. CASE Crash \/ Reboot
    BY <1>2, <1>5 DEF Crash, Reboot
  <1>6. CASE UNCHANGED vars
    BY <1>6 DEF vars
  <1> QED BY <1>3, <1>4, <1>5, <1>6 DEF Next
-----------------------------------------------------------------------------
(* Where the thread that works the switches has not begun with the rules,  *)
(* or is done with them; and where it carries backups.                     *)
AtRest == {"idle", "check", "prepare", "bootstrap", "waiting", "save4", "save6", "scan", "unscan"}
Carries4 == {"save6", "apply", "gateway6", "record", "restore4"}
Carries6 == {"apply", "gateway6", "record", "restore4", "open4", "restore6"}

AllDown(s) == \A flag \in Switches : ~s[flag]
V6Only(todo) == \A i \in 1 .. Len(todo) : TableOf(todo[i].at) = "filter"
AllLoaded(f4, f6, b) ==
    /\ TablesOf(f4) = Tables /\ TablesOf(b.v4) = Tables
    /\ TablesOf(f6) = {"filter"} /\ TablesOf(b.v6) = {"filter"}
GoodRecord(s, b, f) ==
    /\ s.tor => GoodBackup(s.iptables, b.v4, f) /\ GoodBackup(s.ip6tables, b.v6, f)
    /\ s.proxy => GoodBackup(s.nat, b.v4, f) /\ GoodBackup(s.ip6tables, b.v6, f)
    /\ s.gw => GoodBackup(s.gwIptables, b.v4, f) /\ GoodBackup(s.gwIp6tables, b.v6, f)

(* While thread r works the switches of state file s: the backups of the   *)
(* switches that are on, and those it carries, are as good as the rulesets *)
(* found at first, b; so are the rulesets in force when no switch is on and*)
(* it is at rest, and, one after the other, once it has restored them; and *)
(* the open default is on course.                                          *)
Rested(r, s, f4, f6, b, f) ==
    /\ AllLoaded(f4, f6, b) /\ GoodRecord(s, b, f)
    /\ r.pc \in V6Lists => V6Only(r.todo)
    /\ r.pc \in Carries4 => GoodBackup(r.b4, b.v4, f)
    /\ r.pc \in Carries6 => GoodBackup(r.b6, b.v6, f)
    /\ r.pc \in AtRest /\ AllDown(s) => Good(f4, b.v4, f) /\ Good(f6, b.v6, f)
    /\ r.pc = "open4" => f > 0 /\ Opening(f4, r.todo, Tables)
    /\ r.pc = "open6" => f > 0 /\ Opening(f6, r.todo, {"filter"})
    /\ r.pc \in {"restore6", "open6", "restored", "clear"} => Good(f4, b.v4, f)
    /\ r.pc \in {"restored", "clear"} => Good(f6, b.v6, f)
Rests(t) == Rested(th[t], st, fw4, fw6, base, faults)

(* When commands fail it stays so. *)
LEMMA RestedMore ==
    ASSUME NEW r, NEW s, NEW f4, NEW f6, NEW b, NEW f \in Nat, NEW g \in Nat, f <= g,
           Rested(r, s, f4, f6, b, f)
    PROVE  Rested(r, s, f4, f6, b, g)
  <1>1. /\ \A x, y : Good(x, y, f) => Good(x, y, g)
        /\ \A x, y : GoodBackup(x, y, f) => GoodBackup(x, y, g)
    BY GoodSelf
  <1>2. GoodRecord(s, b, g)
    BY <1>1 DEF Rested, GoodRecord
  <1>3. /\ r.pc \in Carries4 => GoodBackup(r.b4, b.v4, g)
        /\ r.pc \in Carries6 => GoodBackup(r.b6, b.v6, g)
    BY <1>1 DEF Rested
  <1>4. r.pc \in AtRest /\ AllDown(s) => Good(f4, b.v4, g) /\ Good(f6, b.v6, g)
    BY <1>1 DEF Rested
  <1>5. /\ r.pc \in {"restore6", "open6", "restored", "clear"} => Good(f4, b.v4, g)
        /\ r.pc \in {"restored", "clear"} => Good(f6, b.v6, g)
    BY <1>1 DEF Rested
  <1>6. f > 0 => g > 0
    OBVIOUS
  <1> QED BY <1>2, <1>3, <1>4, <1>5, <1>6 DEF Rested

(* The count of failures and the rulesets of before, over a step. *)
LEMMA FaultsGrow ==
    ASSUME TypeInv, NEW t \in Threads, Step(t)
    PROVE  /\ faults \in Nat /\ faults' \in Nat /\ faults' \in {faults, faults + 1}
           /\ faults' <= Here.maxFaults /\ UNCHANGED <<base, on>>
  <1>1. faults \in Nat /\ faults <= Here.maxFaults /\ Here.maxFaults \in Nat
    BY HereTyped DEF TypeInv, MachineTyped
  <1>2. Fault \/ NoFault
    <2>1. CASE RunCommand(t) \/ Backup4(t) \/ Backup6(t) \/ Restore4(t) \/ Restore6(t) \/ AskTor(t)
      BY <2>1 DEF RunCommand, Backup4, Backup6, Restore4, Restore6, AskTor
    <2>2. CASE \/ PrepareTorFails(t) \/ PrepareProxyFails(t) \/ PrepareRaises(t) \/ StopRedsocks(t)
               \/ StopRedsocksFails(t) \/ UpdateRaises(t) \/ TorService(t)
      BY <2>2 DEF PrepareTorFails, PrepareProxyFails, PrepareRaises, StopRedsocks, StopRedsocksFails,
                  UpdateRaises, TorService
    <2>3. CASE \/ CheckEnable(t) \/ PrepareTor(t) \/ AskTorAgain(t) \/ PrepareProxy(t) \/ PrepareGateway(t)
               \/ Applied(t) \/ Record(t) \/ CheckV6(t) \/ V6Blocked(t) \/ ScanApplied(t)
               \/ CheckDisable(t) \/ RolledBack(t) \/ Clear(t) \/ ScanRemoved(t)
      BY <2>3 DEF CheckEnable, PrepareTor, AskTorAgain, PrepareProxy, PrepareGateway, Applied, Record,
                  CheckV6, V6Blocked, ScanApplied, CheckDisable, RolledBack, Clear, ScanRemoved, NoFault
    <2> QED BY <2>1, <2>2, <2>3 DEF Step
  <1>3. UNCHANGED <<base, on>>
    <2>1. CASE RunCommand(t) \/ Backup4(t) \/ Backup6(t) \/ Restore4(t) \/ Restore6(t) \/ AskTor(t)
      BY <2>1 DEF RunCommand, Backup4, Backup6, Restore4, Restore6, AskTor, hist, fixed
    <2>2. CASE \/ PrepareTorFails(t) \/ PrepareProxyFails(t) \/ PrepareRaises(t) \/ StopRedsocks(t)
               \/ StopRedsocksFails(t) \/ UpdateRaises(t) \/ TorService(t)
      BY <2>2 DEF PrepareTorFails, PrepareProxyFails, PrepareRaises, StopRedsocks, StopRedsocksFails,
                  UpdateRaises, TorService, hist, fixed
    <2>3. CASE \/ CheckEnable(t) \/ PrepareTor(t) \/ AskTorAgain(t) \/ PrepareProxy(t) \/ PrepareGateway(t)
               \/ Applied(t) \/ Record(t) \/ CheckV6(t) \/ V6Blocked(t) \/ ScanApplied(t)
               \/ CheckDisable(t) \/ RolledBack(t) \/ Clear(t) \/ ScanRemoved(t)
      BY <2>3 DEF CheckEnable, PrepareTor, AskTorAgain, PrepareProxy, PrepareGateway, Applied, Record,
                  CheckV6, V6Blocked, ScanApplied, CheckDisable, RolledBack, Clear, ScanRemoved, hist, fixed
    <2> QED BY <2>1, <2>2, <2>3 DEF Step
  <1> QED BY <1>1, <1>2, <1>3 DEF Fault, NoFault

(* Rules that are once without a record stay it. *)
LEMMA OrphanedStays ==
    ASSUME NEW t \in Threads, Step(t)
    PROVE  orphaned' \in {orphaned, TRUE}
  <1>1. CASE UpdateRaises(t)
    BY <1>1 DEF UpdateRaises
  <1>2. CASE \/ RunCommand(t) \/ CheckEnable(t) \/ AskTor(t) \/ AskTorAgain(t) \/ PrepareGateway(t)
             \/ PrepareRaises(t) \/ Backup4(t) \/ Backup6(t) \/ Applied(t) \/ Record(t) \/ CheckV6(t)
             \/ V6Blocked(t) \/ ScanApplied(t) \/ CheckDisable(t) \/ Restore4(t) \/ Restore6(t)
             \/ RolledBack(t) \/ StopRedsocksFails(t) \/ TorService(t)
    BY <1>2 DEF RunCommand, CheckEnable, AskTor, AskTorAgain, PrepareGateway, PrepareRaises, Backup4,
                Backup6, Applied, Record, CheckV6, V6Blocked, ScanApplied, CheckDisable, Restore4,
                Restore6, RolledBack, StopRedsocksFails, TorService, hist
  <1>3. CASE \/ PrepareTor(t) \/ PrepareTorFails(t) \/ PrepareProxy(t) \/ PrepareProxyFails(t)
             \/ StopRedsocks(t) \/ Clear(t) \/ ScanRemoved(t)
    BY <1>3 DEF PrepareTor, PrepareTorFails, PrepareProxy, PrepareProxyFails, StopRedsocks, Clear, ScanRemoved
  <1> QED BY <1>1, <1>2, <1>3 DEF Step

(* A thread at rest. *)
LEMMA RestsThere ==
    ASSUME NEW r, NEW s, NEW g, NEW f4, NEW f6, NEW b, NEW f, AllLoaded(f4, f6, b), GoodRecord(s, b, f),
           r.pc \in AtRest \ {"save6"}, AllDown(s) => Good(f4, b.v4, f) /\ Good(f6, b.v6, f)
    PROVE  Rested(r, s, f4, f6, b, f)
  BY DEF Rested, AtRest, Carries4, Carries6, V6Lists

(* What is left of the commands of IPv6 is about IPv6. *)
LEMMA TailV6Only ==
    ASSUME NEW todo \in Seq(Command), todo # <<>>, V6Only(todo)
    PROVE  TableOf(Head(todo).at) = "filter" /\ V6Only(Tail(todo))
  <1>1. /\ Len(todo) \in Nat \ {0} /\ Len(Tail(todo)) = Len(todo) - 1 /\ Head(todo) = todo[1]
        /\ \A i \in 1 .. Len(Tail(todo)) : Tail(todo)[i] = todo[i + 1]
    BY HeadTailProperties, EmptySeq, LenProperties
  <1>2. 1 \in 1 .. Len(todo) /\ \A i \in 1 .. Len(Tail(todo)) : i + 1 \in 1 .. Len(todo)
    BY <1>1
  <1> QED BY <1>1, <1>2 DEF V6Only

(* No command takes a table away. *)
LEMMA LoadedExec ==
    ASSUME NEW f4, NEW f6, NEW b, AllLoaded(f4, f6, b), IsRuleset(f4), IsRuleset(f6), NEW c \in Command
    PROVE  /\ AllLoaded(Exec(f4, c), f6, b)
           /\ TableOf(c.at) = "filter" => AllLoaded(f4, Exec(f6, c), b)
  <1>1. TableOf(c.at) \in Tables
    BY DEF TableOf, Tables
  <1>2. TablesOf(Exec(f4, c)) = TablesOf(f4) \cup {TableOf(c.at)}
    BY ExecTables
  <1>3. TablesOf(Exec(f6, c)) = TablesOf(f6) \cup {TableOf(c.at)}
    BY ExecTables
  <1>4. TablesOf(Exec(f4, c)) = Tables
    BY <1>1, <1>2 DEF AllLoaded
  <1> QED BY <1>3, <1>4 DEF AllLoaded

(* One command of whichever list. *)
LEMMA CommandRests ==
    ASSUME NEW t \in Threads, TypeInv, Inv, Hold(t), AllScanless, OneFault, Rests(t), RunCommand(t)
    PROVE  Rests(t)'
  <1> DEFINE a == th[t]
             b == th'[t]
             c == Head(a.todo)
  <1>1. /\ ThreadTyped(a) /\ ThShape /\ IsRuleset(fw4) /\ IsRuleset(fw6) /\ on \in DOMAIN Machines
        /\ a.todo # <<>> /\ a.pc \in Lists
    BY DEF TypeInv, ThreadsTyped, MachineTyped, Inv, RunCommand, Hold, Held
  <1>2. a.todo \in Seq(Command) /\ c \in Command
    BY <1>1, HeadTailProperties DEF ThreadTyped
  <1>3. /\ b.pc = a.pc /\ b.plan = a.plan /\ b.b4 = a.b4 /\ b.b6 = a.b6
        /\ CarriedOut(t) \/ Failed(t) \/ Tolerated(t)
    BY <1>1, CommandRun
  <1>4. /\ UNCHANGED <<st, on, base>> /\ faults \in Nat /\ faults' \in Nat /\ faults <= faults'
        /\ faults' <= 1
    <2>1. Step(t) /\ Here.maxFaults <= 1 /\ Here.maxFaults \in Nat
      BY <1>1, HereTyped DEF Step, OneFault, Here
    <2> QED BY <2>1, FaultsGrow DEF RunCommand, hist
  <1>5. Rested(a, st, fw4, fw6, base, faults')
    BY <1>4, RestedMore DEF Rests
  <1>6. AllLoaded(fw4, fw6, base) /\ GoodRecord(st, base, faults')
    BY <1>5 DEF Rested
  <1>7. AllLoaded(Exec(fw4, c), fw6, base) /\ (TableOf(c.at) = "filter" => AllLoaded(fw4, Exec(fw6, c), base))
    BY <1>1, <1>2, <1>6, LoadedExec
  <1>8. CASE a.pc = "apply"
    <2>1. UNCHANGED fw6 /\ (fw4' = fw4 \/ fw4' = Exec(fw4, c))
      BY <1>3, <1>8 DEF CarriedOut, Failed, Tolerated, V6Lists
    <2>2. AllLoaded(fw4', fw6, base)
      BY <1>6, <1>7, <2>1
    <2>3. Rested(b, st, fw4', fw6', base, faults')
      BY <1>3, <1>5, <1>6, <1>8, <2>1, <2>2 DEF Rested, V6Lists, Carries4, Carries6, AtRest
    <2> QED BY <1>4, <2>3 DEF Rests
  <1>9. CASE a.pc \in {"gateway6", "block6"}
    <2>1. /\ UNCHANGED fw4 /\ (fw6' = fw6 \/ fw6' = Exec(fw6, c))
          /\ b.todo \in {<<>>, Tail(a.todo)}
      BY <1>3, <1>9 DEF CarriedOut, Failed, Tolerated, V6Lists
    <2>2. TableOf(c.at) = "filter" /\ V6Only(b.todo)
      <3>1. V6Only(a.todo) /\ V6Only(<<>>)
        BY <1>5, <1>9, EmptySeq DEF Rested, V6Lists, V6Only
      <3> QED BY <1>1, <1>2, <2>1, <3>1, TailV6Only
    <2>3. AllLoaded(fw4, fw6', base)
      BY <1>6, <1>7, <2>1, <2>2
    <2>4. Rested(b, st, fw4', fw6', base, faults')
      BY <1>3, <1>5, <1>6, <1>9, <2>1, <2>2, <2>3 DEF Rested, Carries4, Carries6, AtRest
    <2> QED BY <1>4, <2>4 DEF Rests
  <1>10. CASE a.pc \in {"scan", "unscan"}
    <2>1. UNCHANGED fw6 /\ (fw4' = fw4 \/ (~Refused(fw4, c) /\ fw4' = Exec(fw4, c)))
      <3>1. Firewall(t) = fw4 /\ a.pc \notin V6Lists
        BY <1>10 DEF Firewall, V6Lists
      <3> QED BY <1>3, <3>1 DEF CarriedOut, Failed, Tolerated
    <2>2. ScanWork(c) /\ ~NoScans
      <3>1. OnlyScans(a.todo)
        BY <1>10 DEF Hold, Held
      <3> QED BY <1>1, <1>2, <1>10, <3>1, TailOnlyScans DEF AllScanless, Scanless
    <2>3. AllLoaded(fw4', fw6', base)
      BY <1>6, <1>7, <2>1
    <2>4. AllDown(st) => Good(fw4', base.v4, faults') /\ Good(fw6', base.v6, faults')
      <3>1. AllDown(st) => Good(fw4, base.v4, faults') /\ Good(fw6, base.v6, faults')
        BY <1>5, <1>10 DEF Rested, AtRest
      <3>2. "filter" \in TablesOf(base.v4)
        BY <1>6 DEF AllLoaded, Tables
      <3> QED BY <1>1, <1>2, <2>1, <2>2, <3>1, <3>2, GoodScans
    <2>5. Rested(b, st, fw4', fw6', base, faults')
      BY <1>3, <1>6, <1>10, <2>3, <2>4, RestsThere DEF AtRest
    <2> QED BY <1>4, <2>5 DEF Rests
  <1>11. CASE a.pc = "open4"
    <2>1. faults > 0 /\ Opening(fw4, a.todo, Tables)
      BY <1>11 DEF Rests, Rested
    <2>2. ~Refused(fw4, c) /\ Opening(Exec(fw4, c), Tail(a.todo), Tables)
      BY <1>1, <1>2, <2>1, OpeningGoes
    <2>3. UNCHANGED fw6 /\ fw4' = Exec(fw4, c) /\ b.todo = Tail(a.todo)
      <3>1. Firewall(t) = fw4 /\ a.pc \notin V6Lists
        BY <1>11 DEF Firewall, V6Lists
      <3>2. ~Failed(t) /\ ~Tolerated(t)
        BY <1>4, <2>1, <2>2, <3>1 DEF Failed, Tolerated, Fault, Refused
      <3> QED BY <1>3, <3>1, <3>2 DEF CarriedOut
    <2>4. AllLoaded(fw4', fw6', base)
      BY <1>6, <1>7, <2>3
    <2>5. faults' > 0
      BY <1>4, <2>1
    <2>6. Rested(b, st, fw4', fw6', base, faults')
      BY <1>3, <1>5, <1>6, <1>11, <2>2, <2>3, <2>4, <2>5 DEF Rested, V6Lists, Carries4, Carries6, AtRest
    <2> QED BY <1>4, <2>6 DEF Rests
  <1>12. CASE a.pc = "open6"
    <2>1. faults > 0 /\ Opening(fw6, a.todo, {"filter"}) /\ V6Only(a.todo)
      BY <1>12 DEF Rests, Rested, V6Lists
    <2>2. ~Refused(fw6, c) /\ Opening(Exec(fw6, c), Tail(a.todo), {"filter"})
      BY <1>1, <1>2, <2>1, OpeningGoes DEF Tables
    <2>3. UNCHANGED fw4 /\ fw6' = Exec(fw6, c) /\ b.todo = Tail(a.todo)
      <3>1. Firewall(t) = fw6 /\ a.pc \in V6Lists
        BY <1>12 DEF Firewall, V6Lists
      <3>2. ~Failed(t) /\ ~Tolerated(t)
        BY <1>4, <2>1, <2>2, <3>1 DEF Failed, Tolerated, Fault, Refused
      <3> QED BY <1>3, <3>1, <3>2 DEF CarriedOut
    <2>4. TableOf(c.at) = "filter" /\ V6Only(b.todo)
      BY <1>1, <1>2, <2>1, <2>3, TailV6Only
    <2>5. AllLoaded(fw4', fw6', base)
      BY <1>6, <1>7, <2>3, <2>4
    <2>6. faults' > 0 /\ Good(fw4', base.v4, faults')
      BY <1>4, <1>5, <1>12, <2>1, <2>3 DEF Rested
    <2>7. Rested(b, st, fw4', fw6', base, faults')
      BY <1>3, <1>6, <1>12, <2>2, <2>3, <2>4, <2>5, <2>6 DEF Rested, Carries4, Carries6, AtRest
    <2> QED BY <1>4, <2>7 DEF Rests
  <1> QED BY <1>1, <1>8, <1>9, <1>10, <1>11, <1>12 DEF Lists

(* The steps from rest to rest that change no rules and no record of a switch. *)
LEMMA RestingRests ==
    ASSUME NEW t \in Threads, TypeInv, Rests(t), Step(t), UNCHANGED <<fw4, fw6>>, GoodRecord(st', base, faults'),
           \A flag \in Switches : st'[flag] = st[flag], th[t].pc \in AtRest, th'[t].pc \in AtRest \ {"save6"}
    PROVE  Rests(t)'
  <1>1. faults \in Nat /\ faults' \in Nat /\ faults <= faults' /\ UNCHANGED base
    BY FaultsGrow
  <1>2. Rested(th[t], st, fw4, fw6, base, faults')
    BY <1>1, RestedMore DEF Rests
  <1>3. /\ AllLoaded(fw4', fw6', base)
        /\ AllDown(st') => Good(fw4', base.v4, faults') /\ Good(fw6', base.v6, faults')
    BY <1>2 DEF Rested, AllDown
  <1>4. Rested(th'[t], st', fw4', fw6', base, faults')
    BY <1>3, RestsThere
  <1> QED BY <1>1, <1>4 DEF Rests

(* The checks, the daemons and the backups. *)
LEMMA PreparingRests ==
    ASSUME NEW t \in Threads, TypeInv, Inv, Hold(t), Rests(t),
           \/ CheckEnable(t) \/ PrepareTor(t) \/ PrepareTorFails(t) \/ AskTor(t) \/ AskTorAgain(t)
           \/ PrepareProxy(t) \/ PrepareProxyFails(t) \/ PrepareGateway(t) \/ PrepareRaises(t)
           \/ Backup4(t) \/ Backup6(t) \/ TorService(t)
    PROVE  Rests(t)'
  <1>0. Step(t)
    BY DEF Step
  <1>1. ThShape /\ ThreadTyped(th[t])
    BY DEF TypeInv, ThreadsTyped, Inv
  <1>2. UNCHANGED <<st, fw4, fw6>> /\ th[t].todo = <<>>
    BY DEF CheckEnable, PrepareTor, PrepareTorFails, AskTor, AskTorAgain, PrepareProxy,
           PrepareProxyFails, PrepareGateway, PrepareRaises, Backup4, Backup6, TorService, At
  <1>3. faults \in Nat /\ faults' \in Nat /\ faults <= faults' /\ UNCHANGED base
    BY <1>0, FaultsGrow
  <1>4. Rested(th[t], st, fw4, fw6, base, faults')
    BY <1>3, RestedMore DEF Rests
  <1>5. AllLoaded(fw4, fw6, base) /\ GoodRecord(st, base, faults')
    BY <1>4 DEF Rested
  <1>6. CASE \/ CheckEnable(t) \/ PrepareTor(t) \/ PrepareTorFails(t) \/ AskTor(t) \/ AskTorAgain(t)
             \/ PrepareProxy(t) \/ PrepareProxyFails(t) \/ PrepareGateway(t) \/ PrepareRaises(t)
             \/ TorService(t)
    <2>1. th[t].pc \in AtRest
      BY <1>6 DEF CheckEnable, PrepareTor, PrepareTorFails, AskTor, AskTorAgain, PrepareProxy,
                  PrepareProxyFails, PrepareGateway, PrepareRaises, TorService, At, AtRest
    <2>2. \/ \E result : Finish(t, result)
          \/ \E l \in {"prepare", "bootstrap", "waiting", "save4"} : Goto(t, l)
          \/ Run(t, "scan", ScanRules)
          \/ Become(t, Idle)
      BY <1>6 DEF CheckEnable, PrepareTor, PrepareTorFails, AskTor, AskTorAgain, PrepareProxy,
                  PrepareProxyFails, PrepareGateway, PrepareRaises, TorService
    <2>3. th'[t].pc \in AtRest \ {"save6"}
      <3>1. CASE \E result : Finish(t, result)
        <4>1. PICK result : Finish(t, result)
          BY <3>1
        <4>2. th'[t].pc \in {"idle", "check"}
          BY <1>1, <4>1, Finished
        <4> QED BY <4>2 DEF AtRest
      <3>2. CASE \E l \in {"prepare", "bootstrap", "waiting", "save4"} : Goto(t, l)
        BY <1>1, <3>2, Gone DEF AtRest
      <3>3. CASE Run(t, "scan", ScanRules)
        <4>1. th'[t].pc = "scan"
          BY <1>1, <3>3, Ran
        <4> QED BY <4>1 DEF AtRest
      <3>4. CASE Become(t, Idle)
        <4>1. th'[t] = Idle /\ Idle.pc = "idle"
          BY <1>1, <3>4, Became DEF Idle
        <4> QED BY <4>1 DEF AtRest
      <3> QED BY <2>2, <3>1, <3>2, <3>3, <3>4
    <2> QED BY <1>0, <1>2, <1>5, <2>1, <2>3, RestingRests
  <1>7. CASE Backup4(t)
    <2>1. PICK b \in {fw4, None} : /\ IF b = None THEN Fault ELSE NoFault
                                   /\ Become(t, [th[t] EXCEPT !.pc = "save6", !.b4 = b])
      BY <1>7 DEF Backup4
    <2> DEFINE r == [th[t] EXCEPT !.pc = "save6", !.b4 = b]
    <2>2. r.pc = "save6" /\ r.b4 = b
      BY <1>1 DEF ThShape, Idle
    <2>3. th'[t] = r
      BY <1>1, <2>1, Became
    <2> HIDE DEF r
    <2>4. th[t].pc = "save4" /\ AllDown(st)
      BY <1>1, <1>7, AllOff DEF Backup4, At, BeforeRecord, AllDown
    <2>5. Good(fw4, base.v4, faults') /\ Good(fw6, base.v6, faults')
      BY <1>4, <2>4 DEF Rested, AtRest
    <2>6. GoodBackup(b, base.v4, faults')
      <3>1. b = None => faults' > 0
        BY <1>3, <2>1 DEF Fault
      <3> QED BY <2>1, <2>5, <3>1 DEF GoodBackup
    <2>7. Rested(r, st', fw4', fw6', base, faults')
      BY <1>2, <1>5, <2>2, <2>5, <2>6 DEF Rested, Carries4, Carries6, V6Lists
    <2> QED BY <1>3, <2>3, <2>7 DEF Rests
  <1>8. CASE Backup6(t)
    <2> DEFINE cs == Rules(Op(t))
    <2>1. PICK b \in {fw6, None} : /\ IF b = None THEN Fault ELSE NoFault
                                   /\ Become(t, [th[t] EXCEPT !.pc = "apply", !.b6 = b, !.ok = TRUE, !.todo = cs])
      BY <1>8 DEF Backup6
    <2> HIDE DEF cs
    <2> DEFINE r == [th[t] EXCEPT !.pc = "apply", !.b6 = b, !.ok = TRUE, !.todo = cs]
    <2>2. r.pc = "apply" /\ r.b6 = b /\ r.b4 = th[t].b4
      BY <1>1 DEF ThShape, Idle
    <2>3. th'[t] = r
      BY <1>1, <2>1, Became
    <2> HIDE DEF r
    <2>4. th[t].pc = "save6" /\ AllDown(st)
      BY <1>1, <1>8, AllOff DEF Backup6, At, BeforeRecord, AllDown
    <2>5. Good(fw6, base.v6, faults') /\ GoodBackup(th[t].b4, base.v4, faults')
      BY <1>4, <2>4 DEF Rested, AtRest, Carries4
    <2>6. GoodBackup(b, base.v6, faults')
      <3>1. b = None => faults' > 0
        BY <1>3, <2>1 DEF Fault
      <3> QED BY <2>1, <2>5, <3>1 DEF GoodBackup
    <2>7. Rested(r, st', fw4', fw6', base, faults')
      BY <1>2, <1>5, <2>2, <2>5, <2>6 DEF Rested, AtRest, V6Lists
    <2> QED BY <1>3, <2>3, <2>7 DEF Rests
  <1> QED BY <1>6, <1>7, <1>8

(* The state file with other flags than the switches' own. *)
LEMMA SameRecord ==
    ASSUME NEW s, NEW z, NEW b, NEW f, GoodRecord(s, b, f),
           \A flag \in Switches \cup BackupFields : z[flag] = s[flag]
    PROVE  GoodRecord(z, b, f)
  <1>1. /\ z.tor = s.tor /\ z.proxy = s.proxy /\ z.gw = s.gw /\ z.iptables = s.iptables
        /\ z.ip6tables = s.ip6tables /\ z.nat = s.nat /\ z.gwIptables = s.gwIptables
        /\ z.gwIp6tables = s.gwIp6tables
    BY DEF Switches, BackupFields
  <1> QED BY <1>1 DEF GoodRecord

(* The verdict on the rules, the records, and block_ipv6. *)
LEMMA RecordingRests ==
    ASSUME NEW t \in Threads, TypeInv, Inv, Hold(t), Rests(t),
           \/ Applied(t) \/ Record(t) \/ CheckV6(t) \/ V6Blocked(t) \/ ScanApplied(t) \/ ScanRemoved(t)
    PROVE  Rests(t)'
  <1>0. Step(t)
    BY DEF Step
  <1>1. ThShape /\ ThreadTyped(th[t]) /\ StShape
    BY DEF TypeInv, ThreadsTyped, Inv
  <1>2. UNCHANGED <<fw4, fw6>> /\ th[t].todo = <<>>
    BY DEF Applied, Record, CheckV6, V6Blocked, ScanApplied, ScanRemoved, At
  <1>3. faults \in Nat /\ faults' \in Nat /\ faults <= faults' /\ UNCHANGED base
    BY <1>0, FaultsGrow
  <1>4. Rested(th[t], st, fw4, fw6, base, faults')
    BY <1>3, RestedMore DEF Rests
  <1>5. AllLoaded(fw4, fw6, base) /\ GoodRecord(st, base, faults')
    BY <1>4 DEF Rested
  <1>6. CASE Applied(t)
    <2>1. th[t].pc = "apply" /\ UNCHANGED st
      BY <1>6 DEF Applied, At
    <2>2. GoodBackup(th[t].b4, base.v4, faults') /\ GoodBackup(th[t].b6, base.v6, faults')
      BY <1>4, <2>1 DEF Rested, Carries4, Carries6
    <2>3. V6Only(GatewayV6Rules)
      BY DEF V6Only, GatewayV6Rules, DropAll, Flush, TableOf, NatChains
    <2>4. /\ th'[t].pc \in {"restore4", "record"} \/ (th'[t].pc = "gateway6" /\ V6Only(th'[t].todo))
          /\ th'[t].b4 = th[t].b4 /\ th'[t].b6 = th[t].b6
      <3>1. CASE \E l \in {"restore4", "record"} : Goto(t, l)
        BY <1>1, <3>1, Gone
      <3>2. CASE Run(t, "gateway6", GatewayV6Rules)
        BY <1>1, <2>3, <3>2, Ran
      <3> QED BY <1>6, <3>1, <3>2 DEF Applied
    <2>5. Rested(th'[t], st', fw4', fw6', base, faults')
      BY <1>2, <1>5, <2>1, <2>2, <2>4 DEF Rested, Carries4, Carries6, AtRest, V6Lists
    <2> QED BY <1>3, <2>5 DEF Rests
  <1>7. CASE Record(t)
    <2>1. AllDown(st) /\ th[t].pc \in {"record", "gateway6"}
      BY <1>1, <1>7, AllOff DEF Record, At, BeforeRecord, AllDown
    <2>2. th'[t].pc = "v6"
      BY <1>1, <1>7, Gone DEF Record
    <2>3. GoodBackup(th[t].b4, base.v4, faults') /\ GoodBackup(th[t].b6, base.v6, faults')
      BY <1>4, <2>1 DEF Rested, Carries4, Carries6
    <2>4. Op(t) \in Switching /\ st' = Recorded(Op(t), th[t].b4, th[t].b6)
      BY <1>7, RecordedFlags DEF Record
    <2>5. ~st.tor /\ ~st.proxy /\ ~st.gw
      BY <2>1 DEF AllDown, Switches
    <2>6. GoodRecord(st', base, faults')
      <3>1. CASE Op(t) = "torOn"
        <4>1. st' = [st EXCEPT !.tor = TRUE, !.iptables = th[t].b4, !.ip6tables = th[t].b6]
          BY <2>4, <3>1 DEF Recorded
        <4>2. st'.iptables = th[t].b4 /\ st'.ip6tables = th[t].b6 /\ ~st'.proxy /\ ~st'.gw
          BY <1>1, <2>5, <4>1 DEF StShape, Off
        <4> QED BY <2>3, <4>2 DEF GoodRecord
      <3>2. CASE Op(t) = "proxyOn"
        <4>1. st' = [st EXCEPT !.proxy = TRUE, !.nat = th[t].b4, !.ip6tables = th[t].b6]
          BY <2>4, <3>2 DEF Recorded
        <4>2. st'.nat = th[t].b4 /\ st'.ip6tables = th[t].b6 /\ ~st'.tor /\ ~st'.gw
          BY <1>1, <2>5, <4>1 DEF StShape, Off
        <4> QED BY <2>3, <4>2 DEF GoodRecord
      <3>3. CASE Op(t) = "gwOn"
        <4>1. st' = [st EXCEPT !.gw = TRUE, !.gwIptables = th[t].b4, !.gwIp6tables = th[t].b6]
          BY <2>4, <3>3 DEF Recorded
        <4>2. st'.gwIptables = th[t].b4 /\ st'.gwIp6tables = th[t].b6 /\ ~st'.tor /\ ~st'.proxy
          BY <1>1, <2>5, <4>1 DEF StShape, Off
        <4> QED BY <2>3, <4>2 DEF GoodRecord
      <3> QED BY <2>4, <3>1, <3>2, <3>3 DEF Switching
    <2>7. Rested(th'[t], st', fw4', fw6', base, faults')
      BY <1>2, <1>5, <2>2, <2>6 DEF Rested, Carries4, Carries6, AtRest, V6Lists
    <2> QED BY <1>3, <2>7 DEF Rests
  <1>8. CASE CheckV6(t) \/ V6Blocked(t)
    <2>1. th[t].pc \in AfterRecord
      BY <1>8 DEF CheckV6, V6Blocked, At, AfterRecord
    <2>2. Op(t) \in Switching /\ st[Flag[Op(t)]]
      BY <2>1 DEF Inv, Checked, Doing
    <2>3. Flag[Op(t)] \in Switches
      BY <2>2 DEF Flag, Switching, Switches
    <2>4. st' = st \/ st' = [st EXCEPT !.v6 = TRUE]
      BY <1>8 DEF CheckV6, V6Blocked
    <2>5. \A flag \in Switches \cup BackupFields : st'[flag] = st[flag]
      BY <1>1, <2>4 DEF StShape, Off, Switches, BackupFields
    <2>6. GoodRecord(st', base, faults')
      BY <1>5, <2>5, SameRecord
    <2>7. ~AllDown(st')
      BY <2>2, <2>3, <2>5 DEF AllDown
    <2>8. V6Only(BlockV6Rules)
      BY DEF V6Only, BlockV6Rules, DropAll, Flush, AppendRule, TableOf, NatChains
    <2>9. th'[t].pc \in {"idle", "check"} \/ (th'[t].pc = "block6" /\ V6Only(th'[t].todo))
      <3>1. CASE Finish(t, TRUE)
        BY <1>1, <3>1, Finished
      <3>2. CASE Run(t, "block6", BlockV6Rules)
        BY <1>1, <2>8, <3>2, Ran
      <3> QED BY <1>8, <3>1, <3>2 DEF CheckV6, V6Blocked
    <2>10. Rested(th'[t], st', fw4', fw6', base, faults')
      BY <1>2, <1>5, <2>6, <2>7, <2>9 DEF Rested, Carries4, Carries6, V6Lists
    <2> QED BY <1>3, <2>10 DEF Rests
  <1>9. CASE ScanApplied(t) \/ ScanRemoved(t)
    <2>1. st' = st \/ \E b \in BOOLEAN : st' = [st EXCEPT !.scan = b]
      BY <1>9 DEF ScanApplied, ScanRemoved
    <2>2. \A flag \in Switches \cup BackupFields : st'[flag] = st[flag]
      BY <1>1, <2>1 DEF StShape, Off, Switches, BackupFields
    <2>3. th[t].pc \in {"scan", "unscan"} /\ \E result : Finish(t, result)
      BY <1>9 DEF ScanApplied, ScanRemoved, At
    <2>4. PICK result : Finish(t, result)
      BY <2>3
    <2>5. th'[t].pc \in {"idle", "check"}
      BY <1>1, <2>4, Finished
    <2>6. GoodRecord(st', base, faults')
      BY <1>5, <2>2, SameRecord
    <2> QED BY <1>0, <1>2, <2>2, <2>3, <2>5, <2>6, RestingRests DEF AtRest
  <1> QED BY <1>6, <1>7, <1>8, <1>9

(* The way back, to the update that lowers the flags. *)
LEMMA RestoringRests ==
    ASSUME NEW t \in Threads, TypeInv, Inv, Hold(t), Rests(t),
           \/ CheckDisable(t) \/ Restore4(t) \/ Restore6(t) \/ RolledBack(t)
           \/ StopRedsocks(t) \/ StopRedsocksFails(t) \/ Clear(t)
    PROVE  Rests(t)'
  <1>0. Step(t)
    BY DEF Step
  <1>1. ThShape /\ ThreadTyped(th[t]) /\ StShape /\ IsRuleset(fw4) /\ IsRuleset(fw6)
    BY DEF TypeInv, ThreadsTyped, MachineTyped, Inv
  <1>2. th[t].todo = <<>>
    BY DEF CheckDisable, Restore4, Restore6, RolledBack, StopRedsocks, StopRedsocksFails, Clear, Undone, At
  <1>3. faults \in Nat /\ faults' \in Nat /\ faults <= faults' /\ UNCHANGED base
    BY <1>0, FaultsGrow
  <1>4. Rested(th[t], st, fw4, fw6, base, faults')
    BY <1>3, RestedMore DEF Rests
  <1>5. AllLoaded(fw4, fw6, base) /\ GoodRecord(st, base, faults')
    BY <1>4 DEF Rested
  <1>6. th[t].pc = "open4" => Good(fw4, base.v4, faults')
    <2> SUFFICES ASSUME th[t].pc = "open4" PROVE Good(fw4, base.v4, faults')
      OBVIOUS
    <2>1. faults' > 0 /\ Opening(fw4, <<>>, Tables)
      BY <1>2, <1>4 DEF Rested
    <2>2. TablesOf(fw4) = TablesOf(base.v4) /\ TablesOf(base.v4) = Tables
      BY <1>5 DEF AllLoaded
    <2> QED BY <1>1, <2>1, <2>2, OpeningDone
  <1>7. th[t].pc = "open6" => Good(fw6, base.v6, faults')
    <2> SUFFICES ASSUME th[t].pc = "open6" PROVE Good(fw6, base.v6, faults')
      OBVIOUS
    <2>1. faults' > 0 /\ Opening(fw6, <<>>, {"filter"})
      BY <1>2, <1>4 DEF Rested
    <2>2. TablesOf(fw6) = TablesOf(base.v6) /\ TablesOf(base.v6) = {"filter"}
      BY <1>5 DEF AllLoaded
    <2> QED BY <1>1, <2>1, <2>2, OpeningDone
  <1>8. th[t].pc \in {"restore6", "open4", "restored", "open6", "clear"} => Good(fw4, base.v4, faults')
    BY <1>4, <1>6 DEF Rested
  <1>9. th[t].pc \in {"restored", "open6", "clear"} => Good(fw6, base.v6, faults')
    BY <1>4, <1>7 DEF Rested
  <1>10. CASE CheckDisable(t)
    <2>1. UNCHANGED <<st, fw4, fw6>> /\ th[t].pc = "check"
      BY <1>10 DEF CheckDisable, At
    <2>2. CASE Finish(t, FALSE) \/ Run(t, "unscan", ScanRemoval)
      <3>1. th'[t].pc \in {"idle", "check", "unscan"}
        BY <1>1, <2>2, Finished, Ran
      <3> QED BY <1>0, <1>5, <2>1, <3>1, RestingRests DEF AtRest
    <2>3. CASE /\ st[Flag[Op(t)]] /\ Op(t) # "scanOff" /\ Op(t) \in Disabling
               /\ Become(t, [th[t] EXCEPT !.pc = "restore4", !.b4 = Backups(Op(t))[1],
                                          !.b6 = Backups(Op(t))[2]])
      <3> DEFINE b4 == Backups(Op(t))[1]
                 b6 == Backups(Op(t))[2]
      <3>1. Become(t, [th[t] EXCEPT !.pc = "restore4", !.b4 = b4, !.b6 = b6])
        BY <2>3
      <3>2. GoodBackup(b4, base.v4, faults') /\ GoodBackup(b6, base.v6, faults')
        <4>1. CASE Op(t) = "torOff"
          <5>1. st.tor /\ b4 = st.iptables /\ b6 = st.ip6tables
            BY <2>3, <4>1 DEF Flag, Backups
          <5> QED BY <1>5, <5>1 DEF GoodRecord
        <4>2. CASE Op(t) = "proxyOff"
          <5>1. st.proxy /\ b4 = st.nat /\ b6 = st.ip6tables
            BY <2>3, <4>2 DEF Flag, Backups
          <5> QED BY <1>5, <5>1 DEF GoodRecord
        <4>3. CASE Op(t) = "gwOff"
          <5>1. st.gw /\ b4 = st.gwIptables /\ b6 = st.gwIp6tables
            BY <2>3, <4>3 DEF Flag, Backups
          <5> QED BY <1>5, <5>1 DEF GoodRecord
        <4> QED BY <2>3, <4>1, <4>2, <4>3 DEF Disabling
      <3> HIDE DEF b4, b6
      <3> DEFINE r == [th[t] EXCEPT !.pc = "restore4", !.b4 = b4, !.b6 = b6]
      <3>3. r.pc = "restore4" /\ r.b4 = b4 /\ r.b6 = b6
        BY <1>1 DEF ThShape, Idle
      <3>4. th'[t] = r
        BY <1>1, <3>1, Became
      <3> HIDE DEF r
      <3>5. Rested(r, st', fw4', fw6', base, faults')
        BY <1>5, <2>1, <3>2, <3>3 DEF Rested, AtRest, V6Lists
      <3> QED BY <1>3, <3>4, <3>5 DEF Rests
    <2> QED BY <1>10, <2>2, <2>3 DEF CheckDisable, Doing
  <1>11. CASE Restore4(t)
    <2>1. th[t].pc = "restore4" /\ UNCHANGED <<st, fw6>>
      BY <1>11 DEF Restore4, At
    <2>2. GoodBackup(th[t].b4, base.v4, faults') /\ GoodBackup(th[t].b6, base.v6, faults')
      BY <1>4, <2>1 DEF Rested, Carries4, Carries6
    <2>3. CASE th[t].b4 # None /\ fw4' = Restored(fw4, th[t].b4) /\ Goto(t, "restore6")
      <3>1. th'[t].pc = "restore6" /\ th'[t].b6 = th[t].b6
        BY <1>1, <2>3, Gone
      <3>2. Good(th[t].b4, base.v4, faults') /\ IsRuleset(th[t].b4)
        BY <1>1, <2>2, <2>3 DEF GoodBackup, ThreadTyped, IsBackup
      <3>3. TablesOf(th[t].b4) = Tables /\ TablesOf(fw4) = Tables
        BY <1>5, <3>2 DEF Good, AllLoaded
      <3>4. fw4' = th[t].b4
        BY <2>3, <3>2, <3>3, RestoredAll DEF Tables
      <3>5. AllLoaded(fw4', fw6', base)
        BY <1>5, <2>1, <3>3, <3>4 DEF AllLoaded
      <3>6. Rested(th'[t], st', fw4', fw6', base, faults')
        BY <1>5, <2>1, <2>2, <3>1, <3>2, <3>4, <3>5 DEF Rested, AtRest, V6Lists, Carries4
      <3> QED BY <1>3, <3>6 DEF Rests
    <2>4. CASE /\ IF th[t].b4 = None THEN NoFault ELSE Fault
               /\ Run(t, "open4", OpenV4Rules) /\ UNCHANGED fw4
      <3>1. th'[t].pc = "open4" /\ th'[t].b6 = th[t].b6 /\ th'[t].todo = OpenV4Rules
        BY <1>1, <2>4, Ran
      <3>2. faults' > 0
        BY <1>3, <2>2, <2>4 DEF GoodBackup, Fault
      <3>3. Opening(fw4, OpenV4Rules, Tables)
        BY OpeningStarts
      <3>4. Rested(th'[t], st', fw4', fw6', base, faults')
        BY <1>5, <2>1, <2>2, <2>4, <3>1, <3>2, <3>3 DEF Rested, AtRest, V6Lists, Carries4
      <3> QED BY <1>3, <3>4 DEF Rests
    <2> QED BY <1>11, <2>3, <2>4 DEF Restore4
  <1>12. CASE Restore6(t)
    <2>1. th[t].pc \in {"restore6", "open4"} /\ UNCHANGED <<st, fw4>>
      BY <1>12 DEF Restore6, At
    <2>2. GoodBackup(th[t].b6, base.v6, faults') /\ Good(fw4, base.v4, faults')
      BY <1>4, <1>8, <2>1 DEF Rested, Carries6
    <2>3. CASE th[t].b6 # None /\ fw6' = Restored(fw6, th[t].b6) /\ Goto(t, "restored")
      <3>1. th'[t].pc = "restored"
        BY <1>1, <2>3, Gone
      <3>2. Good(th[t].b6, base.v6, faults') /\ IsRuleset(th[t].b6)
        BY <1>1, <2>2, <2>3 DEF GoodBackup, ThreadTyped, IsBackup
      <3>3. TablesOf(th[t].b6) = {"filter"} /\ TablesOf(fw6) = {"filter"}
        BY <1>5, <3>2 DEF Good, AllLoaded
      <3>4. fw6' = th[t].b6
        BY <2>3, <3>2, <3>3, RestoredAll
      <3>5. AllLoaded(fw4', fw6', base)
        BY <1>5, <2>1, <3>3, <3>4 DEF AllLoaded
      <3>6. Rested(th'[t], st', fw4', fw6', base, faults')
        BY <1>5, <2>1, <2>2, <3>1, <3>2, <3>4, <3>5 DEF Rested, AtRest, V6Lists, Carries4, Carries6
      <3> QED BY <1>3, <3>6 DEF Rests
    <2>4. CASE /\ IF th[t].b6 = None THEN NoFault ELSE Fault
               /\ Run(t, "open6", OpenV6Rules) /\ UNCHANGED fw6
      <3>1. th'[t].pc = "open6" /\ th'[t].todo = OpenV6Rules
        BY <1>1, <2>4, Ran
      <3>2. faults' > 0
        BY <1>3, <2>2, <2>4 DEF GoodBackup, Fault
      <3>3. Opening(fw6, OpenV6Rules, {"filter"}) /\ V6Only(OpenV6Rules)
        BY OpeningStarts DEF V6Only, OpenV6Rules, Flush, AcceptAll, TableOf, NatChains
      <3>4. Rested(th'[t], st', fw4', fw6', base, faults')
        BY <1>5, <2>1, <2>2, <2>4, <3>1, <3>2, <3>3 DEF Rested, AtRest, Carries4, Carries6
      <3> QED BY <1>3, <3>4 DEF Rests
    <2> QED BY <1>12, <2>3, <2>4 DEF Restore6
  <1>13. CASE RolledBack(t) \/ StopRedsocks(t) \/ StopRedsocksFails(t) \/ Clear(t)
    <2>1. th[t].pc \in {"restored", "open6", "clear"} /\ UNCHANGED <<fw4, fw6>>
      BY <1>13 DEF RolledBack, StopRedsocks, StopRedsocksFails, Clear, Undone, At
    <2>2. Good(fw4, base.v4, faults') /\ Good(fw6, base.v6, faults')
      BY <1>8, <1>9, <2>1
    <2>3. th'[t].pc \in {"idle", "check", "clear"}
      <3>1. CASE Goto(t, "clear")
        BY <1>1, <3>1, Gone
      <3>2. CASE \E result : Finish(t, result)
        <4>1. PICK result : Finish(t, result)
          BY <3>2
        <4> QED BY <1>1, <4>1, Finished
      <3>3. CASE Become(t, Idle)
        BY <1>1, <3>3, Became DEF Idle
      <3> QED BY <1>13, <3>1, <3>2, <3>3 DEF RolledBack, StopRedsocks, StopRedsocksFails, Clear
    <2>4. GoodRecord(st', base, faults')
      <3>1. CASE UNCHANGED st
        BY <1>5, <3>1
      <3>2. CASE Clear(t)
        <4>1. st' = Cleared(Op(t)) /\ Op(t) \in {"torOff", "proxyOff", "gwOff"} /\ th[t].pc \in Restoring
          BY <2>1, <3>2 DEF Clear, Undone, Doing, Restoring
        <4>2. \A flag \in Switches : ~st'[flag]
          BY <1>1, <4>1, ClearedFlags DEF Hold, Held, Undoes, Op
        <4> QED BY <4>2 DEF Switches, GoodRecord
      <3> QED BY <1>13, <3>1, <3>2 DEF RolledBack, StopRedsocks, StopRedsocksFails
    <2>5. Rested(th'[t], st', fw4', fw6', base, faults')
      BY <1>5, <2>1, <2>2, <2>3, <2>4 DEF Rested, Carries4, Carries6, V6Lists
    <2> QED BY <1>3, <2>5 DEF Rests
  <1> QED BY <1>10, <1>11, <1>12, <1>13

(* An update that raises, unless rules are left without a record: it leaves*)
(* the rulesets as they are, after the restore those of before.            *)
LEMMA RaisingRests ==
    ASSUME NEW t \in Threads, TypeInv, Inv, Hold(t), Rests(t), UpdateRaises(t), ~orphaned'
    PROVE  Rests(t)'
  <1>0. Step(t)
    BY DEF Step
  <1>1. /\ ThShape /\ ThreadTyped(th[t]) /\ StShape /\ IsRuleset(fw4) /\ IsRuleset(fw6)
        /\ UNCHANGED <<st, fw4, fw6>>
    BY DEF TypeInv, ThreadsTyped, MachineTyped, Inv, UpdateRaises
  <1>2. th'[t] = Idle /\ Idle.pc = "idle"
    BY <1>1, Became DEF UpdateRaises, Idle
  <1>3. faults \in Nat /\ faults' \in Nat /\ faults <= faults' /\ UNCHANGED base
    BY <1>0, FaultsGrow
  <1>4. Rested(th[t], st, fw4, fw6, base, faults')
    BY <1>3, RestedMore DEF Rests
  <1>5. AllLoaded(fw4, fw6, base) /\ GoodRecord(st, base, faults')
    BY <1>4 DEF Rested
  <1>6. th[t].todo = <<>> /\ (th[t].pc \in {"restored", "open6", "clear"} \/ th[t].pc \in {"unscan", "block6"})
    BY DEF UpdateRaises, Undone, At
  <1>7. AllDown(st) => Good(fw4, base.v4, faults') /\ Good(fw6, base.v6, faults')
    <2>1. CASE th[t].pc = "unscan"
      BY <1>4, <2>1 DEF Rested, AtRest
    <2>2. CASE th[t].pc = "block6"
      <3>1. Op(t) \in Switching /\ st[Flag[Op(t)]]
        BY <2>2 DEF Inv, Checked, Doing, AfterRecord
      <3> QED BY <3>1 DEF AllDown, Flag, Switching, Switches
    <2>3. CASE th[t].pc \in {"restored", "clear"}
      BY <1>4, <2>3 DEF Rested
    <2>4. CASE th[t].pc = "open6"
      <3>1. faults' > 0 /\ Opening(fw6, <<>>, {"filter"}) /\ Good(fw4, base.v4, faults')
        BY <1>4, <1>6, <2>4 DEF Rested
      <3>2. TablesOf(fw6) = TablesOf(base.v6) /\ TablesOf(base.v6) = {"filter"}
        BY <1>5 DEF AllLoaded
      <3> QED BY <1>1, <3>1, <3>2, OpeningDone
    <2> QED BY <1>6, <2>1, <2>2, <2>3, <2>4
  <1>8. Rested(Idle, st', fw4', fw6', base, faults')
    BY <1>1, <1>2, <1>5, <1>7, RestsThere DEF AtRest
  <1> QED BY <1>2, <1>3, <1>8 DEF Rests

(* What a bystander does to the rules it does for portscan protection. *)
LEMMA BystanderQuiet ==
    ASSUME TypeInv, AllScanless, NoScans, NEW u \in Threads, Bystanding(th[u]), Step(u)
    PROVE  UNCHANGED fw4
  <1>1. th[u].todo = <<>> /\ th[u].pc \in {"idle", "check"}
    BY DEF AllScanless, Scanless, Bystanding
  <1> QED BY <1>1 DEF Step, RunCommand, CheckEnable, PrepareTor, PrepareTorFails, AskTor, AskTorAgain,
                      PrepareProxy, PrepareProxyFails, PrepareGateway, PrepareRaises, Backup4, Backup6,
                      Applied, Record, CheckV6, V6Blocked, ScanApplied, CheckDisable, Restore4,
                      Restore6, RolledBack, StopRedsocks, StopRedsocksFails, Clear, ScanRemoved,
                      UpdateRaises, TorService, At

(* It leaves thread t's work alone. *)
LEMMA AsideRests ==
    ASSUME NEW t \in Threads, TypeInv, Inv, AllScanless, Rests(t), NEW u \in Threads \ {t},
           Bystanding(th[u]), Step(u)
    PROVE  Rests(t)'
  <1>1. IsRuleset(fw4) /\ IsRuleset(fw6) /\ StShape /\ ThShape
    BY DEF TypeInv, MachineTyped, Inv
  <1>2. /\ th'[t] = th[t] /\ ScanOnly(st, st') /\ ScanCommand(fw4, fw4') /\ UNCHANGED fw6
    BY <1>1, BystanderStep
  <1>3. faults \in Nat /\ faults' \in Nat /\ faults <= faults' /\ UNCHANGED base
    BY FaultsGrow
  <1>4. Rested(th[t], st, fw4, fw6, base, faults')
    BY <1>3, RestedMore DEF Rests
  <1>5. \A flag \in Switches \cup BackupFields : st'[flag] = st[flag]
    BY <1>1, <1>2 DEF ScanOnly, StShape, Off, Switches, BackupFields
  <1>6. Rested(th[t], st', fw4, fw6, base, faults')
    <2>1. GoodRecord(st', base, faults')
      BY <1>4, <1>5, SameRecord DEF Rested
    <2>2. AllDown(st') <=> AllDown(st)
      BY <1>5 DEF AllDown
    <2> QED BY <1>4, <2>1, <2>2 DEF Rested
  <1>7. CASE fw4' = fw4
    BY <1>2, <1>3, <1>6, <1>7 DEF Rests
  <1>8. ASSUME NEW c \in Command, ScanWork(c), ~Refused(fw4, c), fw4' = Exec(fw4, c), fw4' # fw4
        PROVE  Rests(t)'
    <2>1. ~NoScans
      BY <1>8, BystanderQuiet
    <2>2. AllLoaded(fw4, fw6, base) /\ "filter" \in TablesOf(base.v4)
      BY <1>6 DEF Rested, AllLoaded, Tables
    <2>3. AllLoaded(fw4', fw6, base)
      BY <1>1, <1>8, <2>2, LoadedExec
    <2>4. Good(fw4, base.v4, faults') => Good(fw4', base.v4, faults')
      BY <1>1, <1>8, <2>1, <2>2, GoodScans
    <2>5. Opening(fw4, th[t].todo, Tables) => Opening(fw4', th[t].todo, Tables)
      BY <1>1, <1>8, <2>1, OpeningScans
    <2>6. Rested(th[t], st', fw4', fw6, base, faults')
      BY <1>6, <2>3, <2>4, <2>5 DEF Rested
    <2> QED BY <1>2, <1>3, <2>6 DEF Rests
  <1> QED BY <1>2, <1>7, <1>8 DEF ScanCommand

(* All is as it was at first, *)
LEMMA RestsInit ==
    ASSUME NEW t \in Threads, TablesLoaded, Init
    PROVE  Rests(t) /\ AllScanless
  <1>1. /\ th[t] = Idle /\ st = Off /\ on \in DOMAIN Machines /\ base = [v4 |-> fw4, v6 |-> fw6]
        /\ fw4 \in Here.bases4 /\ fw6 \in Here.bases6 /\ faults = 0
        /\ th = [u \in Threads |-> Idle]
    BY DEF Init
  <1>2. Idle.pc = "idle" /\ Idle.plan = <<>>
    BY DEF Idle
  <1>3. AllLoaded(fw4, fw6, base)
    BY <1>1 DEF TablesLoaded, Here, AllLoaded
  <1>4. GoodRecord(st, base, faults)
    BY <1>1 DEF Off, GoodRecord
  <1>5. Good(fw4, base.v4, faults) /\ Good(fw6, base.v6, faults)
    BY <1>1 DEF Good
  <1>6. Rested(Idle, st, fw4, fw6, base, faults)
    BY <1>2, <1>3, <1>4, <1>5, RestsThere DEF AtRest
  <1>7. Scanless(Idle)
    BY <1>2, EmptySeq DEF Scanless
  <1> QED BY <1>1, <1>6, <1>7 DEF Rests, AllScanless

(* and every step that does not stop the machine keeps it so, but for the  *)
(* update that leaves rules without a record.                              *)
LEMMA RestsNext ==
    ASSUME NEW t, SwitchesBelongTo(t), NoneKilled, OneFault, HoldInv(t), AllScanless,
           ~orphaned => Rests(t), [Next]_vars, ~orphaned'
    PROVE  Rests(t)'
  <1>0. ~orphaned /\ Rests(t)
    <2>1. ASSUME NEW u \in Threads, Step(u) PROVE ~orphaned
      BY <2>1, OrphanedStays
    <2>2. CASE \/ \E u \in Threads : \E plan \in Here.plans[u] : Ask(u, plan)
               \/ Crash \/ Reboot \/ UNCHANGED vars
      <3>1. UNCHANGED orphaned
        BY <2>2 DEF Ask, Crash, Reboot, vars, hist
      <3> QED BY <3>1
    <2> QED BY <2>1, <2>2 DEF Next
  <1>1. /\ t \in Threads /\ TypeInv /\ Inv /\ Hold(t) /\ ThShape /\ on \in DOMAIN Machines
        /\ \A u \in Threads \ {t} : Bystanding(th[u])
    BY DEF SwitchesBelongTo, HoldInv, Inv, TypeInv, MachineTyped, Bystanders
  <1>2. CASE Step(t)
    BY <1>0, <1>1, <1>2, CommandRests, PreparingRests, RecordingRests, RestoringRests, RaisingRests DEF Step
  <1>3. ASSUME NEW u \in Threads \ {t}, Step(u) PROVE Rests(t)'
    BY <1>0, <1>1, <1>3, AsideRests
  <1>4. ASSUME NEW u \in Threads, NEW plan, Ask(u, plan) PROVE Rests(t)'
    <2> DEFINE r == [Idle EXCEPT !.plan = plan, !.pc = "check"]
    <2>1. r.pc = "check"
      BY DEF Idle
    <2>2. Become(u, r) /\ UNCHANGED <<st, fw4, fw6, base, faults>> /\ th[u].pc = "idle"
      BY <1>4 DEF Ask
    <2> HIDE DEF r
    <2>3. th'[u] = r /\ \A w \in Threads \ {u} : th'[w] = th[w]
      BY <1>1, <2>2, Became
    <2>4. CASE u # t
      BY <1>0, <1>1, <2>2, <2>3, <2>4 DEF Rests
    <2>5. CASE u = t
      <3>1. /\ AllLoaded(fw4, fw6, base) /\ GoodRecord(st, base, faults)
            /\ AllDown(st) => Good(fw4, base.v4, faults) /\ Good(fw6, base.v6, faults)
        BY <1>0, <2>2, <2>5 DEF Rests, Rested, AtRest
      <3>2. Rested(r, st, fw4, fw6, base, faults)
        BY <2>1, <3>1, RestsThere DEF AtRest
      <3> QED BY <2>2, <2>3, <2>5, <3>2 DEF Rests
    <2> QED BY <2>4, <2>5
  <1>5. ~Crash /\ ~Reboot
    BY <1>1 DEF NoneKilled, Crash, Reboot, Here
  <1>6. CASE UNCHANGED vars
    BY <1>0, <1>6 DEF vars, hist, fixed, Rests
  <1> QED BY <1>2, <1>3, <1>4, <1>5, <1>6 DEF Next

(* The invariant behind the theorems that follow, on machines whose program*)
(* is not killed and that have the tables loaded. Once an update has left  *)
(* rules without a record, the next switch takes them for those of before. *)
RestInv(t) == HoldInv(t) /\ AllScanless /\ (~orphaned => Rests(t))

(* It holds in every reachable state. *)
LEMMA RestsHolds ==
    ASSUME NEW t, SwitchesBelongTo(t), Unmixed, NoneKilled, OneFault, TablesLoaded
    PROVE  Spec => []RestInv(t)
  <1>1. t \in Threads
    BY DEF SwitchesBelongTo
  <1>2. Init => AllScanless /\ Rests(t)
    BY <1>1, RestsInit
  <1>3. HoldInv(t) /\ AllScanless /\ (~orphaned => Rests(t)) /\ [Next]_vars
            => (AllScanless /\ (~orphaned => Rests(t)))'
    BY RestsNext, ScanlessNext DEF HoldInv
  <1>4. Spec => []HoldInv(t)
    BY HeldHolds
  <1> QED BY <1>2, <1>3, <1>4, PTL DEF Spec, RestInv

(* What is off is undone: with every switch off and nothing under way the  *)
(* rulesets are those found at first or, if a command failed, the open     *)
(* default; of every failure there can be, wherever it strikes, none leaves*)
(* rules half-applied or a DROP behind, if it stays the only one, the      *)
(* program is not killed and portscan protection, whose rules come and go  *)
(* by themselves, is not asked for - but the one that AllOrNothing names:  *)
(* the update that should have recorded the rules raises.                  *)
THEOREM OffIsUndone ==
    ASSUME NEW t, SwitchesBelongTo(t), Unmixed, NoneKilled, OneFault, TablesLoaded, NoScans
    PROVE  Spec => []AllOrNothing
  <1>1. RestInv(t) => AllOrNothing
    <2> SUFFICES ASSUME RestInv(t), Settled, ~orphaned, ~(st.tor \/ st.proxy \/ st.gw \/ st.scan)
                 PROVE  /\ fw4 = base.v4 \/ (faults > 0 /\ Opened(fw4))
                        /\ fw6 = base.v6 \/ (faults > 0 /\ Opened(fw6))
      BY DEF AllOrNothing
    <2>1. th[t].pc = "idle" /\ AllDown(st)
      BY DEF SwitchesBelongTo, Settled, AllDown, Switches
    <2>2. Good(fw4, base.v4, faults) /\ Good(fw6, base.v6, faults)
      BY <2>1 DEF RestInv, Rests, Rested, AtRest
    <2> QED BY <2>2 DEF Good
  <1>2. Spec => []RestInv(t)
    BY RestsHolds
  <1> QED BY <1>1, <1>2, PTL
-----------------------------------------------------------------------------
(* What is redirected is served.  The way through an operation: where a    *)
(* step of op may lead from label l, and with which commands to run.       *)
Leads(op, l, m, cs) ==
    \/ /\ cs = <<>>
       /\ \/ l = "check" /\ m = "prepare" /\ op \in Switching
          \/ l = "check" /\ m = "restore4" /\ op \in Disabling
          \/ l = "prepare" /\ m = "bootstrap" /\ op = "torOn"
          \/ l = "prepare" /\ m = "save4" /\ op \in {"proxyOn", "gwOn"}
          \/ l = "bootstrap" /\ m \in {"waiting", "save4"}
          \/ l = "waiting" /\ m = "save4"
          \/ l = "save4" /\ m = "save6"
          \/ l = "apply" /\ m \in {"restore4", "record"}
          \/ l \in {"record", "gateway6"} /\ m = "v6"
          \/ l = "restore4" /\ m = "restore6"
          \/ l \in {"restore6", "open4"} /\ m = "restored"
          \/ l \in {"restored", "open6"} /\ m = "clear" /\ op = "proxyOff"
    \/ l = "check" /\ m = "scan" /\ cs = ScanRules
    \/ l = "check" /\ m = "unscan" /\ cs = ScanRemoval
    \/ l = "save6" /\ m = "apply" /\ cs = Rules(op)
    \/ l = "apply" /\ m = "gateway6" /\ cs = GatewayV6Rules
    \/ l = "v6" /\ m = "block6" /\ cs = BlockV6Rules
    \/ l = "restore4" /\ m = "open4" /\ cs = OpenV4Rules
    \/ l \in {"restore6", "open4"} /\ m = "open6" /\ cs = OpenV6Rules

(* From the first rule on until the rules are all in, or are out again.    *)
Applies == {"apply", "gateway6", "record", "restore4", "open4"}

(* A step goes on with the operation at hand, ends it, or raises, which    *)
(* ends the plan.                                                          *)
Onward(t) ==
    /\ th[t].plan # <<>> /\ th[t].todo = <<>> /\ th'[t].plan = th[t].plan
    /\ Leads(Op(t), th[t].pc, th'[t].pc, th'[t].todo)
Over(t) ==
    /\ th[t].plan # <<>> /\ th[t].todo = <<>> /\ th'[t].plan = Tail(th[t].plan)
    /\ th'[t].pc \in {"idle", "check"} /\ th'[t].todo = <<>> /\ th[t].pc \notin Applies
EndOfPlan(t) ==
    /\ PrepareProxy(t) \/ PrepareRaises(t) \/ StopRedsocks(t) \/ UpdateRaises(t)
    /\ th[t].plan # <<>> /\ th[t].todo = <<>> /\ th'[t] = Idle

(* Every step but that of a command is one of these. *)
LEMMA Courses ==
    ASSUME TypeInv, NEW t \in Threads, Step(t)
    PROVE  RunCommand(t) \/ Onward(t) \/ Over(t) \/ EndOfPlan(t)
  <1> SUFFICES ASSUME ~RunCommand(t) PROVE Onward(t) \/ Over(t) \/ EndOfPlan(t)
    OBVIOUS
  <1>1. ThShape /\ ThreadTyped(th[t])
    BY DEF TypeInv, ThreadsTyped, ThreadTyped, ThShape
  <1>2. th[t].todo = <<>> /\ th[t].pc # "idle"
    BY DEF Step, CheckEnable, PrepareTor, PrepareTorFails, AskTor, AskTorAgain, PrepareProxy,
           PrepareProxyFails, PrepareGateway, PrepareRaises, Backup4, Backup6, Applied, Record, CheckV6,
           V6Blocked, ScanApplied, CheckDisable, Restore4, Restore6, RolledBack, StopRedsocks,
           StopRedsocksFails, Clear, Undone, ScanRemoved, UpdateRaises, TorService, At
  <1>3. th[t].plan # <<>>
    BY <1>1, <1>2 DEF ThreadTyped
  <1>4. ASSUME NEW result, Finish(t, result), th[t].pc \notin Applies PROVE Over(t)
    BY <1>1, <1>2, <1>3, <1>4, Finished DEF Over
  <1>5. ASSUME NEW l, Goto(t, l), Leads(Op(t), th[t].pc, l, <<>>) PROVE Onward(t)
    BY <1>1, <1>2, <1>3, <1>5, Gone DEF Onward
  <1>6. ASSUME NEW l, NEW cs, Run(t, l, cs), Leads(Op(t), th[t].pc, l, cs) PROVE Onward(t)
    <2>1. th'[t].pc = l /\ th'[t].todo = cs /\ th'[t].plan = th[t].plan
      BY <1>1, <1>6, Ran
    <2> QED BY <1>2, <1>3, <1>6, <2>1 DEF Onward
  <1>7. ASSUME NEW r, Become(t, r), r.plan = th[t].plan, Leads(Op(t), th[t].pc, r.pc, r.todo) PROVE Onward(t)
    <2>1. th'[t] = r
      BY <1>1, <1>7, Became
    <2> QED BY <1>2, <1>3, <1>7, <2>1 DEF Onward
  <1>8. CASE CheckEnable(t)
    <2>1. th[t].pc = "check" /\ Op(t) \in Enabling
      BY <1>8 DEF CheckEnable, At, Doing
    <2>2. \/ \E result : Finish(t, result) /\ th[t].pc \notin Applies
          \/ Run(t, "scan", ScanRules)
          \/ Op(t) # "scanOn" /\ Goto(t, "prepare")
      BY <1>8, <2>1 DEF CheckEnable, Applies
    <2>3. Leads(Op(t), "check", "scan", ScanRules)
      BY DEF Leads
    <2>4. Op(t) # "scanOn" => Leads(Op(t), "check", "prepare", <<>>)
      BY <2>1 DEF Leads, Enabling, Switching
    <2> QED BY <1>4, <1>5, <1>6, <2>1, <2>2, <2>3, <2>4
  <1>9. CASE \/ PrepareTor(t) \/ PrepareTorFails(t) \/ AskTor(t) \/ AskTorAgain(t) \/ PrepareProxyFails(t)
             \/ PrepareGateway(t) \/ StopRedsocksFails(t)
    <2>1. \/ \E result : Finish(t, result) /\ th[t].pc \notin Applies
          \/ \E l : Goto(t, l) /\ Leads(Op(t), th[t].pc, l, <<>>)
      BY <1>9 DEF Applies, PrepareTor, PrepareTorFails, AskTor, AskTorAgain, PrepareProxyFails,
                  PrepareGateway, StopRedsocksFails, At, Doing, Leads
    <2> QED BY <1>4, <1>5, <2>1
  <1>10. CASE PrepareProxy(t)
    <2>1. th[t].pc = "prepare" /\ Op(t) = "proxyOn"
      BY <1>10 DEF PrepareProxy, At, Doing
    <2>2. Goto(t, "save4") \/ Become(t, Idle)
      BY <1>10 DEF PrepareProxy
    <2>3. Leads(Op(t), "prepare", "save4", <<>>)
      BY <2>1 DEF Leads
    <2>4. Become(t, Idle) => th'[t] = Idle
      BY <1>1, Became
    <2> QED BY <1>2, <1>3, <1>5, <1>10, <2>1, <2>2, <2>3, <2>4 DEF EndOfPlan
  <1>11. CASE Backup4(t)
    <2>1. PICK b : Become(t, [th[t] EXCEPT !.pc = "save6", !.b4 = b])
      BY <1>11 DEF Backup4
    <2> DEFINE r == [th[t] EXCEPT !.pc = "save6", !.b4 = b]
    <2>2. r.plan = th[t].plan /\ r.pc = "save6" /\ r.todo = <<>>
      BY <1>1, <1>2 DEF ThShape, Idle
    <2>3. Leads(Op(t), th[t].pc, "save6", <<>>)
      BY <1>11 DEF Leads, Backup4, At
    <2>4. Become(t, r)
      BY <2>1
    <2> HIDE DEF r
    <2> QED BY <1>7, <2>2, <2>3, <2>4
  <1>12. CASE Backup6(t)
    <2> DEFINE cs == Rules(Op(t))
    <2>1. PICK b : Become(t, [th[t] EXCEPT !.pc = "apply", !.b6 = b, !.ok = TRUE, !.todo = cs])
      BY <1>12 DEF Backup6
    <2>2. Leads(Op(t), th[t].pc, "apply", cs)
      BY <1>12 DEF Leads, Backup6, At
    <2> HIDE DEF cs
    <2> DEFINE r == [th[t] EXCEPT !.pc = "apply", !.b6 = b, !.ok = TRUE, !.todo = cs]
    <2>3. r.plan = th[t].plan /\ r.pc = "apply" /\ r.todo = cs
      BY <1>1 DEF ThShape, Idle
    <2>4. Become(t, r)
      BY <2>1
    <2> HIDE DEF r
    <2> QED BY <1>7, <2>2, <2>3, <2>4
  <1>13. CASE Applied(t)
    <2>1. th[t].pc = "apply"
      BY <1>13 DEF Applied, At
    <2>2. Goto(t, "restore4") \/ Goto(t, "record") \/ Run(t, "gateway6", GatewayV6Rules)
      BY <1>13 DEF Applied
    <2>3. /\ Leads(Op(t), "apply", "restore4", <<>>) /\ Leads(Op(t), "apply", "record", <<>>)
          /\ Leads(Op(t), "apply", "gateway6", GatewayV6Rules)
      BY DEF Leads
    <2> QED BY <1>5, <1>6, <2>1, <2>2, <2>3
  <1>14. CASE Record(t)
    BY <1>5, <1>14 DEF Record, At, Leads
  <1>15. CASE CheckV6(t)
    <2>1. th[t].pc = "v6" /\ th[t].pc \notin Applies /\ (Finish(t, TRUE) \/ Run(t, "block6", BlockV6Rules))
      BY <1>15 DEF CheckV6, At, Applies
    <2>2. Leads(Op(t), "v6", "block6", BlockV6Rules)
      BY DEF Leads
    <2> QED BY <1>4, <1>6, <2>1, <2>2
  <1>16. CASE V6Blocked(t) \/ ScanApplied(t) \/ ScanRemoved(t) \/ RolledBack(t) \/ Clear(t) \/ TorService(t)
    <2>1. \E result : Finish(t, result) /\ th[t].pc \notin Applies
      BY <1>16 DEF At, Applies, V6Blocked, ScanApplied, ScanRemoved, RolledBack, Clear, Undone, TorService
    <2> QED BY <1>4, <2>1
  <1>17. CASE CheckDisable(t)
    <2>1. th[t].pc = "check" /\ th[t].pc \notin Applies /\ Op(t) \in Disabling
      BY <1>17 DEF CheckDisable, At, Doing, Applies
    <2>2. CASE Finish(t, FALSE)
      BY <1>4, <2>1, <2>2
    <2>3. CASE Run(t, "unscan", ScanRemoval)
      <3>1. Leads(Op(t), "check", "unscan", ScanRemoval)
        BY DEF Leads
      <3> QED BY <1>6, <2>1, <2>3, <3>1
    <2>4. CASE Become(t, [th[t] EXCEPT !.pc = "restore4", !.b4 = Backups(Op(t))[1],
                                       !.b6 = Backups(Op(t))[2]])
      <3> DEFINE b4 == Backups(Op(t))[1]
                 b6 == Backups(Op(t))[2]
      <3>1. Become(t, [th[t] EXCEPT !.pc = "restore4", !.b4 = b4, !.b6 = b6])
        BY <2>4
      <3> HIDE DEF b4, b6
      <3> DEFINE r == [th[t] EXCEPT !.pc = "restore4", !.b4 = b4, !.b6 = b6]
      <3>2. r.plan = th[t].plan /\ r.pc = "restore4" /\ r.todo = <<>>
        BY <1>1, <1>2 DEF ThShape, Idle
      <3>3. Leads(Op(t), "check", "restore4", <<>>)
        BY <2>1 DEF Leads
      <3>4. Become(t, r)
        BY <3>1
      <3> HIDE DEF r
      <3> QED BY <1>7, <2>1, <3>2, <3>3, <3>4
    <2> QED BY <1>17, <2>2, <2>3, <2>4 DEF CheckDisable
  <1>18. CASE Restore4(t)
    <2>1. th[t].pc = "restore4" /\ (Goto(t, "restore6") \/ Run(t, "open4", OpenV4Rules))
      BY <1>18 DEF Restore4, At
    <2>2. Leads(Op(t), "restore4", "restore6", <<>>) /\ Leads(Op(t), "restore4", "open4", OpenV4Rules)
      BY DEF Leads
    <2> QED BY <1>5, <1>6, <2>1, <2>2
  <1>19. CASE Restore6(t)
    <2>1. th[t].pc \in {"restore6", "open4"} /\ (Goto(t, "restored") \/ Run(t, "open6", OpenV6Rules))
      BY <1>19 DEF Restore6, At
    <2>2. Leads(Op(t), th[t].pc, "restored", <<>>) /\ Leads(Op(t), th[t].pc, "open6", OpenV6Rules)
      BY <2>1 DEF Leads
    <2> QED BY <1>5, <1>6, <2>1, <2>2
  <1>20. CASE StopRedsocks(t)
    <2>1. /\ th[t].pc \in {"restored", "open6"} /\ Op(t) = "proxyOff"
          /\ Goto(t, "clear") \/ Become(t, Idle)
      BY <1>20 DEF StopRedsocks, At, Doing
    <2>2. Leads(Op(t), th[t].pc, "clear", <<>>)
      BY <2>1 DEF Leads
    <2>3. Become(t, Idle) => th'[t] = Idle
      BY <1>1, Became
    <2> QED BY <1>2, <1>3, <1>5, <1>20, <2>1, <2>2, <2>3 DEF EndOfPlan
  <1>21. CASE PrepareRaises(t) \/ UpdateRaises(t)
    <2>1. th'[t] = Idle
      BY <1>1, <1>21, Became DEF PrepareRaises, UpdateRaises
    <2> QED BY <1>2, <1>3, <1>21, <2>1 DEF EndOfPlan
  <1> QED BY <1>8, <1>9, <1>10, <1>11, <1>12, <1>13, <1>14, <1>15, <1>16, <1>17, <1>18, <1>19, <1>20,
             <1>21 DEF Step

(* Where a disable function's update is near, and the steps that prepare   *)
(* for a switch.                                                           *)
After == {"restored", "open6", "clear"}
Preparing(t) ==
    \/ PrepareTor(t) \/ PrepareTorFails(t) \/ PrepareProxy(t) \/ PrepareProxyFails(t)
    \/ PrepareGateway(t) \/ PrepareRaises(t)

(* What a step other than a command changes: the rules, the daemons, the   *)
(* flags, and which of them are stale.                                     *)
LEMMA Effects ==
    ASSUME TypeInv, NEW t \in Threads, Step(t), ~RunCommand(t)
    PROVE  /\ UNCHANGED fw4 \/ (Restore4(t) /\ th[t].pc = "restore4" /\ th'[t].pc = "restore6")
           /\ \/ UNCHANGED <<daemons, unserved>>
              \/ Preparing(t) \/ AskTor(t) \/ StopRedsocks(t) \/ TorService(t)
           /\ (\A flag \in Switches : st'[flag] = st[flag]) \/ Record(t) \/ Clear(t)
           /\ \/ \A flag \in Switches : flag \in stale' <=> flag \in stale
              \/ Clear(t)
              \/ /\ EndOfPlan(t) /\ th[t].pc \in After /\ Doing(t, {"torOff", "proxyOff", "gwOff"})
                 /\ \A flag \in Switches : flag \in stale' <=> flag \in stale \/ flag = Flag[Op(t)]
  <1>1. ThShape /\ ThreadTyped(th[t]) /\ st = [f \in DOMAIN Off |-> st[f]]
    BY DEF TypeInv, ThreadsTyped, ThreadTyped, ThShape, StTyped
  <1>2. UNCHANGED fw4 \/ (Restore4(t) /\ th[t].pc = "restore4" /\ th'[t].pc = "restore6")
    <2>1. CASE Restore4(t)
      <3>1. th[t].pc = "restore4" /\ (UNCHANGED fw4 \/ Goto(t, "restore6"))
        BY <2>1 DEF Restore4, At
      <3> QED BY <1>1, <2>1, <3>1, Gone
    <2> QED BY <2>1 DEF Step, CheckEnable, PrepareTor, PrepareTorFails, AskTor, AskTorAgain, PrepareProxy,
              PrepareProxyFails, PrepareGateway, PrepareRaises, Backup4, Backup6, Applied, Record,
              CheckV6, V6Blocked, ScanApplied, CheckDisable, Restore6, RolledBack, StopRedsocks,
              StopRedsocksFails, Clear, ScanRemoved, UpdateRaises, TorService
  <1>3. \/ UNCHANGED <<daemons, unserved>>
        \/ Preparing(t) \/ AskTor(t) \/ StopRedsocks(t) \/ TorService(t)
    BY DEF Step, CheckEnable, AskTorAgain, Backup4, Backup6, Applied, Record, CheckV6, V6Blocked,
           ScanApplied, CheckDisable, Restore4, Restore6, RolledBack, StopRedsocksFails, Clear,
           ScanRemoved, UpdateRaises, Preparing, daemons, hist
  <1>4. (\A flag \in Switches : st'[flag] = st[flag]) \/ Record(t) \/ Clear(t)
    <2>1. CASE V6Blocked(t)
      BY <1>1, <2>1 DEF V6Blocked, Switches, Off
    <2>2. CASE ScanApplied(t) \/ ScanRemoved(t)
      BY <1>1, <2>2 DEF ScanApplied, ScanRemoved, Switches, Off
    <2> QED BY <2>1, <2>2 DEF Step, CheckEnable, PrepareTor, PrepareTorFails, AskTor, AskTorAgain,
              PrepareProxy, PrepareProxyFails, PrepareGateway, PrepareRaises, Backup4, Backup6, Applied,
              CheckV6, CheckDisable, Restore4, Restore6, RolledBack, StopRedsocks, StopRedsocksFails,
              UpdateRaises, TorService
  <1>5. \/ \A flag \in Switches : flag \in stale' <=> flag \in stale
        \/ Clear(t)
        \/ /\ EndOfPlan(t) /\ th[t].pc \in After /\ Doing(t, {"torOff", "proxyOff", "gwOff"})
           /\ \A flag \in Switches : flag \in stale' <=> flag \in stale \/ flag = Flag[Op(t)]
    <2>1. CASE UpdateRaises(t)
      <3>1. CASE Undone(t)
        <4>1. /\ th[t].pc \in After /\ th[t].todo = <<>> /\ Doing(t, {"torOff", "proxyOff", "gwOff"})
              /\ stale' = stale \cup {Flag[Op(t)], "v6"}
          BY <2>1, <3>1 DEF UpdateRaises, Undone, At, After, Doing
        <4>2. th'[t] = Idle
          BY <1>1, <2>1, Became DEF UpdateRaises
        <4> QED BY <2>1, <4>1, <4>2 DEF EndOfPlan, Doing, Switches
      <3> QED BY <2>1, <3>1 DEF UpdateRaises, Switches
    <2>2. CASE StopRedsocks(t)
      <3>1. CASE UNCHANGED stale
        BY <3>1
      <3>2. CASE stale' = stale \cup {"proxy", "v6"} /\ Become(t, Idle)
        <4>1. th[t].pc \in After /\ th[t].todo = <<>> /\ Doing(t, {"proxyOff"}) /\ th'[t] = Idle
          BY <1>1, <2>2, <3>2, Became DEF StopRedsocks, At, After
        <4> QED BY <2>2, <3>2, <4>1 DEF EndOfPlan, Doing, Switches, Flag
      <3> QED BY <2>2, <3>1, <3>2 DEF StopRedsocks
    <2>3. CASE ScanRemoved(t)
      BY <2>3 DEF ScanRemoved, Switches
    <2>4. CASE ~UpdateRaises(t) /\ ~StopRedsocks(t) /\ ~ScanRemoved(t) /\ ~Clear(t)
      <3>1. UNCHANGED stale
        BY <2>4 DEF Step, CheckEnable, PrepareTor, PrepareTorFails, AskTor, AskTorAgain, PrepareProxy,
              PrepareProxyFails, PrepareGateway, PrepareRaises, Backup4, Backup6, Applied, Record,
              CheckV6, V6Blocked, ScanApplied, CheckDisable, Restore4, Restore6, RolledBack,
              StopRedsocksFails, TorService, hist
      <3> QED BY <3>1
    <2> QED BY <2>1, <2>2, <2>3, <2>4
  <1> QED BY <1>2, <1>3, <1>4, <1>5

(* What stands between the record of a switch and its rules. *)
LEMMA AtLabels ==
    ASSUME TypeInv, Inv, NEW t \in Threads, Step(t), ~RunCommand(t)
    PROVE  /\ th[t].pc \in {"record", "gateway6"} => Record(t) \/ (UpdateRaises(t) /\ orphaned')
           /\ th[t].pc = "clear" => Clear(t) \/ UpdateRaises(t)
  <1>1. th[t].todo = <<>>
    BY DEF Step, CheckEnable, PrepareTor, PrepareTorFails, AskTor, AskTorAgain, PrepareProxy,
           PrepareProxyFails, PrepareGateway, PrepareRaises, Backup4, Backup6, Applied, Record, CheckV6,
           V6Blocked, ScanApplied, CheckDisable, Restore4, Restore6, RolledBack, StopRedsocks,
           StopRedsocksFails, Clear, Undone, ScanRemoved, UpdateRaises, TorService, At
  <1>2. th[t].pc \in {"record", "gateway6"} => Record(t) \/ UpdateRaises(t)
    BY DEF Step, CheckEnable, PrepareTor, PrepareTorFails, AskTor, AskTorAgain, PrepareProxy,
           PrepareProxyFails, PrepareGateway, PrepareRaises, Backup4, Backup6, Applied, Record, CheckV6,
           V6Blocked, ScanApplied, CheckDisable, Restore4, Restore6, RolledBack, StopRedsocks,
           StopRedsocksFails, Clear, Undone, ScanRemoved, UpdateRaises, TorService, At
  <1>3. th[t].pc = "clear" => Clear(t) \/ UpdateRaises(t)
    BY DEF Step, CheckEnable, PrepareTor, PrepareTorFails, AskTor, AskTorAgain, PrepareProxy,
           PrepareProxyFails, PrepareGateway, PrepareRaises, Backup4, Backup6, Applied, Record, CheckV6,
           V6Blocked, ScanApplied, CheckDisable, Restore4, Restore6, RolledBack, StopRedsocks,
           StopRedsocksFails, Clear, Undone, ScanRemoved, UpdateRaises, TorService, At
  <1>4. UpdateRaises(t) /\ th[t].pc \in {"record", "gateway6"} => orphaned'
    BY DEF UpdateRaises, Undone, At
  <1> QED BY <1>2, <1>3, <1>4

(* Whom rules may redirect to: the daemons of the switches that are on, not*)
(* only on record, and that of the switch whose rules are going in or out. *)
Aims(op) == IF op \in {"torOn", "gwOn"} THEN {"tor"} ELSE IF op = "proxyOn" THEN {"redsocks"} ELSE {}
Aim(r, s, g) ==
    (IF s.tor \/ s.gw THEN {"tor"} ELSE {})
    \cup (IF s.proxy /\ "proxy" \notin g THEN {"redsocks"} ELSE {})
    \cup (IF r.pc \in Applies THEN Aims(Head(r.plan)) ELSE {})
Dutiful(r) ==
    \A i \in 1 .. Len(r.todo) :
        r.todo[i].rule.target \in Redirecting =>
            r.pc = "apply" /\ r.todo[i].rule.target \in Aims(Head(r.plan))
Sent(r, s, g, f4) == AllAimed(f4, Aim(r, s, g)) /\ Dutiful(r)
Sends(t) == Sent(th[t], st, stale, fw4)

(* What redirects to few daemons redirects to no others. *)
LEMMA AimsGrow ==
    ASSUME NEW fw, NEW ds, AllAimed(fw, ds), NEW es, ds \subseteq es
    PROVE  AllAimed(fw, es)
  BY DEF AllAimed, Aimed

(* What redirects to none, to none but these. *)
LEMMA DirectAims ==
    ASSUME NEW fw, Direct(fw), NEW ds
    PROVE  AllAimed(fw, ds)
  BY DEF AllAimed, Aimed, Direct

Plainly(cs) == \A i \in 1 .. Len(cs) : cs[i].rule.target \notin Redirecting

(* The lists of rules redirect to the daemon of their switch, the others   *)
(* not at all.                                                             *)
LEMMA ListsAimed ==
    /\ Plainly(GatewayV6Rules) /\ Plainly(BlockV6Rules) /\ Plainly(OpenV4Rules) /\ Plainly(OpenV6Rules)
    /\ Plainly(ScanRules) /\ Plainly(ScanRemoval) /\ Plainly(<<>>)
    /\ \A op \in Switching : \A i \in 1 .. Len(Rules(op)) :
           Rules(op)[i].rule.target \in Redirecting => Rules(op)[i].rule.target \in Aims(op)
  <1> USE DEF Plainly, Redirecting, Flush, NewChain, RemoveChain, AppendRule, InsertRule, DeleteRule,
              AcceptAll, DropAll, Rule, Nothing, Lo, Established, Everything, RedirectedOnly, TorUid,
              TcpToTor, DnsToTor, Scanning, Counted
  <1>1. Plainly(GatewayV6Rules) /\ Plainly(BlockV6Rules)
    BY DEF GatewayV6Rules, BlockV6Rules
  <1>2. Plainly(OpenV4Rules) /\ Plainly(OpenV6Rules)
    BY DEF OpenV4Rules, OpenV6Rules
  <1>3. Plainly(ScanRules) /\ Plainly(ScanRemoval)
    BY DEF ScanRules, ScanRemoval
  <1>4. \A i \in 1 .. Len(TorRules) : TorRules[i].rule.target \in Redirecting => TorRules[i].rule.target = "tor"
    BY DEF TorRules
  <1>5. \A i \in 1 .. Len(ProxyRules) :
            ProxyRules[i].rule.target \in Redirecting => ProxyRules[i].rule.target = "redsocks"
    BY DEF ProxyRules
  <1>6. \A i \in 1 .. Len(GatewayRules) :
            GatewayRules[i].rule.target \in Redirecting => GatewayRules[i].rule.target = "tor"
    BY DEF GatewayRules
  <1>7. /\ Rules("torOn") = TorRules /\ Rules("proxyOn") = ProxyRules /\ Rules("gwOn") = GatewayRules
        /\ Aims("torOn") = {"tor"} /\ Aims("proxyOn") = {"redsocks"} /\ Aims("gwOn") = {"tor"}
    BY DEF Rules, Aims
  <1> HIDE DEF Redirecting
  <1>8. \A op \in Switching : \A i \in 1 .. Len(Rules(op)) :
           Rules(op)[i].rule.target \in Redirecting => Rules(op)[i].rule.target \in Aims(op)
    BY <1>4, <1>5, <1>6, <1>7 DEF Switching
  <1>9. Plainly(<<>>)
    OBVIOUS
  <1> QED BY <1>1, <1>2, <1>3, <1>8, <1>9

(* Nothing is redirected any more once what was found at first is back.    *)
LEMMA DirectThen ==
    ASSUME NEW r, NEW s, NEW g, NEW f4, NEW f6, NEW b, NEW f, Rested(r, s, f4, f6, b, f), Direct(b.v4),
           \/ r.pc \in AtRest /\ AllDown(s)
           \/ r.pc \in {"restore6", "open6", "restored", "clear"}
    PROVE  Direct(f4)
  BY DEF Rested, Good

(* A flag that is stale, or that a disable function is about to lower, is  *)
(* still up; this is needed of the proxy's.                                *)
Kept(r, s, g) == "proxy" \in g \/ (Does(r, {"proxyOff"}) /\ r.pc \in Restoring) => s.proxy
Keeps(t) == Kept(th[t], st, stale)

(* It stays so through every step of the thread. *)
LEMMA OwnKeeps ==
    ASSUME NEW t \in Threads, TypeInv, Inv, Keeps(t), Step(t)
    PROVE  Keeps(t)'
  <1> DEFINE a == th[t]
             b == th'[t]
  <1>1. ThreadTyped(a) /\ ThShape /\ StShape
    BY DEF TypeInv, ThreadsTyped, Inv
  <1>2. CASE RunCommand(t)
    <2>1. b.pc = a.pc /\ b.plan = a.plan /\ UNCHANGED <<st, stale>>
      BY <1>1, <1>2, CommandRun DEF RunCommand, hist
    <2> QED BY <2>1 DEF Keeps, Kept, Does
  <1> SUFFICES ASSUME ~RunCommand(t) PROVE Keeps(t)'
    BY <1>2
  <1>3. Onward(t) \/ Over(t) \/ EndOfPlan(t)
    BY Courses
  <1>4. b.pc \notin Restoring \/ Onward(t)
    BY <1>3 DEF Over, EndOfPlan, Idle, Restoring
  <1>5. CASE Record(t)
    <2>1. b.pc = "v6" /\ UNCHANGED stale
      BY <1>1, <1>5, Gone DEF Record, hist
    <2>2. st.proxy => st'.proxy
      BY <1>5, RecordedFlags DEF Switches
    <2> QED BY <2>1, <2>2 DEF Keeps, Kept, Restoring
  <1>6. CASE Clear(t)
    <2>1. /\ b.pc \notin Restoring /\ st' = Cleared(Op(t)) /\ stale' = stale \ {Flag[Op(t)], "v6"}
          /\ Op(t) \in {"torOff", "proxyOff", "gwOff"}
      <3>1. Finish(t, TRUE)
        BY <1>6 DEF Clear
      <3>2. b.pc \in {"idle", "check"}
        BY <1>1, <3>1, Finished
      <3> QED BY <1>6, <3>2 DEF Clear, Undone, Doing, Restoring
    <2>2. Op(t) # "proxyOff" => st'.proxy = st.proxy
      BY <1>1, <2>1 DEF Cleared, StShape, Off
    <2> QED BY <2>1, <2>2 DEF Keeps, Kept, Flag
  <1>7. CASE ~Record(t) /\ ~Clear(t)
    <2>1. st'.proxy = st.proxy
      BY <1>7, Effects DEF Switches
    <2>2. "proxy" \in stale' => st.proxy
      <3>1. \/ "proxy" \in stale' => "proxy" \in stale
            \/ a.pc \in After /\ Doing(t, {"torOff", "proxyOff", "gwOff"})
               /\ ("proxy" \in stale' => "proxy" \in stale \/ Flag[Op(t)] = "proxy")
        BY <1>7, Effects DEF Switches
      <3>2. Doing(t, {"torOff", "proxyOff", "gwOff"}) /\ Flag[Op(t)] = "proxy" => Does(a, {"proxyOff"})
        BY DEF Doing, Flag, Does, Op
      <3> QED BY <3>1, <3>2 DEF Keeps, Kept, After, Restoring
    <2>3. Does(b, {"proxyOff"}) /\ b.pc \in Restoring => st.proxy
      <3> SUFFICES ASSUME Does(b, {"proxyOff"}), b.pc \in Restoring PROVE st.proxy
        OBVIOUS
      <3>1. Op(t) = "proxyOff" /\ Does(a, {"proxyOff"}) /\ Leads(Op(t), a.pc, b.pc, b.todo)
        BY <1>4 DEF Onward, Does, Op
      <3>2. a.pc \in Restoring \/ a.pc = "check" \/ a.pc = "apply"
        BY <3>1 DEF Leads, Restoring
      <3>3. a.pc # "apply"
        BY <1>1, <3>1 DEF ThreadTyped, BeforeRecord, Switching, Op
      <3>4. CASE a.pc = "check"
        <4>1. CheckDisable(t)
          <5>1. CheckEnable(t) \/ CheckDisable(t) \/ TorService(t)
            BY <3>4 DEF Step, PrepareTor, PrepareTorFails, AskTor, AskTorAgain, PrepareProxy,
               PrepareProxyFails, PrepareGateway, PrepareRaises, Backup4, Backup6, Applied, Record,
               CheckV6, V6Blocked, ScanApplied, Restore4, Restore6, RolledBack, StopRedsocks,
               StopRedsocksFails, Clear, Undone, ScanRemoved, UpdateRaises, At
          <5>2. ~Doing(t, Enabling) /\ ~Doing(t, {"startTor", "stopTor"})
            BY <3>1 DEF Doing, Enabling
          <5> QED BY <5>1, <5>2 DEF CheckEnable, TorService
        <4>2. ~Finish(t, FALSE)
          <5>1. b.pc \notin {"idle", "check"}
            BY DEF Restoring
          <5> QED BY <1>1, <5>1, Finished
        <4>3. st[Flag[Op(t)]]
          BY <4>1, <4>2 DEF CheckDisable
        <4> QED BY <3>1, <4>3 DEF Flag
      <3> QED BY <3>1, <3>2, <3>3, <3>4 DEF Keeps, Kept
    <2> QED BY <2>1, <2>2, <2>3 DEF Keeps, Kept
  <1> QED BY <1>5, <1>6, <1>7

(* A command of the thread keeps to the daemons it may redirect to. *)
LEMMA CommandSends ==
    ASSUME NEW t \in Threads, TypeInv, Inv, Sends(t), RunCommand(t)
    PROVE  Sends(t)'
  <1> DEFINE a == th[t]
             b == th'[t]
             c == Head(a.todo)
  <1>1. /\ ThreadTyped(a) /\ ThShape /\ IsRuleset(fw4) /\ a.todo # <<>>
        /\ AllAimed(fw4, Aim(a, st, stale)) /\ Dutiful(a)
    BY DEF TypeInv, ThreadsTyped, MachineTyped, Inv, RunCommand, Sends, Sent
  <1>2. /\ a.todo \in Seq(Command) /\ c \in Command /\ c = a.todo[1]
        /\ Len(a.todo) \in Nat \ {0} /\ Len(Tail(a.todo)) = Len(a.todo) - 1
        /\ \A i \in 1 .. Len(Tail(a.todo)) : Tail(a.todo)[i] = a.todo[i + 1]
    BY <1>1, HeadTailProperties, EmptySeq, LenProperties DEF ThreadTyped
  <1>3. /\ b.pc = a.pc /\ b.plan = a.plan
        /\ CarriedOut(t) \/ Failed(t) \/ Tolerated(t)
    BY <1>1, CommandRun
  <1>4. UNCHANGED <<st, stale>>
    BY DEF RunCommand, hist
  <1>5. Aim(b, st', stale') = Aim(a, st, stale)
    BY <1>3, <1>4 DEF Aim
  <1>6. c.rule.target \in Redirecting => c.rule.target \in Aim(a, st, stale)
    <2>1. 1 \in 1 .. Len(a.todo)
      BY <1>2
    <2> QED BY <1>1, <1>2, <2>1 DEF Dutiful, Aim, Applies
  <1>7. AllAimed(fw4', Aim(a, st, stale))
    <2>1. UNCHANGED fw4 \/ (~Refused(fw4, c) /\ fw4' = Exec(fw4, c))
      BY <1>3 DEF CarriedOut, Failed, Tolerated, Firewall
    <2> DEFINE ds == Aim(a, st, stale)
    <2>2. AllAimed(fw4, ds) /\ (c.rule.target \in Redirecting => c.rule.target \in ds)
      BY <1>1, <1>6
    <2> HIDE DEF ds, c
    <2>3. AllAimed(fw4', ds)
      BY <1>1, <1>2, <2>1, <2>2, AimedExec
    <2> QED BY <2>3 DEF ds
  <1>8. Dutiful(b)
    <2>1. b.todo = <<>> \/ b.todo = Tail(a.todo)
      BY <1>3 DEF CarriedOut, Failed, Tolerated
    <2>2. CASE b.todo = <<>>
      BY <2>2 DEF Dutiful
    <2>3. CASE b.todo = Tail(a.todo)
      <3> SUFFICES ASSUME NEW i \in 1 .. Len(Tail(a.todo)), Tail(a.todo)[i].rule.target \in Redirecting
                   PROVE  b.pc = "apply" /\ Tail(a.todo)[i].rule.target \in Aims(Head(b.plan))
        BY <2>3 DEF Dutiful
      <3>1. Tail(a.todo)[i] = a.todo[i + 1] /\ i + 1 \in 1 .. Len(a.todo)
        BY <1>2
      <3> HIDE DEF a, b, c
      <3> QED BY <1>1, <1>3, <3>1 DEF Dutiful
    <2> QED BY <2>1, <2>2, <2>3
  <1> QED BY <1>5, <1>7, <1>8 DEF Sends, Sent

(* So does every other step of the thread. *)
LEMMA OwnSends ==
    ASSUME NEW t \in Threads, TypeInv, Inv, Hold(t), Keeps(t), Sends(t), Direct(base.v4), Step(t),
           Rests(t), Rests(t)', ~orphaned', UNCHANGED base
    PROVE  Sends(t)'
  <1> DEFINE a == th[t]
             b == th'[t]
  <1>1. /\ ThreadTyped(a) /\ ThShape
        /\ AllAimed(fw4, Aim(a, st, stale)) /\ Dutiful(a)
    BY DEF TypeInv, ThreadsTyped, MachineTyped, Inv, Sends, Sent
  <1>2. CASE RunCommand(t)
    BY <1>2, CommandSends
  <1> SUFFICES ASSUME ~RunCommand(t) PROVE Sends(t)'
    BY <1>2
  <1>3. Onward(t) \/ Over(t) \/ EndOfPlan(t)
    BY Courses
  <1>4. ASSUME \/ b.pc \in AtRest /\ AllDown(st')
               \/ b.pc \in {"restore6", "open6", "restored", "clear"}
        PROVE  AllAimed(fw4', Aim(b, st', stale'))
    <2>1. Rested(b, st', fw4', fw6', base', faults') /\ Direct(base'.v4)
      BY DEF Rests
    <2>2. Direct(fw4')
      BY <1>4, <2>1, DirectThen
    <2> QED BY <2>2, DirectAims
  <1>5. ASSUME UNCHANGED fw4, Aim(a, st, stale) \subseteq Aim(b, st', stale')
        PROVE  AllAimed(fw4', Aim(b, st', stale'))
    BY <1>1, <1>5, AimsGrow
  <1>6. Dutiful(b)
    <2>1. ASSUME Plainly(b.todo) PROVE Dutiful(b)
      BY <2>1 DEF Plainly, Dutiful
    <2>2. CASE Over(t) \/ EndOfPlan(t)
      <3>1. b.todo = <<>>
        BY <2>2 DEF Over, EndOfPlan, Idle
      <3> QED BY <2>1, <3>1, ListsAimed
    <2>3. CASE Onward(t)
      <3>1. \/ b.todo \in {<<>>, ScanRules, ScanRemoval, GatewayV6Rules, BlockV6Rules, OpenV4Rules, OpenV6Rules}
            \/ a.pc = "save6" /\ b.pc = "apply" /\ b.todo = Rules(Op(t))
        BY <2>3 DEF Onward, Leads
      <3>2. CASE a.pc = "save6" /\ b.pc = "apply" /\ b.todo = Rules(Op(t))
        <4>1. Op(t) \in Switching /\ b.plan = a.plan
          BY <1>1, <2>3, <3>2 DEF ThreadTyped, BeforeRecord, Op, Onward
        <4> QED BY <3>2, <4>1, ListsAimed DEF Dutiful, Op
      <3>3. CASE b.todo \in {<<>>, ScanRules, ScanRemoval, GatewayV6Rules, BlockV6Rules, OpenV4Rules, OpenV6Rules}
        <4>1. Plainly(b.todo)
          BY <3>3, ListsAimed
        <4> QED BY <2>1, <4>1
      <3> QED BY <3>1, <3>2, <3>3
    <2> QED BY <1>3, <2>2, <2>3
  <1>7. CASE Record(t)
    <2>1. /\ Op(t) \in Switching /\ st'[Flag[Op(t)]]
          /\ \A flag \in Switches : flag # Flag[Op(t)] => st'[flag] = st[flag]
      BY <1>7, RecordedFlags
    <2>2. UNCHANGED <<fw4, stale>> /\ (a.pc = "record" \/ a.pc = "gateway6")
      BY <1>7 DEF Record, At, hist
    <2>3. Op(t) = "proxyOn" => "proxy" \notin stale
      BY <1>7, RecordedFlags DEF Keeps, Kept, Flag
    <2>4. Aim(a, st, stale) \subseteq Aim(b, st', stale')
      BY <2>1, <2>2, <2>3 DEF Aim, Aims, Applies, Flag, Switches, Switching, Op
    <2> QED BY <1>5, <1>6, <2>2, <2>4 DEF Sends, Sent
  <1>8. CASE Clear(t)
    <2>1. Finish(t, TRUE) /\ Op(t) \in {"torOff", "proxyOff", "gwOff"} /\ st' = Cleared(Op(t)) /\ a.pc \in Restoring
      BY <1>8 DEF Clear, Undone, Doing, At, Restoring
    <2>2. b.pc \in {"idle", "check"}
      BY <1>1, <2>1, Finished
    <2>3. \A flag \in Switches : st[flag] => flag = Flag[Op(t)]
      BY <2>1 DEF Hold, Held, Undoes, Op
    <2>4. ~st'[Flag[Op(t)]] /\ \A flag \in Switches : flag # Flag[Op(t)] => st'[flag] = st[flag]
      BY <2>1, ClearedFlags DEF Inv
    <2>5. b.pc \in AtRest /\ AllDown(st')
      BY <2>2, <2>3, <2>4 DEF AllDown, AtRest
    <2> QED BY <1>4, <1>6, <2>5 DEF Sends, Sent
  <1>9. CASE ~Record(t) /\ ~Clear(t)
    <2>1. \A flag \in Switches : st'[flag] = st[flag]
      BY <1>9, Effects
    <2>2. CASE ~UNCHANGED fw4
      BY <1>4, <1>6, <2>2, Effects DEF Sends, Sent
    <2>3. CASE UNCHANGED fw4 /\ EndOfPlan(t) /\ a.pc \in After
      <3>1. Direct(fw4)
        BY <2>3, DirectThen DEF Rests, After
      <3>2. AllAimed(fw4', Aim(b, st', stale'))
        BY <2>3, <3>1, DirectAims
      <3> QED BY <1>6, <3>2 DEF Sends, Sent
    <2>4. CASE UNCHANGED fw4 /\ ~(EndOfPlan(t) /\ a.pc \in After)
      <3>1. \A flag \in Switches : flag \in stale' <=> flag \in stale
        BY <1>9, <2>4, Effects
      <3>2. CASE Onward(t)
        <4>1. \/ a.pc \notin Applies \/ b.pc \in Applies
              \/ b.pc \in {"restore6", "restored", "open6"}
              \/ a.pc \in {"record", "gateway6"}
          BY <3>2 DEF Onward, Leads, Applies
        <4>2. a.pc \notin {"record", "gateway6"}
          BY <1>9, AtLabels
        <4>3. CASE a.pc \notin Applies \/ b.pc \in Applies
          <5>1. Aim(a, st, stale) \subseteq Aim(b, st', stale')
            BY <2>1, <3>1, <3>2, <4>3 DEF Aim, Onward, Switches
          <5> QED BY <1>5, <1>6, <2>4, <5>1 DEF Sends, Sent
        <4> QED BY <1>4, <1>6, <4>1, <4>2, <4>3 DEF Sends, Sent
      <3>3. CASE Over(t) \/ EndOfPlan(t)
        <4>1. a.pc \notin Applies
          <5>1. a.pc \notin {"record", "gateway6"}
            BY <1>9, AtLabels
          <5> QED BY <3>3, <5>1 DEF Over, EndOfPlan, PrepareProxy, PrepareRaises, StopRedsocks,
                                    UpdateRaises, Undone, At, Applies
        <4>2. Aim(a, st, stale) \subseteq Aim(b, st', stale')
          BY <2>1, <3>1, <4>1 DEF Aim, Switches
        <4> QED BY <1>5, <1>6, <2>4, <4>2 DEF Sends, Sent
      <3> QED BY <1>3, <3>2, <3>3
    <2> QED BY <2>2, <2>3, <2>4
  <1> QED BY <1>7, <1>8, <1>9

(* A plan that stops Tor has switched Tor's kill switch off before, or     *)
(* finds it off: what full_stop does.                                      *)
Orderly(plan, up) ==
    \A i \in 1 .. Len(plan) : plan[i] = "stopTor" =>
        \/ \E j \in 1 .. i - 1 : plan[j] = "torOff" /\ \A k \in j + 1 .. i - 1 : plan[k] # "torOn"
        \/ ~up /\ \A k \in 1 .. i - 1 : plan[k] # "torOn"
Ordered(t) == Orderly(th[t].plan, st.tor)

(* A plan that is in order with the switch on is so with it off.           *)
LEMMA OrderlyAnyway ==
    ASSUME NEW plan \in Seq(Ops), Orderly(plan, TRUE), NEW up \in BOOLEAN
    PROVE  Orderly(plan, up)
  BY DEF Orderly

(* Tor's switch going on changes nothing for a plan that starts with it;   *)
LEMMA OrderlyStill ==
    ASSUME NEW plan \in Seq(Ops), plan # <<>>, Head(plan) = "torOn", Orderly(plan, FALSE)
    PROVE  Orderly(plan, TRUE)
  <1>1. plan[1] = "torOn" /\ Len(plan) \in Nat
    BY HeadTailProperties, LenProperties
  <1> SUFFICES ASSUME NEW i \in 1 .. Len(plan), plan[i] = "stopTor"
               PROVE  \E j \in 1 .. i - 1 : plan[j] = "torOff" /\ \A k \in j + 1 .. i - 1 : plan[k] # "torOn"
    BY DEF Orderly
  <1>2. 1 \in 1 .. i - 1
    BY <1>1
  <1> QED BY <1>1, <1>2 DEF Orderly

(* nor does the end of an operation that leaves it off where it was off,   *)
(* or was to go off.                                                       *)
LEMMA OrderlyRest ==
    ASSUME NEW plan \in Seq(Ops), plan # <<>>, NEW up \in BOOLEAN, Orderly(plan, up),
           NEW now \in BOOLEAN, now => up, Head(plan) = "torOff" => ~now
    PROVE  Orderly(Tail(plan), now)
  <1> DEFINE rest == Tail(plan)
  <1>1. /\ plan[1] = Head(plan) /\ Len(plan) \in Nat \ {0} /\ Len(rest) = Len(plan) - 1
        /\ \A i \in 1 .. Len(rest) : rest[i] = plan[i + 1]
    BY HeadTailProperties, EmptySeq, LenProperties
  <1> HIDE DEF rest
  <1> SUFFICES ASSUME NEW i \in 1 .. Len(rest), rest[i] = "stopTor"
               PROVE  \/ \E j \in 1 .. i - 1 : rest[j] = "torOff" /\ \A k \in j + 1 .. i - 1 : rest[k] # "torOn"
                      \/ ~now /\ \A k \in 1 .. i - 1 : rest[k] # "torOn"
    BY DEF Orderly, rest
  <1>2. i + 1 \in 1 .. Len(plan) /\ plan[i + 1] = "stopTor" /\ (i + 1) - 1 = i
    BY <1>1
  <1>3. \/ \E j \in 1 .. i : plan[j] = "torOff" /\ \A k \in j + 1 .. i : plan[k] # "torOn"
        \/ ~up /\ \A k \in 1 .. i : plan[k] # "torOn"
    BY <1>2 DEF Orderly
  <1>4. CASE ~up /\ \A k \in 1 .. i : plan[k] # "torOn"
    BY <1>1, <1>4
  <1>5. ASSUME NEW j \in 1 .. i, plan[j] = "torOff", \A k \in j + 1 .. i : plan[k] # "torOn"
        PROVE  \/ \E m \in 1 .. i - 1 : rest[m] = "torOff" /\ \A k \in m + 1 .. i - 1 : rest[k] # "torOn"
               \/ ~now /\ \A k \in 1 .. i - 1 : rest[k] # "torOn"
    <2>1. CASE j = 1
      BY <1>1, <1>5, <2>1
    <2>2. CASE j # 1
      <3>1. j - 1 \in 1 .. i - 1 /\ rest[j - 1] = "torOff"
        BY <1>1, <1>5, <2>2
      <3>2. \A k \in (j - 1) + 1 .. i - 1 : rest[k] # "torOn"
        BY <1>1, <1>5
      <3> QED BY <3>1, <3>2
    <2> QED BY <2>1, <2>2
  <1> QED BY <1>3, <1>4, <1>5

(* The operation that switches Tor's kill switch off ends with it off.     *)
LEMMA OverOff ==
    ASSUME NEW t \in Threads, TypeInv, Inv, Hold(t), Step(t), ~RunCommand(t), Over(t), Op(t) = "torOff",
           ~EndOfPlan(t)
    PROVE  ~st'.tor
  <1>1. th[t].plan # <<>> /\ ThShape /\ ThreadTyped(th[t]) /\ StShape
    BY DEF Over, Inv, TypeInv, ThreadsTyped
  <1>2. /\ th[t].pc \notin BeforeRecord \cup AfterRecord
        /\ th[t].pc \notin {"scan", "unscan"}
    BY <1>1 DEF ThreadTyped, Op, Switching, Hold, Held, Does
  <1>3. th'[t].pc \in {"idle", "check"} /\ th'[t].plan = Tail(th[t].plan) /\ Tail(th[t].plan) # th[t].plan
    BY <1>1, PlanMoves DEF Over, ThreadTyped
  <1>4. \/ CheckDisable(t) \/ Clear(t)
        \/ Restore4(t) \/ Restore6(t)
    <2>1. ~PrepareRaises(t) /\ ~UpdateRaises(t)
      <3>1. PrepareRaises(t) \/ UpdateRaises(t) => th'[t] = Idle
        BY <1>1, Became DEF PrepareRaises, UpdateRaises
      <3> QED BY <3>1 DEF EndOfPlan, Over
    <2> QED BY <1>1, <1>2, <2>1 DEF Step, CheckEnable, PrepareTor, PrepareTorFails, AskTor, AskTorAgain,
           PrepareProxy, PrepareProxyFails, PrepareGateway, Backup4, Backup6, Applied, Record, CheckV6,
           V6Blocked, ScanApplied, RolledBack, StopRedsocks, StopRedsocksFails, ScanRemoved, TorService,
           At, BeforeRecord, AfterRecord, Doing, Enabling
  <1>5. CASE Clear(t)
    BY <1>1, <1>5 DEF Clear, Undone, Cleared, StShape, Off
  <1>6. CASE CheckDisable(t)
    <2>1. CASE ~st[Flag[Op(t)]]
      BY <1>6, <2>1 DEF CheckDisable, Flag
    <2>2. CASE st[Flag[Op(t)]]
      <3> DEFINE r == [th[t] EXCEPT !.pc = "restore4", !.b4 = Backups(Op(t))[1], !.b6 = Backups(Op(t))[2]]
      <3>1. Become(t, r)
        BY <1>6, <2>2 DEF CheckDisable
      <3>2. r.plan = th[t].plan
        BY <1>1 DEF ThShape, Idle
      <3> HIDE DEF r
      <3> QED BY <1>1, <1>3, <3>1, <3>2, Became
    <2> QED BY <2>1, <2>2
  <1>7. CASE Restore4(t) \/ Restore6(t)
    <2>1. (\E l : Goto(t, l)) \/ (\E l : \E cs \in {OpenV4Rules, OpenV6Rules} : Run(t, l, cs))
      BY <1>7 DEF Restore4, Restore6
    <2>2. th'[t].plan = th[t].plan
      BY <1>1, <2>1, Gone, Ran
    <2> QED BY <1>3, <2>2
  <1> QED BY <1>4, <1>5, <1>6, <1>7

(* So the plan at hand stays one that stops Tor in order.                  *)
LEMMA OwnOrdered ==
    ASSUME NEW t \in Threads, TypeInv, Inv, Hold(t), Ordered(t), Step(t)
    PROVE  Ordered(t)'
  <1>1. /\ ThreadTyped(th[t]) /\ ThShape /\ th[t].plan \in Seq(Ops) /\ st.tor \in BOOLEAN
    BY DEF TypeInv, ThreadsTyped, StTyped, Inv, ThreadTyped, Flags
  <1>2. CASE RunCommand(t)
    <2>1. th'[t].plan = th[t].plan /\ UNCHANGED st
      BY <1>1, <1>2, CommandRun DEF RunCommand
    <2> QED BY <2>1 DEF Ordered
  <1>3. CASE ~RunCommand(t) /\ st'.tor = st.tor /\ Onward(t)
    BY <1>3 DEF Ordered, Onward
  <1>4. CASE ~RunCommand(t) /\ st'.tor # st.tor /\ Onward(t)
    <2>1. CASE Record(t)
      <3>1. Op(t) = "torOn" /\ st'.tor = TRUE /\ st.tor = FALSE
        <4>1. Op(t) \in Switching /\ \A flag \in Switches : flag # Flag[Op(t)] => st'[flag] = st[flag]
          BY <2>1, RecordedFlags
        <4>2. Flag[Op(t)] = "tor"
          BY <1>4, <4>1 DEF Switches
        <4>3. st'[Flag[Op(t)]] /\ ~st[Flag[Op(t)]]
          BY <2>1, RecordedFlags
        <4>4. Op(t) = "torOn"
          BY <4>1, <4>2 DEF Switching, Flag
        <4>5. st'.tor \in BOOLEAN
          BY <2>1, <4>4 DEF Record, Recorded, Inv, StShape, Off
        <4> QED BY <1>1, <4>2, <4>3, <4>4, <4>5
      <3> QED BY <1>1, <1>4, <3>1, OrderlyStill DEF Ordered, Onward, Op
    <2>2. CASE Clear(t)
      <3>1. Finish(t, TRUE)
        BY <2>2 DEF Clear
      <3>2. th'[t].plan = Tail(th[t].plan)
        BY <1>1, <3>1, Finished
      <3> QED BY <1>1, <1>4, <3>2, PlanMoves DEF Onward
    <2> QED BY <1>4, <2>1, <2>2, Effects DEF Switches
  <1>5. CASE ~RunCommand(t) /\ Over(t) /\ ~EndOfPlan(t)
    <2>1. st'.tor \in BOOLEAN /\ (st'.tor => st.tor)
      <3>1. CASE Record(t)
        <4>1. Goto(t, "v6")
          BY <3>1 DEF Record
        <4>2. th'[t].pc = "v6"
          BY <1>1, <4>1, Gone
        <4> QED BY <1>5, <4>2 DEF Over
      <3>2. CASE Clear(t)
        BY <1>1, <3>2 DEF Clear, Undone, Cleared, Inv, StShape, Off, Doing, Flags
      <3> QED BY <1>1, <1>5, <3>1, <3>2, Effects DEF Switches
    <2>2. Op(t) = "torOff" => ~st'.tor
      BY <1>5, OverOff
    <2> QED BY <1>1, <1>5, <2>1, <2>2, OrderlyRest DEF Ordered, Over, Op
  <1>6. CASE EndOfPlan(t)
    BY <1>6 DEF EndOfPlan, Idle, Ordered, Orderly
  <1> QED BY <1>2, <1>3, <1>4, <1>5, <1>6, Courses

(* The daemons packets go to, or will go to once the rules are in, if the  *)
(* switches could start them: Tor has read a torrc with the block of the   *)
(* switch alone, and is up once it has answered; redsocks is up until the  *)
(* rules are out.                                                          *)
Going == {"save4", "save6"} \cup Applies
OnTor(r, s) == s.tor \/ (Does(r, {"torOn"}) /\ r.pc \in Going)
Asking(r) == r.pc \in {"bootstrap", "waiting"}
OnRedsocks(r, s, g) ==
    \/ s.proxy /\ "proxy" \notin g /\ r.pc # "clear"
    \/ Does(r, {"proxyOn"}) /\ r.pc \in Going
FedByTor(r, s, c, d) ==
    /\ c = {"ks"} => d.read = {"ks"}
    /\ OnTor(r, s) \/ Asking(r) => c = {"ks"}
    /\ OnTor(r, s) => d.up
Fed(r, s, g, c, d, rs, u) ==
    /\ Asking(r) => Does(r, {"torOn"})
    /\ "tor" \notin u => FedByTor(r, s, c, d)
    /\ "redsocks" \notin u /\ OnRedsocks(r, s, g) => rs # "down"
Feeds(t) == Fed(th[t], st, stale, torrc, tor, redsocks, unserved)

(* Whoever needs Tor after a step needed it before, or has just heard from *)
(* it; whoever needs redsocks did, or has just started it.                 *)
LEMMA NeedsComeFrom ==
    ASSUME NEW t \in Threads, TypeInv, Inv, Step(t), ~RunCommand(t), Asking(th[t]) => Op(t) = "torOn"
    PROVE  /\ Asking(th'[t]) => Does(th'[t], {"torOn"})
           /\ OnTor(th'[t], st') =>
                  \/ OnTor(th[t], st)
                  \/ Asking(th[t]) /\ th'[t].pc = "save4"
           /\ Asking(th'[t]) => Asking(th[t]) \/ (Op(t) = "torOn" /\ th[t].pc = "prepare")
           /\ OnRedsocks(th'[t], st', stale') =>
                  \/ OnRedsocks(th[t], st, stale)
                  \/ Op(t) = "proxyOn" /\ th[t].pc = "prepare"
  <1> DEFINE a == th[t]
             b == th'[t]
  <1>1. ThreadTyped(a) /\ ThShape /\ StShape
    BY DEF TypeInv, ThreadsTyped, Inv
  <1>2. Onward(t) \/ Over(t) \/ EndOfPlan(t)
    BY Courses
  <1>3. st'.tor => st.tor \/ (Does(a, {"torOn"}) /\ a.pc \in Going)
    <2>1. CASE Record(t)
      <3>1. Op(t) \in Switching /\ \A flag \in Switches : flag # Flag[Op(t)] => st'[flag] = st[flag]
        BY <2>1, RecordedFlags
      <3>2. a.pc \in Going
        BY <2>1 DEF Record, At, Going, Applies
      <3>3. a.plan # <<>>
        BY <1>1, <3>2 DEF ThreadTyped, Going, Applies
      <3> QED BY <3>1, <3>2, <3>3 DEF Switching, Flag, Switches, Does, Op
    <2>2. CASE Clear(t)
      BY <1>1, <2>2 DEF Clear, Undone, Cleared, StShape, Off, Doing
    <2> QED BY <2>1, <2>2, Effects DEF Switches
  <1>4. st'.proxy /\ "proxy" \notin stale' =>
            /\ (st.proxy /\ "proxy" \notin stale) \/ (Does(a, {"proxyOn"}) /\ a.pc \in Going)
            /\ a.pc # "clear"
    <2>1. CASE Record(t)
      <3>1. Op(t) \in Switching /\ \A flag \in Switches : flag # Flag[Op(t)] => st'[flag] = st[flag]
        BY <2>1, RecordedFlags
      <3>2. a.pc \in Going /\ a.pc # "clear" /\ UNCHANGED stale
        BY <2>1 DEF Record, At, Going, Applies, hist
      <3>3. a.plan # <<>>
        BY <1>1, <3>2 DEF ThreadTyped, Going, Applies
      <3> QED BY <3>1, <3>2, <3>3 DEF Switching, Flag, Switches, Does, Op
    <2>2. CASE Clear(t)
      <3>1. /\ Op(t) \in {"torOff", "proxyOff", "gwOff"} /\ (a.pc = "clear" => Op(t) = "proxyOff")
            /\ st' = Cleared(Op(t)) /\ stale' = stale \ {Flag[Op(t)], "v6"}
        BY <2>2 DEF Clear, Undone, At, Doing
      <3>2. CASE Op(t) = "proxyOff"
        BY <1>1, <3>1, <3>2 DEF Cleared, StShape, Off
      <3>3. CASE Op(t) # "proxyOff"
        BY <1>1, <3>1, <3>3 DEF Cleared, StShape, Off, Flag
      <3> QED BY <3>2, <3>3
    <2>3. CASE ~Record(t) /\ ~Clear(t)
      <3>1. st'.proxy = st.proxy /\ ("proxy" \notin stale' => "proxy" \notin stale)
        BY <2>3, Effects DEF Switches
      <3>2. a.pc = "clear" => "proxy" \in stale'
        <4> SUFFICES ASSUME a.pc = "clear" PROVE "proxy" \in stale'
          OBVIOUS
        <4>1. UpdateRaises(t)
          BY <2>3, AtLabels
        <4>2. stale' = stale \cup {Flag[Op(t)], "v6"} /\ Op(t) = "proxyOff"
          BY <4>1 DEF UpdateRaises, Undone, At, Doing
        <4> QED BY <4>2 DEF Flag
      <3> QED BY <3>1, <3>2
    <2> QED BY <2>1, <2>2, <2>3
  <1>5. CASE ~Onward(t)
    <2>1. b.pc \in {"idle", "check"}
      BY <1>2, <1>5 DEF Over, EndOfPlan, Idle
    <2> QED BY <1>3, <1>4, <2>1 DEF OnTor, Asking, OnRedsocks, Going, Applies
  <1>6. CASE Onward(t)
    <2>1. /\ b.plan = a.plan /\ a.plan # <<>> /\ Leads(Op(t), a.pc, b.pc, b.todo)
          /\ \A ops : Does(b, ops) <=> Does(a, ops)
      BY <1>6 DEF Onward, Does
    <2>2. Op(t) = "torOn" /\ b.pc \in Going => a.pc \in Going \/ (a.pc \in {"bootstrap", "waiting"} /\ b.pc = "save4")
      BY <2>1 DEF Leads, Going, Applies, Disabling, Switching
    <2>3. b.pc \in {"bootstrap", "waiting"} => a.pc \in {"bootstrap", "waiting"} \/ (Op(t) = "torOn" /\ a.pc = "prepare")
      BY <2>1 DEF Leads
    <2>4. Op(t) = "proxyOn" /\ b.pc \in Going => a.pc \in Going \/ a.pc = "prepare"
      BY <2>1 DEF Asking, Leads, Going, Applies, Disabling, Switching
    <2> QED BY <1>3, <1>4, <2>1, <2>2, <2>3, <2>4 DEF OnTor, Asking, OnRedsocks, Does, Op
  <1> QED BY <1>5, <1>6

(* Tor is started with the torrc there is, if it is not up. *)
LEMMA TorStarts ==
    ASSUME TypeInv, torrc = {"ks"} => tor.read = {"ks"}, tor' = StartedTor
    PROVE  /\ torrc = {"ks"} => tor'.read = {"ks"}
           /\ tor.up => tor' = tor
           /\ torrc = {"ks"} /\ Here.systemctl => tor'.up
  BY DEF StartedTor, Started

(* The steps that start a switch's daemon, or fail to, feed it; *)
LEMMA PreparingFeeds ==
    ASSUME NEW t \in Threads, TypeInv, Inv, Here.systemctl, Feeds(t), Step(t), Preparing(t)
    PROVE  Feeds(t)'
  <1> DEFINE a == th[t]
             b == th'[t]
  <1>1. /\ ThreadTyped(a) /\ ThShape /\ Checked(t) /\ UNCHANGED st /\ ~RunCommand(t)
        /\ a.pc \in {"prepare", "save4"} /\ a.todo = <<>>
    BY DEF TypeInv, ThreadsTyped, Inv, Preparing, PrepareTor, PrepareTorFails, PrepareProxy,
           PrepareProxyFails, PrepareGateway, PrepareRaises, At, RunCommand
  <1>2. /\ ~Asking(a)
        /\ "tor" \notin unserved => FedByTor(a, st, torrc, tor)
        /\ "redsocks" \notin unserved /\ OnRedsocks(a, st, stale) => redsocks # "down"
    BY <1>1 DEF Feeds, Fed, Asking
  <1>3. /\ Asking(b) => Does(b, {"torOn"})
        /\ OnTor(b, st') => OnTor(a, st)
        /\ Asking(b) => Op(t) = "torOn" /\ a.pc = "prepare"
        /\ OnRedsocks(b, st', stale') => OnRedsocks(a, st, stale) \/ (Op(t) = "proxyOn" /\ a.pc = "prepare")
    BY <1>1, <1>2, NeedsComeFrom
  <1>4. a.pc = "prepare" /\ Doing(t, {"torOn", "gwOn"}) => ~OnTor(a, st)
    <2> SUFFICES ASSUME a.pc = "prepare", Doing(t, {"torOn", "gwOn"}) PROVE ~OnTor(a, st)
      OBVIOUS
    <2>1. Op(t) \in {"torOn", "gwOn"} /\ ~st[Flag[Op(t)]] /\ ~Conflict(Op(t))
      BY <1>1 DEF Checked, BeforeRecord, Doing
    <2>2. CASE Op(t) = "torOn"
      <3>1. Flag["torOn"] = "tor" /\ ~st[Flag["torOn"]]
        BY <2>1, <2>2 DEF Flag
      <3> QED BY <3>1 DEF OnTor, Going, Applies
    <2>3. CASE Op(t) = "gwOn"
      <3>1. ~st.tor
        BY <2>1, <2>3 DEF Conflict
      <3> QED BY <3>1 DEF OnTor, Going, Applies
    <2> QED BY <2>1, <2>2, <2>3
  <1>5. CASE PrepareTor(t)
    <2>1. /\ a.pc = "prepare" /\ Doing(t, {"torOn"}) /\ Op(t) = "torOn" /\ torrc' = {"ks"}
          /\ tor' = Restarted({"ks"}) /\ UNCHANGED redsocks
          /\ unserved' = IF torrc # {"ks"} THEN unserved \ {"tor"} ELSE unserved
      BY <1>5 DEF PrepareTor, At, Doing
    <2>2. ~OnTor(b, st')
      BY <1>3, <1>4, <2>1 DEF Doing
    <2>3. "tor" \notin unserved' => tor'.read = {"ks"}
      BY <1>2, <2>1 DEF FedByTor, Restarted, Started
    <2> QED BY <1>2, <1>3, <2>1, <2>2, <2>3 DEF Feeds, Fed, FedByTor
  <1>6. CASE PrepareTorFails(t)
    <2>1. "tor" \in unserved' /\ UNCHANGED redsocks /\ Op(t) = "torOn"
          /\ ("redsocks" \notin unserved' => "redsocks" \notin unserved)
      BY <1>6 DEF PrepareTorFails, Doing
    <2> QED BY <1>2, <1>3, <2>1 DEF Feeds, Fed
  <1>7. CASE PrepareProxy(t)
    <2>1. /\ a.pc = "prepare" /\ redsocks' # "down" /\ UNCHANGED <<tor, torrc>> /\ Op(t) = "proxyOn"
          /\ ("tor" \notin unserved' => "tor" \notin unserved)
      BY <1>7 DEF PrepareProxy, At, Doing
    <2> QED BY <1>2, <1>3, <2>1 DEF Feeds, Fed, FedByTor
  <1>8. CASE PrepareProxyFails(t)
    <2>1. /\ "redsocks" \in unserved' /\ UNCHANGED <<tor, torrc>> /\ Op(t) = "proxyOn"
          /\ ("tor" \notin unserved' => "tor" \notin unserved)
      BY <1>8 DEF PrepareProxyFails, Doing
    <2> QED BY <1>2, <1>3, <2>1 DEF Feeds, Fed, FedByTor
  <1>9. CASE PrepareGateway(t)
    <2>1. /\ a.pc = "prepare" /\ Doing(t, {"gwOn"}) /\ Op(t) = "gwOn" /\ torrc' = torrc \cup {"gw"}
          /\ UNCHANGED <<redsocks, tor, unserved>> /\ torrc' # {"ks"}
      BY <1>9 DEF PrepareGateway, At, Doing, hist
    <2>2. ~OnTor(b, st')
      BY <1>3, <1>4, <2>1 DEF Doing
    <2> QED BY <1>2, <1>3, <2>1, <2>2 DEF Feeds, Fed, FedByTor
  <1>10. CASE PrepareRaises(t)
    <2>1. b = Idle /\ UNCHANGED <<redsocks, tor, unserved, stale>>
      BY <1>1, <1>10, Became DEF PrepareRaises, hist
    <2>2. ~Asking(b) /\ (OnRedsocks(b, st', stale') => OnRedsocks(a, st, stale))
      BY <1>1, <2>1 DEF Asking, OnRedsocks, Idle, Does
    <2>3. CASE UNCHANGED torrc
      BY <1>2, <1>3, <2>1, <2>2, <2>3 DEF Feeds, Fed, FedByTor
    <2>4. CASE a.pc = "prepare" /\ WritesTorrc(t) /\ torrc' = {}
      <3>1. ~OnTor(b, st')
        BY <1>3, <1>4, <2>4 DEF WritesTorrc, Doing
      <3> QED BY <1>2, <2>1, <2>2, <2>4, <3>1 DEF Feeds, Fed, FedByTor
    <2> QED BY <1>10, <2>3, <2>4 DEF PrepareRaises, At
  <1> QED BY <1>5, <1>6, <1>7, <1>8, <1>9, <1>10 DEF Preparing

(* what t feeds on stays fed through its other steps. *)
LEMMA OwnFeeds ==
    ASSUME NEW t \in Threads, TypeInv, Inv, Hold(t), Here.systemctl, Ordered(t), Feeds(t), Step(t)
    PROVE  Feeds(t)'
  <1> DEFINE a == th[t]
             b == th'[t]
  <1>1. ThreadTyped(a) /\ ThShape /\ StShape /\ Checked(t) /\ tor = [up |-> tor.up, read |-> tor.read]
    BY DEF TypeInv, ThreadsTyped, MachineTyped, Inv
  <1>2. /\ Asking(a) => Does(a, {"torOn"})
        /\ "tor" \notin unserved => FedByTor(a, st, torrc, tor)
        /\ "redsocks" \notin unserved /\ OnRedsocks(a, st, stale) => redsocks # "down"
    BY DEF Feeds, Fed
  <1>3. CASE RunCommand(t)
    <2>1. b.pc = a.pc /\ b.plan = a.plan /\ UNCHANGED <<st, stale, unserved, daemons>>
      BY <1>1, <1>3, CommandRun DEF RunCommand, hist
    <2>2. /\ Asking(b) = Asking(a) /\ OnTor(b, st') = OnTor(a, st)
          /\ OnRedsocks(b, st', stale') = OnRedsocks(a, st, stale)
          /\ (Does(b, {"torOn"}) <=> Does(a, {"torOn"}))
      BY <2>1 DEF Asking, OnTor, OnRedsocks, Does
    <2> QED BY <1>2, <2>1, <2>2 DEF Feeds, Fed, FedByTor, daemons
  <1>4. CASE Preparing(t)
    BY <1>4, PreparingFeeds
  <1> SUFFICES ASSUME ~RunCommand(t), ~Preparing(t) PROVE Feeds(t)'
    BY <1>3, <1>4
  <1>5. /\ Asking(b) => Does(b, {"torOn"})
        /\ OnTor(b, st') => \/ OnTor(a, st)
                            \/ Asking(a) /\ b.pc = "save4"
        /\ Asking(b) => Asking(a) \/ (Op(t) = "torOn" /\ a.pc = "prepare")
        /\ OnRedsocks(b, st', stale') => \/ OnRedsocks(a, st, stale)
                                         \/ Op(t) = "proxyOn" /\ a.pc = "prepare"
    <2>1. Asking(a) => Op(t) = "torOn"
      BY <1>2 DEF Does, Op
    <2> QED BY <2>1, NeedsComeFrom
  <1>6. Asking(a) => AskTor(t) \/ AskTorAgain(t)
    BY DEF Step, Preparing, CheckEnable, Backup4, Asking, Backup6, Applied, Record, CheckV6, V6Blocked,
           ScanApplied, CheckDisable, Restore4, Restore6, RolledBack, StopRedsocks, StopRedsocksFails,
           Clear, Undone, ScanRemoved, UpdateRaises, TorService, At
  <1>7. Asking(a) /\ b.pc = "save4" => tor.up /\ UNCHANGED <<daemons, unserved>>
    <2>1. CASE AskTorAgain(t)
      <3>1. tor.up \/ Finish(t, FALSE)
        BY <2>1 DEF AskTorAgain
      <3>2. Finish(t, FALSE) => b.pc # "save4"
        BY <1>1, Finished
      <3> QED BY <2>1, <3>1, <3>2 DEF AskTorAgain, hist
    <2>2. CASE AskTor(t)
      <3>1. (tor.up /\ tor' = tor) \/ Goto(t, "waiting")
        BY <2>2 DEF AskTor
      <3>2. Goto(t, "waiting") => b.pc # "save4"
        BY <1>1, Gone
      <3> QED BY <2>2, <3>1, <3>2 DEF AskTor, daemons, hist
    <2> QED BY <1>6, <2>1, <2>2
  <1>8. a.pc # "prepare"
    BY DEF Step, Preparing, CheckEnable, AskTor, AskTorAgain, Backup4, Backup6, Applied, Record, CheckV6,
           V6Blocked, ScanApplied, CheckDisable, Restore4, Restore6, RolledBack, StopRedsocks,
           StopRedsocksFails, Clear, Undone, ScanRemoved, UpdateRaises, TorService, At
  <1>9. CASE AskTor(t)
    <2>1. /\ Asking(a) /\ UNCHANGED <<st, torrc, redsocks, unserved>>
          /\ tor' = StartedTor \/ tor' = tor
      BY <1>9 DEF AskTor, At, Asking, hist
    <2>2. "tor" \notin unserved => torrc = {"ks"} /\ tor'.read = {"ks"} /\ (tor.up => tor' = tor)
      BY <1>2, <2>1, TorStarts DEF FedByTor
    <2>3. "tor" \notin unserved /\ OnTor(b, st') => tor.up
      BY <1>2, <1>5, <1>7 DEF FedByTor
    <2> QED BY <1>2, <1>5, <1>8, <2>1, <2>2, <2>3 DEF Feeds, Fed, FedByTor
  <1>10. CASE StopRedsocks(t)
    <2>1. /\ Op(t) = "proxyOff" /\ Goto(t, "clear") /\ UNCHANGED <<st, torrc, tor, unserved>>
          /\ a.pc \notin {"bootstrap", "waiting"}
      BY <1>10 DEF StopRedsocks, Doing, At
    <2>2. b.pc = "clear"
      BY <1>1, <2>1, Gone
    <2>3. ~OnRedsocks(b, st', stale') /\ ~Asking(a)
      BY <2>1, <2>2 DEF OnRedsocks, Going, Applies, Asking
    <2> QED BY <1>2, <1>5, <1>8, <2>1, <2>3 DEF Feeds, Fed, FedByTor
  <1>11. CASE TorService(t)
    <2>1. a.pc = "check" /\ a.plan # <<>> /\ UNCHANGED <<st, torrc, redsocks, unserved>>
      BY <1>11 DEF TorService, At, Doing, hist
    <2>2. ~Asking(a) /\ (OnTor(a, st) => st.tor)
      BY <2>1 DEF Asking, OnTor, Going, Applies
    <2>3. CASE tor' = tor
      BY <1>2, <1>5, <1>8, <2>1, <2>2, <2>3 DEF Feeds, Fed, FedByTor
    <2>4. CASE Op(t) = "startTor" /\ tor' = StartedTor
      <3>1. "tor" \notin unserved => (torrc = {"ks"} => tor'.read = {"ks"}) /\ (tor.up => tor' = tor)
        BY <1>2, <2>4, TorStarts DEF FedByTor
      <3> QED BY <1>2, <1>5, <1>8, <2>1, <2>2, <3>1 DEF Feeds, Fed, FedByTor
    <2>5. CASE Op(t) = "stopTor"
      <3>1. tor'.read = tor.read
        BY <1>1, <1>11, <2>5 DEF TorService
      <3>2. a.plan[1] = "stopTor" /\ 1 \in 1 .. Len(a.plan)
        BY <1>1, <2>1, <2>5, HeadTailProperties, EmptySeq, LenProperties DEF ThreadTyped, Op
      <3>3. ~st.tor
        BY <3>2 DEF Ordered, Orderly
      <3> QED BY <1>2, <1>5, <1>8, <2>1, <2>2, <3>1, <3>3 DEF Feeds, Fed, FedByTor
    <2> QED BY <1>11, <2>3, <2>4, <2>5 DEF TorService, Doing
  <1>12. CASE UNCHANGED <<daemons, unserved>>
    BY <1>2, <1>5, <1>7, <1>8, <1>12 DEF Feeds, Fed, FedByTor, daemons
  <1> QED BY <1>9, <1>10, <1>11, <1>12, Effects

(* On machines with systemctl, whose rulesets found at first redirect to   *)
(* none of the two daemons, nobody stops Tor under its switch: t's plans   *)
(* switch it off before they stop Tor, the other threads' never stop it.   *)
Systemd == \A name \in DOMAIN Machines : Machines[name].systemctl
DirectBases == \A name \in DOMAIN Machines : \A fw \in Machines[name].bases4 : Direct(fw)
StopsInOrder(t) ==
    \A name \in DOMAIN Machines :
        /\ \A plan \in Machines[name].plans[t] : Orderly(plan, TRUE)
        /\ \A u \in Threads \ {t} : Machines[name].plans[u] \subseteq Seq(BystanderOps \ {"stopTor"})
NeverStops(r) == r.plan \in Seq(BystanderOps \ {"stopTor"})
Served(t) ==
    /\ Direct(base.v4) /\ Ordered(t) /\ Keeps(t) /\ Feeds(t) /\ (~orphaned => Sends(t))
    /\ \A u \in Threads \ {t} : NeverStops(th[u])

(* So it is at first. *)
LEMMA ServedInit ==
    ASSUME NEW t \in Threads, DirectBases, Init
    PROVE  Served(t)
  <1>1. /\ th[t] = Idle /\ st = Off /\ on \in DOMAIN Machines
        /\ Direct(fw4) /\ base.v4 = fw4 /\ tor.read = torrc /\ stale = {}
    BY DEF Init, DirectBases, Here, Started
  <1>2. Ordered(t)
    BY <1>1 DEF Ordered, Orderly, Idle
  <1>3. Dutiful(Idle)
    BY DEF Dutiful, Idle
  <1>4. Sends(t)
    BY <1>1, <1>3, DirectAims DEF Sends, Sent
  <1>5. Feeds(t)
    BY <1>1 DEF Feeds, Fed, FedByTor, OnTor, OnRedsocks, Asking, Does, Idle, Off
  <1>6. \A u \in Threads : NeverStops(th[u])
    <2>1. Idle.plan = <<>> /\ \A u \in Threads : th[u] = Idle
      BY DEF Init, Idle
    <2> QED BY <2>1, EmptySeq DEF NeverStops
  <1>7. Keeps(t)
    BY <1>1 DEF Keeps, Kept, Does, Idle
  <1> QED BY <1>1, <1>2, <1>4, <1>5, <1>6, <1>7 DEF Served

(* A thread that never stops Tor goes on not to; *)
LEMMA NeverStopsStep ==
    ASSUME TypeInv, NEW u \in Threads, NeverStops(th[u]), Step(u)
    PROVE  NeverStops(th'[u])
  <1>1. th[u].plan \in Seq(BystanderOps \ {"stopTor"}) /\ ThShape
    BY DEF NeverStops, TypeInv, ThreadsTyped, ThreadTyped, ThShape
  <1>2. CASE RunCommand(u)
    BY <1>1, <1>2, CommandRun DEF NeverStops
  <1>3. CASE Onward(u)
    BY <1>1, <1>3 DEF Onward, NeverStops
  <1>4. CASE Over(u)
    <2>1. Tail(th[u].plan) \in Seq(BystanderOps \ {"stopTor"})
      BY <1>1, <1>4, HeadTailProperties, EmptySeq DEF Over
    <2> QED BY <1>4, <2>1 DEF Over, NeverStops
  <1>5. CASE EndOfPlan(u)
    BY <1>5 DEF EndOfPlan, Idle, NeverStops
  <1> QED BY <1>2, <1>3, <1>4, <1>5, Courses

(* and what it does feeds thread t or leaves it alone. *)
LEMMA AsideServed ==
    ASSUME NEW t \in Threads, TypeInv, Inv, Here.systemctl, Ordered(t), Keeps(t), Feeds(t),
           NEW u \in Threads \ {t}, Bystanding(th[u]), NeverStops(th[u]), Step(u)
    PROVE  Ordered(t)' /\ Keeps(t)' /\ Feeds(t)' /\ (Sends(t) => Sends(t)')
  <1>1. /\ th'[t] = th[t] /\ ScanOnly(st, st') /\ ScanCommand(fw4, fw4') /\ ThShape /\ StShape
        /\ IsRuleset(fw4) /\ unserved' = unserved
        /\ "proxy" \in stale' <=> "proxy" \in stale
    BY BystanderStep DEF Inv, TypeInv, MachineTyped, ScanMishap
  <1>2. \A flag \in Switches : st'[flag] = st[flag]
    BY <1>1 DEF ScanOnly, StShape, Switches, Off
  <1>3. Ordered(t)'
    BY <1>1, <1>2 DEF Ordered, Switches
  <1>4. Aim(th'[t], st', stale') = Aim(th[t], st, stale)
    BY <1>1, <1>2 DEF Aim, Switches
  <1>5. ASSUME Sends(t) PROVE Sends(t)'
    <2> DEFINE ds == Aim(th[t], st, stale)
    <2>1. AllAimed(fw4, ds)
      BY <1>5 DEF Sends, Sent
    <2> HIDE DEF ds
    <2>2. ASSUME fw4' = fw4 PROVE AllAimed(fw4', ds)
      BY <2>1, <2>2
    <2>3. ASSUME NEW c \in Command, ScanWork(c), ~Refused(fw4, c), fw4' = Exec(fw4, c)
          PROVE  AllAimed(fw4', ds)
      <3>1. c.rule.target \notin Redirecting
        BY <2>3 DEF ScanWork, Redirecting
      <3> QED BY <1>1, <2>1, <2>3, <3>1, AimedExec
    <2>4. AllAimed(fw4', ds)
      BY <1>1, <2>1, <2>2, <2>3 DEF ScanCommand
    <2>5. AllAimed(fw4', Aim(th'[t], st', stale'))
      BY <1>4, <2>4 DEF ds
    <2>6. Dutiful(th'[t])
      BY <1>1, <1>5 DEF Sends, Sent
    <2> QED BY <2>5, <2>6 DEF Sends, Sent
  <1>6. /\ OnTor(th'[t], st') = OnTor(th[t], st)
        /\ OnRedsocks(th'[t], st', stale') = OnRedsocks(th[t], st, stale)
    BY <1>1, <1>2 DEF OnTor, OnRedsocks, Switches
  <1>7. /\ Asking(th[t]) => Does(th[t], {"torOn"})
        /\ "tor" \notin unserved => FedByTor(th[t], st, torrc, tor)
        /\ "redsocks" \notin unserved /\ OnRedsocks(th[t], st, stale) => redsocks # "down"
    BY DEF Feeds, Fed
  <1>8. UNCHANGED daemons \/ (tor' = StartedTor /\ UNCHANGED <<torrc, redsocks>>)
    <2>1. CASE RunCommand(u)
      BY <2>1 DEF RunCommand
    <2>2. CASE TorService(u)
      <3>1. th[u].plan # <<>> /\ Op(u) # "stopTor" /\ Op(u) \in {"startTor", "stopTor"}
        BY <2>2, HeadTailProperties, EmptySeq DEF TorService, Doing, NeverStops, Op, BystanderOps
      <3> QED BY <2>2, <3>1 DEF TorService, daemons
    <2>3. th[u].pc \in {"idle", "check", "scan", "unscan"}
      BY DEF Bystanding
    <2>4. ~Preparing(u) /\ ~AskTor(u) /\ ~StopRedsocks(u)
      BY <2>3 DEF Preparing, PrepareTor, PrepareTorFails, PrepareProxy, PrepareProxyFails, PrepareGateway,
                  PrepareRaises, AskTor, StopRedsocks, At
    <2> QED BY <2>1, <2>2, <2>4, Effects
  <1>9. Feeds(t)'
    <2>1. CASE UNCHANGED daemons
      BY <1>1, <1>6, <1>7, <2>1 DEF Feeds, Fed, FedByTor, daemons
    <2>2. CASE tor' = StartedTor /\ UNCHANGED <<torrc, redsocks>>
      <3>1. "tor" \notin unserved => (torrc = {"ks"} => tor'.read = {"ks"}) /\ (tor.up => tor' = tor)
        BY <1>7, <2>2, TorStarts DEF FedByTor
      <3> QED BY <1>1, <1>6, <1>7, <2>2, <3>1 DEF Feeds, Fed, FedByTor
    <2> QED BY <1>8, <2>1, <2>2
  <1>10. Keeps(t)'
    BY <1>1, <1>2 DEF Keeps, Kept, Switches
  <1> QED BY <1>3, <1>5, <1>9, <1>10

(* The invariant is inductive. *)
LEMMA ServedNext ==
    ASSUME NEW t, SwitchesBelongTo(t), NoneKilled, Systemd, StopsInOrder(t),
           HoldInv(t), ~orphaned => Rests(t), ~orphaned' => Rests(t)', Served(t), [Next]_vars
    PROVE  Served(t)'
  <1>1. /\ t \in Threads /\ TypeInv /\ Inv /\ Hold(t) /\ ThShape /\ on \in DOMAIN Machines
        /\ Here.systemctl /\ \A u \in Threads \ {t} : Bystanding(th[u])
    BY DEF SwitchesBelongTo, HoldInv, Inv, TypeInv, MachineTyped, Bystanders, Systemd, Here
  <1>2. /\ Direct(base.v4) /\ Ordered(t) /\ Keeps(t) /\ Feeds(t)
        /\ \A u \in Threads \ {t} : NeverStops(th[u])
        /\ ~orphaned => Sends(t)
    BY DEF Served
  <1>3. CASE Step(t)
    <2>1. UNCHANGED base
      BY <1>1, <1>3, FaultsGrow
    <2>2. \A u \in Threads \ {t} : th'[u] = th[u]
      BY <1>1, <1>3, StepFlows DEF Flow
    <2>3. Ordered(t)' /\ Keeps(t)' /\ Feeds(t)'
      BY <1>1, <1>2, <1>3, <2>1, OwnOrdered, OwnKeeps, OwnFeeds
    <2>4. ASSUME ~orphaned' PROVE Sends(t)'
      <3>1. ~orphaned
        BY <1>1, <1>3, <2>4, OrphanedStays
      <3> QED BY <1>1, <1>2, <1>3, <2>1, <2>4, <3>1, OwnSends
    <2> QED BY <1>2, <2>1, <2>2, <2>3, <2>4 DEF Served
  <1>4. ASSUME NEW u \in Threads \ {t}, Step(u) PROVE Served(t)'
    <2>1. UNCHANGED base
      BY <1>1, <1>4, FaultsGrow
    <2>2. \A w \in Threads \ {u} : th'[w] = th[w]
      BY <1>1, <1>4, BystanderStep
    <2>3. Ordered(t)' /\ Keeps(t)' /\ Feeds(t)' /\ (Sends(t) => Sends(t)')
      BY <1>1, <1>2, <1>4, AsideServed
    <2>4. NeverStops(th'[u])
      BY <1>1, <1>2, <1>4, NeverStopsStep
    <2>5. ~orphaned' => ~orphaned
      BY <1>1, <1>4, OrphanedStays
    <2> QED BY <1>2, <2>1, <2>2, <2>3, <2>4, <2>5 DEF Served
  <1>5. ASSUME NEW u \in Threads, NEW plan \in Here.plans[u], Ask(u, plan) PROVE Served(t)'
    <2> DEFINE r == [Idle EXCEPT !.plan = plan, !.pc = "check"]
    <2>1. r.pc = "check" /\ r.plan = plan /\ r.todo = <<>>
      BY DEF Idle
    <2>2. /\ Become(u, r) /\ th[u].pc = "idle"
          /\ UNCHANGED <<st, fw4, base, daemons, stale, orphaned, unserved>>
      BY <1>5 DEF Ask
    <2> HIDE DEF r
    <2>3. th'[u] = r /\ \A w \in Threads \ {u} : th'[w] = th[w]
      BY <1>1, <2>2, Became
    <2>4. CASE u # t
      <3>1. NeverStops(r)
        BY <1>1, <1>5, <2>1, <2>4 DEF StopsInOrder, NeverStops, Here
      <3>2. Ordered(t)' /\ Keeps(t)' /\ Feeds(t)' /\ (~orphaned' => Sends(t)')
        BY <1>1, <1>2, <2>2, <2>3, <2>4 DEF Ordered, Keeps, Sends, Feeds, daemons
      <3> QED BY <1>1, <1>2, <2>2, <2>3, <2>4, <3>1, <3>2 DEF Served
    <2>5. CASE u = t
      <3>1. Ordered(t)'
        <4>1. plan \in Seq(Ops) /\ Orderly(plan, TRUE) /\ st.tor \in BOOLEAN
          BY <1>1, <1>5, <2>5, HereTyped DEF StopsInOrder, Here, TypeInv, StTyped, Flags
        <4>2. Orderly(plan, st.tor)
          BY <4>1, OrderlyAnyway
        <4> QED BY <2>1, <2>2, <2>3, <2>5, <4>2 DEF Ordered
      <3>2. Aim(r, st, stale) = Aim(th[t], st, stale)
        BY <2>1, <2>2, <2>5 DEF Aim, Applies
      <3>3. Dutiful(r)
        BY <2>1 DEF Dutiful
      <3>4. ~orphaned' => Sends(t)'
        BY <1>2, <2>2, <2>3, <2>5, <3>2, <3>3 DEF Sends, Sent
      <3>5. Feeds(t)'
        <4>1. /\ OnTor(r, st) = st.tor /\ OnTor(th[t], st) = st.tor /\ ~Asking(r)
              /\ OnRedsocks(r, st, stale) = (st.proxy /\ "proxy" \notin stale)
              /\ OnRedsocks(th[t], st, stale) = (st.proxy /\ "proxy" \notin stale)
          BY <1>1, <2>1, <2>2, <2>5 DEF OnTor, OnRedsocks, Asking, Going, Applies, Inv, StShape, Flags
        <4>2. Feeds(t)
          BY <1>2
        <4> QED BY <2>2, <2>3, <2>5, <4>1, <4>2 DEF Feeds, Fed, FedByTor, daemons
      <3>6. Keeps(t)'
        BY <1>2, <2>1, <2>2, <2>3, <2>5 DEF Keeps, Kept, Restoring
      <3> QED BY <1>2, <2>2, <2>3, <2>5, <3>1, <3>4, <3>5, <3>6 DEF Served
    <2> QED BY <2>4, <2>5
  <1>6. ~Crash /\ ~Reboot
    BY <1>1 DEF NoneKilled, Crash, Reboot, Here
  <1>7. CASE UNCHANGED vars
    BY <1>2, <1>7 DEF vars, hist, fixed, daemons, Served, Ordered, Keeps, Sends, Feeds
  <1> QED BY <1>3, <1>4, <1>5, <1>6, <1>7 DEF Next

(* While packets are redirected to a daemon, it serves them: the rules of  *)
(* a switch are in only while its daemon is up and, Tor's, has read the    *)
(* torrc that makes it listen, from the first rule that goes in until the  *)
(* last one is out. It takes that nobody stops Tor under its switch, as the*)
(* button "Stop Tor" would, and that no second command fails. Excepted are *)
(* a daemon that the switch could not start and nobody looked, and rules   *)
(* without a record: see RedirectsAreServed.                               *)
THEOREM RedirectsReachDaemons ==
    ASSUME NEW t, SwitchesBelongTo(t), Unmixed, NoneKilled, OneFault, TablesLoaded, TameBases,
           Systemd, DirectBases, StopsInOrder(t)
    PROVE  Spec => []RedirectsAreServed
  <1>1. RestInv(t) /\ AllTame /\ Served(t) => RedirectsAreServed
    <2> SUFFICES ASSUME RestInv(t), AllTame, Served(t), ~orphaned, ~st.gw,
                        \A u \in Threads : ~Doing(u, {"gwOn", "gwOff"}), NEW p \in AppOut
                 PROVE  /\ Path(fw4, p) = "tor" => TransPortServed \/ "tor" \in unserved
                        /\ Path(fw4, p) = "redsocks" => redsocks # "down" \/ "redsocks" \in unserved
      BY DEF RedirectsAreServed
    <2>1. /\ t \in Threads /\ IsRuleset(fw4) /\ Tame(fw4) /\ ThreadTyped(th[t]) /\ Rests(t)
          /\ Direct(base.v4) /\ AllAimed(fw4, Aim(th[t], st, stale)) /\ Feeds(t)
      BY DEF SwitchesBelongTo, RestInv, HoldInv, TypeInv, MachineTyped, ThreadsTyped, AllTame, Served, Sends, Sent
    <2>2. ASSUME NEW x \in Redirecting, Path(fw4, p) = x PROVE x \in Aim(th[t], st, stale) /\ ~Direct(fw4)
      <3>1. Verdict(fw4, "natOUTPUT", p) = x
        BY <2>2 DEF Path, Through, Redirecting
      <3>2. PICK k \in DOMAIN fw4.rules : \E r \in RuleType : Holds(fw4.rules[k], r) /\ r.target = x
        BY <2>1, <3>1, VerdictOfRule DEF Redirecting
      <3>3. PICK i \in 1 .. Len(fw4.rules[k]) : fw4.rules[k][i].target = x
        BY <3>2 DEF Holds
      <3> QED BY <2>1, <3>3 DEF AllAimed, Aimed, Direct
    <2>3. th[t].pc \in Applies => th[t].plan # <<>> /\ Head(th[t].plan) # "gwOn"
      BY <2>1 DEF ThreadTyped, Applies, Doing, Op
    <2>4. Path(fw4, p) = "tor" => OnTor(th[t], st)
      BY <2>2, <2>3 DEF Redirecting, Aim, Aims, OnTor, Does, Going
    <2>5. Path(fw4, p) = "redsocks" => OnRedsocks(th[t], st, stale)
      <3>1. th[t].pc = "clear" => Direct(fw4)
        BY <2>1, DirectThen DEF Rests
      <3> QED BY <2>2, <2>3, <3>1 DEF Redirecting, Aim, Aims, OnRedsocks, Does, Going
    <2> QED BY <2>1, <2>4, <2>5 DEF Feeds, Fed, FedByTor, TransPortServed
  <1>2. Spec => []RestInv(t)
    BY RestsHolds
  <1>3. Spec => [](TypeInv /\ AllTame)
    BY TameHolds
  <1>4. Init => Served(t)
    BY ServedInit DEF SwitchesBelongTo
  <1>5. RestInv(t) /\ RestInv(t)' /\ Served(t) /\ [Next]_vars => Served(t)'
    BY ServedNext DEF RestInv
  <1> QED BY <1>1, <1>2, <1>3, <1>4, <1>5, PTL DEF Spec
=============================================================================
