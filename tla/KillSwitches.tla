---------------------------- MODULE KillSwitches ----------------------------
(***************************************************************************)
(* The kill switches of PrivacyGuard at work: core.py, proxy_only.py,      *)
(* gateway.py, the portscan part of anti_recon.py, firewall_backup.py and  *)
(* the start and stop sequences of orchestrate.py, run by one or more      *)
(* threads over one firewall, one Tor daemon and one state file.           *)
(*                                                                         *)
(* Each thread runs a plan, a sequence of the operations                   *)
(*   torOn, torOff, proxyOn, proxyOff, gwOn, gwOff, scanOn, scanOff,       *)
(*   startTor, stopTor                                                     *)
(* and every iptables command, backup, restore and state-file access is a  *)
(* step of its own.  load() and update() are atomic: module StateFile,     *)
(* which also says what is taken for granted here: that the state file can *)
(* be read.  Whatever else a step asks of the machine may fail.            *)
(*                                                                         *)
(* The machine has root, iptables, ip6tables, Tor and redsocks: without    *)
(* them every operation returns before it does anything.                   *)
(***************************************************************************)
EXTENDS Rulesets, FiniteSets

CONSTANTS
    Threads,
    Machines,     \* the machines considered, by name: see MachineAssumption
    None          \* no backup on record

Enabling  == {"torOn", "proxyOn", "gwOn", "scanOn"}
Disabling == {"torOff", "proxyOff", "gwOff", "scanOff"}
Ops == Enabling \cup Disabling \cup {"startTor", "stopTor"}

(* orchestrate.full_start and full_stop, which go on when portscan          *)
(* protection or a disable function declines.                              *)
FullStart == <<"startTor", "scanOn", "torOn">>
FullStop  == <<"torOff", "scanOff", "stopTor">>

ASSUME MachineAssumption ==
    \A name \in DOMAIN Machines : LET m == Machines[name] IN
        /\ \A t \in Threads : m.plans[t] \subseteq Seq(Ops) \ {<<>>}  \* what t may be asked to run
        /\ \A fw \in m.bases4 \cup m.bases6 : IsRuleset(fw)  \* the rulesets found at first
        /\ m.torrcs \subseteq SUBSET {"ks", "manual"}        \* the torrc blocks found at first
        /\ m.systemctl \in BOOLEAN                           \* is it a systemd machine?
        /\ m.maxFaults \in Nat       \* bound: commands, backups, restores, files that fail
        /\ m.maxRequests \in Nat     \* bound: requests made; 0: none
        /\ m.mayCrash \in BOOLEAN    \* may the process be killed?
        /\ m.mayReboot \in BOOLEAN   \* may the machine restart?

VARIABLES
    st,        \* the state file
    fw4, fw6,  \* the kernel's IPv4 and IPv6 rulesets
    torrc,     \* the blocks of /etc/tor/torrc that bind Tor's transparent ports
    tor,       \* the Tor daemon: is it up, and which blocks it has read
    redsocks,  \* the redsocks daemon: "down", a systemd "unit", or a "child" of the program
    th,        \* what each thread is doing
    on,        \* the machine this is
    base,      \* history: the rulesets found at first
    asked,     \* history: how many requests were made
    stale,     \* history: flags that are still up because the update that should
               \* have lowered them raised
    orphaned,  \* history: did an update raise that should have recorded rules?
    unserved,  \* history: of "tor" and "redsocks", those that a switch could not
               \* start as it needs them, and went on
    faults     \* how many commands failed so far

daemons == <<torrc, tor, redsocks>>
fixed == <<on, base, asked>>
hist == <<fixed, stale, orphaned, unserved>>
vars == <<st, fw4, fw6, daemons, th, hist, faults>>

Here == Machines[on]

Off == [tor |-> FALSE, proxy |-> FALSE, gw |-> FALSE, scan |-> FALSE, v6 |-> FALSE,
        iptables |-> None, ip6tables |-> None, nat |-> None,
        gwIptables |-> None, gwIp6tables |-> None]

(* A thread with nothing to do; a plan's operations are done from its head.*)
Idle == [plan |-> <<>>, pc |-> "idle", todo |-> <<>>, ok |-> FALSE, b4 |-> None, b6 |-> None]
Op(t) == Head(th[t].plan)
Doing(t, ops) == th[t].plan # <<>> /\ Op(t) \in ops

(* A torrc whose two blocks bind the same port keeps Tor from starting; of *)
(* the blocks, "ks" and a "manual" line bind loopback, "gw" also the       *)
(* internal interface.                                                     *)
Started(blocks) == [up |-> ~("gw" \in blocks /\ blocks # {"gw"}), read |-> blocks]
TransPortServed == tor.up /\ tor.read # {}

Init ==
    /\ on \in DOMAIN Machines
    /\ st = Off
    /\ fw4 \in Here.bases4 /\ fw6 \in Here.bases6
    /\ base = [v4 |-> fw4, v6 |-> fw6]
    /\ torrc \in Here.torrcs
    /\ tor \in {[Started(torrc) EXCEPT !.up = up] : up \in BOOLEAN}
    /\ redsocks = "down"
    /\ th = [t \in Threads |-> Idle]
    /\ asked = 0 /\ faults = 0
    /\ stale = {} /\ orphaned = FALSE /\ unserved = {}
-----------------------------------------------------------------------------
(* Steps of a thread.  At(t, l): it is at l, no command of l left to run.  *)
At(t, l) == th[t].pc = l /\ th[t].todo = <<>>
Become(t, r) == th' = [th EXCEPT ![t] = r]
Goto(t, l) == Become(t, [th[t] EXCEPT !.pc = l])
Run(t, l, commands) == Become(t, [th[t] EXCEPT !.pc = l, !.todo = commands, !.ok = TRUE])
FinishNeverIdle(t, result) ==   \* mutant
    Become(t, [Idle EXCEPT !.plan = Tail(th[t].plan), !.ok = result, !.pc = "check"])
Finish(t, result) ==
    LET rest == Tail(th[t].plan)
    IN  Become(t, [Idle EXCEPT !.plan = rest, !.ok = result,
                               !.pc = IF rest = <<>> THEN "idle" ELSE "check"])

Fault == faults < Here.maxFaults /\ faults' = faults + 1
NoFault == faults' = faults

(* A button, a menu entry. *)
Ask(t, plan) ==
    /\ th[t].pc = "idle"
    /\ asked' = IF Here.maxRequests = 0 THEN 0 ELSE asked + 1
    /\ asked' <= Here.maxRequests
    /\ Become(t, [Idle EXCEPT !.plan = plan, !.pc = "check"])
    /\ UNCHANGED <<st, fw4, fw6, daemons, on, base, stale, orphaned, unserved, faults>>

(* One command of the list at hand.  A failing one has no effect:          *)
(* apply_ruleset and the portscan rules go on with the next, block_ipv6    *)
(* gives up, and everything else ignores it.                               *)
V6Lists == {"gateway6", "block6", "open6"}
Tolerant == {"proxyOn", "scanOn"}
RunCommand(t) ==
    LET c == Head(th[t].todo)
        v6 == th[t].pc \in V6Lists
        fw == IF v6 THEN fw6 ELSE fw4
        rest == Tail(th[t].todo)
        failed == [th[t] EXCEPT !.ok = FALSE,
                                !.todo = IF th[t].pc = "block6" THEN <<>> ELSE rest]
    IN
    /\ th[t].todo # <<>>
    /\ \/ /\ ~Refused(fw, c) /\ NoFault
          /\ fw4' = IF v6 THEN fw4 ELSE Exec(fw4, c)
          /\ fw6' = IF v6 THEN Exec(fw6, c) ELSE fw6
          /\ Become(t, [th[t] EXCEPT !.todo = rest])
       \/ /\ \/ Refused(fw, c) /\ NoFault
             \/ ~Refused(fw, c) /\ Fault
          /\ Become(t, IF AlreadyExists(fw, c) /\ Doing(t, Tolerant)
                       THEN [th[t] EXCEPT !.todo = rest] ELSE failed)
          /\ UNCHANGED <<fw4, fw6>>
    /\ UNCHANGED <<st, daemons, hist>>
-----------------------------------------------------------------------------
(* Enabling: load() and the early returns.                                 *)
Flag == [torOn |-> "tor", proxyOn |-> "proxy", gwOn |-> "gw", scanOn |-> "scan",
         torOff |-> "tor", proxyOff |-> "proxy", gwOff |-> "gw", scanOff |-> "scan"]
NoConflict(op) == FALSE   \* mutant: the other switches' flags are not read
Conflict(op) == CASE op = "torOn"   -> st.proxy
                  [] op = "proxyOn" -> st.tor
                  [] op = "gwOn"    -> st.tor \/ st.proxy
                  [] op = "scanOn"  -> FALSE

CheckEnableAgain(t) ==   \* mutant: "already active" is not an early return
    /\ At(t, "check") /\ Doing(t, Enabling)
    /\ IF Conflict(Op(t)) THEN Finish(t, FALSE) ELSE Goto(t, "prepare")
    /\ UNCHANGED <<st, fw4, fw6, daemons, hist, faults>>
CheckEnable(t) ==
    /\ At(t, "check") /\ Doing(t, Enabling)
    /\ \/ Op(t) = "proxyOn" /\ Finish(t, FALSE)      \* the proxy cannot be reached
       \/ st[Flag[Op(t)]] /\ Finish(t, TRUE)
       \/ ~st[Flag[Op(t)]] /\ Conflict(Op(t)) /\ Finish(t, FALSE)
       \/ /\ ~st[Flag[Op(t)]] /\ ~Conflict(Op(t))
          /\ IF Op(t) = "scanOn" THEN Run(t, "scan", ScanRules) ELSE Goto(t, "prepare")
    /\ UNCHANGED <<st, fw4, fw6, daemons, hist, faults>>

(* _ensure_transparent_proxy_torrc, which leaves one block, and the restart*)
(* of a Tor whose torrc changed.                                           *)
NotRestarted(blocks) == tor   \* mutant: the torrc changes, Tor goes on with the old one
Restarted(blocks) == IF torrc # blocks /\ Here.systemctl THEN Started(blocks) ELSE tor
PrepareTor(t) ==
    /\ At(t, "prepare") /\ Doing(t, {"torOn"})
    /\ torrc' = {"ks"}
    /\ tor' = Restarted({"ks"})
    /\ unserved' = IF torrc # {"ks"} /\ Here.systemctl THEN unserved \ {"tor"} ELSE unserved
    /\ Goto(t, "bootstrap")
    /\ UNCHANGED <<st, fw4, fw6, redsocks, fixed, stale, orphaned, faults>>

(* A torrc that may not be read or written is left as it is; and nobody    *)
(* looks whether the restart worked, so that the old Tor may go on, or     *)
(* none be left to go on.  Either way the switch comes to the bootstrap.   *)
PrepareTorFails(t) ==
    /\ At(t, "prepare") /\ Doing(t, {"torOn"}) /\ torrc # {"ks"}
    /\ \/ UNCHANGED <<torrc, tor>>
       \/ /\ Here.systemctl
          /\ torrc' = {"ks"}
          /\ tor' \in {tor, [tor EXCEPT !.up = FALSE]}
    /\ unserved' = unserved \cup {"tor"}
    /\ Goto(t, "bootstrap") /\ Fault
    /\ UNCHANGED <<st, fw4, fw6, redsocks, fixed, stale, orphaned>>

(* systemctl start: raises, and is caught, where there is no systemctl.    *)
StartedTor == IF Here.systemctl /\ ~tor.up THEN Started(torrc) ELSE tor

(* _wait_for_tor_bootstrap asks through Tor's SOCKS port, starts the daemon*)
(* when there is no answer, and asks again until the timeout.  Tor may be  *)
(* up and the network not, so an answer is never certain.                  *)
AskTor(t) ==
    /\ At(t, "bootstrap")
    /\ \/ tor.up /\ Goto(t, "save4") /\ tor' = tor /\ NoFault
       \/ Goto(t, "waiting") /\ tor' = StartedTor /\ NoFault
       \/ Goto(t, "waiting") /\ ~tor.up /\ tor' = tor /\ Fault
    /\ UNCHANGED <<st, fw4, fw6, torrc, redsocks, hist>>
AskTorAgain(t) ==
    /\ At(t, "waiting")
    /\ \/ tor.up /\ Goto(t, "save4")
       \/ Finish(t, FALSE)
    /\ UNCHANGED <<st, fw4, fw6, daemons, hist, faults>>

(* redsocks.conf and the restart of redsocks, as a unit or, when that      *)
(* fails, as a child, which outlives the program and which no restart      *)
(* replaces, for it holds the port.  Without systemctl the call raises.    *)
PrepareProxy(t) ==
    /\ At(t, "prepare") /\ Doing(t, {"proxyOn"})
    /\ \/ /\ Here.systemctl
          /\ redsocks' \in (IF redsocks = "child" THEN {"child"} ELSE {"unit", "child"})
          /\ unserved' = unserved \ {"redsocks"}
          /\ Goto(t, "save4")
       \/ ~Here.systemctl /\ Become(t, Idle) /\ UNCHANGED <<redsocks, unserved>>
    /\ UNCHANGED <<st, fw4, fw6, torrc, tor, fixed, stale, orphaned, faults>>

(* The restart failed and so does the child, which nobody looks at: its    *)
(* configuration is refused, its port is taken by another program.         *)
PrepareProxyFails(t) ==
    /\ At(t, "prepare") /\ Doing(t, {"proxyOn"}) /\ Here.systemctl
    /\ redsocks # "child" /\ redsocks' = "down"
    /\ unserved' = unserved \cup {"redsocks"}
    /\ Goto(t, "save4") /\ Fault
    /\ UNCHANGED <<st, fw4, fw6, torrc, tor, fixed, stale, orphaned>>

(* _write_gateway_torrc_snippet replaces its own block or adds one; Tor is *)
(* not restarted.                                                          *)
PrepareGateway(t) ==
    /\ At(t, "prepare") /\ Doing(t, {"gwOn"})
    /\ torrc' = torrc \cup {"gw"}
    /\ Goto(t, "save4")
    /\ UNCHANGED <<st, fw4, fw6, tor, redsocks, hist, faults>>

(* torrc, redsocks.conf or the directory of the backups cannot be written, *)
(* which raises; a file that was being written may be left empty.          *)
WritesTorrc(t) == Doing(t, {"gwOn"}) \/ (Doing(t, {"torOn"}) /\ torrc # {"ks"})
PrepareRaises(t) ==
    /\ \/ At(t, "prepare") /\ UNCHANGED torrc
       \/ At(t, "prepare") /\ WritesTorrc(t) /\ torrc' = {}
       \/ At(t, "save4") /\ UNCHANGED torrc
    /\ Become(t, Idle) /\ Fault
    /\ UNCHANGED <<st, fw4, fw6, tor, redsocks, hist>>

(* apply_ruleset: backup_rules, where a failure means no backup and no     *)
(* more, the rules one after the other, and their verdict.                 *)
Backup4(t) ==
    /\ At(t, "save4")
    /\ \E b \in {fw4, None} :
          /\ IF b = None THEN Fault ELSE NoFault
          /\ Become(t, [th[t] EXCEPT !.pc = "save6", !.b4 = b])
    /\ UNCHANGED <<st, fw4, fw6, daemons, hist>>
Rules(op) == CASE op = "torOn" -> TorRules [] op = "proxyOn" -> ProxyRules [] op = "gwOn" -> GatewayRules
Backup6(t) ==
    /\ At(t, "save6")
    /\ \E b \in {fw6, None} :
          /\ IF b = None THEN Fault ELSE NoFault
          /\ Become(t, [th[t] EXCEPT !.pc = "apply", !.b6 = b, !.ok = TRUE, !.todo = Rules(Op(t))])
    /\ UNCHANGED <<st, fw4, fw6, daemons, hist>>
Verdictless(t) ==   \* mutant: a rule that failed does not count
    /\ At(t, "apply")
    /\ IF Op(t) = "gwOn" THEN Run(t, "gateway6", GatewayV6Rules) ELSE Goto(t, "record")
    /\ UNCHANGED <<st, fw4, fw6, daemons, hist, faults>>
NoRollback(t) ==   \* mutant: the rules that did go in stay
    /\ At(t, "apply")
    /\ \/ ~th[t].ok /\ Finish(t, FALSE)
       \/ th[t].ok /\ Op(t) # "gwOn" /\ Goto(t, "record")
       \/ th[t].ok /\ Op(t) = "gwOn" /\ Run(t, "gateway6", GatewayV6Rules)
    /\ UNCHANGED <<st, fw4, fw6, daemons, hist, faults>>
Applied(t) ==
    /\ At(t, "apply")
    /\ \/ ~th[t].ok /\ Goto(t, "restore4")
       \/ th[t].ok /\ Op(t) # "gwOn" /\ Goto(t, "record")
       \/ th[t].ok /\ Op(t) = "gwOn" /\ Run(t, "gateway6", GatewayV6Rules)
    /\ UNCHANGED <<st, fw4, fw6, daemons, hist, faults>>

(* statemod.update after the rules are in place, then block_ipv6. *)
Recorded(op, b4, b6) ==
    CASE op = "torOn"   -> [st EXCEPT !.tor = TRUE, !.iptables = b4, !.ip6tables = b6]
      [] op = "proxyOn" -> [st EXCEPT !.proxy = TRUE, !.nat = b4, !.ip6tables = b6]
      [] op = "gwOn"    -> [st EXCEPT !.gw = TRUE, !.gwIptables = b4, !.gwIp6tables = b6]
Record(t) ==
    /\ At(t, "record") \/ At(t, "gateway6")
    /\ st' = Recorded(Op(t), th[t].b4, th[t].b6)
    /\ Goto(t, "v6")
    /\ UNCHANGED <<fw4, fw6, daemons, hist, faults>>
CheckV6(t) ==
    /\ At(t, "v6")
    /\ IF st.v6 THEN Finish(t, TRUE) ELSE Run(t, "block6", BlockV6Rules)
    /\ UNCHANGED <<st, fw4, fw6, daemons, hist, faults>>
V6BlockedAnyway(t) ==   \* mutant: the record does not wait for the commands to succeed
    /\ At(t, "block6")
    /\ st' = [st EXCEPT !.v6 = TRUE]
    /\ Finish(t, TRUE)
    /\ UNCHANGED <<fw4, fw6, daemons, hist, faults>>
V6Blocked(t) ==
    /\ At(t, "block6")
    /\ st' = IF th[t].ok THEN [st EXCEPT !.v6 = TRUE] ELSE st
    /\ Finish(t, TRUE)
    /\ UNCHANGED <<fw4, fw6, daemons, hist, faults>>

(* enable_portscan_protection records what it did only if all of it worked.*)
ScanApplied(t) ==
    /\ At(t, "scan")
    /\ st' = IF th[t].ok THEN [st EXCEPT !.scan = TRUE] ELSE st
    /\ Finish(t, th[t].ok)
    /\ UNCHANGED <<fw4, fw6, daemons, hist, faults>>
-----------------------------------------------------------------------------
(* Disabling: load(), the early return, and the recorded backups.          *)
Backups(op) == CASE op = "torOff"   -> <<st.iptables, st.ip6tables>>
                 [] op = "proxyOff" -> <<st.nat, st.ip6tables>>
                 [] op = "gwOff"    -> <<st.gwIptables, st.gwIp6tables>>
CheckDisable(t) ==
    /\ At(t, "check") /\ Doing(t, Disabling)
    /\ \/ ~st[Flag[Op(t)]] /\ Finish(t, FALSE)
       \/ st[Flag[Op(t)]] /\ Op(t) = "scanOff" /\ Run(t, "unscan", ScanRemoval)
       \/ /\ st[Flag[Op(t)]] /\ Op(t) # "scanOff"
          /\ Become(t, [th[t] EXCEPT !.pc = "restore4", !.b4 = Backups(Op(t))[1],
                                     !.b6 = Backups(Op(t))[2]])
    /\ UNCHANGED <<st, fw4, fw6, daemons, hist, faults>>

(* restore_rules, on the way out of a switch or after a rule failed: the   *)
(* backup if there is one and it loads, else the open default.             *)
RestoreStrictly(t) ==   \* mutant: without the open default
    /\ At(t, "restore4")
    /\ th[t].b4 # None /\ NoFault
    /\ fw4' = Restored(fw4, th[t].b4)
    /\ Goto(t, "restore6")
    /\ UNCHANGED <<st, fw6, daemons, hist>>
Restore4(t) ==
    /\ At(t, "restore4")
    /\ \/ /\ th[t].b4 # None /\ NoFault
          /\ fw4' = Restored(fw4, th[t].b4)
          /\ Goto(t, "restore6")
       \/ /\ IF th[t].b4 = None THEN NoFault ELSE Fault
          /\ Run(t, "open4", OpenV4Rules)
          /\ UNCHANGED fw4
    /\ UNCHANGED <<st, fw6, daemons, hist>>
Restore6(t) ==
    /\ At(t, "restore6") \/ At(t, "open4")
    /\ \/ /\ th[t].b6 # None /\ NoFault
          /\ fw6' = Restored(fw6, th[t].b6)
          /\ Goto(t, "restored")
       \/ /\ IF th[t].b6 = None THEN NoFault ELSE Fault
          /\ Run(t, "open6", OpenV6Rules)
          /\ UNCHANGED fw6
    /\ UNCHANGED <<st, fw4, daemons, hist>>
RolledBack(t) ==
    /\ At(t, "restored") \/ At(t, "open6")
    /\ Doing(t, Enabling)
    /\ Finish(t, FALSE)
    /\ UNCHANGED <<st, fw4, fw6, daemons, hist, faults>>

(* proxy_only stops the redsocks unit between the restore and the update,  *)
(* and raises without systemctl, where the switch does not come on either. *)
StopRedsocks(t) ==
    /\ At(t, "restored") \/ At(t, "open6")
    /\ Doing(t, {"proxyOff"})
    /\ IF Here.systemctl
       THEN /\ redsocks' = IF redsocks = "unit" THEN "down" ELSE redsocks
            /\ Goto(t, "clear") /\ NoFault
            /\ UNCHANGED stale
       ELSE /\ stale' = stale \cup {"proxy", "v6"}
            /\ Become(t, Idle) /\ NoFault
            /\ UNCHANGED redsocks
    /\ UNCHANGED <<st, fw4, fw6, torrc, tor, fixed, orphaned, unserved>>
StopRedsocksFails(t) ==
    /\ At(t, "restored") \/ At(t, "open6")
    /\ Doing(t, {"proxyOff"}) /\ redsocks = "unit"
    /\ Goto(t, "clear") /\ Fault
    /\ UNCHANGED <<st, fw4, fw6, daemons, hist>>
ClearedButV6(op) ==   \* mutant: the flag of block_ipv6 stays up
    [st EXCEPT ![Flag[op]] = FALSE]
Cleared(op) ==
    CASE op = "torOff" ->
           [st EXCEPT !.tor = FALSE, !.v6 = FALSE, !.iptables = None, !.ip6tables = None]
      [] op = "proxyOff" ->
           [st EXCEPT !.proxy = FALSE, !.v6 = FALSE, !.nat = None, !.ip6tables = None]
      [] op = "gwOff" ->
           [st EXCEPT !.gw = FALSE, !.v6 = FALSE, !.gwIptables = None, !.gwIp6tables = None]
Undone(t) ==
    \/ Doing(t, {"torOff", "gwOff"}) /\ (At(t, "restored") \/ At(t, "open6"))
    \/ Doing(t, {"proxyOff"}) /\ At(t, "clear")
Clear(t) ==
    /\ Undone(t)
    /\ st' = Cleared(Op(t))
    /\ stale' = stale \ {Flag[Op(t)], "v6"}
    /\ Finish(t, TRUE)
    /\ UNCHANGED <<fw4, fw6, daemons, fixed, orphaned, unserved, faults>>
ScanRemoved(t) ==
    /\ At(t, "unscan")
    /\ st' = [st EXCEPT !.scan = FALSE]
    /\ stale' = stale \ {"scan"}
    /\ Finish(t, TRUE)
    /\ UNCHANGED <<fw4, fw6, daemons, fixed, orphaned, unserved, faults>>
-----------------------------------------------------------------------------
(* statemod.update raises: the state file is not written, and the thread   *)
(* ends.  After an enable function's rules there is no record of them;     *)
(* after a disable function's the record still is.                         *)
UpdateRaises(t) ==
    /\ \/ (At(t, "record") \/ At(t, "gateway6")) /\ orphaned' = TRUE /\ UNCHANGED stale
       \/ At(t, "scan") /\ th[t].ok /\ orphaned' = TRUE /\ UNCHANGED stale
       \/ At(t, "block6") /\ th[t].ok /\ UNCHANGED <<orphaned, stale>>
       \/ Undone(t) /\ stale' = stale \cup {Flag[Op(t)], "v6"} /\ UNCHANGED orphaned
       \/ At(t, "unscan") /\ stale' = stale \cup {"scan"} /\ UNCHANGED orphaned
    /\ Become(t, Idle) /\ Fault
    /\ UNCHANGED <<st, fw4, fw6, daemons, fixed, unserved>>
-----------------------------------------------------------------------------
(* proxy_tor.start_tor and stop_tor. *)
TorService(t) ==
    /\ At(t, "check") /\ Doing(t, {"startTor", "stopTor"})
    /\ \/ /\ tor' = IF Op(t) = "startTor" THEN StartedTor
                    ELSE IF Here.systemctl THEN [tor EXCEPT !.up = FALSE] ELSE tor
          /\ NoFault
       \/ tor' = tor /\ Fault
    /\ Finish(t, TRUE)
    /\ UNCHANGED <<st, fw4, fw6, torrc, redsocks, hist>>

(* The window is closed or the program killed: its threads are daemon      *)
(* threads and stop where they are.                                        *)
Crash ==
    /\ Here.mayCrash
    /\ th' = [t \in Threads |-> Idle]
    /\ UNCHANGED <<st, fw4, fw6, daemons, hist, faults>>

(* The rulesets live in the kernel, the state file on disk. *)
Reboot ==
    /\ Here.mayReboot
    /\ th' = [t \in Threads |-> Idle]
    /\ fw4' = EmptyTables({"filter", "nat"}) /\ fw6' = EmptyTables({"filter"})
    /\ tor' = Started(torrc) /\ redsocks' = "down"
    /\ UNCHANGED <<st, torrc, hist, faults>>

Step(t) ==
    \/ RunCommand(t)
    \/ CheckEnable(t) \/ PrepareTor(t) \/ PrepareTorFails(t) \/ AskTor(t) \/ AskTorAgain(t)
    \/ PrepareProxy(t) \/ PrepareProxyFails(t) \/ PrepareGateway(t) \/ PrepareRaises(t)
    \/ Backup4(t) \/ Backup6(t) \/ Applied(t)
    \/ Record(t) \/ CheckV6(t) \/ V6Blocked(t) \/ ScanApplied(t)
    \/ CheckDisable(t) \/ Restore4(t) \/ Restore6(t) \/ RolledBack(t)
    \/ StopRedsocks(t) \/ StopRedsocksFails(t) \/ Clear(t) \/ ScanRemoved(t)
    \/ UpdateRaises(t) \/ TorService(t)

Next == \/ \E t \in Threads : Step(t) \/ \E plan \in Here.plans[t] : Ask(t, plan)
        \/ Crash \/ Reboot

Spec == Init /\ [][Next]_vars
FairSpec == Spec /\ \A t \in Threads : WF_vars(Step(t))
-----------------------------------------------------------------------------
Labels == {"idle", "check", "prepare", "bootstrap", "waiting", "save4", "save6", "apply",
           "gateway6", "record", "v6", "block6", "scan", "restore4", "open4", "restore6",
           "open6", "restored", "clear", "unscan"}
Flags == {"tor", "proxy", "gw", "scan", "v6"}
BackupFields == {"iptables", "ip6tables", "nat", "gwIptables", "gwIp6tables"}
IsBackup(b) == b = None \/ IsRuleset(b)

TypeOK ==
    /\ st = [f \in DOMAIN Off |-> st[f]]
    /\ \A f \in Flags : st[f] \in BOOLEAN
    /\ \A f \in BackupFields : IsBackup(st[f])
    /\ IsRuleset(fw4) /\ IsRuleset(fw6) /\ IsRuleset(base.v4) /\ IsRuleset(base.v6)
    /\ on \in DOMAIN Machines /\ torrc \subseteq {"ks", "gw", "manual"}
    /\ tor.up \in BOOLEAN /\ tor.read \subseteq {"ks", "gw", "manual"}
    /\ redsocks \in {"down", "unit", "child"}
    /\ \A t \in Threads :
          /\ th[t].plan \in Seq(Ops) /\ th[t].pc \in Labels /\ th[t].ok \in BOOLEAN
          /\ th[t].todo \in Seq(Command) /\ IsBackup(th[t].b4) /\ IsBackup(th[t].b6)
          /\ th[t].plan = <<>> <=> th[t].pc = "idle"
    /\ stale \subseteq Flags /\ orphaned \in BOOLEAN /\ unserved \subseteq {"tor", "redsocks"}
    /\ faults \in 0 .. Here.maxFaults /\ asked \in 0 .. Here.maxRequests

Settled == \A t \in Threads : th[t].pc = "idle"
Undisturbed == ~(Here.mayCrash \/ Here.mayReboot)
Undoing(op) == \E t \in Threads : Doing(t, {op}) /\ th[t].pc # "check"

(* A switch the state file calls on is on, from the update that records it *)
(* until its disable function starts to restore: nothing the other         *)
(* operations do, or fail to do, lets traffic out around it. The status    *)
(* bar, option 23 and every "already active" rely on it.  A process killed *)
(* while it restores, or a restart of the machine, leaves the flag behind; *)
(* so does a disable function whose update raises, until the next one.     *)
Says(flag) == st[flag] /\ flag \notin stale
TorFlagIsTrue    == Undisturbed /\ Says("tor") /\ ~Undoing("torOff") => TorOnly(fw4)
ProxyFlagIsTrue  == Says("proxy") /\ ~Undoing("proxyOff") => ProxyOnly(fw4)
GatewayFlagIsTrue == Says("gw") /\ ~Undoing("gwOff") => TorOnly(fw4) /\ Contained(fw4)
ScanFlagIsTrue   == Says("scan") /\ ~Undoing("scanOff") => BlocksScans(fw4)
V6FlagIsTrue     ==
    Says("v6") /\ ~(\E op \in Disabling : Undoing(op)) => NoV6(fw6)

(* What is off is undone: with every flag off and no operation under way   *)
(* the rulesets are those found at first, or, if some command failed, the  *)
(* open default. Never a half-applied ruleset, never a forgotten DROP,     *)
(* whichever rule, backup, restore or file fails (firewall_backup.         *)
(* restore_rules, apply_ruleset) - but one: an update of the state file    *)
(* that raises after the rules went in leaves them without a record        *)
(* (core.py:317, proxy_only.py:125, gateway.py:146, anti_recon.py:140).    *)
AllOrNothing ==
    Settled /\ ~orphaned /\ ~(st.tor \/ st.proxy \/ st.gw \/ st.scan) =>
        /\ fw4 = base.v4 \/ (faults > 0 /\ Opened(fw4))
        /\ fw6 = base.v6 \/ (faults > 0 /\ Opened(fw6))

(* One caller at a time never has both kill switches on: each checks for   *)
(* the other before it starts (core.py:275-278, proxy_only.py:101-104).    *)
OneSwitch == ~(st.tor /\ st.proxy)

(* The record says IPv6 is blocked only while it says which switch wanted  *)
(* it so: block_ipv6 comes after the update that raises the switch's flag, *)
(* and the update that lowers that flag lowers this one.                   *)
V6OnlyWithSwitch == st.v6 => st.tor \/ st.proxy \/ st.gw

(* Traffic is only sent to a daemon that takes it: while packets are       *)
(* redirected to Tor's transparent port or to redsocks, that port is       *)
(* served. What enable_kill_switch restarts and waits for, and the order   *)
(* in which the switches are undone and the daemons stopped, are for this. *)
(* Gateway mode is excepted: it asks its user to restart Tor.  So are      *)
(* rules without a record, and a daemon that a switch could not start, or  *)
(* not with its torrc, and nobody looked (core.py:286-291,                 *)
(* proxy_only.py:107-110): Tor's SOCKS port, which enable_kill_switch waits*)
(* for, is not the port that it redirects to.                              *)
RedirectsAreServed ==
    \A p \in IF orphaned \/ st.gw \/ (\E t \in Threads : Doing(t, {"gwOn", "gwOff"}))
            THEN {} ELSE AppOut :
        /\ Path(fw4, p) = "tor" => TransPortServed \/ "tor" \in unserved
        /\ Path(fw4, p) = "redsocks" => redsocks # "down" \/ "redsocks" \in unserved

(* enable_kill_switch and its like return True only if the switch is on    *)
(* (core.py:256-259, proxy_only.py:75, gateway.py:67-71), unless the       *)
(* record of a switch that was on has outlived it.                         *)
Returns(t, op, result) ==
    /\ Doing(t, {op})
    /\ th'[t].plan = Tail(th[t].plan)
    /\ th'[t].ok = result
    /\ Flag[op] \notin stale
TrueMeansApplied ==
    [][\A t \in Threads : /\ Returns(t, "torOn", TRUE) => TorOnly(fw4')
                          /\ Returns(t, "proxyOn", TRUE) => ProxyOnly(fw4')
                          /\ Returns(t, "gwOn", TRUE) => Contained(fw4')]_vars

(* Once asked to, a switch goes off the record, whatever rule, backup or   *)
(* command fails on the way, unless it is the update of the record itself  *)
(* that raises (core.py:330, proxy_only.py:140).                           *)
StopIsHeard ==
    \A t \in Threads : /\ Doing(t, {"torOff"}) ~> ~st.tor \/ "tor" \in stale
                       /\ Doing(t, {"proxyOff"}) ~> ~st.proxy \/ "proxy" \in stale

(* With the Tor switch on, Tor itself still reaches its relays: the switch *)
(* leaves "only loopback + Tor traffic allowed out" (core.py:316).         *)
TorReachesRelays == Settled /\ st.tor => Path(fw4, "torTcp") = "clear"

(* A flag is raised over rules in force: a process killed, or a machine    *)
(* restarted, at whatever point of an enable function may lose the record  *)
(* of rules but never records rules that are not there.                    *)
RecordedOnceApplied ==
    [][/\ ~st.tor /\ st'.tor => TorOnly(fw4')
       /\ ~st.proxy /\ st'.proxy => ProxyOnly(fw4')]_vars

(* The backup recorded with a switch stays the recorded one as long as the *)
(* switch does: enabling again, after a crash too, does not replace the    *)
(* ruleset of before by the switch's own (README: "running enable twice is *)
(* a safe no-op").                                                         *)
BackupKept ==
    [][/\ st.tor /\ st'.tor => st'.iptables = st.iptables
       /\ st.proxy /\ st'.proxy => st'.nat = st.nat]_vars
=============================================================================
