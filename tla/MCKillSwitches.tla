--------------------------- MODULE MCKillSwitches ---------------------------
(* KillSwitches and Verification on the machines of the TLC runs. *)
EXTENDS Verification, TLC

(* Rulesets found at first: tables that are loaded and empty; a host       *)
(* firewall that drops what comes in unasked; a user's rules under policy  *)
(* ACCEPT.                                                                 *)
Empty4 == EmptyTables({"filter", "nat"})
Empty6 == EmptyTables({"filter"})
HostFirewall(fw) == [fw EXCEPT !.rules["INPUT"] = <<Lo, Established>>, !.drop = {"INPUT"}]
UserRules(fw) == [fw EXCEPT !.rules["INPUT"] = <<Rule({"newTcp", "scanTcp"}, "DROP")>>,
                            !.rules["FORWARD"] = <<Rule({"wsUdp"}, "DROP")>>]

Each(ops) == {<<op>> : op \in ops}

(* A machine with empty tables, where nothing fails, is killed or restarts.*)
Plain(plans) == [plans |-> plans, bases4 |-> {Empty4}, bases6 |-> {Empty6}, torrcs |-> {{}},
                 systemctl |-> TRUE, maxFaults |-> 0, maxRequests |-> 0,
                 mayCrash |-> FALSE, mayReboot |-> FALSE]
Varied(m) == [m EXCEPT !.bases4 = {Empty4, HostFirewall(Empty4), UserRules(Empty4)},
                       !.bases6 = {Empty6, HostFirewall(Empty6)},
                       !.torrcs = {{}, {"manual"}, {"ks"}}]

(* The command line, one operation at a time: the two kill switches and    *)
(* gateway mode, where any one command may fail; full start and stop; and  *)
(* the Tor switch between starts and stops of the Tor service, with one    *)
(* command that fails.                                                     *)
OneCaller ==
    LET All(plans) == [t \in Threads |-> plans] IN
    "switches" :> [Varied(Plain(All(Each({"torOn", "torOff", "proxyOn", "proxyOff"}))))
                       EXCEPT !.maxFaults = 1]
 @@ "gateway"  :> [Varied(Plain(All(Each({"gwOn", "gwOff"})))) EXCEPT !.maxFaults = 1]
 @@ "sequence" :> Varied(Plain(All({FullStart, FullStop})))
 @@ "daemon"   :> [Varied(Plain(All({<<"startTor">>, <<"torOn">>, <<"torOff", "stopTor">>})))
                       EXCEPT !.maxFaults = 1]

(* Two buttons of the window: one thread switches Tor's switch, the other  *)
(* the portscan protection.  The process killed, the machine restarted, at *)
(* any point of the two kill switches; also on a machine without systemctl.*)
ByThread(tors, scans) == [t \in Threads |-> Each(IF t = "tor" THEN tors ELSE scans)]
Disturbed ==
    "window" :> [Plain(ByThread({"torOn", "torOff"}, {"scanOn", "scanOff"}))
                     EXCEPT !.maxRequests = 5, !.maxFaults = 1]
 @@ "sysvinit" :> [Plain(ByThread({"torOn", "torOff", "proxyOn"}, {}))
                     EXCEPT !.systemctl = FALSE, !.maxRequests = 3, !.mayCrash = TRUE]
 @@ "killed" :> [Plain(ByThread({"torOn", "torOff", "proxyOn", "proxyOff"}, {}))
                     EXCEPT !.maxRequests = 4, !.maxFaults = 1,
                            !.mayCrash = TRUE, !.mayReboot = TRUE]

TorAlone  == "tor" :> Plain([t \in Threads |-> Each({"torOn", "torOff"})])
ProxyAlone == "proxy" :> Plain([t \in Threads |-> Each({"proxyOn", "proxyOff"})])
Sequence  == "sequence" :> Plain([t \in Threads |-> {FullStart, FullStop}])
=============================================================================
