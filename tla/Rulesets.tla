------------------------------ MODULE Rulesets ------------------------------
(***************************************************************************)
(* The argument lists the program hands to iptables and ip6tables, in the  *)
(* order it does, and what they are meant to achieve.                      *)
(***************************************************************************)
EXTENDS Netfilter

Lo          == Rule({"loTcp", "loIn"}, "ACCEPT")
Established == Rule({"reply"}, "ACCEPT")
Everything(target) == Rule(Packets, target)

(* What only a redirected packet matches: --dport 9040 and --dport 5353.   *)
RedirectedOnly == Rule({}, "ACCEPT")

TorUid   == Rule({"torTcp"}, "ACCEPT")
TcpToTor == Rule(TcpOut, "tor")
DnsToTor == Rule({"appDns"}, "tor")

(* Mutants: the rules without the one that does the work; or with port 53  *)
(* let out, not the port it is redirected to.                              *)
DnsAccepted == Rule({"appDns"}, "ACCEPT")
NoTorRules == << Flush("filter"), Flush("nat"), AppendRule("OUTPUT", Lo), AppendRule("OUTPUT", TorUid) >>
FlushingScanRules == << Flush("filter"), NewChain("PG_PORTSCAN") >>
OpenForwardRules == << Flush("filter"), Flush("nat"), AppendRule("OUTPUT", Everything("DROP")) >>

PortMistaken == << Flush("filter"), Flush("nat"), AppendRule("natOUTPUT", TcpToTor),
                   AppendRule("OUTPUT", DnsAccepted), AppendRule("OUTPUT", Everything("DROP")) >>

(* core.enable_kill_switch *)
TorRules == <<
    Flush("filter"), Flush("nat"),
    AppendRule("OUTPUT", Lo),
    AppendRule("OUTPUT", TorUid),
    AppendRule("natOUTPUT", TcpToTor),
    AppendRule("natOUTPUT", DnsToTor),
    AppendRule("OUTPUT", Established),
    AppendRule("OUTPUT", RedirectedOnly),
    AppendRule("OUTPUT", Everything("DROP")) >>

(* proxy_only.enable_proxy_kill_switch *)
ProxyRules == <<
    NewChain("PG_REDSOCKS"),
    AppendRule("PG_REDSOCKS", Rule({"loTcp"}, "RETURN")),
    AppendRule("PG_REDSOCKS", Rule(TcpOut, "redsocks")),
    AppendRule("natOUTPUT", Rule(TcpOut, "PG_REDSOCKS")) >>

(* gateway.enable_gateway: the gateway's own traffic, then what arrives on *)
(* the internal interface.                                                 *)
GatewayRules == <<
    Flush("filter"), Flush("nat"), Flush("FORWARD"),
    AppendRule("OUTPUT", Lo),
    AppendRule("OUTPUT", TorUid),
    AppendRule("natOUTPUT", TcpToTor),
    AppendRule("natOUTPUT", DnsToTor),
    AppendRule("OUTPUT", Established),
    AppendRule("OUTPUT", RedirectedOnly),
    AppendRule("OUTPUT", Everything("DROP")),
    AppendRule("natPREROUTING", Rule({"wsTcp"}, "tor")),
    AppendRule("natPREROUTING", Rule({"wsDns"}, "tor")),
    DropAll("FORWARD"),
    AppendRule("FORWARD", Everything("DROP")),
    AppendRule("INPUT", RedirectedOnly),
    AppendRule("INPUT", RedirectedOnly) >>
GatewayV6Rules == << DropAll("FORWARD"), Flush("FORWARD") >>

(* core.block_ipv6 *)
BlockV6Rules == <<
    Flush("filter"), DropAll("INPUT"), DropAll("OUTPUT"), DropAll("FORWARD"),
    AppendRule("OUTPUT", Lo), AppendRule("INPUT", Lo) >>

(* firewall_backup._open_default_v4 and _v6 *)
OpenV6Rules == << Flush("filter"), AcceptAll("INPUT"), AcceptAll("OUTPUT"), AcceptAll("FORWARD") >>
OpenV4Rules == << Flush("filter"), Flush("nat"),
                  AcceptAll("INPUT"), AcceptAll("OUTPUT"), AcceptAll("FORWARD") >>

(* anti_recon.enable_portscan_protection and disable_portscan_protection,  *)
(* with one choice of hit count and window.                                *)
Scanning == Rule({"scanTcp"}, "PG_PORTSCAN")
Counted  == Rule({"newTcp", "scanTcp"}, "ACCEPT")
ScanRules == <<
    NewChain("PG_PORTSCAN"), Flush("PG_PORTSCAN"),
    AppendRule("PG_PORTSCAN", Everything("LOG")),
    AppendRule("PG_PORTSCAN", Everything("DROP")),
    InsertRule("INPUT", Scanning),
    AppendRule("INPUT", Counted) >>
ScanRemoval == <<
    DeleteRule("INPUT", Scanning), DeleteRule("INPUT", Counted),
    Flush("PG_PORTSCAN"), RemoveChain("PG_PORTSCAN") >>
-----------------------------------------------------------------------------
(* No connection of an application leaves in clear. *)
TorOnly(fw) == \A p \in AppOut : Path(fw, p) # "clear"
ProxyOnly(fw) == Path(fw, "appTcp") # "clear"
NoV6(fw) == \A p \in AppOut : Verdict(fw, "OUTPUT", p) = "DROP"
(* Nothing of the workstation is forwarded in clear. *)
Contained(fw) == \A p \in Workstation : Forwarded(fw, p) # "clear"
(* A source that opens too many connections is dropped. *)
BlocksScans(fw) == ~Accepts(fw, "scanTcp")
(* The open default: no rule, no DROP policy. *)
Opened(fw) == fw.drop = {} /\ \A c \in DOMAIN fw.rules : fw.rules[c] = <<>>
=============================================================================
