------------------------------ MODULE Topology ------------------------------
(***************************************************************************)
(* Gateway mode seen from outside the gateway: gateway_topology.py, which  *)
(* wires the adapters of the two virtual machines on the host, and         *)
(* workstation.py, which sets up the workstation's network from inside and *)
(* checks that the workstation is isolated.                                *)
(***************************************************************************)
EXTENDS Integers, Sequences, FiniteSets

CONSTANTS
    Slots,          \* adapter slots of a virtual machine, numbered from 1
    FirstAdapters,  \* how the workstation's adapters may be wired at first
    None            \* a machine that is off; no gateway to expect; no file

ASSUME SlotAssumption == Slots \subseteq Nat \ {0} /\ {1, 2} \subseteq Slots /\ IsFiniteSet(Slots)

Nets == {"none", "external", "internal"}
ASSUME AdapterAssumption ==
    /\ FirstAdapters \subseteq [Slots -> Nets]
    /\ None \notin [Slots -> Nets] \cup {"gateway", "workstation"}
    /\ \A servers \in SUBSET {"gateway", "router"} : None # servers

VARIABLES
    hypervisor,  \* "vbox" or "virsh"
    libnet,      \* libvirt's internal network: "absent", "defined" or "active"
    wires,       \* the adapters of each machine as configured on the host
    up,          \* the adapters each machine has booted with; None: it is off
    todo,        \* the functions of a wiring that are left, as lists of commands
    wired,       \* history: did the last wiring of the workstation return True?
    bootWired,   \* history: had it when the workstation booted?
    guest        \* the network settings inside the workstation

host == <<hypervisor, libnet, wires, todo, wired>>
vars == <<host, up, bootWired, guest>>

Machines == {"gateway", "workstation"}

(* Of the settings: the slots with an address, the default routes with     *)
(* their slots, the name servers of resolv.conf (None: no such file), and  *)
(* whether the last configure_networking since the boot has succeeded.     *)
Bare(dns) == [addressed |-> {}, routes |-> {}, dns |-> dns, configured |-> FALSE]

TypeOK ==
    /\ hypervisor \in {"vbox", "virsh"}
    /\ libnet \in {"absent", "defined", "active"}
    /\ wires \in [Machines -> [Slots -> Nets]]
    /\ up \in [Machines -> [Slots -> Nets] \cup {None}]
    /\ wired \in BOOLEAN /\ bootWired \in BOOLEAN
    /\ guest \in [addressed : SUBSET Slots, routes : SUBSET (Slots \X {"gateway", "router"}),
                  dns : (SUBSET {"gateway", "router"}) \cup {None}, configured : BOOLEAN]

-----------------------------------------------------------------------------
(* The commands of the host.  Each of these functions stops at the first   *)
(* command that fails, and the next function is called all the same.       *)
Nic(vm, slot, to) == [vm |-> vm, slot |-> slot, to |-> to]
Attach(vm, to)    == [vm |-> vm, slot |-> 0, to |-> to]
Network(to)       == [vm |-> None, slot |-> 0, to |-> to]

VBoxGateway     == <<Nic("gateway", 1, "external"), Nic("gateway", 2, "internal")>>
VBoxWorkstation == <<Nic("workstation", 1, "internal"), Nic("workstation", 2, "none")>>
VirshNetwork     == <<Network("defined"), Network("active"), Network("active")>>
VirshGateway     == <<Attach("gateway", "external"), Attach("gateway", "internal")>>
VirshWorkstation == <<Attach("workstation", "internal")>>

Wiring == IF hypervisor = "vbox" THEN <<VBoxGateway, VBoxWorkstation>>
                                 ELSE <<VirshNetwork, VirshGateway, VirshWorkstation>>

Init ==
    /\ hypervisor \in {"vbox", "virsh"}
    /\ libnet = "absent"
    /\ wires \in [Machines -> FirstAdapters]
    /\ up = [vm \in Machines |-> None]
    /\ todo = <<>> /\ wired = FALSE /\ bootWired = FALSE
    /\ guest \in {Bare({}), Bare(None)}

(* The button or menu option; one wiring at a time.                        *)
Wire ==
    /\ todo = <<>>
    /\ todo' = Wiring /\ wired' = FALSE
    /\ UNCHANGED <<hypervisor, libnet, wires, up, bootWired, guest>>

Free(vm) == {s \in Slots : wires[vm][s] = "none"}
FirstFree(vm) == {s \in Free(vm) : \A u \in Free(vm) : s <= u}

(* VBoxManage modifies no machine that runs; virsh net-define refuses a    *)
(* name that is defined, and --config takes a machine's free slot.         *)
Refused(c) ==
    CASE c.vm = None -> c.to = "defined" /\ libnet # "absent"
      [] c.slot # 0  -> up[c.vm] # None
      [] OTHER       -> Free(c.vm) = {}

RunCommand ==
    /\ todo # <<>>
    /\ LET c    == Head(Head(todo))
           left == Tail(Head(todo)) IN
        /\ ~Refused(c)
        /\ IF c.vm = None
           THEN libnet' = c.to /\ UNCHANGED wires
           ELSE /\ \E slot \in IF c.slot = 0 THEN FirstFree(c.vm) ELSE {c.slot} :
                      wires' = [wires EXCEPT ![c.vm][slot] = c.to]
                /\ UNCHANGED libnet
        /\ todo' = IF left = <<>> THEN Tail(todo) ELSE <<left>> \o Tail(todo)
        /\ wired' = (wired \/ (left = <<>> /\ c.vm = "workstation"))
    /\ UNCHANGED <<hypervisor, up, bootWired, guest>>

(* For a reason of its own or for none, a command fails.                   *)
FailCommand ==
    /\ todo # <<>>
    /\ todo' = Tail(todo)
    /\ UNCHANGED <<hypervisor, libnet, wires, wired, up, bootWired, guest>>

-----------------------------------------------------------------------------
(* External: a machine boots with the adapters it has; the workstation     *)
(* gets an address, a route and a name server by DHCP on those that lead   *)
(* outside, and keeps resolv.conf otherwise.                               *)
Leased(adapters, dns) ==
    LET outside == {s \in Slots : adapters[s] = "external"} IN
    [addressed |-> outside, routes |-> outside \X {"router"},
     dns |-> IF outside = {} THEN dns ELSE {"router"}, configured |-> FALSE]

Boot(vm) ==
    /\ up[vm] = None
    /\ hypervisor = "virsh" /\ (\E s \in Slots : wires[vm][s] = "internal") => libnet = "active"
    /\ up' = [up EXCEPT ![vm] = wires[vm]]
    /\ IF vm = "workstation"
       THEN guest' = Leased(wires[vm], guest.dns) /\ bootWired' = wired
       ELSE UNCHANGED <<guest, bootWired>>
    /\ UNCHANGED host

Shutdown(vm) ==
    /\ up[vm] # None
    /\ up' = [up EXCEPT ![vm] = None]
    /\ IF vm = "workstation"
       THEN guest' = Bare(guest.dns) /\ bootWired' = FALSE
       ELSE UNCHANGED <<guest, bootWired>>
    /\ UNCHANGED host

Interfaces == IF up["workstation"] = None THEN {}
              ELSE {s \in Slots : up["workstation"][s] # "none"}

(* configure_networking on one interface, up to the command that fails.    *)
(* Flushing the addresses takes the interface's routes away; beside a      *)
(* default route that is left the kernel takes another or refuses it,      *)
(* depending on their metrics.                                             *)
Flush(g, s) == [addressed |-> g.addressed \ {s}, routes |-> {r \in g.routes : r[1] # s},
                dns |-> g.dns, configured |-> FALSE]
Address(g, s) == [g EXCEPT !.addressed = @ \cup {s}]
Route(g, s) == [g EXCEPT !.routes = @ \cup {<<s, "gateway">>}]
(* mutant: the name server is added to those of before *)
ResolveAlso(g) == [g EXCEPT !.dns = {"gateway"} \cup IF @ = None THEN {} ELSE @, !.configured = TRUE]
(* mutant: a public name server besides *)
ResolveWithFallback(g) == [g EXCEPT !.dns = {"gateway", "public"}, !.configured = TRUE]
Resolve(g) == [g EXCEPT !.dns = {"gateway"}, !.configured = TRUE]

Configure(s) ==
    /\ s \in Interfaces
    /\ LET flushed == Flush(guest, s)
           address == Address(flushed, s)
           route   == Route(address, s) IN
        guest' \in {flushed, address, route, Resolve(route)}
    /\ UNCHANGED <<host, up, bootWired>>

Next ==
    \/ Wire \/ RunCommand \/ FailCommand
    \/ \E vm \in Machines : Boot(vm) \/ Shutdown(vm)
    \/ \E s \in Slots : Configure(s)

Spec == Init /\ [][Next]_vars

-----------------------------------------------------------------------------
(* What verify_isolation concludes when it expects a gateway (or None).    *)
OneInterfaceOrMore == Interfaces # {}  \* mutant
OneInterface == Cardinality(Interfaces) = 1
OneRoute(expected) ==
    /\ Cardinality(guest.routes) = 1
    /\ expected # None => \A r \in guest.routes : r[2] = expected
OneResolver(expected) ==
    guest.dns # None =>
        /\ Cardinality(guest.dns) <= 1
        /\ expected # None => guest.dns = {expected}
Passed(expected) == OneInterface /\ OneRoute(expected) /\ OneResolver(expected)

Isolated == \A s \in Interfaces : up["workstation"][s] = "internal"

(* After a wiring that returned True, a check that passes can be believed, *)
(* whatever adapters the machine had before (gateway_topology.py, the two  *)
(* wire_workstation functions, workstation.py verify_isolation).           *)
WiredCheckIsSound ==
    bootWired => \A expected \in {"gateway", None} :
        Passed(expected) => Isolated

(* On an isolated workstation with one adapter, configure_networking does  *)
(* all that verify_isolation asks for.                                     *)
NoFalseAlarm ==
    OneInterface /\ Isolated /\ guest.configured => Passed("gateway")
=============================================================================
