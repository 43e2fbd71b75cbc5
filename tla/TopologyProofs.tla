--------------------------- MODULE TopologyProofs ----------------------------
(***************************************************************************)
(* What can be concluded from a check of the workstation, for any number   *)
(* of adapter slots and any adapters at first.                             *)
(***************************************************************************)
EXTENDS Topology, FiniteSetTheorems, SequenceTheorems, TLAPS

(* Where a wiring may stand.                                               *)
SetUp == Nic("workstation", 2, "none")
VBoxStages ==
    {<<>>, <<VBoxGateway, VBoxWorkstation>>,
     <<<<Nic("gateway", 2, "internal")>>, VBoxWorkstation>>,
     <<VBoxWorkstation>>, <<<<SetUp>>>>}
VirshStages ==
    {<<>>, <<VirshNetwork, VirshGateway, VirshWorkstation>>,
     <<<<Network("active"), Network("active")>>, VirshGateway, VirshWorkstation>>,
     <<<<Network("active")>>, VirshGateway, VirshWorkstation>>,
     <<VirshGateway, VirshWorkstation>>,
     <<<<Attach("gateway", "internal")>>, VirshWorkstation>>, <<VirshWorkstation>>}
Stages == IF hypervisor = "vbox" THEN VBoxStages ELSE VirshStages

(* Type correctness, with the stage of the wiring.                         *)
TypeInv == TypeOK /\ todo \in Stages

LeadsInside(adapters) == \E s \in Slots : adapters[s] = "internal"

(* A wiring of the workstation that has returned True, or has one command  *)
(* of VirtualBox left, has an adapter of it lead inside.                   *)
WiredInv ==
    /\ wired => todo = <<>> /\ LeadsInside(wires["workstation"])
    /\ todo = <<<<SetUp>>>> => wires["workstation"][1] = "internal"
    /\ bootWired => up["workstation"] # None /\ LeadsInside(up["workstation"])

GuestInv ==
    /\ \A r \in guest.routes : r[1] \in Interfaces
    /\ guest.configured =>
        /\ guest.dns = {"gateway"}
        /\ \E s \in Interfaces :
            /\ <<s, "gateway">> \in guest.routes
            /\ \A r \in guest.routes : r[1] = s => r[2] = "gateway"
-----------------------------------------------------------------------------
(* Short sequences, taken apart and put together.                          *)
LEMMA One == ASSUME NEW a PROVE Head(<<a>>) = a /\ Tail(<<a>>) = <<>> /\ <<a>> # <<>>
  BY SMT
LEMMA Two ==
    ASSUME NEW a, NEW b
    PROVE  /\ Head(<<a, b>>) = a /\ Tail(<<a, b>>) = <<b>> /\ <<a, b>> # <<>>
           /\ <<a>> \o <<b>> = <<a, b>> /\ <<a>> \o <<>> = <<a>>
  <1> DEFINE S == {a, b}
  <1>1. /\ <<a>> \in Seq(S) /\ <<b>> \in Seq(S) /\ <<a, b>> \in Seq(S) /\ <<a, b>> # <<>>
        /\ Len(<<a>>) = 1 /\ Len(<<b>>) = 1 /\ Len(<<a, b>>) = 2
    BY SMT
  <1>2. Tail(<<a, b>>) = <<b>>
    <2>1. /\ Tail(<<a, b>>) \in Seq(S) /\ Len(Tail(<<a, b>>)) = 1
          /\ \A i \in 1 .. 1 : Tail(<<a, b>>)[i] = <<a, b>>[i + 1]
      BY <1>1, HeadTailProperties
    <2>2. \A i \in 1 .. 1 : Tail(<<a, b>>)[i] = <<b>>[i]
      BY <2>1
    <2> HIDE DEF S
    <2> QED BY <1>1, <2>1, <2>2, SeqEqual
  <1>3. <<a>> \o <<b>> = <<a, b>>
    <2>1. /\ <<a>> \o <<b>> \in Seq(S) /\ Len(<<a>> \o <<b>>) = 2
          /\ \A i \in 1 .. 2 : (<<a>> \o <<b>>)[i] = IF i <= 1 THEN <<a>>[i] ELSE <<b>>[i - 1]
      BY <1>1, ConcatProperties
    <2>2. \A i \in 1 .. 2 : (<<a>> \o <<b>>)[i] = <<a, b>>[i]
      BY <2>1
    <2> HIDE DEF S
    <2> QED BY <1>1, <2>1, <2>2, SeqEqual
  <1>4. <<a>> \o <<>> = <<a>>
    BY <1>1, ConcatEmptySeq
  <1> QED BY <1>1, <1>2, <1>3, <1>4
LEMMA Three ==
    ASSUME NEW a, NEW b, NEW c
    PROVE  /\ Head(<<a, b, c>>) = a /\ Tail(<<a, b, c>>) = <<b, c>> /\ <<a, b, c>> # <<>>
           /\ <<a>> \o <<b, c>> = <<a, b, c>>
  <1> DEFINE S == {a, b, c}
  <1>1. /\ <<a>> \in Seq(S) /\ <<b, c>> \in Seq(S) /\ <<a, b, c>> \in Seq(S)
        /\ <<a, b, c>> # <<>>
        /\ Len(<<a>>) = 1 /\ Len(<<b, c>>) = 2 /\ Len(<<a, b, c>>) = 3
    BY SMT
  <1>2. Tail(<<a, b, c>>) = <<b, c>>
    <2>1. /\ Tail(<<a, b, c>>) \in Seq(S) /\ Len(Tail(<<a, b, c>>)) = 2
          /\ \A i \in 1 .. 2 : Tail(<<a, b, c>>)[i] = <<a, b, c>>[i + 1]
      BY <1>1, HeadTailProperties
    <2>2. \A i \in 1 .. 2 : Tail(<<a, b, c>>)[i] = <<b, c>>[i]
      BY <2>1
    <2> HIDE DEF S
    <2> QED BY <1>1, <2>1, <2>2, SeqEqual
  <1>3. <<a>> \o <<b, c>> = <<a, b, c>>
    <2>1. /\ <<a>> \o <<b, c>> \in Seq(S) /\ Len(<<a>> \o <<b, c>>) = 3
          /\ \A i \in 1 .. 3 :
                (<<a>> \o <<b, c>>)[i] = IF i <= 1 THEN <<a>>[i] ELSE <<b, c>>[i - 1]
      BY <1>1, ConcatProperties
    <2>2. \A i \in 1 .. 3 : (<<a>> \o <<b, c>>)[i] = <<a, b, c>>[i]
      BY <2>1
    <2> HIDE DEF S
    <2> QED BY <1>1, <2>1, <2>2, SeqEqual
  <1> QED BY <1>1, <1>2, <1>3

(* The command of a wiring that is next, what its function has left then,  *)
(* and what the wiring has.                                                *)
Command == Head(Head(todo))
Left == Tail(Head(todo))
Rest == IF Left = <<>> THEN Tail(todo) ELSE <<Left>> \o Tail(todo)

LEMMA VBoxGoesOn ==
    ASSUME todo \in VBoxStages, todo # <<>>
    PROVE  \/ /\ todo = <<VBoxGateway, VBoxWorkstation>>
              /\ Command = Nic("gateway", 1, "external") /\ Left = <<Nic("gateway", 2, "internal")>>
              /\ Rest = <<Left, VBoxWorkstation>> /\ Tail(todo) = <<VBoxWorkstation>>
           \/ /\ todo = <<<<Nic("gateway", 2, "internal")>>, VBoxWorkstation>>
              /\ Command = Nic("gateway", 2, "internal") /\ Left = <<>>
              /\ Rest = <<VBoxWorkstation>> /\ Tail(todo) = <<VBoxWorkstation>>
           \/ /\ todo = <<VBoxWorkstation>>
              /\ Command = Nic("workstation", 1, "internal") /\ Left = <<SetUp>>
              /\ Rest = <<<<SetUp>>>> /\ Tail(todo) = <<>>
           \/ /\ todo = <<<<SetUp>>>>
              /\ Command = SetUp /\ Left = <<>> /\ Rest = <<>> /\ Tail(todo) = <<>>
  <1>1. CASE todo = <<VBoxGateway, VBoxWorkstation>>
    BY <1>1, One, Two DEF Command, Left, Rest, VBoxGateway
  <1>2. CASE todo = <<<<Nic("gateway", 2, "internal")>>, VBoxWorkstation>>
    BY <1>2, One, Two DEF Command, Left, Rest
  <1>3. CASE todo = <<VBoxWorkstation>>
    BY <1>3, One, Two DEF Command, Left, Rest, VBoxWorkstation, SetUp
  <1>4. CASE todo = <<<<SetUp>>>>
    BY <1>4, One DEF Command, Left, Rest
  <1> QED BY <1>1, <1>2, <1>3, <1>4 DEF VBoxStages

LEMMA VirshGoesOn ==
    ASSUME todo \in VirshStages, todo # <<>>
    PROVE  /\ Rest \in VirshStages /\ Tail(todo) \in VirshStages
           /\ \/ Command \in {Network("defined"), Network("active")}
              \/ Command \in {Attach("gateway", "external"), Attach("gateway", "internal")}
              \/ Command = Attach("workstation", "internal") /\ Rest = <<>>
  <1>1. CASE todo = <<VirshNetwork, VirshGateway, VirshWorkstation>>
    <2>1. Command = Network("defined") /\ Left = <<Network("active"), Network("active")>>
      BY <1>1, Three DEF Command, Left, VirshNetwork
    <2>2. Tail(todo) = <<VirshGateway, VirshWorkstation>> /\ Left # <<>>
      BY <1>1, <2>1, Two, Three
    <2>3. Rest = <<<<Network("active"), Network("active")>>, VirshGateway, VirshWorkstation>>
      <3>1. Rest = <<Left>> \o Tail(todo)
        BY <2>2 DEF Rest
      <3>2. <<Left>> \o <<VirshGateway, VirshWorkstation>> = <<Left, VirshGateway, VirshWorkstation>>
        BY Three
      <3> QED BY <2>1, <2>2, <3>1, <3>2
    <2> QED BY <2>1, <2>2, <2>3 DEF VirshStages
  <1>2. CASE todo = <<<<Network("active"), Network("active")>>, VirshGateway, VirshWorkstation>>
    <2>1. Command = Network("active") /\ Left = <<Network("active")>>
      BY <1>2, Two, Three DEF Command, Left
    <2>2. Tail(todo) = <<VirshGateway, VirshWorkstation>> /\ Left # <<>>
      BY <1>2, <2>1, One, Three
    <2>3. Rest = <<<<Network("active")>>, VirshGateway, VirshWorkstation>>
      <3>1. Rest = <<Left>> \o Tail(todo)
        BY <2>2 DEF Rest
      <3>2. <<Left>> \o <<VirshGateway, VirshWorkstation>> = <<Left, VirshGateway, VirshWorkstation>>
        BY Three
      <3> QED BY <2>1, <2>2, <3>1, <3>2
    <2> QED BY <2>1, <2>2, <2>3 DEF VirshStages
  <1>3. CASE todo = <<<<Network("active")>>, VirshGateway, VirshWorkstation>>
    <2>1. Command = Network("active") /\ Rest = <<VirshGateway, VirshWorkstation>>
            /\ Tail(todo) = Rest
      BY <1>3, One, Three DEF Command, Left, Rest
    <2> QED BY <2>1 DEF VirshStages
  <1>4. CASE todo = <<VirshGateway, VirshWorkstation>>
    <2>1. Command = Attach("gateway", "external") /\ Left = <<Attach("gateway", "internal")>>
      BY <1>4, Two DEF Command, Left, VirshGateway
    <2>2. Tail(todo) = <<VirshWorkstation>> /\ Left # <<>>
      BY <1>4, <2>1, One, Two
    <2>3. Rest = <<<<Attach("gateway", "internal")>>, VirshWorkstation>>
      <3>1. Rest = <<Left>> \o Tail(todo)
        BY <2>2 DEF Rest
      <3>2. <<Left>> \o <<VirshWorkstation>> = <<Left, VirshWorkstation>>
        BY Two
      <3> QED BY <2>1, <2>2, <3>1, <3>2
    <2> QED BY <2>1, <2>2, <2>3 DEF VirshStages
  <1>5. CASE todo = <<<<Attach("gateway", "internal")>>, VirshWorkstation>>
    <2>1. Command = Attach("gateway", "internal") /\ Rest = <<VirshWorkstation>>
            /\ Tail(todo) = Rest
      BY <1>5, One, Two DEF Command, Left, Rest
    <2> QED BY <2>1 DEF VirshStages
  <1>6. CASE todo = <<VirshWorkstation>>
    <2>1. Command = Attach("workstation", "internal") /\ Rest = <<>> /\ Tail(todo) = <<>>
      BY <1>6, One DEF Command, Left, Rest, VirshWorkstation
    <2> QED BY <2>1 DEF VirshStages
  <1> QED BY <1>1, <1>2, <1>3, <1>4, <1>5, <1>6 DEF VirshStages

(* The stages of a wiring are told apart by their lengths.                 *)
LEMMA VBoxStagesDiffer ==
    /\ <<VBoxGateway, VBoxWorkstation>> \notin {<<VBoxWorkstation>>, <<<<SetUp>>>>}
    /\ <<<<Nic("gateway", 2, "internal")>>, VBoxWorkstation>> \notin {<<VBoxWorkstation>>, <<<<SetUp>>>>}
    /\ <<VBoxWorkstation>> # <<<<SetUp>>>>
  <1>1. \A a, b, c : <<a, b>> # <<c>>
    OBVIOUS
  <1>2. VBoxWorkstation # <<SetUp>>
    BY <1>1 DEF VBoxWorkstation
  <1> QED BY <1>1, <1>2, One

LEMMA VirshNotSetUp == <<<<SetUp>>>> \notin VirshStages
  <1>1. <<Attach("workstation", "internal")>> # <<SetUp>>
    BY One DEF Attach, SetUp, Nic
  <1>2. <<VirshWorkstation>> # <<<<SetUp>>>>
    BY <1>1, One DEF VirshWorkstation
  <1> QED BY <1>2 DEF VirshStages
-----------------------------------------------------------------------------
Settings == [addressed : SUBSET Slots, routes : SUBSET (Slots \X {"gateway", "router"}),
             dns : (SUBSET {"gateway", "router"}) \cup {None}, configured : BOOLEAN]

LEMMA BareIsSettings ==
    ASSUME NEW dns \in (SUBSET {"gateway", "router"}) \cup {None}
    PROVE  Bare(dns) \in Settings
  BY DEF Bare, Settings

LEMMA LeasedIsSettings ==
    ASSUME NEW adapters, NEW dns \in (SUBSET {"gateway", "router"}) \cup {None}
    PROVE  Leased(adapters, dns) \in Settings
  <1> DEFINE outside == {s \in Slots : adapters[s] = "external"}
  <1>1. outside \in SUBSET Slots /\ outside \X {"router"} \in SUBSET (Slots \X {"gateway", "router"})
    OBVIOUS
  <1> QED BY <1>1 DEF Leased, Settings

LEMMA TypeInit == Init => TypeInv
  <1> SUFFICES ASSUME Init PROVE TypeInv
    OBVIOUS
  <1>1. todo \in Stages
    BY DEF Init, Stages, VBoxStages, VirshStages
  <1>2. wires \in [Machines -> [Slots -> Nets]]
    BY AdapterAssumption DEF Init
  <1>3. guest \in Settings
    BY BareIsSettings DEF Init
  <1> QED BY <1>1, <1>2, <1>3 DEF Init, TypeInv, TypeOK, Settings

(* What a command that is not refused does to the adapters.                *)
LEMMA Runs ==
    ASSUME TypeInv, RunCommand
    PROVE  /\ todo # <<>> /\ todo' = Rest /\ UNCHANGED <<hypervisor, up, bootWired, guest>>
           /\ \/ Command.vm = None /\ libnet' = Command.to /\ UNCHANGED wires
              \/ \E slot \in IF Command.slot = 0 THEN FirstFree(Command.vm) ELSE {Command.slot} :
                    /\ wires' = [wires EXCEPT ![Command.vm][slot] = Command.to]
                    /\ Command.vm # None /\ UNCHANGED libnet
           /\ wired' = (wired \/ (Left = <<>> /\ Command.vm = "workstation"))
  BY DEF RunCommand, Command, Left, Rest

LEMMA CommandTypes ==
    ASSUME TypeInv, todo # <<>>
    PROVE  /\ Command.vm = None => Command.to \in {"defined", "active"}
           /\ Command.vm # None =>
                Command.vm \in Machines /\ Command.slot \in Slots \cup {0} /\ Command.to \in Nets
  <1>1. CASE hypervisor = "vbox"
    BY <1>1, VBoxGoesOn, SlotAssumption, AdapterAssumption
       DEF TypeInv, Stages, Nic, SetUp, Machines, Nets
  <1>2. CASE hypervisor # "vbox"
    BY <1>2, VirshGoesOn, AdapterAssumption
       DEF TypeInv, Stages, Attach, Network, Machines, Nets
  <1> QED BY <1>1, <1>2

(* configure_networking, whichever command it stops at.                    *)
LEMMA Configured ==
    ASSUME NEW s \in Slots, NEW g \in Settings, Configure(s), guest = g
    PROVE  /\ s \in Interfaces /\ UNCHANGED <<host, up, bootWired>> /\ guest' \in Settings
           /\ guest'.configured =>
                /\ guest'.dns = {"gateway"} /\ <<s, "gateway">> \in guest'.routes
           /\ \A r \in guest'.routes :
                \/ r \in g.routes /\ r[1] # s
                \/ r = <<s, "gateway">>
  <1> DEFINE flushed == Flush(g, s)
             address == Address(flushed, s)
             route   == Route(address, s)
  <1>1. /\ flushed \in Settings /\ ~flushed.configured
        /\ \A r \in flushed.routes : r \in g.routes /\ r[1] # s
    BY DEF Flush, Settings
  <1>2. /\ address \in Settings /\ ~address.configured /\ address.routes = flushed.routes
    <2> HIDE DEF flushed
    <2> QED BY <1>1 DEF Address, Settings
  <1>3. /\ route \in Settings /\ ~route.configured
        /\ route.routes = flushed.routes \cup {<<s, "gateway">>}
    <2> HIDE DEF flushed, address
    <2> QED BY <1>2 DEF Route, Settings
  <1>4. /\ Resolve(route) \in Settings /\ Resolve(route).routes = route.routes
        /\ Resolve(route).dns = {"gateway"}
    <2> HIDE DEF flushed, address, route
    <2> QED BY <1>3 DEF Resolve, Settings
  <1>5. guest' \in {flushed, address, route, Resolve(route)}
    BY DEF Configure
  <1>6. s \in Interfaces /\ UNCHANGED <<host, up, bootWired>>
    BY DEF Configure
  <1> HIDE DEF flushed, address, route
  <1> QED BY <1>1, <1>2, <1>3, <1>4, <1>5, <1>6

LEMMA TypeKept == TypeInv /\ [Next]_vars => TypeInv'
  <1> SUFFICES ASSUME TypeInv, [Next]_vars PROVE TypeInv'
    OBVIOUS
  <1>1. CASE Wire
    BY <1>1 DEF Wire, Wiring, TypeInv, TypeOK, Stages, VBoxStages, VirshStages
  <1>2. CASE RunCommand
    <2>1. todo' \in Stages'
      BY <1>2, Runs, VBoxGoesOn, VirshGoesOn DEF TypeInv, Stages, VBoxStages
    <2>2. libnet' \in {"absent", "defined", "active"}
      BY <1>2, Runs, CommandTypes DEF TypeInv, TypeOK
    <2>3. wires' \in [Machines -> [Slots -> Nets]]
      <3>1. CASE UNCHANGED wires
        BY <3>1 DEF TypeInv, TypeOK
      <3>2. ASSUME NEW slot, slot \in IF Command.slot = 0 THEN FirstFree(Command.vm)
                                                         ELSE {Command.slot},
                   wires' = [wires EXCEPT ![Command.vm][slot] = Command.to],
                   Command.vm # None
            PROVE  wires' \in [Machines -> [Slots -> Nets]]
        <4>1. Command.vm \in Machines /\ slot \in Slots /\ Command.to \in Nets
          BY <1>2, <3>2, Runs, CommandTypes DEF FirstFree, Free
        <4> QED BY <3>2, <4>1 DEF TypeInv, TypeOK
      <3> QED BY <1>2, <3>1, <3>2, Runs
    <2> QED BY <1>2, <2>1, <2>2, <2>3, Runs DEF TypeInv, TypeOK
  <1>3. CASE FailCommand
    <2>1. todo' \in Stages'
      BY <1>3, VBoxGoesOn, VirshGoesOn DEF FailCommand, TypeInv, Stages, VBoxStages
    <2> QED BY <1>3, <2>1 DEF FailCommand, TypeInv, TypeOK
  <1>4. ASSUME NEW vm \in Machines, Boot(vm) PROVE TypeInv'
    <2>1. guest' \in Settings
      BY <1>4, LeasedIsSettings DEF Boot, TypeInv, TypeOK, Settings
    <2>2. up' \in [Machines -> [Slots -> Nets] \cup {None}]
      BY <1>4 DEF Boot, TypeInv, TypeOK
    <2> QED BY <1>4, <2>1, <2>2 DEF Boot, host, TypeInv, TypeOK, Stages, Settings
  <1>5. ASSUME NEW vm \in Machines, Shutdown(vm) PROVE TypeInv'
    <2>1. guest' \in Settings
      BY <1>5, BareIsSettings DEF Shutdown, TypeInv, TypeOK, Settings
    <2>2. up' \in [Machines -> [Slots -> Nets] \cup {None}]
      BY <1>5 DEF Shutdown, TypeInv, TypeOK
    <2> QED BY <1>5, <2>1, <2>2 DEF Shutdown, host, TypeInv, TypeOK, Stages, Settings
  <1>6. ASSUME NEW s \in Slots, Configure(s) PROVE TypeInv'
    <2>1. guest \in Settings
      BY DEF TypeInv, TypeOK, Settings
    <2>2. guest' \in Settings /\ UNCHANGED <<host, up, bootWired>>
      BY <1>6, <2>1, Configured
    <2> QED BY <2>2 DEF host, TypeInv, TypeOK, Stages, Settings
  <1>7. CASE UNCHANGED vars
    BY <1>7 DEF vars, host, TypeInv, TypeOK, Stages
  <1> QED BY <1>1, <1>2, <1>3, <1>4, <1>5, <1>6, <1>7 DEF Next
-----------------------------------------------------------------------------
LEMMA WiredKept == TypeInv /\ WiredInv /\ [Next]_vars => WiredInv'
  <1> SUFFICES ASSUME TypeInv, WiredInv, [Next]_vars PROVE WiredInv'
    OBVIOUS
  <1>0. {1, 2} \subseteq Slots /\ "workstation" \in Machines /\ None # "workstation"
    BY SlotAssumption, AdapterAssumption DEF Machines
  <1>1. CASE Wire
    <2>1. todo' # <<<<SetUp>>>>
      BY <1>1, One DEF Wire, Wiring, VBoxWorkstation, SetUp
    <2> QED BY <1>1, <2>1 DEF Wire, WiredInv, LeadsInside
  <1>2. CASE RunCommand
    <2>1. ~wired /\ todo # <<>> /\ todo' = Rest /\ UNCHANGED <<up, bootWired>>
      BY <1>2, Runs DEF WiredInv
    <2>2. CASE hypervisor = "vbox"
      <3>1. todo \in VBoxStages
        BY <2>2 DEF TypeInv, Stages
      <3>2. CASE todo = <<VBoxWorkstation>>
        <4>1. Command = Nic("workstation", 1, "internal") /\ Left # <<>>
          BY <3>1, <3>2, <2>1, VBoxGoesOn, One, VBoxStagesDiffer
        <4>2. wires' = [wires EXCEPT !["workstation"][1] = "internal"]
          BY <1>0, <1>2, <4>1, Runs DEF Nic
        <4>4. wired' = FALSE
          BY <1>2, <2>1, <4>1, Runs
        <4>3. wires'["workstation"][1] = "internal"
          BY <1>0, <4>2 DEF TypeInv, TypeOK
        <4> QED BY <2>1, <4>3, <4>4 DEF WiredInv, LeadsInside
      <3>3. CASE todo = <<<<SetUp>>>>
        <4>1. Command = SetUp /\ Rest = <<>>
          BY <3>1, <3>3, <2>1, VBoxGoesOn, VBoxStagesDiffer
        <4>2. wires' = [wires EXCEPT !["workstation"][2] = "none"]
          BY <1>0, <1>2, <4>1, Runs DEF SetUp, Nic
        <4>3. wires["workstation"][1] = "internal"
          BY <3>3 DEF WiredInv
        <4>4. wires'["workstation"][1] = "internal"
          BY <1>0, <4>2, <4>3 DEF TypeInv, TypeOK
        <4>5. todo' = <<>> /\ todo' # <<<<SetUp>>>>
          BY <2>1, <4>1, One
        <4> QED BY <1>0, <2>1, <4>4, <4>5 DEF WiredInv, LeadsInside
      <3>4. CASE todo # <<VBoxWorkstation>> /\ todo # <<<<SetUp>>>>
        <4>1. Command.vm = "gateway" /\ Rest # <<<<SetUp>>>>
          <5>1. <<Left, VBoxWorkstation>> # <<<<SetUp>>>> /\ <<VBoxWorkstation>> # <<<<SetUp>>>>
            BY One, Two DEF VBoxWorkstation, SetUp
          <5> QED BY <2>1, <3>1, <3>4, <5>1, VBoxGoesOn DEF Nic
        <4>2. wired' = FALSE
          BY <1>2, <2>1, <4>1, Runs
        <4> QED BY <2>1, <4>1, <4>2 DEF WiredInv, LeadsInside
      <3> QED BY <3>2, <3>3, <3>4
    <2>3. CASE hypervisor # "vbox"
      <3>1. todo \in VirshStages
        BY <2>3 DEF TypeInv, Stages
      <3>2. Rest # <<<<SetUp>>>>
        BY <2>1, <3>1, VirshGoesOn, VirshNotSetUp
      <3>3. CASE Command = Attach("workstation", "internal") /\ Rest = <<>>
        <4>1. PICK slot \in FirstFree("workstation") :
                wires' = [wires EXCEPT !["workstation"][slot] = "internal"]
          BY <1>0, <1>2, <3>3, Runs DEF Attach
        <4>2. slot \in Slots /\ wires'["workstation"][slot] = "internal"
          BY <1>0, <4>1 DEF FirstFree, Free, TypeInv, TypeOK
        <4> QED BY <2>1, <3>2, <3>3, <4>2 DEF WiredInv, LeadsInside
      <3>4. CASE Command.vm # "workstation"
        <4>1. wired' = FALSE
          BY <1>2, <2>1, <3>4, Runs
        <4> QED BY <2>1, <3>2, <4>1 DEF WiredInv, LeadsInside
      <3> QED BY <2>1, <3>1, <3>3, <3>4, VirshGoesOn, AdapterAssumption DEF Attach, Network
    <2> QED BY <2>2, <2>3
  <1>3. CASE FailCommand
    <2>1. ~wired /\ todo # <<>> /\ todo' = Tail(todo) /\ UNCHANGED <<wired, wires, up, bootWired>>
      BY <1>3 DEF FailCommand, WiredInv
    <2>2. Tail(todo) # <<<<SetUp>>>>
      <3>1. <<VBoxWorkstation>> # <<<<SetUp>>>> /\ <<>> # <<<<SetUp>>>>
        BY One DEF VBoxWorkstation, SetUp
      <3>2. CASE todo \in VBoxStages
        BY <2>1, <3>1, <3>2, VBoxGoesOn
      <3>3. CASE todo \in VirshStages
        BY <2>1, <3>3, VirshGoesOn, VirshNotSetUp
      <3> QED BY <3>2, <3>3 DEF TypeInv, Stages
    <2> QED BY <2>1, <2>2 DEF WiredInv, LeadsInside
  <1>4. ASSUME NEW vm \in Machines, Boot(vm) PROVE WiredInv'
    <2>1. UNCHANGED <<todo, wired, wires>>
      BY <1>4 DEF Boot, host
    <2>2. CASE vm = "workstation"
      <3>1. up'["workstation"] = wires["workstation"] /\ bootWired' = wired
        BY <1>4, <2>2 DEF Boot, TypeInv, TypeOK
      <3>2. wires["workstation"] # None
        BY <1>0, AdapterAssumption DEF TypeInv, TypeOK
      <3> QED BY <2>1, <3>1, <3>2 DEF WiredInv, LeadsInside
    <2>3. CASE vm # "workstation"
      <3>1. up'["workstation"] = up["workstation"] /\ bootWired' = bootWired
        BY <1>0, <1>4, <2>3 DEF Boot, TypeInv, TypeOK
      <3> QED BY <2>1, <3>1 DEF WiredInv, LeadsInside
    <2> QED BY <2>2, <2>3
  <1>5. ASSUME NEW vm \in Machines, Shutdown(vm) PROVE WiredInv'
    <2>1. UNCHANGED <<todo, wired, wires>>
      BY <1>5 DEF Shutdown, host
    <2>2. CASE vm = "workstation"
      BY <1>5, <2>1, <2>2 DEF Shutdown, WiredInv, LeadsInside
    <2>3. CASE vm # "workstation"
      <3>1. up'["workstation"] = up["workstation"] /\ bootWired' = bootWired
        BY <1>0, <1>5, <2>3 DEF Shutdown, TypeInv, TypeOK
      <3> QED BY <2>1, <3>1 DEF WiredInv, LeadsInside
    <2> QED BY <2>2, <2>3
  <1>6. ASSUME NEW s \in Slots, Configure(s) PROVE WiredInv'
    BY <1>6 DEF Configure, host, WiredInv, LeadsInside
  <1>7. CASE UNCHANGED vars
    BY <1>7 DEF vars, host, WiredInv, LeadsInside
  <1> QED BY <1>1, <1>2, <1>3, <1>4, <1>5, <1>6, <1>7 DEF Next
-----------------------------------------------------------------------------
LEMMA GuestKept == TypeInv /\ GuestInv /\ [Next]_vars => GuestInv'
  <1> SUFFICES ASSUME TypeInv, GuestInv, [Next]_vars PROVE GuestInv'
    OBVIOUS
  <1>0. "workstation" \in Machines
    BY DEF Machines
  <1>1. CASE UNCHANGED <<up, guest>>
    BY <1>1 DEF GuestInv, Interfaces
  <1>2. CASE Wire \/ RunCommand \/ FailCommand \/ UNCHANGED vars
    BY <1>1, <1>2 DEF Wire, RunCommand, FailCommand, vars
  <1>3. ASSUME NEW vm \in Machines, Boot(vm) PROVE GuestInv'
    <2>1. CASE vm = "workstation"
      <3>1. up'["workstation"] = wires["workstation"] /\ guest' = Leased(wires["workstation"], guest.dns)
        BY <1>3, <2>1 DEF Boot, TypeInv, TypeOK
      <3>2. up'["workstation"] # None
        BY <1>0, <3>1, AdapterAssumption DEF TypeInv, TypeOK
      <3>3. ~guest'.configured
        BY <3>1 DEF Leased
      <3>4. ASSUME NEW r \in guest'.routes PROVE r[1] \in Interfaces'
        <4>1. r[1] \in Slots /\ wires["workstation"][r[1]] = "external"
          BY <3>1, <3>4 DEF Leased
        <4> QED BY <3>1, <3>2, <4>1 DEF Interfaces
      <3> QED BY <3>3, <3>4 DEF GuestInv
    <2>2. CASE vm # "workstation"
      <3>1. up'["workstation"] = up["workstation"] /\ guest' = guest
        BY <1>0, <1>3, <2>2 DEF Boot, TypeInv, TypeOK
      <3> QED BY <3>1 DEF GuestInv, Interfaces
    <2> QED BY <2>1, <2>2
  <1>4. ASSUME NEW vm \in Machines, Shutdown(vm) PROVE GuestInv'
    <2>1. CASE vm = "workstation"
      <3>1. guest'.routes = {} /\ ~guest'.configured
        BY <1>4, <2>1 DEF Shutdown, Bare
      <3> QED BY <3>1 DEF GuestInv
    <2>2. CASE vm # "workstation"
      <3>1. up'["workstation"] = up["workstation"] /\ guest' = guest
        BY <1>0, <1>4, <2>2 DEF Shutdown, TypeInv, TypeOK
      <3> QED BY <3>1 DEF GuestInv, Interfaces
    <2> QED BY <2>1, <2>2
  <1>5. ASSUME NEW s \in Slots, Configure(s) PROVE GuestInv'
    <2>1. guest \in Settings
      BY DEF TypeInv, TypeOK, Settings
    <2>2. /\ s \in Interfaces /\ UNCHANGED up
          /\ guest'.configured => guest'.dns = {"gateway"} /\ <<s, "gateway">> \in guest'.routes
          /\ \A r \in guest'.routes : (r \in guest.routes /\ r[1] # s) \/ r = <<s, "gateway">>
      BY <1>5, <2>1, Configured
    <2>3. Interfaces' = Interfaces
      BY <2>2 DEF Interfaces
    <2> QED BY <2>2, <2>3 DEF GuestInv
  <1> QED BY <1>2, <1>3, <1>4, <1>5 DEF Next

Inv == TypeInv /\ WiredInv /\ GuestInv

LEMMA InvHolds == Spec => []Inv
  <1>1. Init => WiredInv /\ GuestInv
    BY One DEF Init, WiredInv, GuestInv, Bare
  <1>2. Inv /\ [Next]_vars => Inv'
    BY TypeKept, WiredKept, GuestKept DEF Inv
  <1>3. Init => Inv
    BY <1>1, TypeInit DEF Inv
  <1> QED BY <1>2, <1>3, PTL DEF Spec

LEMMA InterfacesFinite == IsFiniteSet(Interfaces)
  <1>1. Interfaces \subseteq Slots
    BY DEF Interfaces
  <1> QED BY <1>1, SlotAssumption, FS_Subset

(* Every variable keeps its type, and a wiring is at one of its stages.    *)
THEOREM TopologyTypeCorrect == Spec => []TypeOK
  <1>1. Inv => TypeOK
    BY DEF Inv, TypeInv
  <1> QED BY <1>1, InvHolds, PTL

(* A check that passes on a machine whose wiring succeeded is right.       *)
THEOREM WiredCheckCanBeBelieved == Spec => []WiredCheckIsSound
  <1>1. Inv => WiredCheckIsSound
    <2> SUFFICES ASSUME Inv, bootWired, OneInterface PROVE Isolated
      BY DEF WiredCheckIsSound, Passed
    <2>1. PICK s \in Slots : up["workstation"][s] = "internal" /\ up["workstation"] # None
      BY DEF Inv, WiredInv, LeadsInside
    <2>2. s \in Interfaces
      BY <2>1 DEF Interfaces
    <2>3. PICK x : Interfaces = {x}
      BY InterfacesFinite, FS_Singleton DEF OneInterface
    <2> QED BY <2>1, <2>2, <2>3 DEF Isolated
  <1> QED BY <1>1, InvHolds, PTL

(* On an isolated workstation that was configured, the check passes.       *)
THEOREM ConfiguredPasses == Spec => []NoFalseAlarm
  <1>1. Inv => NoFalseAlarm
    <2> SUFFICES ASSUME Inv, OneInterface, guest.configured PROVE Passed("gateway")
      BY DEF NoFalseAlarm
    <2>1. PICK s \in Interfaces : <<s, "gateway">> \in guest.routes
                                    /\ \A r \in guest.routes : r[1] = s => r[2] = "gateway"
      BY DEF Inv, GuestInv
    <2>2. Interfaces = {s}
      BY <2>1, InterfacesFinite, FS_Singleton DEF OneInterface
    <2>3. guest.routes \subseteq Slots \X {"gateway", "router"}
      BY DEF Inv, TypeInv, TypeOK
    <2>4. guest.routes = {<<s, "gateway">>}
      BY <2>1, <2>2, <2>3 DEF Inv, GuestInv
    <2>5. guest.dns = {"gateway"}
      BY DEF Inv, GuestInv
    <2>6. Cardinality({<<s, "gateway">>}) = 1 /\ Cardinality({"gateway"}) = 1
      BY FS_Singleton
    <2> QED BY <2>4, <2>5, <2>6 DEF Passed, OneRoute, OneResolver
  <1> QED BY <1>1, InvHolds, PTL
=============================================================================
