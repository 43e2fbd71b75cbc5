------------------------- MODULE HostSettingsProofs -------------------------
(***************************************************************************)
(* What HostSettings keeps for any threads, keys, daemons, interfaces and  *)
(* scenes; some of it as long as one thread at a time runs.                *)
(***************************************************************************)
EXTENDS HostSettings, SequenceTheorems, TLAPS

(* The command line, or a window whose user waits for each button. *)
OneThread == \A t, u \in Threads : t = u

SysctlLabels == {"readSysctls", "writeSysctls", "restoreSysctls"}
VpnLabels == {"launch", "pidWait", "forgetOpenvpn", "wgUp", "recordWireguard", "forgetWireguard"}
LinkLabels == {"address", "linkUp", "carrier", "connect"}
HookLabels == {"unit", "enable", "rmUnit", "rmScript"}
Between == {"idle", "called"}
AllLabels == Between \cup SysctlLabels \cup VpnLabels \cup LinkLabels \cup HookLabels

CallersOK ==
    /\ plan \in [Threads -> Seq(Operations)]
    /\ pc \in [Threads -> AllLabels]
    /\ \A t \in Threads : plan[t] = <<>> <=> pc[t] = "idle"
    /\ unsaved \subseteq Threads

(* One thread moves, from one of the labels of a part to another, or in or *)
(* out of it.                                                              *)
Moves(t, labels) ==
    /\ CallersOK' /\ pc' = [pc EXCEPT ![t] = pc'[t]]
    /\ pc[t] \in labels \cup {"called"} /\ pc'[t] \in labels \cup Between
-----------------------------------------------------------------------------
(* A return leaves the thread idle or with its next operation. *)
LEMMA ReturnMoves ==
    ASSUME CallersOK, NEW t \in Threads, pc[t] # "idle", Return(t)
    PROVE  CallersOK' /\ pc'[t] \in Between /\ pc' = [pc EXCEPT ![t] = pc'[t]]
  <1>1. plan[t] \in Seq(Operations) /\ plan[t] # <<>>
    BY DEF CallersOK
  <1>2. Tail(plan[t]) \in Seq(Operations)
    BY <1>1, HeadTailProperties
  <1> QED BY <1>2 DEF CallersOK, Return, Between, AllLabels

(* So does an exception, and a jump goes where it says. *)
LEMMA RaiseMoves ==
    ASSUME CallersOK, NEW t \in Threads, Raise(t) \/ RaiseUnsaved(t)
    PROVE  CallersOK' /\ pc'[t] \in Between /\ pc' = [pc EXCEPT ![t] = pc'[t]]
  <1>1. End(t) /\ unsaved' \subseteq Threads
    BY DEF CallersOK, Raise, RaiseUnsaved
  <1> QED BY <1>1, EmptySeq DEF CallersOK, End, Between, AllLabels

LEMMA GotoMoves ==
    ASSUME CallersOK, NEW t \in Threads, pc[t] # "idle", NEW l \in AllLabels, l # "idle", Goto(t, l)
    PROVE  CallersOK' /\ pc'[t] = l /\ pc' = [pc EXCEPT ![t] = pc'[t]]
  BY DEF CallersOK, Goto

LEMMA SysctlMoves ==
    ASSUME CallersOK, NEW t \in Threads, SysctlStep(t)
    PROVE  Moves(t, SysctlLabels)
  <1>1. pc[t] \in SysctlLabels \cup {"called"}
    BY DEF SysctlStep, EnableSysctls, SysctlsRead, RecordSysctls, DisableSysctls, ForgetSysctls,
           ReadSysctl, WriteSysctl, RestoreSysctl, SysctlsUnsaved, Called, At, SysctlLabels
  <1>2. CASE Return(t) \/ RaiseUnsaved(t)
    BY <1>1, <1>2, ReturnMoves, RaiseMoves DEF Moves, SysctlLabels
  <1>3. ASSUME NEW l \in SysctlLabels, Goto(t, l)
        PROVE  Moves(t, SysctlLabels)
    BY <1>1, <1>3, GotoMoves DEF Moves, SysctlLabels, AllLabels
  <1>4. CASE UNCHANGED callers /\ pc[t] \in SysctlLabels
    BY <1>4 DEF callers, CallersOK, Moves
  <1> QED
    BY <1>2, <1>3, <1>4
    DEF SysctlStep, EnableSysctls, SysctlsRead, RecordSysctls, DisableSysctls, ForgetSysctls,
        ReadSysctl, WriteSysctl, RestoreSysctl, SysctlsUnsaved, At, SysctlLabels

LEMMA VpnMoves ==
    ASSUME CallersOK, NEW t \in Threads, VpnStep(t)
    PROVE  Moves(t, VpnLabels)
  <1>1. pc[t] \in VpnLabels \cup {"called"}
    BY DEF VpnStep, StartVpn, LaunchOpenvpn, CheckPid, StopOpenvpn, ForgetOpenvpn, WireguardUp,
           RecordWireguard, StopWireguard, ForgetWireguard, StopRaises, VpnUnsaved, Called, At, VpnLabels
  <1>2. CASE Return(t) \/ Raise(t) \/ RaiseUnsaved(t)
    BY <1>1, <1>2, ReturnMoves, RaiseMoves DEF Moves, VpnLabels
  <1>3. ASSUME NEW l \in VpnLabels, Goto(t, l)
        PROVE  Moves(t, VpnLabels)
    BY <1>1, <1>3, GotoMoves DEF Moves, VpnLabels, AllLabels
  <1> QED
    BY <1>2, <1>3
    DEF VpnStep, StartVpn, LaunchOpenvpn, CheckPid, StopOpenvpn, ForgetOpenvpn, WireguardUp,
        RecordWireguard, StopWireguard, ForgetWireguard, StopRaises, VpnUnsaved, VpnLabels

LEMMA LinkMoves ==
    ASSUME CallersOK, NEW t \in Threads, IdentityStep(t)
    PROVE  Moves(t, LinkLabels)
  <1>1. pc[t] \in LinkLabels \cup {"called"}
    BY DEF IdentityStep, LinkDown, SetAddress, LinkUp, Carrier, Connect, RandomizeHostname,
           Called, At, LinkLabels
  <1>2. CASE Return(t)
    BY <1>1, <1>2, ReturnMoves DEF Moves, LinkLabels
  <1>3. ASSUME NEW l \in LinkLabels, Goto(t, l)
        PROVE  Moves(t, LinkLabels)
    BY <1>1, <1>3, GotoMoves DEF Moves, LinkLabels, AllLabels
  <1>4. CASE Raise(t)
    BY <1>1, <1>4, RaiseMoves DEF Moves
  <1> QED
    BY <1>2, <1>3, <1>4
    DEF IdentityStep, LinkDown, SetAddress, LinkUp, Carrier, Connect, RandomizeHostname,
        Does, Fails, LinkLabels

LEMMA HookMoves ==
    ASSUME CallersOK, NEW t \in Threads, HookStep(t)
    PROVE  Moves(t, HookLabels)
  <1>1. pc[t] \in HookLabels \cup {"called"}
    BY DEF HookStep, WriteScript, WriteUnit, EnableUnit, DisableUnit, RemoveUnit, RemoveScript,
           Called, At, HookLabels
  <1>2. CASE Return(t)
    BY <1>1, <1>2, ReturnMoves DEF Moves, HookLabels
  <1>3. ASSUME NEW l \in HookLabels, Goto(t, l)
        PROVE  Moves(t, HookLabels)
    BY <1>1, <1>3, GotoMoves DEF Moves, HookLabels, AllLabels
  <1> QED
    BY <1>2, <1>3
    DEF HookStep, WriteScript, WriteUnit, EnableUnit, DisableUnit, RemoveUnit, RemoveScript,
        HookLabels
-----------------------------------------------------------------------------
(* Types, part by part.  What is written back is a value that was read.    *)
WasRead == \A t \in Threads : pc[t] = "restoreSysctls" => \A k \in left[t] : saved[t][k] # None

LEMMA SysctlTypes ==
    ASSUME SysctlTypeOK, WasRead, NEW t \in Threads, SysctlStep(t)
    PROVE  SysctlTypeOK'
  <1> USE SysctlAssumption
  <1>1. Unread \in [Keys -> Values \cup {None}]
    BY DEF Unread
  <1>2. CASE EnableSysctls(t) \/ SysctlsRead(t) \/ SysctlsUnsaved(t)
    BY <1>2 DEF SysctlTypeOK, EnableSysctls, SysctlsRead, SysctlsUnsaved
  <1>3. CASE RecordSysctls(t)
    BY <1>3 DEF SysctlTypeOK, RecordSysctls
  <1>4. CASE DisableSysctls(t)
    BY <1>4 DEF SysctlTypeOK, DisableSysctls
  <1>5. CASE ForgetSysctls(t)
    BY <1>1, <1>5 DEF SysctlTypeOK, ForgetSysctls
  <1>6. ASSUME NEW k \in Keys, ReadSysctl(t, k) PROVE SysctlTypeOK'
    <2>1. saved[t] \in [Keys -> Values \cup {None}] /\ sysctl[k] \in Values
      BY DEF SysctlTypeOK
    <2>2. \A v \in Values \cup {None} : [saved[t] EXCEPT ![k] = v] \in [Keys -> Values \cup {None}]
      BY <2>1
    <2>3. saved' \in [Threads -> [Keys -> Values \cup {None}]]
      BY <1>6, <2>1, <2>2 DEF SysctlTypeOK, ReadSysctl
    <2>4. left' \in [Threads -> SUBSET Keys] /\ lost' \subseteq Keys
      BY <1>6 DEF SysctlTypeOK, ReadSysctl, Treat
    <2> QED BY <1>6, <2>3, <2>4 DEF SysctlTypeOK, ReadSysctl
  <1>7. ASSUME NEW k \in Keys, WriteSysctl(t, k) PROVE SysctlTypeOK'
    BY <1>7 DEF SysctlTypeOK, WriteSysctl, Treat
  <1>8. ASSUME NEW k \in Keys, RestoreSysctl(t, k) PROVE SysctlTypeOK'
    <2>1. saved[t][k] \in Values
      BY <1>8 DEF SysctlTypeOK, WasRead, RestoreSysctl, Treat, At
    <2> QED BY <1>8, <2>1 DEF SysctlTypeOK, RestoreSysctl, Treat
  <1> QED BY <1>2, <1>3, <1>4, <1>5, <1>6, <1>7, <1>8 DEF SysctlStep

LEMMA VpnTypes ==
    ASSUME VpnTypeOK, NEW t \in Threads, VpnStep(t)
    PROVE  VpnTypeOK'
  BY DEF VpnTypeOK, vpnVars, VpnStep, StartVpn, LaunchOpenvpn, CheckPid, StopOpenvpn, ForgetOpenvpn,
         WireguardUp, RecordWireguard, StopWireguard, ForgetWireguard, StopRaises, VpnUnsaved,
         Unrecorded, Running

LEMMA LinkTypes ==
    ASSUME IdentityTypeOK, NEW t \in Threads, IdentityStep(t)
    PROVE  IdentityTypeOK'
  <1> USE DEF IdentityTypeOK, identityVars, programs, Does, Fails
  <1>1. CASE LinkDown(t)
    BY <1>1 DEF LinkDown
  <1>2. CASE SetAddress(t)
    BY <1>2 DEF SetAddress
  <1>3. CASE LinkUp(t)
    BY <1>3 DEF LinkUp
  <1>4. CASE Carrier(t)
    BY <1>4 DEF Carrier
  <1>5. CASE Connect(t)
    BY <1>5 DEF Connect
  <1>6. CASE RandomizeHostname(t)
    BY <1>6 DEF RandomizeHostname
  <1> QED BY <1>1, <1>2, <1>3, <1>4, <1>5, <1>6 DEF IdentityStep

LEMMA HookTypes ==
    ASSUME HookTypeOK, NEW t \in Threads, HookStep(t)
    PROVE  HookTypeOK'
  BY DEF HookTypeOK, HookStep, WriteScript, WriteUnit, EnableUnit, DisableUnit, RemoveUnit, RemoveScript

TypeInv == HostTypeOK /\ WasRead

LEMMA WasReadStep ==
    ASSUME CallersOK, SysctlTypeOK, WasRead, NEW t \in Threads, SysctlStep(t), Moves(t, SysctlLabels)
    PROVE  WasRead'
  <1> SUFFICES ASSUME NEW u \in Threads, pc'[u] = "restoreSysctls", NEW k \in left'[u]
               PROVE  saved'[u][k] # None
    BY DEF WasRead
  <1>1. CASE u # t
    <2>1. pc[u] = "restoreSysctls"
      BY <1>1 DEF Moves, CallersOK
    <2>2. left'[u] = left[u] /\ saved'[u] = saved[u]
      BY <1>1 DEF SysctlTypeOK, SysctlStep, EnableSysctls, SysctlsRead, RecordSysctls,
                  DisableSysctls, ForgetSysctls, ReadSysctl, WriteSysctl, RestoreSysctl, Treat,
                  SysctlsUnsaved
    <2> QED BY <2>1, <2>2 DEF WasRead
  <1>2. CASE u = t /\ DisableSysctls(t)
    <2>1. CASE Return(t)
      BY <1>2, <2>1, ReturnMoves DEF DisableSysctls, Called, Between
    <2> QED BY <1>2, <2>1 DEF DisableSysctls, SysctlTypeOK
  <1>3. ASSUME u = t, NEW i \in Keys, RestoreSysctl(t, i)
        PROVE  saved'[u][k] # None
    BY <1>3 DEF WasRead, RestoreSysctl, Treat, At, SysctlTypeOK
  <1>4. ASSUME u = t, ~DisableSysctls(t), \A i \in Keys : ~RestoreSysctl(t, i)
        PROVE  FALSE
    <2>1. CASE Return(t)
      <3>1. pc[t] # "idle"
        BY <1>4 DEF SysctlStep, EnableSysctls, SysctlsRead, RecordSysctls, ForgetSysctls,
                    ReadSysctl, WriteSysctl, SysctlsUnsaved, Called, At
      <3> QED BY <1>4, <2>1, <3>1, ReturnMoves DEF Between
    <2>2. CASE RaiseUnsaved(t)
      BY <1>4, <2>2, RaiseMoves DEF Between
    <2> QED
      BY <1>4, <2>1, <2>2
      DEF SysctlStep, EnableSysctls, SysctlsRead, RecordSysctls, ForgetSysctls,
          ReadSysctl, WriteSysctl, SysctlsUnsaved, At, Goto, CallersOK, callers
  <1> QED BY <1>1, <1>2, <1>3, <1>4

(* The steps of the other parts enter no label of the sysctls. *)
LEMMA WasReadKept ==
    ASSUME WasRead, CallersOK, NEW t \in Threads, NEW labels, labels \cap SysctlLabels = {},
           Moves(t, labels), UNCHANGED sysctlVars
    PROVE  WasRead'
  BY DEF WasRead, Moves, CallersOK, sysctlVars, SysctlLabels, Between

LEMMA PressMoves ==
    ASSUME CallersOK, scene \in Scenes, NEW t \in Threads, Press(t)
    PROVE  CallersOK' /\ pc[t] = "idle" /\ pc' = [pc EXCEPT ![t] = "called"]
  <1>1. PICK p \in scene.plans[t] : Ask(t, p)
    BY DEF Press
  <1>2. p \in Seq(Operations) /\ p # <<>>
    BY <1>1, SceneAssumption
  <1> QED BY <1>1, <1>2 DEF CallersOK, Ask, AllLabels, Between

LEMMA FirewallMoves ==
    ASSUME CallersOK, NEW t \in Threads, ScanOn(t) \/ KillSwitch(t)
    PROVE  Moves(t, {})
  BY ReturnMoves, RaiseMoves DEF ScanOn, KillSwitch, Called, Moves

LEMMA EndMoves ==
    ASSUME AllEnd
    PROVE  (CallersOK => CallersOK') /\ \A t \in Threads : pc'[t] = "idle"
  BY EmptySeq DEF AllEnd, CallersOK, AllLabels, Between

Parts == scene \in Scenes /\ CallersOK /\ SysctlTypeOK /\ VpnTypeOK /\ IdentityTypeOK /\ HookTypeOK
LEMMA HostTypeParts == (HostTypeOK <=> Parts) /\ (HostTypeOK' <=> Parts')
  BY DEF Parts, HostTypeOK, CallersOK, AllLabels, Between, SysctlLabels, VpnLabels, LinkLabels, HookLabels

(* Of the steps of a thread, each part has its own. *)
LEMMA StepCases ==
    ASSUME CallersOK, NEW t \in Threads, Step(t)
    PROVE  /\ UNCHANGED scene
           /\ \/ /\ SysctlStep(t) /\ Moves(t, SysctlLabels)
                 /\ UNCHANGED <<vpnVars, identityVars, hookVars>>
              \/ /\ VpnStep(t) /\ Moves(t, VpnLabels)
                 /\ UNCHANGED <<sysctlVars, identityVars, hookVars>>
              \/ /\ IdentityStep(t) /\ Moves(t, LinkLabels)
                 /\ UNCHANGED <<sysctlVars, vpnVars, hookVars>>
              \/ /\ HookStep(t) /\ Moves(t, HookLabels)
                 /\ UNCHANGED <<sysctlVars, vpnVars, identityVars>>
              \/ /\ Moves(t, {})
                 /\ UNCHANGED <<sysctlVars, vpnVars, identityVars, hookVars>>
  BY SysctlMoves, VpnMoves, LinkMoves, HookMoves, FirewallMoves DEF Step, ScanOn, KillSwitch

LEMMA TypeKept ==
    ASSUME TypeInv, [Next]_vars
    PROVE  TypeInv'
  <1> DEFINE Types == SysctlTypeOK /\ VpnTypeOK /\ IdentityTypeOK /\ HookTypeOK
  <1> SUFFICES scene' \in Scenes /\ CallersOK' /\ Types' /\ WasRead'
    BY HostTypeParts DEF TypeInv, Parts
  <1>a. scene \in Scenes /\ CallersOK /\ Types /\ WasRead
    BY HostTypeParts DEF TypeInv, Parts
  <1>b. \A labels \in {VpnLabels, LinkLabels, HookLabels, {}} : labels \cap SysctlLabels = {}
    BY DEF VpnLabels, LinkLabels, HookLabels, SysctlLabels
  <1>c. ASSUME NEW t \in Threads, NEW labels \in {VpnLabels, LinkLabels, HookLabels, {}},
               Moves(t, labels), UNCHANGED sysctlVars
        PROVE  WasRead' /\ CallersOK' /\ SysctlTypeOK'
    <2>1. WasRead'
      BY <1>a, <1>b, <1>c, WasReadKept
    <2> QED BY <1>a, <1>c, <2>1 DEF Moves, SysctlTypeOK, sysctlVars
  <1>1. ASSUME NEW t \in Threads, Step(t)
        PROVE  scene' \in Scenes /\ CallersOK' /\ Types' /\ WasRead'
    <2>1. UNCHANGED scene
      BY <1>a, <1>1, StepCases
    <2>2. CASE SysctlStep(t) /\ Moves(t, SysctlLabels) /\ UNCHANGED <<vpnVars, identityVars, hookVars>>
      <3>1. SysctlTypeOK' /\ WasRead' /\ CallersOK'
        BY <1>a, <2>2, SysctlTypes, WasReadStep DEF Moves
      <3> QED BY <1>a, <1>c, <2>1, <2>2, <3>1 DEF VpnTypeOK, vpnVars, IdentityTypeOK, identityVars, HookTypeOK, hookVars
    <2>3. CASE VpnStep(t) /\ Moves(t, VpnLabels) /\ UNCHANGED <<sysctlVars, identityVars, hookVars>>
      <3>1. VpnTypeOK' /\ WasRead' /\ CallersOK'
        BY <1>a, <1>c, <2>3, VpnTypes
      <3> QED BY <1>a, <1>c, <2>1, <2>3, <3>1 DEF SysctlTypeOK, sysctlVars, IdentityTypeOK, identityVars, HookTypeOK, hookVars
    <2>4. CASE IdentityStep(t) /\ Moves(t, LinkLabels) /\ UNCHANGED <<sysctlVars, vpnVars, hookVars>>
      <3>1. IdentityTypeOK' /\ WasRead' /\ CallersOK'
        BY <1>a, <1>c, <2>4, LinkTypes
      <3> QED BY <1>a, <1>c, <2>1, <2>4, <3>1 DEF VpnTypeOK, vpnVars, HookTypeOK, hookVars
    <2>5. CASE HookStep(t) /\ Moves(t, HookLabels) /\ UNCHANGED <<sysctlVars, vpnVars, identityVars>>
      <3>1. HookTypeOK' /\ WasRead' /\ CallersOK'
        BY <1>a, <1>c, <2>5, HookTypes
      <3> QED BY <1>a, <1>c, <2>1, <2>5, <3>1 DEF SysctlTypeOK, sysctlVars, VpnTypeOK, vpnVars, IdentityTypeOK, identityVars
    <2>6. CASE Moves(t, {}) /\ UNCHANGED <<sysctlVars, vpnVars, identityVars, hookVars>>
      <3>1. WasRead' /\ CallersOK'
        BY <1>c, <2>6
      <3> QED BY <1>a, <1>c, <2>1, <2>6, <3>1 DEF SysctlTypeOK, sysctlVars, VpnTypeOK, vpnVars, IdentityTypeOK,
                                      identityVars, HookTypeOK, hookVars
    <2> QED BY <1>a, <1>1, <2>2, <2>3, <2>4, <2>5, <2>6, StepCases
  <1>2. ASSUME NEW t \in Threads, Press(t), UNCHANGED scene
        PROVE  scene' \in Scenes /\ CallersOK' /\ Types' /\ WasRead'
    <2>1. CallersOK' /\ pc' = [pc EXCEPT ![t] = "called"]
      BY <1>a, <1>2, PressMoves
    <2>2. UNCHANGED <<sysctlVars, vpnVars, identityVars, hookVars>>
      BY <1>2 DEF Press
    <2>3. WasRead'
      BY <1>a, <2>1, <2>2 DEF WasRead, CallersOK, sysctlVars
    <2>4. Types'
      BY <1>a, <2>2 DEF SysctlTypeOK, sysctlVars, VpnTypeOK, vpnVars, IdentityTypeOK, identityVars,
                        HookTypeOK, hookVars
    <2> QED BY <1>a, <1>2, <2>1, <2>3, <2>4
  <1>3. CASE OpenvpnDies /\ UNCHANGED <<sysctlVars, identityVars, hookVars, scene>>
    BY <1>a, <1>3 DEF OpenvpnDies, callers, CallersOK, WasRead, SysctlTypeOK, sysctlVars, VpnTypeOK,
                IdentityTypeOK, identityVars, HookTypeOK, hookVars
  <1>4. ASSUME AllEnd, SysctlsStopped, sysctl' \in {sysctl, boot}, VpnKilled \/ VpnRestarted,
               IdentityKilled \/ IdentityRestarted, UNCHANGED <<hookVars, scene>>
        PROVE  scene' \in Scenes /\ CallersOK' /\ Types' /\ WasRead'
    <2>1. CallersOK' /\ WasRead'
      BY <1>a, <1>4, EndMoves DEF WasRead
    <2>2. SysctlTypeOK'
      BY <1>a, <1>4 DEF SysctlTypeOK, SysctlsStopped, Unread, Written
    <2>3. VpnTypeOK'
      BY <1>a, <1>4 DEF VpnTypeOK, VpnKilled, VpnRestarted, Unrecorded, Running
    <2>4. IdentityTypeOK'
      <3>1. failed' \in BOOLEAN
        BY <1>4, Zenon DEF IdentityKilled, IdentityRestarted
      <3>2. link' \in {link, [up |-> TRUE, leased |-> TRUE]}
        BY <1>4 DEF IdentityKilled, IdentityRestarted
      <3>3. programs' \in BOOLEAN \X BOOLEAN \X BOOLEAN
        BY <1>a, <1>4 DEF IdentityTypeOK, IdentityKilled, IdentityRestarted, programs
      <3>4. [up |-> TRUE, leased |-> TRUE] \in [up : BOOLEAN, leased : BOOLEAN]
        OBVIOUS
      <3>5. link' \in [up : BOOLEAN, leased : BOOLEAN]
        BY <1>a, <3>2, <3>4, Zenon DEF IdentityTypeOK
      <3> QED BY <3>1, <3>3, <3>5 DEF IdentityTypeOK
    <2>5. HookTypeOK' /\ scene' \in Scenes
      BY <1>a, <1>4 DEF HookTypeOK, hookVars
    <2> QED BY <2>1, <2>2, <2>3, <2>4, <2>5
  <1>5. CASE UNCHANGED vars
    BY <1>a, <1>5 DEF vars, callers, CallersOK, WasRead, SysctlTypeOK, sysctlVars, VpnTypeOK, vpnVars,
                IdentityTypeOK, identityVars, HookTypeOK, hookVars
  <1> QED
    BY <1>1, <1>2, <1>3, <1>4, <1>5
    DEF Next, Kill, Restart, SysctlsKilled, SysctlsRestarted

(* Types hold in every reachable state. *)
LEMMA TypeInvHolds == Spec => []TypeInv
  <1>1. Init => TypeInv
    <2> SUFFICES ASSUME Init PROVE TypeInv
      OBVIOUS
    <2>1. scene \in Scenes /\ CallersOK /\ WasRead
      BY EmptySeq DEF Init, AllIdle, CallersOK, AllLabels, Between, WasRead
    <2>2. SysctlTypeOK
      BY DEF Init, SysctlInit, SysctlTypeOK, Unread
    <2>3. VpnTypeOK /\ IdentityTypeOK /\ HookTypeOK
      BY DEF Init, VpnInit, VpnTypeOK, IdentityInit, IdentityTypeOK, programs, HookInit, HookTypeOK
    <2> QED BY <2>1, <2>2, <2>3, HostTypeParts DEF TypeInv, Parts
  <1>2. TypeInv /\ [Next]_vars => TypeInv'
    BY TypeKept
  <1> QED BY <1>1, <1>2, PTL DEF Spec

(* Every variable of the host keeps its type, whatever is pressed, fails,  *)
(* is killed or restarts.                                                  *)
THEOREM HostTypeCorrect == Spec => []HostTypeOK
  <1>1. TypeInv => HostTypeOK
    BY DEF TypeInv
  <1> QED BY <1>1, TypeInvHolds, PTL
-----------------------------------------------------------------------------
(* What each part sees of a step: one of its own, the end of all threads,  *)
(* or one that neither enters nor leaves its labels.                       *)
Elsewhere(labels) ==
    \A t \in Threads : pc'[t] = pc[t] \/ (pc[t] \notin labels /\ pc'[t] \notin labels)
AllIdleNow == \A t \in Threads : pc[t] = "idle"

LEMMA PartSteps ==
    ASSUME TypeInv, [Next]_vars
    PROVE  /\ \/ \E t \in Threads : SysctlStep(t) /\ Moves(t, SysctlLabels)
              \/ Elsewhere(SysctlLabels) /\ UNCHANGED sysctlVars
              \/ AllIdleNow' /\ (SysctlsKilled \/ SysctlsRestarted)
           /\ \/ \E t \in Threads : VpnStep(t) /\ Moves(t, VpnLabels)
              \/ Elsewhere(VpnLabels) /\ (UNCHANGED vpnVars \/ OpenvpnDies)
              \/ AllIdleNow' /\ (VpnKilled \/ VpnRestarted)
           /\ \/ \E t \in Threads : IdentityStep(t) /\ Moves(t, LinkLabels)
              \/ Elsewhere(LinkLabels) /\ UNCHANGED identityVars
              \/ AllIdleNow' /\ (IdentityKilled \/ IdentityRestarted)
           /\ \/ \E t \in Threads : HookStep(t) /\ Moves(t, HookLabels)
              \/ Elsewhere(HookLabels) /\ UNCHANGED hookVars
              \/ AllIdleNow' /\ UNCHANGED hookVars
  <1> DEFINE Parts4 == {SysctlLabels, VpnLabels, LinkLabels, HookLabels}
  <1>a. scene \in Scenes /\ CallersOK
    BY HostTypeParts DEF TypeInv, Parts
  <1>b. ASSUME NEW t \in Threads, NEW other, NEW labels, other \cap labels = {},
               Moves(t, labels), other \cap Between = {}
        PROVE  Elsewhere(other)
    BY <1>a, <1>b DEF Moves, Elsewhere, CallersOK, Between
  <1>c. /\ \A other \in Parts4 : other \cap Between = {} /\ other \cap {} = {}
        /\ SysctlLabels \cap VpnLabels = {} /\ SysctlLabels \cap LinkLabels = {}
        /\ SysctlLabels \cap HookLabels = {} /\ VpnLabels \cap LinkLabels = {}
        /\ VpnLabels \cap HookLabels = {} /\ LinkLabels \cap HookLabels = {}
    BY DEF SysctlLabels, VpnLabels, LinkLabels, HookLabels, Between
  <1>1. ASSUME NEW t \in Threads, Step(t)
        PROVE  /\ (SysctlStep(t) /\ Moves(t, SysctlLabels)) \/ (Elsewhere(SysctlLabels) /\ UNCHANGED sysctlVars)
               /\ (VpnStep(t) /\ Moves(t, VpnLabels)) \/ (Elsewhere(VpnLabels) /\ UNCHANGED vpnVars)
               /\ (IdentityStep(t) /\ Moves(t, LinkLabels)) \/ (Elsewhere(LinkLabels) /\ UNCHANGED identityVars)
               /\ (HookStep(t) /\ Moves(t, HookLabels)) \/ (Elsewhere(HookLabels) /\ UNCHANGED hookVars)
    BY <1>a, <1>b, <1>c, <1>1, StepCases
  <1>2. ASSUME NEW t \in Threads, Press(t)
        PROVE  /\ \A other \in Parts4 : Elsewhere(other)
               /\ UNCHANGED <<sysctlVars, vpnVars, identityVars, hookVars>>
    <2>1. pc[t] = "idle" /\ pc' = [pc EXCEPT ![t] = "called"]
      BY <1>a, <1>2, PressMoves
    <2>2. \A other \in Parts4 : "idle" \notin other /\ "called" \notin other
      BY <1>c DEF Between
    <2> QED BY <1>a, <1>2, <2>1, <2>2 DEF Press, Elsewhere, CallersOK
  <1>3. CASE Kill \/ Restart
    BY <1>3, EndMoves DEF Kill, Restart, AllIdleNow
  <1>4. CASE OpenvpnDies /\ UNCHANGED <<sysctlVars, identityVars, hookVars>>
    BY <1>4 DEF OpenvpnDies, callers, Elsewhere
  <1>5. CASE UNCHANGED vars
    BY <1>5 DEF vars, callers, Elsewhere
  <1> QED BY <1>1, <1>2, <1>3, <1>4, <1>5 DEF Next

-----------------------------------------------------------------------------
(* The sysctls: what the thread at work has read, written or put back.     *)
Restored(k) == sysctl[k] = boot[k]
Kept == Keys \ lost
SysctlInv ==
    /\ stealth.on => \A k \in Kept : stealth.backup[k] = boot[k]
    /\ ~stealth.on /\ (\A t \in Threads : pc[t] \notin SysctlLabels) => \A k \in Kept : Restored(k)
    /\ \A t \in Threads :
          /\ pc[t] = "readSysctls" =>
                ~stealth.on /\ \A k \in Kept : Restored(k) /\ (k \notin left[t] => saved[t][k] = boot[k])
          /\ pc[t] = "writeSysctls" =>
                ~stealth.on /\ \A k \in Kept : saved[t][k] = boot[k] /\ (k \in left[t] => Restored(k))
          /\ pc[t] = "restoreSysctls" =>
                stealth.on /\ \A k \in Kept : saved[t][k] = boot[k] /\ (k \notin left[t] => Restored(k))

LEMMA SysctlInvStep ==
    ASSUME OneThread, TypeInv, SysctlInv, NEW t \in Threads, SysctlStep(t), Moves(t, SysctlLabels)
    PROVE  SysctlInv'
  <1> USE DEF OneThread, SysctlInv, Restored, Kept
  <1>a. CallersOK /\ SysctlTypeOK /\ pc[t] # "idle"
    BY HostTypeParts DEF TypeInv, Parts, Moves, SysctlLabels
  <1>b. /\ Return(t) => pc'[t] \notin SysctlLabels
        /\ \A l \in SysctlLabels : Goto(t, l) => pc'[t] = l
    BY <1>a, ReturnMoves DEF SysctlLabels, Between, Goto, CallersOK
  <1>c. "called" \notin SysctlLabels
    BY DEF SysctlLabels
  <1>1. CASE EnableSysctls(t)
    <2>1. CASE stealth.on /\ Return(t)
      BY <1>1, <1>b, <2>1 DEF EnableSysctls, SysctlLabels
    <2>2. CASE ~stealth.on /\ Goto(t, "readSysctls") /\ left' = [left EXCEPT ![t] = Keys]
      <3>1. pc'[t] = "readSysctls" /\ left'[t] = Keys
        BY <1>a, <1>b, <2>2 DEF SysctlLabels, SysctlTypeOK
      <3>2. \A k \in Kept : Restored(k)
        BY <1>1, <1>c, <2>2 DEF EnableSysctls, Called
      <3> QED BY <1>1, <2>2, <3>1, <3>2 DEF EnableSysctls, SysctlLabels
    <2> QED BY <1>1, <2>1, <2>2 DEF EnableSysctls
  <1>2. CASE SysctlsRead(t)
    <2>1. pc[t] = "readSysctls" /\ left[t] = {} /\ pc'[t] = "writeSysctls" /\ left'[t] = Keys
      BY <1>2, <1>a, <1>b DEF SysctlsRead, At, SysctlLabels, SysctlTypeOK
    <2> QED BY <1>2, <2>1 DEF SysctlsRead, SysctlLabels
  <1>3. CASE RecordSysctls(t)
    <2>1. pc[t] = "writeSysctls" /\ pc'[t] \notin SysctlLabels
      BY <1>3, <1>b DEF RecordSysctls, At
    <2> QED BY <1>3, <2>1 DEF RecordSysctls, SysctlLabels
  <1>4. CASE DisableSysctls(t)
    <2>1. CASE ~stealth.on /\ Return(t)
      <3>1. \A k \in Kept : Restored(k)
        BY <1>4, <1>c, <2>1 DEF DisableSysctls, Called
      <3> QED BY <1>4, <1>b, <2>1, <3>1 DEF DisableSysctls, SysctlLabels
    <2>2. CASE ~(~stealth.on /\ Return(t))
      <3>1. /\ stealth.on /\ pc'[t] = "restoreSysctls" /\ saved'[t] = stealth.backup
            /\ left'[t] = {k \in Keys : stealth.backup[k] # None}
        BY <1>4, <1>a, <1>b, <2>2 DEF DisableSysctls, SysctlLabels, SysctlTypeOK
      <3>2. \A k \in Kept : k \in left'[t]
        BY <1>a, <3>1, SysctlAssumption DEF SysctlTypeOK
      <3> QED BY <1>4, <3>1, <3>2 DEF DisableSysctls, SysctlLabels
    <2> QED BY <2>1, <2>2
  <1>9. CASE SysctlsUnsaved(t)
    <2>1. pc'[t] \notin SysctlLabels /\ UNCHANGED <<sysctl, boot, stealth, saved, left>>
      BY <1>9, <1>a, RaiseMoves DEF SysctlsUnsaved, Between, SysctlLabels
    <2>2. CASE pc[t] = "called" /\ UNCHANGED lost
      BY <1>c, <2>1, <2>2 DEF SysctlLabels
    <2>3. CASE At(t, "writeSysctls") /\ lost' = Keys
      BY <2>1, <2>3 DEF At, SysctlLabels
    <2>4. CASE At(t, "restoreSysctls") /\ left[t] = {} /\ UNCHANGED lost
      BY <2>1, <2>4 DEF At, SysctlLabels
    <2> QED BY <1>9, <2>2, <2>3, <2>4 DEF SysctlsUnsaved, Called
  <1>5. CASE ForgetSysctls(t)
    <2>1. pc[t] = "restoreSysctls" /\ left[t] = {} /\ pc'[t] \notin SysctlLabels
      BY <1>5, <1>b DEF ForgetSysctls, At
    <2> QED BY <1>5, <2>1 DEF ForgetSysctls, SysctlLabels
  <1>6. ASSUME NEW k \in Keys, ReadSysctl(t, k) PROVE SysctlInv'
    <2>1. pc[t] = "readSysctls" /\ pc' = pc /\ left'[t] = left[t] \ {k}
      BY <1>6, <1>a DEF ReadSysctl, At, Treat, SysctlTypeOK, callers
    <2>2. lost \subseteq lost'
      BY <1>6 DEF ReadSysctl
    <2>3. \A i \in Kept' : i \notin left'[t] => saved'[t][i] = boot[i]
      <3> SUFFICES ASSUME NEW i \in Kept', i \notin left'[t]
                   PROVE  saved'[t][i] = boot[i]
        OBVIOUS
      <3>1. CASE i = k
        BY <1>6, <1>a, <2>1, <2>2, <3>1 DEF ReadSysctl, SysctlTypeOK
      <3>2. CASE i # k
        BY <1>6, <1>a, <2>1, <2>2, <3>2 DEF ReadSysctl, SysctlTypeOK
      <3> QED BY <3>1, <3>2
    <2> QED BY <1>6, <2>1, <2>2, <2>3 DEF ReadSysctl, SysctlLabels
  <1>7. ASSUME NEW k \in Keys, WriteSysctl(t, k) PROVE SysctlInv'
    <2>1. pc[t] = "writeSysctls" /\ pc' = pc /\ left'[t] = left[t] \ {k}
      BY <1>7, <1>a DEF WriteSysctl, At, Treat, SysctlTypeOK, callers
    <2>2. \A i \in Keys : i # k => sysctl'[i] = sysctl[i]
      BY <1>7, <1>a DEF WriteSysctl, SysctlTypeOK
    <2> QED BY <1>7, <2>1, <2>2 DEF WriteSysctl, SysctlLabels
  <1>8. ASSUME NEW k \in Keys, RestoreSysctl(t, k) PROVE SysctlInv'
    <2>1. pc[t] = "restoreSysctls" /\ pc' = pc /\ left'[t] = left[t] \ {k} /\ lost \subseteq lost'
      BY <1>8, <1>a DEF RestoreSysctl, At, Treat, SysctlTypeOK, callers
    <2>2. \A i \in Kept' : i \notin left'[t] => sysctl'[i] = boot[i]
      BY <1>8, <1>a, <2>1 DEF RestoreSysctl, SysctlTypeOK
    <2> QED BY <1>8, <2>1, <2>2 DEF RestoreSysctl, SysctlLabels
  <1> QED BY <1>1, <1>2, <1>3, <1>4, <1>5, <1>6, <1>7, <1>8, <1>9 DEF SysctlStep

LEMMA SysctlInvKept ==
    ASSUME OneThread, TypeInv, SysctlInv, [Next]_vars
    PROVE  SysctlInv'
  <1>1. CASE \E t \in Threads : SysctlStep(t) /\ Moves(t, SysctlLabels)
    BY <1>1, SysctlInvStep
  <1>2. CASE Elsewhere(SysctlLabels) /\ UNCHANGED sysctlVars
    BY <1>2 DEF SysctlInv, Elsewhere, sysctlVars, SysctlLabels, Restored, Kept
  <1>3. CASE AllIdleNow' /\ (SysctlsKilled \/ SysctlsRestarted)
    <2>1. lost \subseteq lost'
      BY <1>3 DEF SysctlsKilled, SysctlsRestarted, SysctlsStopped
    <2>2. ASSUME ~stealth.on, NEW k \in Kept' PROVE Restored(k)'
      <3>1. CASE SysctlsRestarted
        BY <3>1 DEF SysctlsRestarted, SysctlsStopped, Restored
      <3>2. ASSUME SysctlsKilled, NEW t \in Threads, pc[t] = "writeSysctls" PROVE Restored(k)'
        <4>1. k \in left[t]
          BY <2>2, <3>2 DEF SysctlsKilled, SysctlsStopped, Written, Kept
        <4> QED BY <2>1, <2>2, <3>2, <4>1 DEF SysctlInv, SysctlsKilled, SysctlsStopped, Restored, Kept
      <3>3. CASE SysctlsKilled /\ \A t \in Threads : pc[t] # "writeSysctls"
        BY <2>1, <2>2, <3>3 DEF SysctlInv, SysctlsKilled, SysctlsStopped, Restored, Kept, SysctlLabels
      <3> QED BY <1>3, <3>1, <3>2, <3>3
    <2>3. UNCHANGED <<stealth, boot>>
      BY <1>3 DEF SysctlsKilled, SysctlsRestarted, SysctlsStopped
    <2> QED BY <1>3, <2>1, <2>2, <2>3 DEF SysctlInv, AllIdleNow, Kept
  <1> QED BY <1>1, <1>2, <1>3, PartSteps

(* Disabling restores reality: one thread, any sequence of enables and     *)
(* disables, commands that fail, kills and restarts.                       *)
THEOREM SysctlsAreRestored == OneThread => (Spec => []SysctlsRestored)
  <1> SUFFICES ASSUME OneThread PROVE Spec => []SysctlsRestored
    OBVIOUS
  <1>1. Init => SysctlInv
    BY DEF Init, AllIdle, SysctlInit, SysctlInv, Restored, Kept
  <1>2. TypeInv /\ SysctlInv /\ [Next]_vars => SysctlInv'
    BY SysctlInvKept
  <1>3. SysctlInv => SysctlsRestored
    BY DEF SysctlInv, SysctlsRestored, Restored, Kept, SysctlLabels
  <1> QED BY <1>1, <1>2, <1>3, TypeInvHolds, PTL DEF Spec

-----------------------------------------------------------------------------
(* The VPN: of the tunnels that have not strayed, what is up is on record, *)
(* but while a start is under way.                                         *)
KnownDaemons == openvpn \ strayed
KnownLinks == wireguard \ strayed
OnRecord == (KnownDaemons # {} => vpn = "openvpn") /\ (KnownLinks # {} => vpn = "wireguard")
AtMostOne ==
    /\ KnownDaemons = {} \/ KnownLinks = {}
    /\ \A i, j \in KnownDaemons : i = j
    /\ \A i, j \in KnownLinks : i = j
    /\ \A d \in KnownDaemons : pidfile \in {d, None}
VpnInv ==
    /\ AtMostOne
    /\ (\A t \in Threads : pc[t] \notin {"pidWait", "recordWireguard"}) => OnRecord
    /\ \A t \in Threads :
          /\ pc[t] \in {"launch", "wgUp", "pidWait", "recordWireguard"} => vpn = None
          /\ pc[t] = "pidWait" => KnownLinks = {} /\ \A d \in KnownDaemons : pidfile = d
          /\ pc[t] = "recordWireguard" => KnownDaemons = {}

LEMMA VpnInvStep ==
    ASSUME OneThread, TypeInv, VpnInv, NEW t \in Threads, VpnStep(t), Moves(t, VpnLabels)
    PROVE  VpnInv'
  <1> USE VpnAssumption DEF OneThread, VpnInv, AtMostOne, OnRecord, KnownDaemons, KnownLinks
  <1>a. CallersOK /\ VpnTypeOK /\ pc[t] # "idle"
    BY HostTypeParts DEF TypeInv, Parts, Moves, VpnLabels
  <1>b. /\ Return(t) => pc'[t] \notin VpnLabels
        /\ Raise(t) \/ RaiseUnsaved(t) => pc'[t] \notin VpnLabels
        /\ \A l \in VpnLabels : Goto(t, l) => pc'[t] = l
    BY <1>a, ReturnMoves, RaiseMoves DEF VpnLabels, Between, Goto, CallersOK
  <1>1. CASE StartVpn(t)
    <2>1. CASE Return(t)
      BY <1>1, <1>b, <2>1 DEF StartVpn, Called, vpnVars, VpnLabels
    <2>2. ASSUME vpn = None, NEW l \in {"launch", "wgUp"}, Goto(t, l) PROVE VpnInv'
      <3>1. pc'[t] = l
        BY <1>b, <2>2 DEF VpnLabels
      <3> QED BY <1>1, <2>2, <3>1 DEF StartVpn, Called, vpnVars
    <2> QED BY <1>1, <2>1, <2>2 DEF StartVpn
  <1>2. CASE LaunchOpenvpn(t)
    <2>1. pc[t] = "launch" /\ vpn = None /\ KnownDaemons = {} /\ KnownLinks = {}
      BY <1>2 DEF LaunchOpenvpn, At
    <2>2. CASE Return(t) /\ UNCHANGED <<pidfile, openvpn, strayed>>
      BY <1>2, <1>b, <2>1, <2>2 DEF LaunchOpenvpn, VpnLabels
    <2>3. ASSUME Goto(t, "pidWait"), NEW d \in Daemons \ openvpn, openvpn' = openvpn \cup {d},
                 pidfile' = d, strayed' = strayed \ {d}
          PROVE  VpnInv'
      <3>1. pc'[t] = "pidWait"
        BY <1>b, <2>3 DEF VpnLabels
      <3>2. KnownDaemons' = {d} /\ KnownLinks' = {}
        BY <1>2, <1>a, <2>1, <2>3 DEF LaunchOpenvpn, VpnTypeOK
      <3> QED BY <1>2, <2>1, <2>3, <3>1, <3>2 DEF LaunchOpenvpn
    <2>4. CASE Goto(t, "pidWait") /\ UNCHANGED <<pidfile, openvpn, strayed>>
      <3>1. pc'[t] = "pidWait"
        BY <1>b, <2>4 DEF VpnLabels
      <3> QED BY <1>2, <2>1, <2>4, <3>1 DEF LaunchOpenvpn
    <2> QED BY <1>2, <2>2, <2>3, <2>4 DEF LaunchOpenvpn
  <1>3. CASE CheckPid(t)
    <2>1. pc[t] = "pidWait" /\ pc'[t] \notin VpnLabels
      BY <1>3, <1>b DEF CheckPid, At
    <2>2. KnownDaemons # {} => pidfile # None
      BY <1>a, <2>1 DEF VpnTypeOK
    <2> QED BY <1>3, <2>1, <2>2 DEF CheckPid, VpnLabels
  <1>4. CASE StopOpenvpn(t)
    <2>1. pc[t] = "called" /\ pc'[t] = "forgetOpenvpn" /\ openvpn' \subseteq openvpn
      BY <1>4, <1>b DEF StopOpenvpn, Called, VpnLabels
    <2>2. pidfile' \in {pidfile, None} /\ UNCHANGED <<vpn, wireguard, strayed>>
      BY <1>4 DEF StopOpenvpn
    <2> QED BY <2>1, <2>2
  <1>5. CASE ForgetOpenvpn(t)
    <2>1. pc[t] = "forgetOpenvpn" /\ pc'[t] \notin VpnLabels
      BY <1>5, <1>b DEF ForgetOpenvpn, At
    <2>2. KnownDaemons' = {} /\ KnownLinks' \subseteq KnownLinks
      BY <1>5 DEF ForgetOpenvpn
    <2> QED BY <1>5, <2>1, <2>2 DEF ForgetOpenvpn, VpnLabels
  <1>6. CASE WireguardUp(t)
    <2>1. pc[t] = "wgUp" /\ vpn = None /\ KnownDaemons = {} /\ KnownLinks = {}
      BY <1>6 DEF WireguardUp, At
    <2>2. CASE Return(t) /\ UNCHANGED <<wireguard, strayed>>
      BY <1>6, <1>b, <2>1, <2>2 DEF WireguardUp, VpnLabels
    <2>3. ASSUME Goto(t, "recordWireguard"), NEW i \in Interfaces \ wireguard,
                 wireguard' = wireguard \cup {i}, strayed' = strayed \ {i}
          PROVE  VpnInv'
      <3>1. pc'[t] = "recordWireguard"
        BY <1>b, <2>3 DEF VpnLabels
      <3>2. KnownLinks' = {i} /\ KnownDaemons' = {}
        BY <1>6, <1>a, <2>1, <2>3 DEF WireguardUp, VpnTypeOK
      <3> QED BY <1>6, <2>1, <2>3, <3>1, <3>2 DEF WireguardUp
    <2> QED BY <1>6, <2>2, <2>3 DEF WireguardUp
  <1>7. CASE RecordWireguard(t)
    <2>1. pc[t] = "recordWireguard" /\ pc'[t] \notin VpnLabels
      BY <1>7, <1>b DEF RecordWireguard, At
    <2> QED BY <1>7, <2>1 DEF RecordWireguard, VpnLabels
  <1>8. CASE StopWireguard(t)
    <2>1. wireguard' \subseteq wireguard /\ UNCHANGED <<vpn, pidfile, openvpn, strayed>>
      BY <1>8 DEF StopWireguard
    <2>2. pc[t] = "called" /\ pc'[t] = "forgetWireguard"
      BY <1>8, <1>b DEF StopWireguard, Called, VpnLabels
    <2> QED BY <2>1, <2>2
  <1>9. CASE ForgetWireguard(t)
    <2>1. pc[t] = "forgetWireguard" /\ pc'[t] \notin VpnLabels
      BY <1>9, <1>b DEF ForgetWireguard, At
    <2>2. KnownLinks' = {} /\ KnownDaemons' \subseteq KnownDaemons
      BY <1>9 DEF ForgetWireguard
    <2> QED BY <1>9, <2>1, <2>2 DEF ForgetWireguard, VpnLabels
  <1>10. CASE StopRaises(t)
    <2>1. pc[t] = "called" /\ pc'[t] \notin VpnLabels
      BY <1>10, <1>b DEF StopRaises, Called
    <2> QED BY <1>10, <2>1 DEF StopRaises, vpnVars, VpnLabels
  <1>11. CASE VpnUnsaved(t)
    <2>1. pc'[t] \notin VpnLabels /\ Unrecorded /\ UNCHANGED <<vpn, pidfile, openvpn, wireguard>>
      BY <1>11, <1>b DEF VpnUnsaved
    <2>2. CASE vpn = None
      <3>1. KnownDaemons' = {} /\ KnownLinks' = {}
        BY <2>1, <2>2 DEF Unrecorded, Running
      <3> QED BY <2>1, <3>1 DEF VpnLabels
    <2>3. CASE vpn # None
      <3>1. strayed' = strayed /\ pc[t] \notin {"pidWait", "recordWireguard"}
        BY <2>1, <2>3 DEF Unrecorded
      <3> QED BY <2>1, <2>3, <3>1 DEF VpnLabels
    <2> QED BY <2>2, <2>3
  <1> QED
    BY <1>1, <1>2, <1>3, <1>4, <1>5, <1>6, <1>7, <1>8, <1>9, <1>10, <1>11 DEF VpnStep

LEMMA VpnInvKept ==
    ASSUME OneThread, TypeInv, VpnInv, [Next]_vars
    PROVE  VpnInv'
  <1> USE DEF VpnInv, AtMostOne, OnRecord, KnownDaemons, KnownLinks
  <1>1. CASE \E t \in Threads : VpnStep(t) /\ Moves(t, VpnLabels)
    BY <1>1, VpnInvStep
  <1>2. CASE Elsewhere(VpnLabels) /\ UNCHANGED vpnVars
    BY <1>2 DEF Elsewhere, vpnVars, VpnLabels
  <1>3. CASE OpenvpnDies
    BY <1>3 DEF OpenvpnDies, callers
  <1>4. CASE AllIdleNow' /\ VpnRestarted
    BY <1>4 DEF AllIdleNow, VpnRestarted
  <1>5. CASE AllIdleNow' /\ VpnKilled
    <2>1. CASE vpn = None
      <3>1. KnownDaemons' = {} /\ KnownLinks' = {}
        BY <1>5, <2>1 DEF VpnKilled, Unrecorded, Running
      <3> QED BY <1>5, <3>1 DEF AllIdleNow
    <2>2. CASE vpn # None
      <3>1. strayed' = strayed /\ UNCHANGED <<vpn, pidfile, openvpn, wireguard>>
        BY <1>5, <2>2 DEF VpnKilled, Unrecorded
      <3>2. OnRecord
        BY <2>2
      <3> QED BY <1>5, <3>1, <3>2 DEF AllIdleNow
    <2> QED BY <2>1, <2>2
  <1> QED BY <1>1, <1>2, <1>3, <1>4, <1>5, PartSteps

(* One thread runs one tunnel at most, which is on record and which stop   *)
(* reaches, through daemons that die, PID files that stay, stops that fail *)
(* and restarts; but for the tunnels that a stop, a kill or an update that *)
(* raised left without a record.                                           *)
THEOREM VpnStaysUnderControl == OneThread => (Spec => []VpnUnderControl)
  <1> SUFFICES ASSUME OneThread PROVE Spec => []VpnUnderControl
    OBVIOUS
  <1>1. Init => VpnInv
    BY DEF Init, AllIdle, VpnInit, VpnInv, AtMostOne, OnRecord, KnownDaemons, KnownLinks
  <1>2. TypeInv /\ VpnInv /\ [Next]_vars => VpnInv'
    BY VpnInvKept
  <1>3. TypeInv /\ VpnInv => VpnUnderControl
    <2> SUFFICES ASSUME TypeInv, VpnInv PROVE VpnUnderControl
      OBVIOUS
    <2>1. VpnTypeOK
      BY HostTypeParts DEF TypeInv, Parts
    <2>2. Known = KnownDaemons \cup KnownLinks /\ Known \cap openvpn = KnownDaemons
      BY <2>1, VpnAssumption DEF VpnTypeOK, Known, Running, KnownDaemons, KnownLinks
    <2> QED BY <2>2, VpnAssumption DEF VpnInv, AtMostOne, OnRecord, VpnUnderControl
  <1> QED BY <1>1, <1>2, <1>3, TypeInvHolds, PTL DEF Spec

-----------------------------------------------------------------------------
(* The shutdown hook: what is there at each step of installing or removing.*)
HookInv ==
    ~botched =>
        /\ "enabled" \in hook => {"script", "unit"} \subseteq hook
        /\ \A t \in Threads :
              /\ pc[t] = "unit" => "script" \in hook
              /\ pc[t] = "enable" => {"script", "unit"} \subseteq hook
              /\ pc[t] \in {"rmUnit", "rmScript"} => "enabled" \notin hook

LEMMA HookInvStep ==
    ASSUME OneThread, TypeInv, HookInv, NEW t \in Threads, HookStep(t), Moves(t, HookLabels)
    PROVE  HookInv'
  <1> USE DEF OneThread, HookInv, At, Called
  <1>a. CallersOK /\ pc[t] # "idle"
    BY HostTypeParts DEF TypeInv, Parts, Moves, HookLabels
  <1>b. /\ Return(t) => pc'[t] \in Between
        /\ \A l \in HookLabels : Goto(t, l) => pc'[t] = l
    BY <1>a, ReturnMoves DEF HookLabels, Goto, CallersOK
  <1>1. CASE WriteScript(t)
    BY <1>1, <1>b DEF WriteScript, HookLabels
  <1>2. CASE WriteUnit(t)
    BY <1>2, <1>b DEF WriteUnit, HookLabels
  <1>3. CASE EnableUnit(t)
    BY <1>3, <1>b DEF EnableUnit, Between
  <1>4. CASE DisableUnit(t)
    BY <1>4, <1>b DEF DisableUnit, HookLabels
  <1>5. CASE RemoveUnit(t)
    BY <1>5, <1>b DEF RemoveUnit, HookLabels
  <1>6. CASE RemoveScript(t)
    BY <1>6, <1>b DEF RemoveScript, Between
  <1> QED BY <1>1, <1>2, <1>3, <1>4, <1>5, <1>6 DEF HookStep

(* Killed at any step, with one thread, the hook that systemd will run is  *)
(* complete.                                                               *)
THEOREM HookStaysWhole == OneThread => (Spec => []HookIsWhole)
  <1> SUFFICES ASSUME OneThread PROVE Spec => []HookIsWhole
    OBVIOUS
  <1>1. Init => HookInv
    BY DEF Init, AllIdle, HookInit, HookInv
  <1>2. TypeInv /\ HookInv /\ [Next]_vars => HookInv'
    <2> SUFFICES ASSUME TypeInv, HookInv, [Next]_vars PROVE HookInv'
      OBVIOUS
    <2>1. CASE \E t \in Threads : HookStep(t) /\ Moves(t, HookLabels)
      BY <2>1, HookInvStep
    <2>2. CASE (Elsewhere(HookLabels) \/ AllIdleNow') /\ UNCHANGED hookVars
      BY <2>2 DEF HookInv, Elsewhere, AllIdleNow, hookVars, HookLabels
    <2> QED BY <2>1, <2>2, PartSteps
  <1>3. HookInv => HookIsWhole
    BY DEF HookInv, HookIsWhole
  <1> QED BY <1>1, <1>2, <1>3, TypeInvHolds, PTL DEF Spec

-----------------------------------------------------------------------------
(* The interface: who took it down is about to bring it up, and who set an *)
(* address is about to renew the lease, or has left that to another.       *)
Somewhere(labels) == \E t \in Threads : pc[t] \in labels
LinkInv ==
    ~failed =>
        /\ ~link.up => Somewhere({"address", "linkUp"})
        /\ nmcli /\ ~link.leased => ~link.up \/ Somewhere({"linkUp", "carrier", "connect"})

LEMMA LinkInvStep ==
    ASSUME TypeInv, LinkInv, NEW t \in Threads, IdentityStep(t), Moves(t, LinkLabels)
    PROVE  LinkInv'
  <1> USE DEF LinkInv, Somewhere, programs
  <1>a. CallersOK /\ IdentityTypeOK /\ pc[t] # "idle"
    BY HostTypeParts DEF TypeInv, Parts, Moves, LinkLabels
  <1>b. /\ Return(t) => pc'[t] \in Between
        /\ \A l \in LinkLabels : Goto(t, l) => pc'[t] = l
        /\ Raise(t) => pc'[t] \in Between
        /\ \A u \in Threads : u # t => pc'[u] = pc[u]
    BY <1>a, ReturnMoves, RaiseMoves DEF LinkLabels, Goto, CallersOK, Moves
  <1>c. Fails(t) => LinkInv'
    BY DEF Fails
  <1>1. CASE LinkDown(t)
    <2>1. CASE Does(t, [link EXCEPT !.up = FALSE], "address")
      <3>1. pc'[t] = "address" /\ ~link'.up
        BY <1>a, <1>b, <2>1 DEF Does, LinkLabels, IdentityTypeOK
      <3> QED BY <3>1
    <2> QED BY <1>1, <1>c, <2>1 DEF LinkDown
  <1>2. CASE SetAddress(t)
    <2>1. pc[t] = "address"
      BY <1>2 DEF SetAddress, At
    <2>2. CASE link.up /\ Return(t) /\ UNCHANGED <<link, failed>>
      BY <1>2, <1>b, <2>1, <2>2 DEF SetAddress
    <2>3. CASE Does(t, [link EXCEPT !.leased = FALSE], "linkUp")
      <3>1. pc'[t] = "linkUp"
        BY <1>b, <2>3 DEF Does, LinkLabels
      <3> QED BY <3>1
    <2> QED BY <1>2, <1>c, <2>2, <2>3 DEF SetAddress
  <1>3. CASE LinkUp(t)
    <2>1. pc[t] = "linkUp"
      BY <1>3 DEF LinkUp, At
    <2>2. CASE Does(t, [link EXCEPT !.up = TRUE], IF nmcli THEN "carrier" ELSE "return")
      <3>1. link'.up /\ nmcli' = nmcli /\ (nmcli => pc'[t] = "carrier")
        BY <1>3, <1>a, <1>b, <2>2 DEF Does, LinkLabels, LinkUp, IdentityTypeOK
      <3> QED BY <3>1
    <2> QED BY <1>3, <1>c, <2>2 DEF LinkUp
  <1>4. CASE Carrier(t)
    <2>1. pc[t] = "carrier" /\ nmcli' = nmcli
      BY <1>4 DEF Carrier, At
    <2>2. CASE link.up /\ Does(t, link, "connect")
      <3>1. pc'[t] = "connect" /\ link' = link
        BY <1>b, <2>2 DEF Does, LinkLabels
      <3> QED BY <2>2, <3>1
    <2>3. CASE ~link.up /\ Does(t, link, "return")
      BY <1>b, <2>1, <2>3 DEF Does
    <2> QED BY <1>4, <1>c, <2>2, <2>3 DEF Carrier
  <1>5. CASE Connect(t)
    <2>1. pc[t] = "connect" /\ nmcli' = nmcli
      BY <1>5 DEF Connect, At
    <2>2. CASE link.up /\ Does(t, [link EXCEPT !.leased = TRUE], "return")
      <3>1. link'.up /\ link'.leased
        BY <1>a, <2>2 DEF Does, IdentityTypeOK
      <3> QED BY <3>1
    <2>3. CASE ~link.up /\ Does(t, link, "return")
      BY <1>b, <2>1, <2>3 DEF Does
    <2> QED BY <1>5, <1>c, <2>2, <2>3 DEF Connect
  <1>6. CASE RandomizeHostname(t)
    BY <1>6, <1>b DEF RandomizeHostname, Called, identityVars
  <1> QED BY <1>1, <1>2, <1>3, <1>4, <1>5, <1>6 DEF IdentityStep

(* However many threads change the address of the interface at once, it    *)
(* comes back with a lease, unless one of their commands failed.           *)
THEOREM LinkAlwaysComesBack == Spec => []LinkComesBack
  <1>1. Init => LinkInv
    BY DEF Init, IdentityInit, LinkInv
  <1>2. TypeInv /\ LinkInv /\ [Next]_vars => LinkInv'
    <2> SUFFICES ASSUME TypeInv, LinkInv, [Next]_vars PROVE LinkInv'
      OBVIOUS
    <2>1. CASE \E t \in Threads : IdentityStep(t) /\ Moves(t, LinkLabels)
      BY <2>1, LinkInvStep
    <2>2. CASE Elsewhere(LinkLabels) /\ UNCHANGED identityVars
      BY <2>2 DEF LinkInv, Elsewhere, identityVars, programs, LinkLabels, Somewhere
    <2>3. CASE IdentityRestarted
      BY <2>3 DEF LinkInv, IdentityRestarted
    <2>4. CASE AllIdleNow' /\ IdentityKilled
      BY <2>4 DEF LinkInv, IdentityKilled, programs, Somewhere
    <2> QED BY <2>1, <2>2, <2>3, <2>4, PartSteps
  <1>3. LinkInv => LinkComesBack
    BY DEF LinkInv, LinkComesBack, Somewhere
  <1> QED BY <1>1, <1>2, <1>3, TypeInvHolds, PTL DEF Spec
=============================================================================
