---------------------------- MODULE HostSettings ----------------------------
(***************************************************************************)
(* What PrivacyGuard changes on the host besides the firewall, together:   *)
(* sysctls, VPN, identity and the shutdown hook, under a program that may  *)
(* be killed and a machine that may restart; and the part of full_start in *)
(* orchestrate.py that comes before the kill switch.                       *)
(***************************************************************************)
EXTENDS Sysctls, Vpn, Identity, RamWipe

CONSTANT Scenes  \* see SceneAssumption

VARIABLE scene   \* what this run looks at

vars == <<callers, sysctlVars, vpnVars, identityVars, hookVars, scene>>

Operations == {"sysctlsOn", "sysctlsOff", "openvpnOn", "openvpnOff", "wireguardOn",
               "wireguardOff", "mac", "hostname", "hookOn", "hookOff", "scanOn", "killSwitch"}

(* A plan for each button, and whether anything ends the threads.          *)
ASSUME SceneAssumption ==
    \A s \in Scenes : /\ \A t \in Threads : s.plans[t] \subseteq Seq(Operations) \ {<<>>}
                      /\ s.mayEnd \in BOOLEAN

(* full_start on a machine with one interface, from randomize_mac to       *)
(* enable_kill_switch; what that and enable_portscan_protection do to the  *)
(* firewall is module KillSwitches.                                        *)
FullStart == <<"mac", "hostname", "sysctlsOn", "scanOn", "killSwitch">>

Init ==
    /\ AllIdle /\ scene \in Scenes
    /\ SysctlInit /\ VpnInit /\ IdentityInit /\ HookInit

Press(t) ==
    /\ \E p \in scene.plans[t] : Ask(t, p)
    /\ UNCHANGED <<sysctlVars, vpnVars, identityVars, hookVars>>

(* enable_portscan_protection returns whether its rules went in or not, or *)
(* its look at the record or its update of it raises.                      *)
ScanOn(t) ==
    /\ Called(t, "scanOn")
    /\ Return(t) \/ RaiseUnsaved(t)
    /\ UNCHANGED <<sysctlVars, vpnVars, identityVars, hookVars>>

KillSwitch(t) ==
    /\ Called(t, "killSwitch") /\ Return(t)
    /\ UNCHANGED <<sysctlVars, vpnVars, identityVars, hookVars>>

Step(t) ==
    /\ \/ SysctlStep(t)   /\ UNCHANGED <<vpnVars, identityVars, hookVars>>
       \/ VpnStep(t)      /\ UNCHANGED <<sysctlVars, identityVars, hookVars>>
       \/ IdentityStep(t) /\ UNCHANGED <<sysctlVars, vpnVars, hookVars>>
       \/ HookStep(t)     /\ UNCHANGED <<sysctlVars, vpnVars, identityVars>>
       \/ ScanOn(t) \/ KillSwitch(t)
    /\ UNCHANGED scene

AllEnd ==
    /\ plan' = [t \in Threads |-> <<>>] /\ pc' = [t \in Threads |-> "idle"]
    /\ UNCHANGED unsaved

(* The window is closed, or the program killed. *)
Kill ==
    /\ scene.mayEnd /\ AllEnd
    /\ SysctlsKilled /\ VpnKilled /\ IdentityKilled
    /\ UNCHANGED <<hookVars, scene>>

Restart ==
    /\ scene.mayEnd /\ AllEnd
    /\ SysctlsRestarted /\ VpnRestarted /\ IdentityRestarted
    /\ UNCHANGED <<hookVars, scene>>

Next ==
    \/ \E t \in Threads : Step(t) \/ (Press(t) /\ UNCHANGED scene)
    \/ OpenvpnDies /\ UNCHANGED <<sysctlVars, identityVars, hookVars, scene>>
    \/ Kill \/ Restart

Spec == Init /\ [][Next]_vars
FairSpec == Spec /\ \A t \in Threads : WF_vars(Step(t))

HostTypeOK ==
    /\ scene \in Scenes
    /\ plan \in [Threads -> Seq(Operations)]
    /\ pc \in [Threads -> {"idle", "called", "readSysctls", "writeSysctls", "restoreSysctls",
                           "launch", "pidWait", "forgetOpenvpn", "wgUp", "recordWireguard",
                           "forgetWireguard", "address", "linkUp", "carrier", "connect",
                           "unit", "enable", "rmUnit", "rmScript"}]
    /\ \A t \in Threads : plan[t] = <<>> <=> pc[t] = "idle"
    /\ unsaved \subseteq Threads
    /\ SysctlTypeOK /\ VpnTypeOK /\ IdentityTypeOK /\ HookTypeOK

(* "best-effort hardening, not a gate on the kill switch": whatever fails  *)
(* of the identity, the sysctls and the portscan protection, and whatever  *)
(* another thread does to the same interface, full_start comes to the kill *)
(* switch, unless a call of state.py raises on the way; where there are    *)
(* both programs that set the host name, for randomize_hostname raises     *)
(* when it comes to one that is missing (orchestrate.py:33-48).            *)
StartGoesOn ==
    \A t \in Threads :
        plan[t] = FullStart /\ hostnamectl /\ hostname /\ ~scene.mayEnd
            ~> Called(t, "killSwitch") \/ t \in unsaved
=============================================================================
