--------------------------------- MODULE Vpn ---------------------------------
(***************************************************************************)
(* vpn.py: OpenVPN as a daemon known by its PID file, WireGuard as an      *)
(* interface, and vpn_active, which says that one of them runs.            *)
(***************************************************************************)
EXTENDS Callers

CONSTANTS
    Daemons,    \* processes of openvpn
    Interfaces  \* names a user may give to WireGuard

ASSUME VpnAssumption ==
    /\ None \notin Daemons \cup {"openvpn", "wireguard"}
    /\ Daemons \cap Interfaces = {}

VARIABLES
    vpn,        \* vpn_active: None, or what was started
    pidfile,    \* OPENVPN_PID_FILE: None, or the daemon it names
    openvpn,    \* the daemons that run
    wireguard,  \* the interfaces that are up
    strayed     \* history: the tunnels left without a record, by a kill or a
                \* wg-quick down that failed, a program that was killed, or an
                \* update of the record that raised

vpnVars == <<vpn, pidfile, openvpn, wireguard, strayed>>
Running == openvpn \cup wireguard

VpnInit ==
    /\ vpn = None /\ pidfile = None
    /\ openvpn = {} /\ wireguard = {}
    /\ strayed = {}

(* start_openvpn and start_wireguard refuse when one is recorded.          *)
StartVpnAnyway(t) ==   \* mutant: no look at the record
    /\ \/ Called(t, "openvpnOn") /\ Goto(t, "launch")
       \/ Called(t, "wireguardOn") /\ Goto(t, "wgUp")
    /\ UNCHANGED vpnVars
StartVpn(t) ==
    /\ \/ (Called(t, "openvpnOn") \/ Called(t, "wireguardOn")) /\ vpn # None /\ Return(t)
       \/ Called(t, "openvpnOn") /\ vpn = None /\ Goto(t, "launch")
       \/ Called(t, "wireguardOn") /\ vpn = None /\ Goto(t, "wgUp")
    /\ UNCHANGED vpnVars

(* openvpn --daemon fails at once; or forks, writes its PID file and runs; *)
(* or forks and dies first.  Three seconds later any PID file will do.     *)
LaunchOpenvpn(t) ==
    /\ At(t, "launch")
    /\ \/ Return(t) /\ UNCHANGED <<pidfile, openvpn, strayed>>
       \/ \E d \in Daemons \ openvpn :
             /\ openvpn' = openvpn \cup {d} /\ pidfile' = d
             /\ strayed' = strayed \ {d}
             /\ Goto(t, "pidWait")
       \/ Goto(t, "pidWait") /\ UNCHANGED <<pidfile, openvpn, strayed>>
    /\ UNCHANGED <<vpn, wireguard>>
CheckPid(t) ==
    /\ At(t, "pidWait")
    /\ vpn' = IF pidfile # None THEN "openvpn" ELSE vpn
    /\ Return(t)
    /\ UNCHANGED <<pidfile, openvpn, wireguard, strayed>>

(* stop_openvpn signals the daemon of the PID file and removes the file,   *)
(* either of which may fail; without one it signals every openvpn.  A      *)
(* daemon ends when it gets to it, and the record is cleared all the same: *)
(* whatever then still runs has strayed.                                   *)
StopOpenvpn(t) ==
    /\ Called(t, "openvpnOff") /\ Goto(t, "forgetOpenvpn")
    /\ IF pidfile = None
       THEN openvpn' \in SUBSET openvpn /\ UNCHANGED pidfile
       ELSE openvpn' \in {openvpn, openvpn \ {pidfile}} /\ pidfile' \in {pidfile, None}
    /\ UNCHANGED <<vpn, wireguard, strayed>>
ForgetOpenvpn(t) ==
    /\ At(t, "forgetOpenvpn")
    /\ vpn' = IF vpn = "openvpn" THEN None ELSE vpn
    /\ strayed' = strayed \cup openvpn
    /\ Return(t)
    /\ UNCHANGED <<pidfile, openvpn, wireguard>>

(* wg-quick refuses to bring up what is up, and down what is not.          *)
WireguardUp(t) ==
    /\ At(t, "wgUp")
    /\ \/ Return(t) /\ UNCHANGED <<wireguard, strayed>>
       \/ \E i \in Interfaces \ wireguard :
             /\ wireguard' = wireguard \cup {i}
             /\ strayed' = strayed \ {i}
             /\ Goto(t, "recordWireguard")
    /\ UNCHANGED <<vpn, pidfile, openvpn>>
RecordWireguard(t) ==
    /\ At(t, "recordWireguard")
    /\ vpn' = "wireguard"
    /\ Return(t)
    /\ UNCHANGED <<pidfile, openvpn, wireguard, strayed>>

(* stop_wireguard clears the record whether its command worked or not, and *)
(* whichever interface it was given.                                       *)
StopWireguard(t) ==
    /\ Called(t, "wireguardOff") /\ Goto(t, "forgetWireguard")
    /\ wireguard' \in {wireguard} \cup {wireguard \ {i} : i \in Interfaces}
    /\ UNCHANGED <<vpn, pidfile, openvpn, strayed>>
ForgetWireguard(t) ==
    /\ At(t, "forgetWireguard")
    /\ vpn' = IF vpn = "wireguard" THEN None ELSE vpn
    /\ strayed' = strayed \cup wireguard
    /\ Return(t)
    /\ UNCHANGED <<pidfile, openvpn, wireguard>>

(* Without pkill or wg-quick a stop raises, and the record stays.          *)
StopRaises(t) ==
    /\ (Called(t, "openvpnOff") /\ pidfile = None) \/ Called(t, "wireguardOff")
    /\ Raise(t)
    /\ UNCHANGED vpnVars

(* statemod.get or statemod.update raises: what was started is not put on  *)
(* record, what was stopped not taken off it.                              *)
Unrecorded == strayed' = strayed \cup (IF vpn = None THEN Running ELSE {})
VpnUnsaved(t) ==
    /\ \/ Called(t, "openvpnOn") \/ Called(t, "wireguardOn")
       \/ At(t, "pidWait") /\ pidfile # None
       \/ At(t, "forgetOpenvpn") \/ At(t, "recordWireguard") \/ At(t, "forgetWireguard")
    /\ RaiseUnsaved(t)
    /\ Unrecorded
    /\ UNCHANGED <<vpn, pidfile, openvpn, wireguard>>

VpnStep(t) ==
    \/ StartVpn(t) \/ LaunchOpenvpn(t) \/ CheckPid(t) \/ StopOpenvpn(t) \/ ForgetOpenvpn(t)
    \/ WireguardUp(t) \/ RecordWireguard(t) \/ StopWireguard(t) \/ ForgetWireguard(t)
    \/ StopRaises(t) \/ VpnUnsaved(t)

(* External: a daemon ends by itself and leaves its PID file.              *)
OpenvpnDies ==
    /\ \E d \in openvpn : openvpn' = openvpn \ {d}
    /\ UNCHANGED <<callers, vpn, pidfile, wireguard, strayed>>

VpnKilled ==
    /\ Unrecorded
    /\ UNCHANGED <<vpn, pidfile, openvpn, wireguard>>
(* /var/run is empty after a restart. *)
VpnRestarted ==
    /\ pidfile' = None /\ openvpn' = {} /\ wireguard' = {} /\ strayed' = {}
    /\ UNCHANGED vpn

VpnTypeOK ==
    /\ vpn \in {None, "openvpn", "wireguard"} /\ pidfile \in Daemons \cup {None}
    /\ openvpn \subseteq Daemons /\ wireguard \subseteq Interfaces
    /\ strayed \subseteq Daemons \cup Interfaces

(* "stop it first": the program never runs two tunnels, a tunnel that runs *)
(* is on record when nothing is under way, and stop_openvpn will reach an  *)
(* openvpn that runs, by its PID file or by name, through daemons that     *)
(* die, files that stay behind, stops that fail and restarts; but for the  *)
(* tunnels that strayed, such as one whose stop took it off the record     *)
(* although the kill had failed or has not worked yet (vpn.py:42-68,       *)
(* 82-104).                                                                *)
Known == Running \ strayed
VpnUnderControl ==
    /\ \A i, j \in Known : i = j
    /\ Known # {} /\ (\A t \in Threads : pc[t] = "idle") => vpn # None
    /\ \A d \in Known \cap openvpn : pidfile \in {d, None}
=============================================================================
