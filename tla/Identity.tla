------------------------------ MODULE Identity ------------------------------
(***************************************************************************)
(* core.randomize_mac and core.randomize_hostname: one network interface,  *)
(* taken down, given another address, brought up and reconnected.          *)
(***************************************************************************)
EXTENDS Callers

VARIABLES
    link,         \* up: is the interface up?  leased: since its last address?
    hostnamectl,  \* is there a hostnamectl on this machine?
    hostname,     \* the program that is tried when hostnamectl fails?
    nmcli,        \* is there a NetworkManager?
    failed        \* history: a command failed, or a thread was killed at work

programs == <<hostnamectl, hostname, nmcli>>
identityVars == <<link, programs, failed>>

IdentityInit ==
    /\ link = [up |-> TRUE, leased |-> TRUE]
    /\ hostnamectl \in BOOLEAN /\ hostname \in BOOLEAN /\ nmcli \in BOOLEAN
    /\ failed = FALSE

(* A command with an effect on the link and the place to go on from, or    *)
(* one that fails, after which randomize_mac returns.                      *)
Does(t, effect, next) ==
    /\ link' = effect
    /\ IF next = "return" THEN Return(t) ELSE Goto(t, next)
    /\ UNCHANGED failed
Fails(t) == Return(t) /\ failed' = TRUE /\ UNCHANGED link

LinkDown(t) ==
    /\ Called(t, "mac")
    /\ Does(t, [link EXCEPT !.up = FALSE], "address") \/ Fails(t)
    /\ UNCHANGED programs

(* Some drivers refuse another address for an interface that is up, as it  *)
(* is when a second thread was faster.                                     *)
SetAddress(t) ==
    /\ At(t, "address")
    /\ \/ link.up /\ Return(t) /\ UNCHANGED <<link, failed>>
       \/ Does(t, [link EXCEPT !.leased = FALSE], "linkUp")
       \/ ~link.up /\ Fails(t)
    /\ UNCHANGED programs

LinkUp(t) ==
    /\ At(t, "linkUp")
    /\ \/ Does(t, [link EXCEPT !.up = TRUE], IF nmcli THEN "carrier" ELSE "return")
       \/ Fails(t)
    /\ UNCHANGED programs

(* _wait_for_carrier, for five seconds. *)
CarrierAwaited(t) ==   \* mutant: for ever
    /\ At(t, "carrier") /\ link.up
    /\ Goto(t, "connect") /\ UNCHANGED identityVars
Carrier(t) ==
    /\ At(t, "carrier")
    /\ \/ link.up /\ Does(t, link, "connect")
       \/ link.up /\ Fails(t)
       \/ ~link.up /\ Does(t, link, "return")
    /\ UNCHANGED programs

(* nmcli device connect, which needs a carrier. *)
ConnectNot(t) ==   \* mutant: no renewal, as with renew_dhcp=False
    /\ At(t, "connect")
    /\ Return(t) /\ UNCHANGED identityVars
Connect(t) ==
    /\ At(t, "connect")
    /\ \/ link.up /\ Does(t, [link EXCEPT !.leased = TRUE], "return")
       \/ link.up /\ Fails(t)
       \/ ~link.up /\ Does(t, link, "return")
    /\ UNCHANGED programs

(* hostnamectl, and hostname when that fails; where the program it comes   *)
(* to is missing subprocess.run raises what the function does not catch.   *)
RandomizeHostname(t) ==
    /\ Called(t, "hostname")
    /\ \/ hostnamectl /\ Return(t)
       \/ ~(hostnamectl /\ hostname) /\ Raise(t)
    /\ UNCHANGED identityVars

IdentityStep(t) ==
    \/ LinkDown(t) \/ SetAddress(t) \/ LinkUp(t) \/ Carrier(t) \/ Connect(t)
    \/ RandomizeHostname(t)

IdentityKilled ==
    /\ failed' = (failed \/ \E t \in Threads : pc[t] \in {"address", "linkUp", "carrier", "connect"})
    /\ UNCHANGED <<link, programs>>
IdentityRestarted ==
    /\ link' = [up |-> TRUE, leased |-> TRUE] /\ failed' = FALSE
    /\ UNCHANGED programs

IdentityTypeOK ==
    /\ link \in [up : BOOLEAN, leased : BOOLEAN]
    /\ programs \in BOOLEAN \X BOOLEAN \X BOOLEAN /\ failed \in BOOLEAN

(* "the actual fix for the changed MAC, lost internet pattern": whichever  *)
(* threads change the address at the same time, the interface ends up and  *)
(* with a lease for the address it has, unless a command failed (core.py   *)
(* randomize_mac).                                                         *)
LinkComesBack ==
    (\A t \in Threads : pc[t] = "idle") /\ ~failed =>
        link.up /\ (nmcli => link.leased)
=============================================================================
