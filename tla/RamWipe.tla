------------------------------- MODULE RamWipe -------------------------------
(***************************************************************************)
(* The shutdown hook of ram_wipe.py: a script, a systemd unit that runs    *)
(* it, and whether the unit is enabled.  Killing applications and wiping   *)
(* memory change nothing that the program looks at again.                  *)
(***************************************************************************)
EXTENDS Callers

VARIABLES
    hook,     \* of "script", "unit" and "enabled", those that are there
    botched   \* history: systemctl disable failed, which nobody looks at

hookVars == <<hook, botched>>

HookInit == hook = {} /\ botched = FALSE

(* install_shutdown_hook: script, unit, enable; a unit that is not there   *)
(* cannot be enabled, and the result is ignored.                           *)
EnableFirst(t) ==   \* mutant: the unit is enabled before its script is written
    /\ Called(t, "hookOn") /\ Goto(t, "unit")
    /\ hook' = hook \cup {"unit", "enabled"}
    /\ UNCHANGED botched
WriteScript(t) ==
    /\ Called(t, "hookOn") /\ Goto(t, "unit")
    /\ hook' = hook \cup {"script"}
    /\ UNCHANGED botched
WriteUnit(t) ==
    /\ At(t, "unit") /\ Goto(t, "enable")
    /\ hook' = hook \cup {"unit"}
    /\ UNCHANGED botched
EnableUnit(t) ==
    /\ At(t, "enable") /\ Return(t)
    /\ \/ UNCHANGED hook
       \/ "unit" \in hook /\ hook' = hook \cup {"enabled"}
    /\ UNCHANGED botched

(* remove_shutdown_hook: disable, then the two files. *)
DisableUnit(t) ==
    /\ Called(t, "hookOff") /\ Goto(t, "rmUnit")
    /\ \/ hook' = hook \ {"enabled"} /\ UNCHANGED botched
       \/ UNCHANGED hook /\ botched' = TRUE
RemoveUnit(t) ==
    /\ At(t, "rmUnit") /\ Goto(t, "rmScript")
    /\ hook' = hook \ {"unit"}
    /\ UNCHANGED botched
RemoveScript(t) ==
    /\ At(t, "rmScript") /\ Return(t)
    /\ hook' = hook \ {"script"}
    /\ UNCHANGED botched

HookStep(t) ==
    \/ WriteScript(t) \/ WriteUnit(t) \/ EnableUnit(t)
    \/ DisableUnit(t) \/ RemoveUnit(t) \/ RemoveScript(t)

HookTypeOK == hook \subseteq {"script", "unit", "enabled"} /\ botched \in BOOLEAN

(* A unit that systemd will run at shutdown has its file and its script,   *)
(* killed wherever the installation or the removal may be: the script is   *)
(* written first and removed last (ram_wipe.py install_shutdown_hook,      *)
(* remove_shutdown_hook).                                                  *)
HookIsWhole == "enabled" \in hook /\ ~botched => {"script", "unit"} \subseteq hook
=============================================================================
