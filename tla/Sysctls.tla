------------------------------- MODULE Sysctls -------------------------------
(***************************************************************************)
(* The fingerprint-reducing sysctls of anti_recon.py: the kernel's values, *)
(* and what the state file remembers of those of before.                   *)
(***************************************************************************)
EXTENDS Callers

CONSTANTS
    Keys,     \* STEALTH_SYSCTLS
    Values,
    Hardened  \* the value the program writes

ASSUME SysctlAssumption == Hardened \in Values /\ None \notin Values

VARIABLES
    sysctl,   \* the kernel's values
    boot,     \* history: those it starts with
    stealth,  \* stealth_sysctls and stealth_sysctls_backup
    saved,    \* the values each thread has read, or is to write back
    left,     \* the keys each thread has still to treat
    lost      \* history: keys whose value of before was not read, not written
              \* back, or not recorded, the program killed or the update raising

sysctlVars == <<sysctl, boot, stealth, saved, left, lost>>

Unread == [k \in Keys |-> None]

SysctlInit ==
    /\ boot \in [Keys -> Values] /\ sysctl = boot
    /\ stealth = [on |-> FALSE, backup |-> Unread]
    /\ saved = [t \in Threads |-> Unread]
    /\ left = [t \in Threads |-> {}]
    /\ lost = {}

Treat(t, k) == k \in left[t] /\ left' = [left EXCEPT ![t] = @ \ {k}]

(* enable_stealth_sysctls: reads every key, writes every key, records, and *)
(* goes on when a command fails.                                           *)
EnableSysctlsAgain(t) ==   \* mutant: "already applied" is not an early return
    /\ Called(t, "sysctlsOn")
    /\ Goto(t, "readSysctls") /\ left' = [left EXCEPT ![t] = Keys]
    /\ UNCHANGED <<sysctl, boot, stealth, saved, lost>>
EnableSysctls(t) ==
    /\ Called(t, "sysctlsOn")
    /\ \/ stealth.on /\ Return(t) /\ UNCHANGED left
       \/ ~stealth.on /\ Goto(t, "readSysctls") /\ left' = [left EXCEPT ![t] = Keys]
    /\ UNCHANGED <<sysctl, boot, stealth, saved, lost>>

ReadSysctl(t, k) ==
    /\ At(t, "readSysctls") /\ Treat(t, k)
    /\ \/ saved' = [saved EXCEPT ![t][k] = sysctl[k]] /\ UNCHANGED lost
       \/ saved' = [saved EXCEPT ![t][k] = None] /\ lost' = lost \cup {k}
    /\ UNCHANGED <<callers, sysctl, boot, stealth>>

SysctlsRead(t) ==
    /\ At(t, "readSysctls") /\ left[t] = {}
    /\ Goto(t, "writeSysctls") /\ left' = [left EXCEPT ![t] = Keys]
    /\ UNCHANGED <<sysctl, boot, stealth, saved, lost>>

WriteSysctl(t, k) ==
    /\ At(t, "writeSysctls") /\ Treat(t, k)
    /\ sysctl' \in {sysctl, [sysctl EXCEPT ![k] = Hardened]}
    /\ UNCHANGED <<callers, boot, stealth, saved, lost>>

RecordSysctls(t) ==
    /\ At(t, "writeSysctls") /\ left[t] = {}
    /\ stealth' = [on |-> TRUE, backup |-> saved[t]]
    /\ Return(t)
    /\ UNCHANGED <<sysctl, boot, saved, left, lost>>

(* disable_stealth_sysctls *)
DisableSysctls(t) ==
    /\ Called(t, "sysctlsOff")
    /\ \/ ~stealth.on /\ Return(t) /\ UNCHANGED <<saved, left>>
       \/ /\ stealth.on /\ Goto(t, "restoreSysctls")
          /\ saved' = [saved EXCEPT ![t] = stealth.backup]
          /\ left' = [left EXCEPT ![t] = {k \in Keys : stealth.backup[k] # None}]
    /\ UNCHANGED <<sysctl, boot, stealth, lost>>

RestoreSysctl(t, k) ==
    /\ At(t, "restoreSysctls") /\ Treat(t, k)
    /\ \/ sysctl' = [sysctl EXCEPT ![k] = saved[t][k]] /\ UNCHANGED lost
       \/ UNCHANGED sysctl /\ lost' = lost \cup {k}
    /\ UNCHANGED <<callers, boot, stealth, saved>>

ForgetSysctls(t) ==
    /\ At(t, "restoreSysctls") /\ left[t] = {}
    /\ stealth' = [on |-> FALSE, backup |-> Unread]
    /\ Return(t)
    /\ UNCHANGED <<sysctl, boot, saved, left, lost>>

(* statemod.get raises at the beginning, or statemod.update at the end.    *)
SysctlsUnsaved(t) ==
    /\ \/ (Called(t, "sysctlsOn") \/ Called(t, "sysctlsOff")) /\ UNCHANGED lost
       \/ At(t, "writeSysctls") /\ left[t] = {} /\ lost' = Keys
       \/ At(t, "restoreSysctls") /\ left[t] = {} /\ UNCHANGED lost
    /\ RaiseUnsaved(t)
    /\ UNCHANGED <<sysctl, boot, stealth, saved, left>>

SysctlStep(t) ==
    \/ EnableSysctls(t) \/ SysctlsRead(t) \/ RecordSysctls(t)
    \/ DisableSysctls(t) \/ ForgetSysctls(t) \/ SysctlsUnsaved(t)
    \/ \E k \in Keys : ReadSysctl(t, k) \/ WriteSysctl(t, k) \/ RestoreSysctl(t, k)

(* The threads end where they are; a restart also resets the kernel.       *)
Written == UNION {IF pc[t] = "writeSysctls" THEN Keys \ left[t] ELSE {} : t \in Threads}
SysctlsStopped ==
    /\ saved' = [t \in Threads |-> Unread] /\ left' = [t \in Threads |-> {}]
    /\ lost' = lost \cup Written
    /\ UNCHANGED <<boot, stealth>>
SysctlsKilled == SysctlsStopped /\ UNCHANGED sysctl
SysctlsRestarted == SysctlsStopped /\ sysctl' = boot

SysctlTypeOK ==
    /\ boot \in [Keys -> Values] /\ sysctl \in [Keys -> Values]
    /\ stealth \in [on : BOOLEAN, backup : [Keys -> Values \cup {None}]]
    /\ saved \in [Threads -> [Keys -> Values \cup {None}]]
    /\ left \in [Threads -> SUBSET Keys] /\ lost \subseteq Keys

(* "Record the EXACT previous values so disable restores reality": when    *)
(* the record says off and nothing is under way, every key has the value   *)
(* the kernel started with, whatever sequence of enables, disables, kills  *)
(* and restarts went before, but for the keys that some command failed on, *)
(* or that an enable hardened which was killed or whose update of the      *)
(* record raised (anti_recon.py:62).                                       *)
SysctlsRestored ==
    ~stealth.on /\ (\A t \in Threads : pc[t] = "idle") =>
        \A k \in Keys \ lost : sysctl[k] = boot[k]
=============================================================================
