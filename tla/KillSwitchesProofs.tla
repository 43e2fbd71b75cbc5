------------------------- MODULE KillSwitchesProofs -------------------------
(***************************************************************************)
(* What KillSwitches keeps for every machine, every plan, every number of  *)
(* faults, crashes and restarts: the types, whatever runs; the switches'   *)
(* records, as long as one thread works the kill switches and gateway      *)
(* mode; and what the checks of verify.py are worth.                       *)
(***************************************************************************)
EXTENDS Verification, NetfilterProofs

Switching == {"torOn", "proxyOn", "gwOn"}
BeforeRecord == {"prepare", "bootstrap", "waiting", "save4", "save6", "apply", "gateway6", "record"}
AfterRecord == {"v6", "block6"}

StShape == /\ st = [f \in DOMAIN Off |-> st[f]]
           /\ \A f \in Flags : st[f] \in BOOLEAN
ThShape == /\ th = [t \in Threads |-> th[t]]
           /\ \A t \in Threads : th[t] = [f \in DOMAIN Idle |-> th[t][f]]

(* What the checks at the start of an enable function established still    *)
(* holds when it records; once it has recorded, its flag is up.            *)
Checked(t) ==
    /\ th[t].pc \in BeforeRecord =>
          Doing(t, Switching) /\ ~st[Flag[Op(t)]] /\ ~Conflict(Op(t))
    /\ th[t].pc \in AfterRecord => Doing(t, Switching) /\ st[Flag[Op(t)]]

(* The other threads are not at a switch. *)
Aside(r) == r.pc \notin BeforeRecord \cup AfterRecord
OthersAside(t) == \A u \in Threads \ {t} : Aside(th[u])

Inv == StShape /\ ThShape /\ (\A t \in Threads : Checked(t)) /\ OneSwitch /\ V6OnlyWithSwitch
-----------------------------------------------------------------------------
(* A step that gives the thread a new record gives it just that record. *)
LEMMA BecomeShape ==
    ASSUME ThShape, NEW t \in Threads, NEW r, r = [f \in DOMAIN Idle |-> r[f]], Become(t, r)
    PROVE  ThShape' /\ th'[t] = r
  BY DEF ThShape, Become

(* A jump moves the label only. *)
LEMMA GotoShape ==
    ASSUME ThShape, NEW t \in Threads, NEW l, Goto(t, l)
    PROVE  ThShape' /\ th'[t].pc = l /\ th'[t].plan = th[t].plan
  <1>1. [th[t] EXCEPT !.pc = l] = [f \in DOMAIN Idle |-> [th[t] EXCEPT !.pc = l][f]]
    BY DEF ThShape, Idle
  <1>2. ThShape' /\ th'[t] = [th[t] EXCEPT !.pc = l]
    BY <1>1, BecomeShape DEF Goto
  <1> QED BY <1>2 DEF ThShape, Idle

(* So does the start of a list of commands. *)
LEMMA RunShape ==
    ASSUME ThShape, NEW t \in Threads, NEW l, NEW cs, Run(t, l, cs)
    PROVE  ThShape' /\ th'[t].pc = l /\ th'[t].plan = th[t].plan
  <1> DEFINE r == [th[t] EXCEPT !.pc = l, !.todo = cs, !.ok = TRUE]
  <1>1. r = [f \in DOMAIN Idle |-> r[f]]
    BY DEF ThShape, Idle
  <1>2. ThShape' /\ th'[t] = r
    BY <1>1, BecomeShape DEF Run
  <1> QED BY <1>2 DEF ThShape, Idle

(* After an operation the thread is idle or about to check the next one. *)
LEMMA FinishShape ==
    ASSUME ThShape, NEW t \in Threads, NEW result, Finish(t, result)
    PROVE  ThShape' /\ th'[t].pc \in {"idle", "check"}
  <1> DEFINE rest == Tail(th[t].plan)
             r == [Idle EXCEPT !.plan = rest, !.ok = result,
                               !.pc = IF rest = <<>> THEN "idle" ELSE "check"]
  <1>1. r = [f \in DOMAIN Idle |-> r[f]] /\ r.pc \in {"idle", "check"}
    BY DEF Idle
  <1>2. ThShape' /\ th'[t] = r
    BY <1>1, BecomeShape DEF Finish
  <1> QED BY <1>1, <1>2

(* A crash and a restart leave every thread idle. *)
LEMMA IdleShape ==
    ASSUME th' = [t \in Threads |-> Idle]
    PROVE  ThShape' /\ \A t \in Threads : th'[t].pc = "idle"
  BY DEF ThShape, Idle
-----------------------------------------------------------------------------
(* A step of a thread that leaves the state file alone and does not  *)
(* enter another stage.                                                    *)
SameStage(t) ==
    /\ th'[t].pc \in BeforeRecord => th[t].pc \in BeforeRecord /\ th'[t].plan = th[t].plan
    /\ th'[t].pc \in AfterRecord => th[t].pc \in AfterRecord /\ th'[t].plan = th[t].plan

(* What was checked is about the one thread at a switch. *)
LEMMA AllChecked ==
    ASSUME NEW t \in Threads, OthersAside(t)', Checked(t)'
    PROVE  \A u \in Threads : Checked(u)'
  BY DEF OthersAside, Aside, Checked

(* Such a step keeps the invariant. *)
LEMMA StageKept ==
    ASSUME Inv, NEW t \in Threads, OthersAside(t)', ThShape', SameStage(t), UNCHANGED st
    PROVE  Inv'
  <1>1. Checked(t)'
    <2>1. Checked(t)
      BY DEF Inv
    <2>2. CASE th'[t].pc \in BeforeRecord
      BY <2>1, <2>2 DEF SameStage, Checked, Doing, Op, Conflict, BeforeRecord, AfterRecord
    <2>3. CASE th'[t].pc \in AfterRecord
      BY <2>1, <2>3 DEF SameStage, Checked, Doing, Op, BeforeRecord, AfterRecord
    <2>4. CASE th'[t].pc \notin BeforeRecord \cup AfterRecord
      BY <2>1, <2>4 DEF Checked
    <2> QED BY <2>2, <2>3, <2>4
  <1>2. \A u \in Threads : Checked(u)'
    BY <1>1, AllChecked
  <1> QED BY <1>2 DEF Inv, StShape, OneSwitch, V6OnlyWithSwitch

(* A step that ends the thread's operation, whatever it records.           *)
LEMMA OperationOver ==
    ASSUME Inv, NEW t \in Threads, OthersAside(t)', ThShape', th'[t].pc \in {"idle", "check"},
           StShape', OneSwitch', V6OnlyWithSwitch'
    PROVE  Inv'
  <1>1. \A u \in Threads : Checked(u)'
    BY AllChecked DEF Checked, BeforeRecord, AfterRecord
  <1> QED BY <1>1 DEF Inv
-----------------------------------------------------------------------------
(* The check passes only where the switch and its rivals are recorded as off. *)
LEMMA CheckEnableStep ==
    ASSUME Inv, NEW t \in Threads, OthersAside(t)', CheckEnable(t)
    PROVE  Inv'
  <1>1. UNCHANGED st
    BY DEF CheckEnable
  <1>2. CASE \E result \in BOOLEAN : Finish(t, result)
    <2>1. ThShape' /\ th'[t].pc \in {"idle", "check"}
      BY <1>2, FinishShape DEF Inv
    <2> QED BY <2>1, <1>1, OperationOver DEF Inv, StShape, OneSwitch, V6OnlyWithSwitch
  <1>3. CASE Run(t, "scan", ScanRules)
    <2>1. ThShape' /\ th'[t].pc = "scan"
      BY <1>3, RunShape DEF Inv
    <2> QED BY <2>1, <1>1, StageKept DEF SameStage, BeforeRecord, AfterRecord
  <1>4. CASE /\ Doing(t, Enabling) /\ Op(t) # "scanOn"
             /\ ~st[Flag[Op(t)]] /\ ~Conflict(Op(t)) /\ Goto(t, "prepare")
    <2>1. ThShape' /\ th'[t].pc = "prepare" /\ th'[t].plan = th[t].plan
      BY <1>4, GotoShape DEF Inv
    <2>2. Doing(t, Switching)
      BY <1>4 DEF Doing, Enabling, Switching
    <2>3. \A u \in Threads : Checked(u)'
      BY <1>1, <1>4, <2>1, <2>2, AllChecked
      DEF Checked, Doing, Op, Conflict, BeforeRecord, AfterRecord
    <2> QED BY <1>1, <2>1, <2>3 DEF Inv, StShape, OneSwitch, V6OnlyWithSwitch
  <1> QED BY <1>2, <1>3, <1>4 DEF CheckEnable

(* The record of a switch: no other kill switch is on, and its flag goes up. *)
LEMMA RecordStep ==
    ASSUME Inv, NEW t \in Threads, OthersAside(t)', Record(t)
    PROVE  /\ Inv'
           /\ st.tor /\ st'.tor => st'.iptables = st.iptables
           /\ st.proxy /\ st'.proxy => st'.nat = st.nat
  <1>1. ThShape' /\ th'[t].pc = "v6" /\ th'[t].plan = th[t].plan
    BY GotoShape DEF Record, Inv
  <1>2. Doing(t, Switching) /\ ~st[Flag[Op(t)]] /\ ~Conflict(Op(t))
    BY DEF Record, At, Inv, Checked, BeforeRecord
  <1>3. st' = Recorded(Op(t), th[t].b4, th[t].b6)
    BY DEF Record
  <1>4. /\ StShape' /\ st'[Flag[Op(t)]] /\ OneSwitch' /\ V6OnlyWithSwitch'
        /\ st.tor /\ st'.tor => st'.iptables = st.iptables
        /\ st.proxy /\ st'.proxy => st'.nat = st.nat
    <2>1. CASE Op(t) = "torOn"
      <3>1. ~st.tor /\ ~st.proxy
        BY <1>2, <2>1 DEF Flag, Conflict
      <3>2. st' = [st EXCEPT !.tor = TRUE, !.iptables = th[t].b4, !.ip6tables = th[t].b6]
        BY <1>3, <2>1 DEF Recorded
      <3>3. Flag[Op(t)] = "tor"
        BY <2>1 DEF Flag
      <3> QED BY <3>1, <3>2, <3>3 DEF Inv, StShape, Off, Flags, OneSwitch, V6OnlyWithSwitch
    <2>2. CASE Op(t) = "proxyOn"
      <3>1. ~st.tor /\ ~st.proxy
        BY <1>2, <2>2 DEF Flag, Conflict
      <3>2. st' = [st EXCEPT !.proxy = TRUE, !.nat = th[t].b4, !.ip6tables = th[t].b6]
        BY <1>3, <2>2 DEF Recorded
      <3>3. Flag[Op(t)] = "proxy"
        BY <2>2 DEF Flag
      <3> QED BY <3>1, <3>2, <3>3 DEF Inv, StShape, Off, Flags, OneSwitch, V6OnlyWithSwitch
    <2>3. CASE Op(t) = "gwOn"
      <3>2. st' = [st EXCEPT !.gw = TRUE, !.gwIptables = th[t].b4, !.gwIp6tables = th[t].b6]
        BY <1>3, <2>3 DEF Recorded
      <3>3. Flag[Op(t)] = "gw"
        BY <2>3 DEF Flag
      <3> QED BY <3>2, <3>3 DEF Inv, StShape, Off, Flags, OneSwitch, V6OnlyWithSwitch
    <2> QED BY <1>2, <2>1, <2>2, <2>3 DEF Doing, Switching
  <1>5. \A u \in Threads : Checked(u)'
    BY <1>1, <1>2, <1>4, AllChecked DEF Checked, Doing, Op, BeforeRecord, AfterRecord
  <1> QED BY <1>1, <1>4, <1>5 DEF Inv

(* block_ipv6 runs only after a switch was recorded as on. *)
LEMMA V6BlockedStep ==
    ASSUME Inv, NEW t \in Threads, OthersAside(t)', V6Blocked(t)
    PROVE  Inv' /\ UNCHANGED <<st.tor, st.proxy, st.iptables, st.nat>>
  <1>1. ThShape' /\ th'[t].pc \in {"idle", "check"}
    BY FinishShape DEF V6Blocked, Inv
  <1>2. Op(t) \in Switching /\ st[Flag[Op(t)]]
    BY DEF V6Blocked, At, Inv, Checked, AfterRecord, Doing
  <1>3. st' = st \/ st' = [st EXCEPT !.v6 = TRUE]
    BY DEF V6Blocked
  <1>4. st.tor \/ st.proxy \/ st.gw
    BY <1>2 DEF Switching, Flag
  <1>5. StShape' /\ OneSwitch' /\ V6OnlyWithSwitch' /\ UNCHANGED <<st.tor, st.proxy, st.iptables, st.nat>>
    BY <1>3, <1>4 DEF Inv, StShape, Off, Flags, OneSwitch, V6OnlyWithSwitch
  <1> QED BY <1>1, <1>5, OperationOver

(* A disable function lowers the IPv6 flag along with the switch's own. *)
LEMMA ClearStep ==
    ASSUME Inv, NEW t \in Threads, OthersAside(t)', Clear(t)
    PROVE  /\ Inv'
           /\ st.tor /\ st'.tor => st'.iptables = st.iptables
           /\ st.proxy /\ st'.proxy => st'.nat = st.nat
  <1>1. ThShape' /\ th'[t].pc \in {"idle", "check"}
    BY FinishShape DEF Clear, Inv
  <1>2. st' = Cleared(Op(t)) /\ Op(t) \in {"torOff", "proxyOff", "gwOff"}
    BY DEF Clear, Undone, Doing
  <1>3. /\ StShape' /\ OneSwitch' /\ V6OnlyWithSwitch'
        /\ st.tor /\ st'.tor => st'.iptables = st.iptables
        /\ st.proxy /\ st'.proxy => st'.nat = st.nat
    <2>1. CASE Op(t) = "torOff"
      BY <1>2, <2>1 DEF Cleared, Inv, StShape, Off, Flags, OneSwitch, V6OnlyWithSwitch
    <2>2. CASE Op(t) = "proxyOff"
      BY <1>2, <2>2 DEF Cleared, Inv, StShape, Off, Flags, OneSwitch, V6OnlyWithSwitch
    <2>3. CASE Op(t) = "gwOff"
      BY <1>2, <2>3 DEF Cleared, Inv, StShape, Off, Flags, OneSwitch, V6OnlyWithSwitch
    <2> QED BY <1>2, <2>1, <2>2, <2>3
  <1> QED BY <1>1, <1>3, OperationOver

(* Portscan protection touches none of the kill switches' fields. *)
LEMMA ScanStep ==
    ASSUME Inv, NEW t \in Threads, OthersAside(t)', ScanApplied(t) \/ ScanRemoved(t)
    PROVE  Inv' /\ UNCHANGED <<st.tor, st.proxy, st.iptables, st.nat>>
  <1>1. ThShape' /\ th'[t].pc \in {"idle", "check"}
    BY FinishShape DEF ScanApplied, ScanRemoved, Inv
  <1>2. st' = st \/ (\E b \in BOOLEAN : st' = [st EXCEPT !.scan = b])
    BY DEF ScanApplied, ScanRemoved
  <1>3. StShape' /\ OneSwitch' /\ V6OnlyWithSwitch' /\ UNCHANGED <<st.tor, st.proxy, st.iptables, st.nat>>
    BY <1>2 DEF Inv, StShape, Off, Flags, OneSwitch, V6OnlyWithSwitch
  <1> QED BY <1>1, <1>3, OperationOver
-----------------------------------------------------------------------------
(* A firewall command, whatever becomes of it, changes no record. *)
LEMMA RunCommandStep ==
    ASSUME Inv, NEW t \in Threads, OthersAside(t)', RunCommand(t)
    PROVE  Inv'
  <1>1. PICK todo, ok : Become(t, [th[t] EXCEPT !.todo = todo, !.ok = ok])
    <2> DEFINE c == Head(th[t].todo)
               rest == Tail(th[t].todo)
    <2>1. CASE Become(t, [th[t] EXCEPT !.todo = rest])
      <3>1. [th[t] EXCEPT !.todo = rest] = [th[t] EXCEPT !.todo = rest, !.ok = th[t].ok]
        BY DEF Inv, ThShape, Idle
      <3> QED BY <2>1, <3>1
    <2>2. CASE Become(t, [th[t] EXCEPT !.ok = FALSE,
                            !.todo = IF th[t].pc = "block6" THEN <<>> ELSE rest])
      <3> DEFINE left == IF th[t].pc = "block6" THEN <<>> ELSE rest
      <3>1. [th[t] EXCEPT !.ok = FALSE, !.todo = left] = [th[t] EXCEPT !.todo = left, !.ok = FALSE]
        BY DEF Inv, ThShape, Idle
      <3> QED BY <2>2, <3>1
    <2> QED BY <2>1, <2>2 DEF RunCommand
  <1> DEFINE r == [th[t] EXCEPT !.todo = todo, !.ok = ok]
  <1>2. r = [f \in DOMAIN Idle |-> r[f]] /\ r.pc = th[t].pc /\ r.plan = th[t].plan
    BY DEF Inv, ThShape, Idle
  <1>3. ThShape' /\ th'[t] = r
    BY <1>1, <1>2, BecomeShape DEF Inv
  <1>4. SameStage(t)
    BY <1>2, <1>3 DEF SameStage
  <1>5. UNCHANGED st
    BY DEF RunCommand
  <1> QED BY <1>3, <1>4, <1>5, StageKept

(* Every other step that does not touch the state file. *)
Quiet(t) ==
    \/ PrepareTor(t) \/ PrepareTorFails(t) \/ AskTor(t) \/ AskTorAgain(t)
    \/ PrepareProxy(t) \/ PrepareProxyFails(t) \/ PrepareGateway(t) \/ PrepareRaises(t)
    \/ Backup4(t) \/ Backup6(t) \/ Applied(t) \/ CheckV6(t) \/ CheckDisable(t)
    \/ Restore4(t) \/ Restore6(t) \/ RolledBack(t) \/ StopRedsocks(t) \/ StopRedsocksFails(t)
    \/ UpdateRaises(t) \/ TorService(t)

(* These steps move a thread within its stage, or out of it. *)
LEMMA QuietStep ==
    ASSUME Inv, NEW t \in Threads, OthersAside(t)', Quiet(t)
    PROVE  Inv'
  <1>1. UNCHANGED st
    BY DEF Quiet, PrepareTor, PrepareTorFails, AskTor, AskTorAgain, PrepareProxy,
           PrepareProxyFails, PrepareGateway, PrepareRaises, Backup4, Backup6, Applied, CheckV6,
           CheckDisable, Restore4, Restore6, RolledBack, StopRedsocks, StopRedsocksFails,
           UpdateRaises, TorService
  <1>2. ASSUME NEW result, Finish(t, result) PROVE Inv'
    <2>1. ThShape' /\ th'[t].pc \in {"idle", "check"}
      BY <1>2, FinishShape DEF Inv
    <2> QED BY <1>1, <2>1, StageKept DEF SameStage, BeforeRecord, AfterRecord
  <1>3. ASSUME NEW l, Goto(t, l), 
               \/ l \notin BeforeRecord \cup AfterRecord
               \/ l \in BeforeRecord /\ th[t].pc \in BeforeRecord
               \/ l \in AfterRecord /\ th[t].pc \in AfterRecord
        PROVE  Inv'
    <2>1. ThShape' /\ th'[t].pc = l /\ th'[t].plan = th[t].plan
      BY <1>3, GotoShape DEF Inv
    <2> QED BY <1>1, <1>3, <2>1, StageKept DEF SameStage, BeforeRecord, AfterRecord
  <1>4. ASSUME NEW l, NEW cs, Run(t, l, cs), 
               \/ l \notin BeforeRecord \cup AfterRecord
               \/ l \in BeforeRecord /\ th[t].pc \in BeforeRecord
               \/ l \in AfterRecord /\ th[t].pc \in AfterRecord
        PROVE  Inv'
    <2>1. ThShape' /\ th'[t].pc = l /\ th'[t].plan = th[t].plan
      BY <1>4, RunShape DEF Inv
    <2> QED BY <1>1, <1>4, <2>1, StageKept DEF SameStage, BeforeRecord, AfterRecord
  <1>0. ASSUME Become(t, Idle) PROVE Inv'
    <2>1. Idle = [f \in DOMAIN Idle |-> Idle[f]] /\ Idle.pc = "idle"
      BY DEF Idle
    <2>2. ThShape' /\ th'[t] = Idle
      BY <1>0, <2>1, BecomeShape DEF Inv
    <2> QED BY <1>1, <2>1, <2>2, StageKept DEF SameStage, BeforeRecord, AfterRecord
  <1>5. CASE PrepareTor(t) \/ PrepareTorFails(t) \/ PrepareProxy(t) \/ PrepareProxyFails(t) \/ PrepareGateway(t)
    <2>2. CASE \E l \in BeforeRecord : th[t].pc \in BeforeRecord /\ Goto(t, l)
      BY <1>3, <2>2
    <2> QED BY <1>0, <1>5, <2>2
        DEF PrepareTor, PrepareTorFails, PrepareProxy, PrepareProxyFails, PrepareGateway, At, BeforeRecord
  <1>6. CASE AskTor(t) \/ AskTorAgain(t)
    BY <1>2, <1>3, <1>6 DEF AskTor, AskTorAgain, At, BeforeRecord
  <1>7. CASE Backup4(t)
    <2>1. PICK b : th[t].pc = "save4" /\ Become(t, [th[t] EXCEPT !.pc = "save6", !.b4 = b])
      BY <1>7 DEF Backup4, At
    <2> DEFINE r == [th[t] EXCEPT !.pc = "save6", !.b4 = b]
    <2>2. r = [f \in DOMAIN Idle |-> r[f]] /\ r.pc = "save6" /\ r.plan = th[t].plan
      BY DEF Inv, ThShape, Idle
    <2>3. ThShape' /\ th'[t] = r
      BY <2>1, <2>2, BecomeShape DEF Inv
    <2> QED BY <1>1, <2>1, <2>2, <2>3, StageKept DEF SameStage, BeforeRecord, AfterRecord
  <1>8. CASE Backup6(t)
    <2>1. PICK b : /\ th[t].pc = "save6"
                   /\ Become(t, [th[t] EXCEPT !.pc = "apply", !.b6 = b, !.ok = TRUE,
                                              !.todo = Rules(Op(t))])
      BY <1>8 DEF Backup6, At
    <2> DEFINE r == [th[t] EXCEPT !.pc = "apply", !.b6 = b, !.ok = TRUE, !.todo = Rules(Op(t))]
    <2>2. r = [f \in DOMAIN Idle |-> r[f]] /\ r.pc = "apply" /\ r.plan = th[t].plan
      BY DEF Inv, ThShape, Idle
    <2>3. ThShape' /\ th'[t] = r
      BY <2>1, <2>2, BecomeShape DEF Inv
    <2> QED BY <1>1, <2>1, <2>2, <2>3, StageKept DEF SameStage, BeforeRecord, AfterRecord
  <1>9. CASE Applied(t)
    BY <1>3, <1>4, <1>9 DEF Applied, At, BeforeRecord, AfterRecord
  <1>10. CASE CheckV6(t)
    BY <1>2, <1>4, <1>10 DEF CheckV6, At, BeforeRecord, AfterRecord
  <1>11. CASE CheckDisable(t)
    <2>1. CASE \E b4, b6 : Become(t, [th[t] EXCEPT !.pc = "restore4", !.b4 = b4, !.b6 = b6])
      <3>1. PICK b4, b6 : Become(t, [th[t] EXCEPT !.pc = "restore4", !.b4 = b4, !.b6 = b6])
        BY <2>1
      <3> DEFINE r == [th[t] EXCEPT !.pc = "restore4", !.b4 = b4, !.b6 = b6]
      <3>2. r = [f \in DOMAIN Idle |-> r[f]] /\ r.pc = "restore4"
        BY DEF Inv, ThShape, Idle
      <3>3. ThShape' /\ th'[t] = r
        BY <3>1, <3>2, BecomeShape DEF Inv
      <3> QED BY <1>1, <3>2, <3>3, StageKept DEF SameStage, BeforeRecord, AfterRecord
    <2>2. CASE Finish(t, FALSE)
      BY <1>2, <2>2
    <2>3. CASE Run(t, "unscan", ScanRemoval)
      BY <1>4, <2>3 DEF BeforeRecord, AfterRecord
    <2> QED BY <1>11, <2>1, <2>2, <2>3 DEF CheckDisable
  <1>12. CASE Restore4(t) \/ Restore6(t)
    BY <1>3, <1>4, <1>12 DEF Restore4, Restore6, BeforeRecord, AfterRecord
  <1>13. CASE RolledBack(t) \/ StopRedsocks(t) \/ StopRedsocksFails(t) \/ TorService(t)
    BY <1>0, <1>2, <1>3, <1>13
    DEF RolledBack, StopRedsocks, StopRedsocksFails, TorService, BeforeRecord, AfterRecord
  <1>14. CASE PrepareRaises(t) \/ UpdateRaises(t)
    BY <1>0, <1>14 DEF PrepareRaises, UpdateRaises
  <1> QED BY <1>5, <1>6, <1>7, <1>8, <1>9, <1>10, <1>11, <1>12, <1>13, <1>14 DEF Quiet
-----------------------------------------------------------------------------
(* Nothing is recorded, and nothing runs, at first. *)
LEMMA InvInit == Init => Inv
  <1> SUFFICES ASSUME Init PROVE Inv
    OBVIOUS
  <1>1. StShape /\ OneSwitch /\ V6OnlyWithSwitch
    BY DEF Init, StShape, Off, Flags, OneSwitch, V6OnlyWithSwitch
  <1>2. ThShape /\ \A t \in Threads : th[t].pc = "idle"
    BY DEF Init, ThShape, Idle
  <1> QED BY <1>1, <1>2 DEF Inv, Checked, BeforeRecord, AfterRecord

-----------------------------------------------------------------------------
(* The types of what a thread holds; and between its checks and the end of *)
(* block_ipv6 it is at one of the switches.                                *)
ThreadTyped(r) ==
    /\ r = [f \in DOMAIN Idle |-> r[f]]
    /\ r.plan \in Seq(Ops) /\ r.pc \in Labels /\ r.ok \in BOOLEAN
    /\ r.todo \in Seq(Command) /\ IsBackup(r.b4) /\ IsBackup(r.b6)
    /\ r.plan = <<>> <=> r.pc = "idle"
    /\ r.pc \in BeforeRecord \cup AfterRecord => Head(r.plan) \in Switching
ThreadsTyped == th = [t \in Threads |-> th[t]] /\ \A t \in Threads : ThreadTyped(th[t])

StTyped ==
    /\ st = [f \in DOMAIN Off |-> st[f]]
    /\ \A f \in Flags : st[f] \in BOOLEAN
    /\ \A f \in BackupFields : IsBackup(st[f])
Blocks == {"ks", "gw", "manual"}
MachineTyped ==
    /\ IsRuleset(fw4) /\ IsRuleset(fw6) /\ IsRuleset(base.v4) /\ IsRuleset(base.v6)
    /\ on \in DOMAIN Machines /\ torrc \subseteq Blocks
    /\ tor = [up |-> tor.up, read |-> tor.read]
    /\ tor.up \in BOOLEAN /\ tor.read \subseteq Blocks
    /\ redsocks \in {"down", "unit", "child"}
    /\ faults \in 0 .. Here.maxFaults /\ asked \in 0 .. Here.maxRequests

TypeInv == StTyped /\ MachineTyped /\ ThreadsTyped

(* The histories of what went wrong are typed on their own. *)
HistoryTyped == stale \subseteq Flags /\ orphaned \in BOOLEAN /\ unserved \subseteq {"tor", "redsocks"}

(* What is assumed of the machine this is. *)
LEMMA HereTyped ==
    ASSUME on \in DOMAIN Machines
    PROVE  /\ \A t \in Threads : Here.plans[t] \subseteq Seq(Ops) \ {<<>>}
           /\ \A fw \in Here.bases4 \cup Here.bases6 : IsRuleset(fw)
           /\ Here.torrcs \subseteq SUBSET {"ks", "manual"} /\ Here.systemctl \in BOOLEAN
           /\ Here.maxFaults \in Nat /\ Here.maxRequests \in Nat
  BY MachineAssumption DEF Here

(* A thread with nothing to do is typed. *)
LEMMA IdleTyped == ThreadTyped(Idle)
  BY EmptySeq DEF ThreadTyped, Idle, Labels, IsBackup, BeforeRecord, AfterRecord

(* So are all threads when one becomes a typed record, *)
LEMMA BecomeTyped ==
    ASSUME ThreadsTyped, NEW t \in Threads, NEW r, ThreadTyped(r), Become(t, r)
    PROVE  ThreadsTyped'
  BY DEF ThreadsTyped, Become

(* Where a jump may lead. *)
MayGo(t, l) ==
    /\ l \in Labels \ {"idle"}
    /\ l \in BeforeRecord \cup AfterRecord => Op(t) \in Switching

(* as one is that moves on within its operation. *)
LEMMA Moved ==
    ASSUME NEW t \in Threads, ThreadTyped(th[t]), NEW l, MayGo(t, l), th[t].pc # "idle",
           NEW r, r = [f \in DOMAIN Idle |-> r[f]], r.plan = th[t].plan, r.pc = l,
           r.todo \in Seq(Command), r.ok \in BOOLEAN, IsBackup(r.b4), IsBackup(r.b6)
    PROVE  ThreadTyped(r)
  BY DEF ThreadTyped, MayGo, Op

(* A jump, ... *)
LEMMA GotoTyped ==
    ASSUME ThreadsTyped, NEW t \in Threads, th[t].pc # "idle", NEW l, MayGo(t, l), Goto(t, l)
    PROVE  ThreadsTyped'
  <1> DEFINE r == [th[t] EXCEPT !.pc = l]
  <1>1. ThreadTyped(th[t])
    BY DEF ThreadsTyped
  <1>2. /\ r = [f \in DOMAIN Idle |-> r[f]] /\ r.pc = l
        /\ \A f \in DOMAIN Idle \ {"pc"} : r[f] = th[t][f]
    BY <1>1 DEF ThreadTyped, Idle
  <1>3. ThreadTyped(r)
    BY <1>1, <1>2, Moved DEF ThreadTyped, Idle
  <1> QED BY <1>3, BecomeTyped DEF Goto

(* ... the start of a list ... *)
LEMMA RunTyped ==
    ASSUME ThreadsTyped, NEW t \in Threads, th[t].pc # "idle", NEW l, MayGo(t, l),
           NEW cs \in Seq(Command), Run(t, l, cs)
    PROVE  ThreadsTyped'
  <1> DEFINE r == [th[t] EXCEPT !.pc = l, !.todo = cs, !.ok = TRUE]
  <1>1. ThreadTyped(th[t])
    BY DEF ThreadsTyped
  <1>2. /\ r = [f \in DOMAIN Idle |-> r[f]] /\ r.pc = l /\ r.todo = cs /\ r.ok = TRUE
        /\ r.plan = th[t].plan /\ r.b4 = th[t].b4 /\ r.b6 = th[t].b6
    BY <1>1 DEF ThreadTyped, Idle
  <1>3. ThreadTyped(r)
    <2> HIDE DEF r
    <2> QED BY <1>1, <1>2, Moved DEF ThreadTyped
  <1> QED BY <1>3, BecomeTyped DEF Run

(* ... and the end of an operation. *)
LEMMA FinishTyped ==
    ASSUME ThreadsTyped, NEW t \in Threads, th[t].pc # "idle", NEW result \in BOOLEAN, Finish(t, result)
    PROVE  ThreadsTyped'
  <1> DEFINE rest == Tail(th[t].plan)
             r == [Idle EXCEPT !.plan = rest, !.ok = result,
                               !.pc = IF rest = <<>> THEN "idle" ELSE "check"]
  <1>1. rest \in Seq(Ops)
    BY HeadTailProperties DEF ThreadsTyped, ThreadTyped
  <1>2. ThreadTyped(r)
    <2> HIDE DEF rest
    <2> QED BY <1>1, EmptySeq DEF ThreadTyped, Idle, Labels, IsBackup, BeforeRecord, AfterRecord
  <1> QED BY <1>2, BecomeTyped DEF Finish
-----------------------------------------------------------------------------
(* The count of faults stays below its bound. *)
LEMMA FaultsTyped ==
    ASSUME MachineTyped, Fault \/ NoFault
    PROVE  faults' \in 0 .. Here.maxFaults
  <1>1. Here.maxFaults \in Nat
    BY HereTyped DEF MachineTyped
  <1> QED BY <1>1 DEF MachineTyped, Fault, NoFault

(* A Tor that was started. *)
LEMMA StartedTyped ==
    ASSUME NEW blocks, blocks \subseteq Blocks
    PROVE  /\ Started(blocks) = [up |-> Started(blocks).up, read |-> Started(blocks).read]
           /\ Started(blocks).up \in BOOLEAN /\ Started(blocks).read \subseteq Blocks
  BY DEF Started

(* One command. *)
LEMMA RunCommandTyped ==
    ASSUME TypeInv, NEW t \in Threads, RunCommand(t)
    PROVE  TypeInv'
  <1> DEFINE a == th[t]
             c == Head(a.todo)
             rest == Tail(a.todo)
             left == IF a.pc = "block6" THEN <<>> ELSE rest
  <1>1. ThreadTyped(a) /\ a = [f \in DOMAIN Idle |-> a[f]]
    BY DEF TypeInv, ThreadsTyped, ThreadTyped
  <1>2. c \in Command /\ rest \in Seq(Command) /\ left \in Seq(Command)
    <2>1. a.todo \in Seq(Command) /\ a.todo # <<>>
      BY <1>1 DEF ThreadTyped, RunCommand
    <2> QED BY <2>1, HeadTailProperties, EmptySeq
  <1>3. ASSUME NEW r, r = [f \in DOMAIN Idle |-> r[f]], r.plan = a.plan, r.pc = a.pc,
               r.todo \in Seq(Command), r.ok \in BOOLEAN, r.b4 = a.b4, r.b6 = a.b6
        PROVE  ThreadTyped(r)
    <2> HIDE DEF a
    <2> QED BY <1>1, <1>3 DEF ThreadTyped
  <1>4. ThreadTyped([a EXCEPT !.todo = rest]) /\ ThreadTyped([a EXCEPT !.ok = FALSE, !.todo = left])
    <2> DEFINE r == [a EXCEPT !.todo = rest]
               q == [a EXCEPT !.ok = FALSE, !.todo = left]
    <2> HIDE DEF rest, left
    <2>1. /\ r = [f \in DOMAIN Idle |-> r[f]] /\ r.todo = rest
          /\ \A f \in DOMAIN Idle \ {"todo"} : r[f] = a[f]
      BY <1>1 DEF Idle
    <2>2. /\ q = [f \in DOMAIN Idle |-> q[f]] /\ q.todo = left /\ q.ok = FALSE
          /\ q.plan = a.plan /\ q.pc = a.pc /\ q.b4 = a.b4 /\ q.b6 = a.b6
      BY <1>1 DEF Idle
    <2>3. a.ok \in BOOLEAN
      BY <1>1 DEF ThreadTyped
    <2> HIDE DEF a, r, q
    <2>4. ThreadTyped(r)
      BY <1>2, <1>3, <2>1, <2>3 DEF Idle
    <2>5. ThreadTyped(q)
      BY <1>2, <1>3, <2>2
    <2> QED BY <2>4, <2>5 DEF r, q
  <1>5. ThreadsTyped'
    <2>1. \/ Become(t, [a EXCEPT !.todo = rest])
          \/ Become(t, [a EXCEPT !.ok = FALSE, !.todo = left])
      BY DEF RunCommand
    <2> QED BY <1>4, <2>1, BecomeTyped DEF TypeInv
  <1>6. IsRuleset(fw4') /\ IsRuleset(fw6')
    <2>1. IsRuleset(fw4) /\ IsRuleset(fw6)
      BY DEF TypeInv, MachineTyped
    <2>2. \/ fw4' = fw4
          \/ ~Refused(fw4, c) /\ fw4' = Exec(fw4, c)
      BY DEF RunCommand
    <2>3. \/ fw6' = fw6
          \/ ~Refused(fw6, c) /\ fw6' = Exec(fw6, c)
      BY DEF RunCommand
    <2> HIDE DEF c
    <2> QED BY <1>2, <2>1, <2>2, <2>3, Executed
  <1>7. (Fault \/ NoFault) /\ UNCHANGED <<st, daemons, fixed>>
    BY DEF RunCommand, hist
  <1>8. faults' \in 0 .. Here.maxFaults
    BY <1>7, FaultsTyped DEF TypeInv
  <1> QED BY <1>5, <1>6, <1>7, <1>8 DEF TypeInv, StTyped, MachineTyped, daemons, fixed, Here

(* The steps that only read, and those that write to the state file. *)
LEMMA ReadingTyped ==
    ASSUME TypeInv, ThreadsTyped', UNCHANGED <<fw4, fw6, daemons, fixed, faults>>, StTyped'
    PROVE  TypeInv'
  BY DEF TypeInv, MachineTyped, daemons, fixed, Here

(* The record as it was. *)
LEMMA StKept == ASSUME TypeInv, UNCHANGED st PROVE StTyped'
  BY DEF TypeInv, StTyped

(* The updates of the state file. *)
LEMMA RecordsTyped ==
    ASSUME TypeInv, NEW t \in Threads,
           \/ Record(t) \/ V6Blocked(t) \/ ScanApplied(t) \/ Clear(t) \/ ScanRemoved(t)
    PROVE  TypeInv'
  <1> USE DEF At, Labels, MayGo, BeforeRecord, AfterRecord
  <1>0. ThreadTyped(th[t]) /\ ThreadsTyped /\ StTyped
    BY DEF TypeInv, ThreadsTyped
  <1>1. CASE Record(t)
    <2>1. Op(t) \in Switching /\ Goto(t, "v6") /\ th[t].pc # "idle"
      BY <1>0, <1>1 DEF Record, ThreadTyped, Op
    <2>2. ThreadsTyped'
      BY <1>0, <2>1, GotoTyped
    <2>3. StTyped'
      <3>1. IsBackup(th[t].b4) /\ IsBackup(th[t].b6) /\ st' = Recorded(Op(t), th[t].b4, th[t].b6)
        BY <1>0, <1>1 DEF Record, ThreadTyped
      <3>2. CASE Op(t) = "torOn"
        BY <1>0, <3>1, <3>2 DEF Recorded, StTyped, Off, Flags, BackupFields
      <3>3. CASE Op(t) = "proxyOn"
        BY <1>0, <3>1, <3>3 DEF Recorded, StTyped, Off, Flags, BackupFields
      <3>4. CASE Op(t) = "gwOn"
        BY <1>0, <3>1, <3>4 DEF Recorded, StTyped, Off, Flags, BackupFields
      <3> QED BY <2>1, <3>2, <3>3, <3>4 DEF Switching
    <2> QED BY <1>1, <2>2, <2>3, ReadingTyped DEF Record, hist
  <1>2. CASE V6Blocked(t) \/ ScanApplied(t) \/ ScanRemoved(t)
    <2>1. /\ th[t].pc # "idle" /\ UNCHANGED <<fw4, fw6, daemons, fixed, faults>>
          /\ \E result \in BOOLEAN : Finish(t, result)
      BY <1>0, <1>2 DEF V6Blocked, ScanApplied, ScanRemoved, ThreadTyped, hist
    <2>2. ThreadsTyped'
      BY <1>0, <2>1, FinishTyped
    <2>3. StTyped'
      BY <1>0, <1>2 DEF V6Blocked, ScanApplied, ScanRemoved, StTyped, Off, Flags, BackupFields
    <2> QED BY <2>1, <2>2, <2>3, ReadingTyped
  <1>3. CASE Clear(t)
    <2>1. /\ th[t].pc # "idle" /\ UNCHANGED <<fw4, fw6, daemons, fixed, faults>>
          /\ Finish(t, TRUE) /\ st' = Cleared(Op(t))
          /\ Op(t) \in {"torOff", "proxyOff", "gwOff"}
      BY <1>3 DEF Clear, Undone, Doing
    <2>2. ThreadsTyped'
      BY <1>0, <2>1, FinishTyped
    <2>3. StTyped'
      <3>2. CASE Op(t) = "torOff"
        BY <1>0, <2>1, <3>2 DEF Cleared, StTyped, Off, Flags, BackupFields, IsBackup
      <3>3. CASE Op(t) = "proxyOff"
        BY <1>0, <2>1, <3>3 DEF Cleared, StTyped, Off, Flags, BackupFields, IsBackup
      <3>4. CASE Op(t) = "gwOff"
        BY <1>0, <2>1, <3>4 DEF Cleared, StTyped, Off, Flags, BackupFields, IsBackup
      <3> QED BY <2>1, <3>2, <3>3, <3>4
    <2> QED BY <2>1, <2>2, <2>3, ReadingTyped
  <1> QED BY <1>1, <1>2, <1>3

(* The steps that move a thread on, change a daemon, or a torrc.           *)
LEMMA DaemonsTyped ==
    ASSUME TypeInv, ThreadsTyped', UNCHANGED <<st, fw4, fw6, fixed>>, Fault \/ NoFault,
           torrc' \subseteq Blocks, redsocks' \in {"down", "unit", "child"},
           \/ tor' = tor \/ tor' = [tor EXCEPT !.up = FALSE]
           \/ \E b \in SUBSET Blocks : tor' = Started(b)
    PROVE  TypeInv'
  <1>1. tor' = [up |-> tor'.up, read |-> tor'.read] /\ tor'.up \in BOOLEAN /\ tor'.read \subseteq Blocks
    BY StartedTyped DEF TypeInv, MachineTyped
  <1>2. faults' \in 0 .. Here.maxFaults
    BY FaultsTyped DEF TypeInv
  <1> QED BY <1>1, <1>2, StKept DEF TypeInv, MachineTyped, fixed, Here

(* Before the rules: the checks, the daemons, the torrc. *)
LEMMA PreparingTyped ==
    ASSUME TypeInv, NEW t \in Threads,
           \/ CheckEnable(t) \/ PrepareTor(t) \/ PrepareTorFails(t) \/ AskTor(t) \/ AskTorAgain(t)
           \/ PrepareProxy(t) \/ PrepareProxyFails(t) \/ PrepareGateway(t) \/ PrepareRaises(t)
    PROVE  TypeInv'
  <1> USE DEF At, Labels, MayGo, BeforeRecord, AfterRecord
  <1>0. ThreadTyped(th[t]) /\ ThreadsTyped /\ torrc \subseteq Blocks /\ StTyped
        /\ redsocks \in {"down", "unit", "child"}
    BY DEF TypeInv, ThreadsTyped, MachineTyped
  <1>1. th[t].pc # "idle"
    BY DEF CheckEnable, PrepareTor, PrepareTorFails, AskTor, AskTorAgain, PrepareProxy,
           PrepareProxyFails, PrepareGateway, PrepareRaises
  <1>2. CASE CheckEnable(t)
    <2>1. ThreadsTyped'
      <3>1. CASE \E result \in BOOLEAN : Finish(t, result)
        BY <1>0, <1>1, <3>1, FinishTyped
      <3>2. CASE Run(t, "scan", ScanRules)
        BY <1>0, <1>1, <3>2, RunTyped, ListsTyped
      <3>3. CASE Op(t) # "scanOn" /\ Goto(t, "prepare")
        <4>1. Op(t) \in Switching
          BY <1>2, <3>3 DEF CheckEnable, Doing, Enabling, Switching
        <4> QED BY <1>0, <1>1, <3>3, <4>1, GotoTyped
      <3> QED BY <1>2, <3>1, <3>2, <3>3 DEF CheckEnable
    <2> QED BY <1>2, <2>1, ReadingTyped, StKept DEF CheckEnable, hist
  <1>3. CASE PrepareTor(t) \/ PrepareTorFails(t)
    <2>1. ThreadsTyped' /\ {"ks"} \subseteq Blocks
      BY <1>0, <1>1, <1>3, GotoTyped DEF PrepareTor, PrepareTorFails, Doing, Switching, Blocks
    <2>2. \/ tor' = tor \/ tor' = [tor EXCEPT !.up = FALSE]
          \/ tor' = Started({"ks"})
      BY <1>3 DEF PrepareTor, PrepareTorFails, Restarted
    <2>3. torrc' \in {torrc, {"ks"}} /\ UNCHANGED <<st, fw4, fw6, redsocks, fixed>> /\ (Fault \/ NoFault)
      BY <1>3 DEF PrepareTor, PrepareTorFails, NoFault
    <2>4. redsocks' \in {"down", "unit", "child"}
      BY <1>0, <2>3
    <2>5. /\ torrc' \subseteq Blocks
          /\ \/ tor' = tor \/ tor' = [tor EXCEPT !.up = FALSE]
             \/ \E b \in SUBSET Blocks : tor' = Started(b)
      BY <1>0, <2>1, <2>2, <2>3
    <2> QED BY <2>1, <2>3, <2>4, <2>5, DaemonsTyped
  <1>4. CASE AskTor(t) \/ AskTorAgain(t)
    <2>1. Op(t) \in Switching
      BY <1>0, <1>4 DEF AskTor, AskTorAgain, ThreadTyped, Op
    <2>2. ThreadsTyped'
      BY <1>0, <1>1, <1>4, <2>1, GotoTyped, FinishTyped DEF AskTor, AskTorAgain
    <2>3. tor' = tor \/ tor' = Started(torrc)
      BY <1>4 DEF AskTor, AskTorAgain, StartedTor, daemons
    <2>4. UNCHANGED <<st, fw4, fw6, fixed, torrc, redsocks>> /\ (Fault \/ NoFault)
      BY <1>4 DEF AskTor, AskTorAgain, daemons, hist, NoFault
    <2>5. torrc' \subseteq Blocks /\ redsocks' \in {"down", "unit", "child"}
          /\ (tor' = tor \/ \E b \in SUBSET Blocks : tor' = Started(b))
      BY <1>0, <2>3, <2>4
    <2> QED BY <2>2, <2>4, <2>5, DaemonsTyped
  <1>5. CASE PrepareProxy(t) \/ PrepareProxyFails(t)
    <2>1. ThreadsTyped'
      <3>1. CASE Goto(t, "save4")
        BY <1>0, <1>1, <1>5, <3>1, GotoTyped DEF PrepareProxy, PrepareProxyFails, Doing, Switching
      <3>2. CASE Become(t, Idle)
        BY <1>0, <3>2, IdleTyped, BecomeTyped
      <3> QED BY <1>5, <3>1, <3>2 DEF PrepareProxy, PrepareProxyFails
    <2>2. UNCHANGED <<st, fw4, fw6, fixed, torrc, tor>> /\ redsocks' \in {"down", "unit", "child"}
          /\ (Fault \/ NoFault)
      BY <1>0, <1>5 DEF PrepareProxy, PrepareProxyFails, NoFault
    <2>3. torrc' \subseteq Blocks
      BY <1>0, <2>2
    <2> QED BY <2>1, <2>2, <2>3, DaemonsTyped
  <1>6. CASE PrepareGateway(t)
    <2>1. ThreadsTyped'
      BY <1>0, <1>1, <1>6, GotoTyped DEF PrepareGateway, Doing, Switching
    <2>2. UNCHANGED <<st, fw4, fw6, fixed, redsocks, tor>> /\ NoFault /\ torrc' = torrc \cup {"gw"}
      BY <1>6 DEF PrepareGateway, hist, NoFault
    <2>3. torrc' \subseteq Blocks /\ redsocks' \in {"down", "unit", "child"}
      BY <1>0, <2>2 DEF Blocks
    <2> QED BY <2>1, <2>2, <2>3, DaemonsTyped
  <1>7. CASE PrepareRaises(t)
    <2>1. ThreadsTyped'
      BY <1>0, <1>7, IdleTyped, BecomeTyped DEF PrepareRaises
    <2>2. UNCHANGED <<st, fw4, fw6, fixed, redsocks, tor>> /\ Fault /\ torrc' \in {torrc, {}}
      BY <1>7 DEF PrepareRaises, hist
    <2>3. torrc' \subseteq Blocks /\ redsocks' \in {"down", "unit", "child"}
      BY <1>0, <2>2
    <2> QED BY <2>1, <2>2, <2>3, DaemonsTyped
  <1> QED BY <1>2, <1>3, <1>4, <1>5, <1>6, <1>7

(* The steps that may fail, and change a ruleset if any of the state.      *)
LEMMA FirewallTyped ==
    ASSUME TypeInv, ThreadsTyped', UNCHANGED <<st, daemons, fixed>>, Fault \/ NoFault,
           IsRuleset(fw4'), IsRuleset(fw6')
    PROVE  TypeInv'
  BY FaultsTyped, StKept DEF TypeInv, MachineTyped, daemons, fixed, Here

(* The backups, the verdict on the rules, and block_ipv6. *)
LEMMA ApplyingTyped ==
    ASSUME TypeInv, NEW t \in Threads,
           \/ Backup4(t) \/ Backup6(t) \/ Applied(t) \/ CheckV6(t)
    PROVE  TypeInv'
  <1> USE DEF At, Labels, MayGo, BeforeRecord, AfterRecord
  <1>0. /\ ThreadTyped(th[t]) /\ ThreadsTyped /\ IsRuleset(fw4) /\ IsRuleset(fw6)
    BY DEF TypeInv, ThreadsTyped, MachineTyped
  <1>1. th[t].pc # "idle" /\ Op(t) \in Switching
    BY <1>0 DEF Backup4, Backup6, Applied, CheckV6, ThreadTyped, Op
  <1>2. UNCHANGED <<st, fw4, fw6, daemons, fixed>> /\ (Fault \/ NoFault)
    BY DEF Backup4, Backup6, Applied, CheckV6, NoFault, hist
  <1>3. CASE Backup4(t)
    <2>1. PICK b \in {fw4, None} : Become(t, [th[t] EXCEPT !.pc = "save6", !.b4 = b])
      BY <1>3 DEF Backup4
    <2> DEFINE r == [th[t] EXCEPT !.pc = "save6", !.b4 = b]
    <2>2. r = [f \in DOMAIN Idle |-> r[f]] /\ r.pc = "save6" /\ r.b4 = b /\ r.plan = th[t].plan
          /\ r.todo = th[t].todo /\ r.ok = th[t].ok /\ r.b6 = th[t].b6
      BY <1>0 DEF ThreadTyped, Idle
    <2>3. IsBackup(b)
      BY <1>0 DEF IsBackup
    <2>4. ThreadTyped(r)
      <3> HIDE DEF r
      <3> QED BY <1>0, <1>1, <2>2, <2>3, Moved DEF ThreadTyped
    <2>5. ThreadsTyped'
      <3> HIDE DEF r
      <3>1. Become(t, r)
        BY <2>1 DEF r
      <3> QED BY <1>0, <2>4, <3>1, BecomeTyped
    <2> QED BY <1>0, <1>2, <2>5, FirewallTyped
  <1>4. CASE Backup6(t)
    <2> DEFINE cs == Rules(Op(t))
    <2>1. PICK b \in {fw6, None} : Become(t, [th[t] EXCEPT !.pc = "apply", !.b6 = b, !.ok = TRUE,
                                                           !.todo = cs])
      BY <1>4 DEF Backup6
    <2>2. cs \in Seq(Command)
      BY <1>1, ListsTyped DEF Rules, Switching
    <2> HIDE DEF cs
    <2> DEFINE r == [th[t] EXCEPT !.pc = "apply", !.b6 = b, !.ok = TRUE, !.todo = cs]
    <2>3. r = [f \in DOMAIN Idle |-> r[f]] /\ r.pc = "apply" /\ r.b6 = b /\ r.plan = th[t].plan
          /\ r.todo = cs /\ r.ok = TRUE /\ r.b4 = th[t].b4
      BY <1>0 DEF ThreadTyped, Idle
    <2>4. IsBackup(b)
      BY <1>0 DEF IsBackup
    <2>5. ThreadTyped(r)
      <3> HIDE DEF r
      <3> QED BY <1>0, <1>1, <2>2, <2>3, <2>4, Moved DEF ThreadTyped
    <2>6. ThreadsTyped'
      <3> HIDE DEF r
      <3>1. Become(t, r)
        BY <2>1 DEF r
      <3> QED BY <1>0, <2>5, <3>1, BecomeTyped
    <2> QED BY <1>0, <1>2, <2>6, FirewallTyped
  <1>5. CASE Applied(t) \/ CheckV6(t)
    <2>1. \/ \E l \in {"restore4", "record"} : Goto(t, l)
          \/ Run(t, "gateway6", GatewayV6Rules) \/ Finish(t, TRUE) \/ Run(t, "block6", BlockV6Rules)
      BY <1>5 DEF Applied, CheckV6
    <2>2. ThreadsTyped'
      BY <1>0, <1>1, <2>1, GotoTyped, RunTyped, FinishTyped, ListsTyped
    <2> QED BY <1>0, <1>2, <2>2, FirewallTyped
  <1> QED BY <1>3, <1>4, <1>5

(* The way back: from the disable function's check, or from a rule that    *)
(* failed, through the restore, to the end of the operation.               *)
LEMMA RestoringTyped ==
    ASSUME TypeInv, NEW t \in Threads,
           \/ CheckDisable(t) \/ Restore4(t) \/ Restore6(t) \/ RolledBack(t)
           \/ StopRedsocks(t) \/ StopRedsocksFails(t) \/ UpdateRaises(t) \/ TorService(t)
    PROVE  TypeInv'
  <1> USE DEF At, Labels, MayGo, BeforeRecord, AfterRecord
  <1>0. /\ ThreadTyped(th[t]) /\ ThreadsTyped /\ IsRuleset(fw4) /\ IsRuleset(fw6) /\ StTyped
        /\ torrc \subseteq Blocks /\ redsocks \in {"down", "unit", "child"}
        /\ tor = [up |-> tor.up, read |-> tor.read] /\ tor.up \in BOOLEAN /\ tor.read \subseteq Blocks
    BY DEF TypeInv, ThreadsTyped, MachineTyped
  <1>1. th[t].pc # "idle"
    BY <1>0 DEF CheckDisable, Restore4, Restore6, RolledBack, StopRedsocks, StopRedsocksFails,
           UpdateRaises, Undone, TorService
  <1>2. CASE CheckDisable(t)
    <2>1. ThreadsTyped'
      <3>1. CASE Finish(t, FALSE) \/ Run(t, "unscan", ScanRemoval)
        BY <1>0, <1>1, <3>1, FinishTyped, RunTyped, ListsTyped
      <3>2. CASE /\ Op(t) # "scanOff"
                 /\ Become(t, [th[t] EXCEPT !.pc = "restore4", !.b4 = Backups(Op(t))[1],
                                            !.b6 = Backups(Op(t))[2]])
        <4> DEFINE b4 == Backups(Op(t))[1]
                   b6 == Backups(Op(t))[2]
                   r == [th[t] EXCEPT !.pc = "restore4", !.b4 = b4, !.b6 = b6]
        <4>1. IsBackup(b4) /\ IsBackup(b6)
          <5>1. Op(t) \in {"torOff", "proxyOff", "gwOff"}
            BY <1>2, <3>2 DEF CheckDisable, Doing, Disabling
          <5> QED BY <1>0, <5>1 DEF Backups, StTyped, BackupFields
        <4> HIDE DEF b4, b6
        <4>2. r = [f \in DOMAIN Idle |-> r[f]] /\ r.pc = "restore4" /\ r.b4 = b4 /\ r.b6 = b6
              /\ r.plan = th[t].plan /\ r.todo = th[t].todo /\ r.ok = th[t].ok
          BY <1>0 DEF ThreadTyped, Idle
        <4>3. Become(t, r)
          BY <3>2 DEF b4, b6
        <4> HIDE DEF r
        <4>4. ThreadTyped(r)
          BY <1>0, <1>1, <4>1, <4>2, Moved DEF ThreadTyped
        <4> QED BY <1>0, <4>3, <4>4, BecomeTyped
      <3> QED BY <1>2, <3>1, <3>2 DEF CheckDisable
    <2> QED BY <1>2, <2>1, ReadingTyped, StKept DEF CheckDisable, hist
  <1>3. CASE Restore4(t)
    <2>1. IsBackup(th[t].b4)
      BY <1>0 DEF ThreadTyped
    <2>2. IsRuleset(fw4') /\ fw6' = fw6 /\ UNCHANGED <<st, daemons, fixed>> /\ (Fault \/ NoFault)
      BY <1>0, <1>3, <2>1, RestoredRuleset DEF Restore4, IsBackup, hist
    <2>3. Goto(t, "restore6") \/ Run(t, "open4", OpenV4Rules)
      BY <1>3 DEF Restore4
    <2>4. ThreadsTyped'
      BY <1>0, <1>1, <2>3, GotoTyped, RunTyped, ListsTyped
    <2> QED BY <1>0, <2>2, <2>4, FirewallTyped
  <1>4. CASE Restore6(t)
    <2>1. IsBackup(th[t].b6)
      BY <1>0 DEF ThreadTyped
    <2>2. IsRuleset(fw6') /\ fw4' = fw4 /\ UNCHANGED <<st, daemons, fixed>> /\ (Fault \/ NoFault)
      BY <1>0, <1>4, <2>1, RestoredRuleset DEF Restore6, IsBackup, hist
    <2>3. Goto(t, "restored") \/ Run(t, "open6", OpenV6Rules)
      BY <1>4 DEF Restore6
    <2>4. ThreadsTyped'
      BY <1>0, <1>1, <2>3, GotoTyped, RunTyped, ListsTyped
    <2> QED BY <1>0, <2>2, <2>4, FirewallTyped
  <1>5. CASE RolledBack(t)
    <2>1. ThreadsTyped'
      BY <1>0, <1>1, <1>5, FinishTyped DEF RolledBack
    <2> QED BY <1>5, <2>1, ReadingTyped, StKept DEF RolledBack, hist
  <1>6. CASE StopRedsocks(t) \/ StopRedsocksFails(t)
    <2>1. CASE Goto(t, "clear")
      <3>1. ThreadsTyped'
        BY <1>0, <1>1, <2>1, GotoTyped
      <3> QED BY <1>0, <1>6, <3>1, DaemonsTyped DEF StopRedsocks, StopRedsocksFails, daemons, hist, NoFault
    <2>2. CASE Become(t, Idle)
      <3>1. ThreadsTyped'
        BY <1>0, <2>2, IdleTyped, BecomeTyped
      <3> QED BY <1>0, <1>6, <3>1, DaemonsTyped DEF StopRedsocks, StopRedsocksFails, daemons, hist, NoFault
    <2> QED BY <1>6, <2>1, <2>2 DEF StopRedsocks, StopRedsocksFails
  <1>7. CASE TorService(t)
    <2>1. ThreadsTyped'
      BY <1>0, <1>1, <1>7, FinishTyped DEF TorService
    <2>2. UNCHANGED <<st, fw4, fw6, torrc, redsocks, fixed>> /\ (Fault \/ NoFault)
      BY <1>7 DEF TorService, hist
    <2>3. tor' = tor \/ tor' = Started(torrc) \/ tor' = [tor EXCEPT !.up = FALSE]
      BY <1>7 DEF TorService, StartedTor
    <2>4. torrc' \subseteq Blocks /\ redsocks' \in {"down", "unit", "child"}
      BY <1>0, <2>2
    <2> QED BY <1>0, <2>1, <2>2, <2>3, <2>4, DaemonsTyped
  <1>8. CASE UpdateRaises(t)
    <2>1. ThreadsTyped'
      BY <1>0, <1>8, IdleTyped, BecomeTyped DEF UpdateRaises
    <2> QED BY <1>0, <1>8, <2>1, FirewallTyped DEF UpdateRaises
  <1> QED BY <1>2, <1>3, <1>4, <1>5, <1>6, <1>7, <1>8

(* The types hold at first, *)
LEMMA TypesInit == Init => TypeInv
  <1> SUFFICES ASSUME Init PROVE TypeInv
    OBVIOUS
  <1>1. StTyped
    BY DEF Init, StTyped, Off, Flags, BackupFields, IsBackup
  <1>2. ThreadsTyped
    BY IdleTyped DEF Init, ThreadsTyped
  <1>3. on \in DOMAIN Machines /\ torrc \subseteq Blocks
    BY HereTyped DEF Init, Blocks
  <1>4. tor = [up |-> tor.up, read |-> tor.read] /\ tor.up \in BOOLEAN /\ tor.read \subseteq Blocks
    BY <1>3, StartedTyped DEF Init
  <1>5. /\ IsRuleset(fw4) /\ IsRuleset(fw6) /\ IsRuleset(base.v4) /\ IsRuleset(base.v6)
        /\ faults \in 0 .. Here.maxFaults /\ asked \in 0 .. Here.maxRequests
    BY <1>3, HereTyped DEF Init
  <1> QED BY <1>1, <1>2, <1>3, <1>4, <1>5 DEF TypeInv, MachineTyped, Init

(* and every step keeps them. *)
LEMMA TypesNext ==
    ASSUME TypeInv, [Next]_vars
    PROVE  TypeInv'
  <1>1. ASSUME NEW t \in Threads, Step(t) PROVE TypeInv'
    BY <1>1, RunCommandTyped, PreparingTyped, ApplyingTyped, RecordsTyped, RestoringTyped DEF Step
  <1>2. ASSUME NEW t \in Threads, NEW plan \in Here.plans[t], Ask(t, plan) PROVE TypeInv'
    <2> DEFINE r == [Idle EXCEPT !.plan = plan, !.pc = "check"]
    <2>1. plan \in Seq(Ops) /\ plan # <<>> /\ Here.maxRequests \in Nat
      BY HereTyped DEF TypeInv, MachineTyped
    <2>2. ThreadTyped(r)
      BY <2>1, EmptySeq DEF ThreadTyped, Idle, Labels, IsBackup, BeforeRecord, AfterRecord
    <2>3. ThreadsTyped'
      <3> HIDE DEF r
      <3>1. Become(t, r)
        BY <1>2 DEF Ask, r
      <3> QED BY <2>2, <3>1, BecomeTyped DEF TypeInv
    <2>4. asked' \in 0 .. Here.maxRequests
      BY <1>2, <2>1 DEF Ask, TypeInv, MachineTyped
    <2>5. UNCHANGED <<st, fw4, fw6, daemons, on, base, faults>>
      BY <1>2 DEF Ask
    <2> QED BY <2>3, <2>4, <2>5, StKept DEF TypeInv, MachineTyped, daemons, Here
  <1>3. CASE Crash \/ Reboot
    <2>1. ThreadsTyped'
      BY <1>3, IdleTyped DEF Crash, Reboot, ThreadsTyped
    <2>2. CASE Crash
      BY <2>1, <2>2, ReadingTyped, StKept DEF Crash, hist
    <2>3. CASE Reboot
      <3>1. IsRuleset(fw4') /\ IsRuleset(fw6')
        BY <2>3, EmptyRuleset DEF Reboot, Tables
      <3>2. UNCHANGED <<st, torrc, fixed, faults>> /\ tor' = Started(torrc) /\ redsocks' = "down"
        BY <2>3 DEF Reboot, hist
      <3>3. /\ tor' = [up |-> tor'.up, read |-> tor'.read]
            /\ tor'.up \in BOOLEAN /\ tor'.read \subseteq Blocks
        BY <3>2, StartedTyped DEF TypeInv, MachineTyped
      <3> QED BY <2>1, <3>1, <3>2, <3>3, StKept DEF TypeInv, MachineTyped, fixed, Here
    <2> QED BY <1>3, <2>2, <2>3
  <1>4. CASE UNCHANGED vars
    <2>1. ThreadsTyped'
      BY <1>4 DEF vars, TypeInv, ThreadsTyped, ThreadTyped
    <2> QED BY <1>4, <2>1, ReadingTyped, StKept DEF vars, hist
  <1> QED BY <1>1, <1>2, <1>3, <1>4 DEF Next

(* What an update that raises or a daemon that does not start leaves in the*)
(* histories are the program's flags and its daemons.                      *)
LEMMA HistoryNext ==
    ASSUME HistoryTyped, [Next]_vars
    PROVE  HistoryTyped'
  <1>1. CASE UNCHANGED <<stale, orphaned, unserved>>
    BY <1>1 DEF HistoryTyped
  <1>2. ASSUME NEW t \in Threads, PrepareTor(t) \/ PrepareTorFails(t) \/ PrepareProxy(t) \/ PrepareProxyFails(t)
        PROVE  HistoryTyped'
    BY <1>2 DEF PrepareTor, PrepareTorFails, PrepareProxy, PrepareProxyFails, HistoryTyped, daemons
  <1>3. ASSUME NEW t \in Threads, StopRedsocks(t) \/ Clear(t) \/ ScanRemoved(t)
        PROVE  HistoryTyped'
    BY <1>3 DEF StopRedsocks, Clear, ScanRemoved, HistoryTyped, Flags
  <1>4. ASSUME NEW t \in Threads, UpdateRaises(t)
        PROVE  HistoryTyped'
    <2>1. Undone(t) => Flag[Op(t)] \in Flags
      BY DEF Undone, Doing, Flag, Flags
    <2> QED BY <1>4, <2>1 DEF UpdateRaises, HistoryTyped, Flags
  <1>5. CASE Crash \/ Reboot
    BY <1>1, <1>5 DEF Crash, Reboot, hist
  <1>6. ASSUME NEW t \in Threads, NEW plan, Ask(t, plan) PROVE HistoryTyped'
    BY <1>1, <1>6 DEF Ask
  <1>7. ASSUME NEW t \in Threads,
               \/ RunCommand(t) \/ CheckEnable(t) \/ AskTor(t) \/ AskTorAgain(t) \/ PrepareGateway(t)
               \/ PrepareRaises(t) \/ Backup4(t) \/ Backup6(t) \/ Applied(t) \/ Record(t)
               \/ CheckV6(t) \/ V6Blocked(t) \/ ScanApplied(t) \/ CheckDisable(t) \/ Restore4(t)
               \/ Restore6(t) \/ RolledBack(t) \/ StopRedsocksFails(t) \/ TorService(t)
        PROVE  HistoryTyped'
    BY <1>1, <1>7 DEF RunCommand, CheckEnable, AskTor, AskTorAgain, PrepareGateway, PrepareRaises,
       Backup4, Backup6, Applied, Record, CheckV6, V6Blocked, ScanApplied, CheckDisable, Restore4,
       Restore6, RolledBack, StopRedsocksFails, TorService, hist
  <1>8. CASE UNCHANGED vars
    BY <1>1, <1>8 DEF vars, hist
  <1> QED BY <1>2, <1>3, <1>4, <1>5, <1>6, <1>7, <1>8 DEF Next, Step

(* Whatever the plans, the machine, the faults and the number of threads,  *)
(* every ruleset is one iptables could hold, every recorded backup one it  *)
(* could restore, and every command left to run one of the program's.      *)
THEOREM SwitchesTypeCorrect == Spec => []TypeOK
  <1>1. TypeInv /\ HistoryTyped => TypeOK
    BY DEF TypeInv, StTyped, MachineTyped, ThreadsTyped, ThreadTyped, HistoryTyped, Blocks, TypeOK
  <1>2. TypeInv /\ HistoryTyped /\ [Next]_vars => (TypeInv /\ HistoryTyped)'
    BY TypesNext, HistoryNext
  <1>3. Init => TypeInv /\ HistoryTyped
    BY TypesInit DEF Init, HistoryTyped
  <1> QED BY <1>1, <1>2, <1>3, PTL DEF Spec
-----------------------------------------------------------------------------
(* What the jumps make of a thread, field by field. *)
LEMMA Became ==
    ASSUME ThShape, NEW t \in Threads, NEW r, Become(t, r)
    PROVE  th'[t] = r /\ \A u \in Threads \ {t} : th'[u] = th[u]
  BY DEF ThShape, Become

(* Another label, ... *)
LEMMA Gone ==
    ASSUME ThShape, NEW t \in Threads, NEW l, Goto(t, l)
    PROVE  /\ th'[t].pc = l /\ th'[t].plan = th[t].plan /\ th'[t].todo = th[t].todo
           /\ th'[t].ok = th[t].ok /\ th'[t].b4 = th[t].b4 /\ th'[t].b6 = th[t].b6
           /\ \A u \in Threads \ {t} : th'[u] = th[u]
  <1>1. th'[t] = [th[t] EXCEPT !.pc = l] /\ \A u \in Threads \ {t} : th'[u] = th[u]
    BY Became DEF Goto
  <1>2. th[t] = [f \in DOMAIN Idle |-> th[t][f]]
    BY DEF ThShape
  <1> QED BY <1>1, <1>2 DEF Idle

(* ... a list of commands, ... *)
LEMMA Ran ==
    ASSUME ThShape, NEW t \in Threads, NEW l, NEW cs, Run(t, l, cs)
    PROVE  /\ th'[t].pc = l /\ th'[t].plan = th[t].plan /\ th'[t].todo = cs
           /\ th'[t].ok = TRUE /\ th'[t].b4 = th[t].b4 /\ th'[t].b6 = th[t].b6
           /\ \A u \in Threads \ {t} : th'[u] = th[u]
  <1>1. /\ th'[t] = [th[t] EXCEPT !.pc = l, !.todo = cs, !.ok = TRUE]
        /\ \A u \in Threads \ {t} : th'[u] = th[u]
    BY Became DEF Run
  <1>2. th[t] = [f \in DOMAIN Idle |-> th[t][f]]
    BY DEF ThShape
  <1> QED BY <1>1, <1>2 DEF Idle

(* ... the next operation of the plan, with nothing left of this one. *)
LEMMA Finished ==
    ASSUME ThShape, NEW t \in Threads, NEW result, Finish(t, result)
    PROVE  /\ th'[t].pc \in {"idle", "check"} /\ th'[t].plan = Tail(th[t].plan)
           /\ th'[t].todo = <<>> /\ th'[t].ok = result /\ th'[t].b4 = None /\ th'[t].b6 = None
           /\ \A u \in Threads \ {t} : th'[u] = th[u]
  <1> DEFINE rest == Tail(th[t].plan)
             l == IF rest = <<>> THEN "idle" ELSE "check"
             r == [Idle EXCEPT !.plan = rest, !.ok = result, !.pc = l]
  <1>1. Become(t, r)
    BY DEF Finish
  <1>2. /\ r.pc = l /\ r.plan = rest /\ r.todo = <<>> /\ r.ok = result
        /\ r.b4 = None /\ r.b6 = None
    BY DEF Idle
  <1> HIDE DEF r
  <1>3. th'[t] = r /\ \A u \in Threads \ {t} : th'[u] = th[u]
    BY <1>1, Became
  <1> QED BY <1>2, <1>3

(* One command of a list: it is carried out, or the thread takes note that *)
(* it was not, or tolerates that there is nothing to do.                   *)
Firewall(t) == IF th[t].pc \in V6Lists THEN fw6 ELSE fw4
CarriedOut(t) ==
    /\ ~Refused(Firewall(t), Head(th[t].todo)) /\ NoFault
    /\ th'[t].todo = Tail(th[t].todo) /\ th'[t].ok = th[t].ok
    /\ fw4' = IF th[t].pc \in V6Lists THEN fw4 ELSE Exec(fw4, Head(th[t].todo))
    /\ fw6' = IF th[t].pc \in V6Lists THEN Exec(fw6, Head(th[t].todo)) ELSE fw6
Failed(t) ==
    /\ (Refused(Firewall(t), Head(th[t].todo)) /\ NoFault) \/ Fault
    /\ th'[t].todo = IF th[t].pc = "block6" THEN <<>> ELSE Tail(th[t].todo)
    /\ th'[t].ok = FALSE /\ UNCHANGED <<fw4, fw6>>
Tolerated(t) ==
    /\ AlreadyExists(Firewall(t), Head(th[t].todo)) /\ Doing(t, Tolerant) /\ NoFault
    /\ th'[t].todo = Tail(th[t].todo) /\ th'[t].ok = th[t].ok /\ UNCHANGED <<fw4, fw6>>

(* These are all that becomes of it. *)
LEMMA CommandRun ==
    ASSUME ThShape, NEW t \in Threads, RunCommand(t)
    PROVE  /\ th'[t].pc = th[t].pc /\ th'[t].plan = th[t].plan
           /\ th'[t].b4 = th[t].b4 /\ th'[t].b6 = th[t].b6
           /\ \A u \in Threads \ {t} : th'[u] = th[u]
           /\ CarriedOut(t) \/ Failed(t) \/ Tolerated(t)
  <1> DEFINE c == Head(th[t].todo)
             rest == Tail(th[t].todo)
             left == IF th[t].pc = "block6" THEN <<>> ELSE rest
             done == [th[t] EXCEPT !.todo = rest]
             failed == [th[t] EXCEPT !.ok = FALSE, !.todo = left]
  <1>1. th[t] = [f \in DOMAIN Idle |-> th[t][f]]
    BY DEF ThShape
  <1>2. \/ /\ ~Refused(Firewall(t), c) /\ NoFault /\ Become(t, done)
           /\ fw4' = IF th[t].pc \in V6Lists THEN fw4 ELSE Exec(fw4, c)
           /\ fw6' = IF th[t].pc \in V6Lists THEN Exec(fw6, c) ELSE fw6
        \/ /\ (Refused(Firewall(t), c) /\ NoFault) \/ Fault
           /\ Become(t, failed) /\ UNCHANGED <<fw4, fw6>>
        \/ /\ AlreadyExists(Firewall(t), c) /\ Doing(t, Tolerant) /\ NoFault
           /\ Become(t, done) /\ UNCHANGED <<fw4, fw6>>
    BY DEF RunCommand, Firewall, Refused
  <1> HIDE DEF c, rest, left
  <1>3. /\ done.pc = th[t].pc /\ done.plan = th[t].plan /\ done.b4 = th[t].b4 /\ done.b6 = th[t].b6
        /\ done.todo = rest /\ done.ok = th[t].ok
    BY <1>1 DEF Idle
  <1>4. /\ failed.pc = th[t].pc /\ failed.plan = th[t].plan /\ failed.b4 = th[t].b4
        /\ failed.b6 = th[t].b6 /\ failed.todo = left /\ failed.ok = FALSE
    BY <1>1 DEF Idle
  <1> HIDE DEF done, failed
  <1>5. /\ Become(t, done) => th'[t] = done
        /\ Become(t, failed) => th'[t] = failed
        /\ \A u \in Threads \ {t} : th'[u] = th[u]
    BY <1>2, Became
  <1>6. CASE ~Refused(Firewall(t), c) /\ NoFault /\ Become(t, done)
             /\ fw4' = (IF th[t].pc \in V6Lists THEN fw4 ELSE Exec(fw4, c))
             /\ fw6' = (IF th[t].pc \in V6Lists THEN Exec(fw6, c) ELSE fw6)
    BY <1>3, <1>5, <1>6 DEF CarriedOut, c, rest
  <1>7. CASE ((Refused(Firewall(t), c) /\ NoFault) \/ Fault) /\ Become(t, failed) /\ UNCHANGED <<fw4, fw6>>
    BY <1>4, <1>5, <1>7 DEF Failed, c, rest, left
  <1>8. CASE /\ AlreadyExists(Firewall(t), c) /\ Doing(t, Tolerant) /\ NoFault
             /\ Become(t, done) /\ UNCHANGED <<fw4, fw6>>
    BY <1>3, <1>5, <1>8 DEF Tolerated, c, rest
  <1> QED BY <1>2, <1>6, <1>7, <1>8
-----------------------------------------------------------------------------
(* What flows through a step: the commands still to run are what was left, *)
(* or a list of the program's; the kernel's rulesets change by a command   *)
(* or a restore; the backups are rulesets of this moment or of before.     *)
CommandLists == {TorRules, ProxyRules, GatewayRules, GatewayV6Rules, BlockV6Rules,
                 OpenV4Rules, OpenV6Rules, ScanRules, ScanRemoval}
TodoFlow(t) ==
    \/ th'[t].todo \in {th[t].todo, <<>>} \cup CommandLists
    \/ th[t].todo # <<>> /\ th'[t].todo = Tail(th[t].todo)
KernelFlow(t) ==
    \/ UNCHANGED <<fw4, fw6>>
    \/ /\ th[t].todo # <<>> /\ UNCHANGED fw6
       /\ ~Refused(fw4, Head(th[t].todo)) /\ fw4' = Exec(fw4, Head(th[t].todo))
    \/ /\ th[t].todo # <<>> /\ UNCHANGED fw4
       /\ ~Refused(fw6, Head(th[t].todo)) /\ fw6' = Exec(fw6, Head(th[t].todo))
    \/ th[t].b4 # None /\ fw4' = Restored(fw4, th[t].b4) /\ UNCHANGED fw6
    \/ th[t].b6 # None /\ fw6' = Restored(fw6, th[t].b6) /\ UNCHANGED fw4
Recordable == {st[f] : f \in BackupFields}
BackupFlow(t) ==
    /\ th'[t].b4 \in {th[t].b4, fw4, None} \cup Recordable
    /\ th'[t].b6 \in {th[t].b6, fw6, None} \cup Recordable
    /\ \A f \in BackupFields : st'[f] \in {st[f], th[t].b4, th[t].b6, None}
Flow(t) == TodoFlow(t) /\ KernelFlow(t) /\ BackupFlow(t) /\ \A u \in Threads \ {t} : th'[u] = th[u]

(* A jump that leaves the rest alone flows so. *)
LEMMA JumpFlow ==
    ASSUME ThShape, NEW t \in Threads, UNCHANGED st, KernelFlow(t),
           \/ \E l : Goto(t, l)
           \/ \E l : \E cs \in CommandLists : Run(t, l, cs)
           \/ \E result : Finish(t, result)
    PROVE  Flow(t)
  <1>1. CASE \E l : Goto(t, l)
    BY <1>1, Gone DEF Flow, TodoFlow, BackupFlow
  <1>2. CASE \E l : \E cs \in CommandLists : Run(t, l, cs)
    <2>0. PICK l : \E cs \in CommandLists : Run(t, l, cs)
      BY <1>2
    <2>1. PICK cs \in CommandLists : Run(t, l, cs)
      BY <2>0
    <2>2. /\ th'[t].todo = cs /\ th'[t].b4 = th[t].b4 /\ th'[t].b6 = th[t].b6
          /\ \A u \in Threads \ {t} : th'[u] = th[u]
      BY <2>1, Ran
    <2> QED BY <2>2 DEF Flow, TodoFlow, BackupFlow
  <1>3. CASE \E result : Finish(t, result)
    BY <1>3, Finished DEF Flow, TodoFlow, BackupFlow
  <1> QED BY <1>1, <1>2, <1>3

(* So does every step of a thread. *)
LEMMA StepFlows ==
    ASSUME TypeInv, NEW t \in Threads, Step(t)
    PROVE  Flow(t)
  <1>1. ThShape /\ StTyped /\ ThreadTyped(th[t])
    BY DEF TypeInv, ThreadsTyped, ThreadTyped, ThShape
  <1>2. CASE RunCommand(t)
    BY <1>1, <1>2, CommandRun
    DEF RunCommand, CarriedOut, Failed, Tolerated, Flow, TodoFlow, KernelFlow, BackupFlow, Firewall
  <1>3. CASE \/ CheckEnable(t) \/ PrepareTor(t) \/ PrepareTorFails(t) \/ AskTor(t) \/ AskTorAgain(t)
             \/ PrepareGateway(t) \/ Applied(t) \/ CheckV6(t) \/ RolledBack(t) \/ StopRedsocksFails(t)
             \/ TorService(t)
    <2>1. UNCHANGED <<st, fw4, fw6>>
      BY <1>3 DEF CheckEnable, PrepareTor, PrepareTorFails, AskTor, AskTorAgain, PrepareGateway,
                  Applied, CheckV6, RolledBack, StopRedsocksFails, TorService
    <2>2. \/ \E l : Goto(t, l)
          \/ \E l : \E cs \in CommandLists : Run(t, l, cs)
          \/ \E result : Finish(t, result)
      BY <1>3 DEF CheckEnable, PrepareTor, PrepareTorFails, AskTor, AskTorAgain, PrepareGateway,
                  Applied, CheckV6, RolledBack, StopRedsocksFails, TorService, CommandLists
    <2> QED BY <1>1, <2>1, <2>2, JumpFlow DEF KernelFlow
  <1>4. CASE Restore4(t) \/ Restore6(t)
    <2>1. UNCHANGED st /\ KernelFlow(t)
      BY <1>4 DEF Restore4, Restore6, KernelFlow
    <2>2. \/ \E l : Goto(t, l)
          \/ \E l : \E cs \in CommandLists : Run(t, l, cs)
      BY <1>4 DEF Restore4, Restore6, CommandLists
    <2> QED BY <1>1, <2>1, <2>2, JumpFlow
  <1>5. CASE \/ PrepareProxy(t) \/ PrepareProxyFails(t) \/ PrepareRaises(t) \/ StopRedsocks(t)
             \/ UpdateRaises(t)
    <2>1. UNCHANGED <<st, fw4, fw6>> /\ ((\E l : Goto(t, l)) \/ Become(t, Idle))
      BY <1>5 DEF PrepareProxy, PrepareProxyFails, PrepareRaises, StopRedsocks, UpdateRaises
    <2>2. CASE \E l : Goto(t, l)
      BY <1>1, <2>1, <2>2, JumpFlow DEF KernelFlow
    <2>3. CASE Become(t, Idle)
      BY <1>1, <2>1, <2>3, Became DEF Flow, TodoFlow, KernelFlow, BackupFlow, Idle
    <2> QED BY <2>1, <2>2, <2>3
  <1>6. CASE Backup4(t)
    <2>1. PICK b \in {fw4, None} : Become(t, [th[t] EXCEPT !.pc = "save6", !.b4 = b])
      BY <1>6 DEF Backup4
    <2>2. /\ th'[t] = [th[t] EXCEPT !.pc = "save6", !.b4 = b]
          /\ \A u \in Threads \ {t} : th'[u] = th[u]
      BY <1>1, <2>1, Became
    <2>3. th'[t].todo = th[t].todo /\ th'[t].b4 = b /\ th'[t].b6 = th[t].b6
      BY <1>1, <2>2 DEF ThreadTyped, Idle
    <2> QED BY <1>6, <2>2, <2>3 DEF Backup4, Flow, TodoFlow, KernelFlow, BackupFlow
  <1>7. CASE Backup6(t)
    <2> DEFINE cs == Rules(Op(t))
    <2>1. PICK b \in {fw6, None} : Become(t, [th[t] EXCEPT !.pc = "apply", !.b6 = b, !.ok = TRUE, !.todo = cs])
      BY <1>7 DEF Backup6
    <2>2. cs \in CommandLists
      <3>1. Op(t) \in Switching
        BY <1>1, <1>7 DEF Backup6, At, ThreadTyped, BeforeRecord, Op
      <3> QED BY <3>1 DEF Rules, Switching, CommandLists
    <2> HIDE DEF cs
    <2>3. /\ th'[t] = [th[t] EXCEPT !.pc = "apply", !.b6 = b, !.ok = TRUE, !.todo = cs]
          /\ \A u \in Threads \ {t} : th'[u] = th[u]
      BY <1>1, <2>1, Became
    <2>4. th'[t].todo = cs /\ th'[t].b6 = b /\ th'[t].b4 = th[t].b4
      BY <1>1, <2>3 DEF ThreadTyped, Idle
    <2> QED BY <1>7, <2>2, <2>3, <2>4 DEF Backup6, Flow, TodoFlow, KernelFlow, BackupFlow
  <1>8. CASE CheckDisable(t)
    <2>1. UNCHANGED <<st, fw4, fw6>>
      BY <1>8 DEF CheckDisable
    <2>2. CASE (\E result : Finish(t, result)) \/ Run(t, "unscan", ScanRemoval)
      BY <1>1, <2>1, <2>2, JumpFlow DEF KernelFlow, CommandLists
    <2>3. CASE /\ Op(t) # "scanOff"
               /\ Become(t, [th[t] EXCEPT !.pc = "restore4", !.b4 = Backups(Op(t))[1],
                                          !.b6 = Backups(Op(t))[2]])
      <3> DEFINE b4 == Backups(Op(t))[1]
                 b6 == Backups(Op(t))[2]
      <3>1. Op(t) \in {"torOff", "proxyOff", "gwOff"}
        BY <1>8, <2>3 DEF CheckDisable, Doing, Disabling
      <3>2. b4 \in Recordable /\ b6 \in Recordable
        BY <3>1 DEF Backups, Recordable, BackupFields
      <3>3. Become(t, [th[t] EXCEPT !.pc = "restore4", !.b4 = b4, !.b6 = b6])
        BY <2>3
      <3> HIDE DEF b4, b6
      <3>4. /\ th'[t] = [th[t] EXCEPT !.pc = "restore4", !.b4 = b4, !.b6 = b6]
            /\ \A u \in Threads \ {t} : th'[u] = th[u]
        BY <1>1, <3>3, Became
      <3>5. th'[t].todo = th[t].todo /\ th'[t].b4 = b4 /\ th'[t].b6 = b6
        BY <1>1, <3>4 DEF ThreadTyped, Idle
      <3> QED BY <2>1, <3>2, <3>4, <3>5 DEF Flow, TodoFlow, KernelFlow, BackupFlow
    <2> QED BY <1>8, <2>2, <2>3 DEF CheckDisable
  <1>9. CASE \/ Record(t) \/ V6Blocked(t) \/ ScanApplied(t) \/ Clear(t) \/ ScanRemoved(t)
    <2>1. UNCHANGED <<fw4, fw6>> /\ ((\E l : Goto(t, l)) \/ \E result : Finish(t, result))
      BY <1>9 DEF Record, V6Blocked, ScanApplied, Clear, ScanRemoved
    <2>2. TodoFlow(t) /\ KernelFlow(t) /\ (\A u \in Threads \ {t} : th'[u] = th[u])
          /\ th'[t].b4 \in {th[t].b4, None} /\ th'[t].b6 \in {th[t].b6, None}
      BY <1>1, <2>1, Gone, Finished DEF TodoFlow, KernelFlow
    <2>3. \A f \in BackupFields : st'[f] \in {st[f], th[t].b4, th[t].b6, None}
      <3>1. CASE Record(t)
        <4>1. Op(t) \in Switching /\ st' = Recorded(Op(t), th[t].b4, th[t].b6)
          BY <1>1, <3>1 DEF Record, At, ThreadTyped, BeforeRecord, Op
        <4>2. CASE Op(t) = "torOn"
          BY <1>1, <4>1, <4>2 DEF Recorded, StTyped, Off, BackupFields
        <4>3. CASE Op(t) = "proxyOn"
          BY <1>1, <4>1, <4>3 DEF Recorded, StTyped, Off, BackupFields
        <4>4. CASE Op(t) = "gwOn"
          BY <1>1, <4>1, <4>4 DEF Recorded, StTyped, Off, BackupFields
        <4> QED BY <4>1, <4>2, <4>3, <4>4 DEF Switching
      <3>2. CASE V6Blocked(t) \/ ScanApplied(t) \/ ScanRemoved(t)
        BY <1>1, <3>2 DEF V6Blocked, ScanApplied, ScanRemoved, StTyped, Off, BackupFields
      <3>3. CASE Clear(t)
        <4>1. Op(t) \in {"torOff", "proxyOff", "gwOff"} /\ st' = Cleared(Op(t))
          BY <3>3 DEF Clear, Undone, Doing
        <4>2. CASE Op(t) = "torOff"
          BY <1>1, <4>1, <4>2 DEF Cleared, StTyped, Off, BackupFields
        <4>3. CASE Op(t) = "proxyOff"
          BY <1>1, <4>1, <4>3 DEF Cleared, StTyped, Off, BackupFields
        <4>4. CASE Op(t) = "gwOff"
          BY <1>1, <4>1, <4>4 DEF Cleared, StTyped, Off, BackupFields
        <4> QED BY <4>1, <4>2, <4>3, <4>4
      <3> QED BY <1>9, <3>1, <3>2, <3>3
    <2> QED BY <2>2, <2>3 DEF Flow, BackupFlow
  <1> QED BY <1>2, <1>3, <1>4, <1>5, <1>6, <1>7, <1>8, <1>9 DEF Step

(* Every step of the system is such a flow, or changes none of it, or ends *)
(* the threads and may empty the kernel's tables.                          *)
Rest ==
    /\ UNCHANGED <<st, fw4, fw6>>
    /\ \A t \in Threads : /\ th'[t].todo \in {th[t].todo, <<>>}
                          /\ th'[t].b4 \in {th[t].b4, None} /\ th'[t].b6 \in {th[t].b6, None}
Restart ==
    /\ UNCHANGED st /\ \A t \in Threads : th'[t] = Idle
    /\ fw4' = EmptyTables({"filter", "nat"}) /\ fw6' = EmptyTables({"filter"})

(* That is all. *)
LEMMA NextFlows ==
    ASSUME TypeInv, [Next]_vars
    PROVE  (\E t \in Threads : Flow(t)) \/ Rest \/ Restart
  <1>1. ThShape
    BY DEF TypeInv, ThreadsTyped, ThreadTyped, ThShape
  <1>2. Idle.todo = <<>> /\ Idle.b4 = None /\ Idle.b6 = None
    BY DEF Idle
  <1>3. ASSUME NEW t \in Threads, NEW plan, Ask(t, plan) PROVE Rest
    <2> DEFINE r == [Idle EXCEPT !.plan = plan, !.pc = "check"]
    <2>1. r.todo = <<>> /\ r.b4 = None /\ r.b6 = None
      BY DEF Idle
    <2>2. Become(t, r) /\ UNCHANGED <<st, fw4, fw6>>
      BY <1>3 DEF Ask
    <2> HIDE DEF r
    <2>3. th'[t] = r /\ \A u \in Threads \ {t} : th'[u] = th[u]
      BY <1>1, <2>2, Became
    <2> QED BY <2>1, <2>2, <2>3 DEF Rest
  <1>4. Crash => Rest
    BY <1>2 DEF Crash, Rest
  <1>5. Reboot => Restart
    BY DEF Reboot, Restart
  <1>6. UNCHANGED vars => Rest
    BY DEF vars, Rest
  <1> QED BY <1>3, <1>4, <1>5, <1>6, StepFlows DEF Next
-----------------------------------------------------------------------------
(* The window runs each button in a thread of its own. The kill switches   *)
(* and gateway mode belong to thread t: what the others are asked to run   *)
(* is portscan protection and the Tor service.                             *)
BystanderOps == {"scanOn", "scanOff", "startTor", "stopTor"}
SwitchesBelongTo(t) ==
    /\ t \in Threads
    /\ \A name \in DOMAIN Machines : \A u \in Threads \ {t} :
           Machines[name].plans[u] \subseteq Seq(BystanderOps)

(* Then the commands of the others keep to the chains of portscan          *)
(* protection, and redirect nothing.                                       *)
ScanChains == {"INPUT", "PG_PORTSCAN"}
ScanWork(c) == c.at \in ScanChains /\ c.rule.target \notin {"tor", "redsocks"}
OnlyScans(todo) == \A i \in 1 .. Len(todo) : ScanWork(todo[i])
Bystanding(r) ==
    /\ r.plan \in Seq(BystanderOps) /\ r.pc \in {"idle", "check", "scan", "unscan"}
    /\ r.todo # <<>> => r.pc \in {"scan", "unscan"}
    /\ OnlyScans(r.todo)
Bystanders(t) == \A u \in Threads \ {t} : Bystanding(th[u])

(* What is left of a list keeps to them as well, *)
LEMMA TailOnlyScans ==
    ASSUME NEW todo \in Seq(Command), todo # <<>>, OnlyScans(todo)
    PROVE  Head(todo) \in Command /\ ScanWork(Head(todo)) /\ OnlyScans(Tail(todo))
  <1>1. /\ Len(todo) \in Nat \ {0} /\ Len(Tail(todo)) = Len(todo) - 1
        /\ \A i \in 1 .. Len(Tail(todo)) : Tail(todo)[i] = todo[i + 1]
        /\ Head(todo) = todo[1] /\ Head(todo) \in Command
    BY HeadTailProperties, EmptySeq, LenProperties
  <1>2. \A i \in 1 .. Len(Tail(todo)) : i + 1 \in 1 .. Len(todo)
    BY <1>1
  <1>3. 1 \in 1 .. Len(todo)
    BY <1>1
  <1> QED BY <1>1, <1>2, <1>3 DEF OnlyScans

(* as do the lists themselves. *)
LEMMA ScanListsKeep == OnlyScans(ScanRules) /\ OnlyScans(ScanRemoval) /\ OnlyScans(<<>>)
  <1>1. OnlyScans(ScanRules)
    BY DEF OnlyScans, ScanWork, ScanChains, ScanRules, NewChain, Flush, AppendRule, InsertRule,
           Nothing, Everything, Scanning, Counted, Rule
  <1>2. OnlyScans(ScanRemoval)
    BY DEF OnlyScans, ScanWork, ScanChains, ScanRemoval, DeleteRule, Flush, RemoveChain,
           Nothing, Scanning, Counted, Rule
  <1>3. OnlyScans(<<>>)
    BY EmptySeq DEF OnlyScans
  <1> QED BY <1>1, <1>2, <1>3

(* A bystander changes the record of portscan protection at most, and its  *)
(* chains.                                                                 *)
ScanOnly(s, z) == z = s \/ \E b \in BOOLEAN : z = [s EXCEPT !.scan = b]
ScanCommand(x, y) ==
    \/ y = x
    \/ \E c \in Command : ScanWork(c) /\ ~Refused(x, c) /\ y = Exec(x, c)

(* Of what went wrong it changes what is said of portscan protection.      *)
ScanMishap ==
    /\ unserved' = unserved /\ orphaned' \in {orphaned, TRUE}
    /\ stale' \ {"scan"} = stale \ {"scan"}

(* Every step of a bystander is one of a bystander. *)
LEMMA BystanderStep ==
    ASSUME TypeInv, ThShape, NEW u \in Threads, Bystanding(th[u]), Step(u)
    PROVE  /\ Bystanding(th'[u]) /\ \A w \in Threads \ {u} : th'[w] = th[w]
           /\ ScanOnly(st, st') /\ ScanCommand(fw4, fw4') /\ UNCHANGED <<fw6, on>> /\ ScanMishap
  <1>1. ThreadTyped(th[u]) /\ (th[u].pc # "idle" => th[u].plan # <<>>)
    BY DEF TypeInv, ThreadsTyped, ThreadTyped
  <1>2. /\ th[u].plan \in Seq(BystanderOps)
        /\ th[u].plan # <<>> => /\ Op(u) \in BystanderOps /\ Tail(th[u].plan) \in Seq(BystanderOps)
    BY HeadTailProperties DEF Bystanding, Op
  <1>3. CASE RunCommand(u)
    <2>1. /\ th[u].todo # <<>> /\ th[u].pc \in {"scan", "unscan"} /\ OnlyScans(th[u].todo)
          /\ UNCHANGED <<st, on>> /\ ScanMishap
      BY <1>3 DEF RunCommand, Bystanding, hist, fixed, ScanMishap
    <2>2. /\ th'[u].pc = th[u].pc /\ th'[u].plan = th[u].plan
          /\ \A w \in Threads \ {u} : th'[w] = th[w]
          /\ CarriedOut(u) \/ Failed(u) \/ Tolerated(u)
      BY <1>3, CommandRun
    <2>3. Firewall(u) = fw4 /\ th[u].pc \notin V6Lists /\ th[u].pc # "block6"
      BY <2>1 DEF Firewall, V6Lists
    <2>4. /\ th'[u].todo = Tail(th[u].todo) /\ UNCHANGED fw6
          /\ \/ fw4' = fw4
             \/ ~Refused(fw4, Head(th[u].todo)) /\ fw4' = Exec(fw4, Head(th[u].todo))
      BY <2>2, <2>3 DEF CarriedOut, Failed, Tolerated
    <2>5. /\ Head(th[u].todo) \in Command /\ ScanWork(Head(th[u].todo))
          /\ OnlyScans(Tail(th[u].todo))
      BY <1>1, <2>1, TailOnlyScans DEF ThreadTyped
    <2>6. ScanCommand(fw4, fw4')
      BY <2>4, <2>5 DEF ScanCommand
    <2>7. Bystanding(th'[u])
      BY <1>2, <2>1, <2>2, <2>4, <2>5 DEF Bystanding
    <2> QED BY <2>1, <2>2, <2>4, <2>6, <2>7 DEF ScanOnly
  <1>4. ASSUME NEW result, Finish(u, result), th[u].plan # <<>>
        PROVE  Bystanding(th'[u]) /\ \A w \in Threads \ {u} : th'[w] = th[w]
    <2>1. /\ th'[u].pc \in {"idle", "check"} /\ th'[u].plan = Tail(th[u].plan) /\ th'[u].todo = <<>>
          /\ \A w \in Threads \ {u} : th'[w] = th[w]
      BY <1>4, Finished
    <2> QED BY <1>2, <1>4, <2>1, ScanListsKeep DEF Bystanding
  <1>5. ASSUME NEW l \in {"scan", "unscan"}, NEW cs \in {ScanRules, ScanRemoval}, Run(u, l, cs)
        PROVE  Bystanding(th'[u]) /\ \A w \in Threads \ {u} : th'[w] = th[w]
    <2>1. /\ th'[u].pc = l /\ th'[u].plan = th[u].plan /\ th'[u].todo = cs
          /\ \A w \in Threads \ {u} : th'[w] = th[w]
      BY <1>5, Ran
    <2> QED BY <1>2, <2>1, ScanListsKeep DEF Bystanding
  <1>6. CASE CheckEnable(u) \/ CheckDisable(u) \/ TorService(u)
    <2>1. th[u].pc = "check" /\ UNCHANGED <<st, fw4, fw6, on>> /\ ScanMishap
      BY <1>6 DEF CheckEnable, CheckDisable, TorService, At, hist, fixed, ScanMishap
    <2>2. th[u].plan # <<>> /\ Op(u) \in BystanderOps
      BY <1>1, <1>2, <2>1
    <2>3. \/ \E result : Finish(u, result)
          \/ Run(u, "scan", ScanRules) \/ Run(u, "unscan", ScanRemoval)
      BY <1>6, <2>2 DEF CheckEnable, CheckDisable, TorService, Doing, Enabling, Disabling,
                        BystanderOps, Conflict
    <2> QED BY <1>4, <1>5, <2>1, <2>2, <2>3 DEF ScanOnly, ScanCommand
  <1>7. CASE ScanApplied(u) \/ ScanRemoved(u)
    <2>1. /\ th[u].plan # <<>> /\ UNCHANGED <<fw4, fw6, on>> /\ ScanMishap
          /\ st' = st \/ \E b \in BOOLEAN : st' = [st EXCEPT !.scan = b]
          /\ \E result : Finish(u, result)
      BY <1>1, <1>7 DEF ScanApplied, ScanRemoved, At, hist, fixed, ScanMishap
    <2> QED BY <1>4, <2>1 DEF ScanOnly, ScanCommand
  <1>8. CASE UpdateRaises(u)
    <2>1. th[u].pc \in {"scan", "unscan"} /\ Become(u, Idle) /\ UNCHANGED <<st, fw4, fw6, on>>
      BY <1>8 DEF UpdateRaises, Undone, At, Bystanding, fixed
    <2>2. ScanMishap
      BY <1>8, <2>1 DEF UpdateRaises, Undone, At, ScanMishap
    <2>3. Idle.plan = <<>> /\ Idle.pc = "idle" /\ Idle.todo = <<>> /\ <<>> \in Seq(BystanderOps)
      BY EmptySeq DEF Idle
    <2>4. th'[u] = Idle /\ \A w \in Threads \ {u} : th'[w] = th[w]
      BY <2>1, Became
    <2>5. Bystanding(th'[u])
      BY <2>3, <2>4, ScanListsKeep DEF Bystanding
    <2> QED BY <2>1, <2>2, <2>4, <2>5 DEF ScanOnly, ScanCommand
  <1> QED BY <1>3, <1>6, <1>7, <1>8
      DEF Step, PrepareTor, PrepareTorFails, AskTor, AskTorAgain, PrepareProxy, PrepareProxyFails,
          PrepareGateway, PrepareRaises, Backup4, Backup6, Applied, Record, CheckV6, V6Blocked,
          Restore4, Restore6, RolledBack, StopRedsocks, StopRedsocksFails, Clear, Undone, At, Bystanding

(* A step of the system, for one who watches thread t: its own, a request  *)
(* to it, a step of a bystander that leaves it alone, or the end of all.   *)
Stopped == th' = [u \in Threads |-> Idle] /\ UNCHANGED <<st, on>>
Watched(t) ==
    \/ Step(t)
    \/ \E plan \in Here.plans[t] : Ask(t, plan)
    \/ /\ th'[t] = th[t] /\ ScanOnly(st, st') /\ ScanCommand(fw4, fw4') /\ UNCHANGED <<fw6, on>>
       /\ ScanMishap
    \/ (Crash \/ Reboot) /\ Stopped

(* The bystanders stay bystanders. *)
LEMMA BystandersNext ==
    ASSUME NEW t, SwitchesBelongTo(t), TypeInv, Bystanders(t), [Next]_vars
    PROVE  Bystanders(t)' /\ (Watched(t) \/ UNCHANGED vars)
  <1>1. ThShape /\ t \in Threads
    BY DEF TypeInv, ThreadsTyped, ThreadTyped, ThShape, SwitchesBelongTo
  <1>2. CASE Step(t)
    <2>1. \A u \in Threads \ {t} : th'[u] = th[u]
      BY <1>1, <1>2, StepFlows DEF Flow
    <2> QED BY <1>2, <2>1 DEF Bystanders, Watched
  <1>3. ASSUME NEW u \in Threads \ {t}, Step(u) PROVE Bystanders(t)' /\ Watched(t)
    <2>1. /\ Bystanding(th'[u]) /\ \A w \in Threads \ {u} : th'[w] = th[w]
          /\ ScanOnly(st, st') /\ ScanCommand(fw4, fw4') /\ UNCHANGED <<fw6, on>> /\ ScanMishap
      BY <1>1, <1>3, BystanderStep DEF Bystanders
    <2> QED BY <1>1, <2>1 DEF Bystanders, Watched
  <1>4. ASSUME NEW u \in Threads, NEW plan \in Here.plans[u], Ask(u, plan)
        PROVE  Bystanders(t)' /\ Watched(t)
    <2> DEFINE r == [Idle EXCEPT !.plan = plan, !.pc = "check"]
    <2>1. r.plan = plan /\ r.pc = "check" /\ r.todo = <<>>
      BY DEF Idle
    <2>2. Become(u, r) /\ UNCHANGED <<st, fw4, fw6, on>> /\ ScanMishap
      BY <1>4 DEF Ask, ScanMishap
    <2> HIDE DEF r
    <2>3. th'[u] = r /\ \A w \in Threads \ {u} : th'[w] = th[w]
      BY <1>1, <2>2, Became
    <2>4. u # t => plan \in Seq(BystanderOps)
      BY DEF SwitchesBelongTo, Here, TypeInv, MachineTyped
    <2>5. u # t => Bystanding(r)
      BY <2>1, <2>4, ScanListsKeep DEF Bystanding
    <2>6. Bystanders(t)'
      BY <2>3, <2>5 DEF Bystanders
    <2>7. Watched(t)
      BY <1>1, <1>4, <2>2, <2>3 DEF Watched, ScanOnly, ScanCommand
    <2> QED BY <2>6, <2>7
  <1>5. CASE Crash \/ Reboot
    <2>1. Stopped
      BY <1>5 DEF Crash, Reboot, Stopped, hist, fixed
    <2>2. Idle.plan = <<>> /\ Idle.pc = "idle" /\ Idle.todo = <<>> /\ <<>> \in Seq(BystanderOps)
      BY EmptySeq DEF Idle
    <2>3. Bystanders(t)'
      BY <2>1, <2>2, ScanListsKeep DEF Bystanders, Bystanding, Stopped
    <2> QED BY <1>5, <2>1, <2>3 DEF Watched
  <1>6. CASE UNCHANGED vars
    BY <1>6 DEF vars, Bystanders
  <1> QED BY <1>2, <1>3, <1>4, <1>5, <1>6 DEF Next

(* All are idle at first. *)
LEMMA BystandersInit == ASSUME NEW t, Init PROVE Bystanders(t)
  <1>1. Idle.plan = <<>> /\ Idle.pc = "idle" /\ Idle.todo = <<>> /\ <<>> \in Seq(BystanderOps)
    BY EmptySeq DEF Idle
  <1> QED BY <1>1, ScanListsKeep DEF Init, Bystanders, Bystanding

(* So that they are never at a switch. *)
LEMMA BystandersAside == ASSUME NEW t, Bystanders(t) PROVE OthersAside(t)
  BY DEF Bystanders, Bystanding, OthersAside, Aside, BeforeRecord, AfterRecord
-----------------------------------------------------------------------------
(* The recorded backups of the kill switches that stay on stay, too. *)
Backed == /\ st.tor /\ st'.tor => st'.iptables = st.iptables
          /\ st.proxy /\ st'.proxy => st'.nat = st.nat

(* A step of the thread that works the switches. *)
LEMMA InvStep ==
    ASSUME Inv, NEW t \in Threads, OthersAside(t)', Step(t)
    PROVE  Inv' /\ Backed
  <1>1. CASE RunCommand(t)
    BY <1>1, RunCommandStep DEF RunCommand, Backed
  <1>2. CASE CheckEnable(t)
    BY <1>2, CheckEnableStep DEF CheckEnable, Backed
  <1>3. CASE Quiet(t)
    <2>1. UNCHANGED st
      BY <1>3 DEF Quiet, PrepareTor, PrepareTorFails, AskTor, AskTorAgain, PrepareProxy,
           PrepareProxyFails, PrepareGateway, PrepareRaises, Backup4, Backup6, Applied, CheckV6,
           CheckDisable, Restore4, Restore6, RolledBack, StopRedsocks, StopRedsocksFails,
           UpdateRaises, TorService
    <2> QED BY <1>3, <2>1, QuietStep DEF Backed
  <1>4. CASE Record(t)
    BY <1>4, RecordStep DEF Backed
  <1>5. CASE V6Blocked(t)
    BY <1>5, V6BlockedStep DEF Backed
  <1>6. CASE Clear(t)
    BY <1>6, ClearStep DEF Backed
  <1>7. CASE ScanApplied(t) \/ ScanRemoved(t)
    BY <1>7, ScanStep DEF Backed
  <1> QED BY <1>1, <1>2, <1>3, <1>4, <1>5, <1>6, <1>7 DEF Step, Quiet

(* Every step from the invariant keeps it, and the recorded backups. *)
LEMMA InvNext ==
    ASSUME NEW t, SwitchesBelongTo(t), TypeInv, Bystanders(t), Inv, [Next]_vars
    PROVE  Inv' /\ Backed
  <1>1. /\ Bystanders(t)' /\ (Watched(t) \/ UNCHANGED vars) /\ TypeInv' /\ t \in Threads
    BY BystandersNext, TypesNext DEF SwitchesBelongTo
  <1>2. OthersAside(t)' /\ ThShape' /\ StShape'
    <2>1. OthersAside(t)'
      BY <1>1 DEF Bystanders, Bystanding, OthersAside, Aside, BeforeRecord, AfterRecord
    <2> QED BY <1>1, <2>1 DEF TypeInv, ThreadsTyped, ThreadTyped, StTyped, ThShape, StShape
  <1>3. CASE Step(t)
    BY <1>1, <1>2, <1>3, InvStep
  <1>4. ASSUME NEW plan, Ask(t, plan) PROVE Inv' /\ Backed
    <2> DEFINE r == [Idle EXCEPT !.plan = plan, !.pc = "check"]
    <2>1. r = [f \in DOMAIN Idle |-> r[f]] /\ r.pc = "check"
      BY DEF Idle
    <2>2. ThShape' /\ th'[t] = r
      BY <1>1, <1>4, <2>1, BecomeShape DEF Ask, Inv
    <2>3. UNCHANGED st
      BY <1>4 DEF Ask
    <2> QED BY <1>1, <1>2, <2>1, <2>2, <2>3, StageKept DEF SameStage, BeforeRecord, AfterRecord, Backed
  <1>5. CASE th'[t] = th[t] /\ ScanOnly(st, st')
    <2>1. \A f \in {"tor", "proxy", "gw", "v6", "iptables", "nat"} : st'[f] = st[f]
      BY <1>5 DEF ScanOnly, Inv, StShape, Off
    <2>2. Op(t) \in Switching => st'[Flag[Op(t)]] = st[Flag[Op(t)]]
      BY <2>1 DEF Flag, Switching
    <2>3. Checked(t)'
      BY <1>1, <1>5, <2>1, <2>2 DEF Inv, Checked, Doing, Op, Switching, Flag, Conflict
    <2>4. \A u \in Threads : Checked(u)'
      BY <1>1, <1>2, <2>3, AllChecked
    <2> QED BY <1>2, <2>1, <2>4 DEF Inv, OneSwitch, V6OnlyWithSwitch, Backed
  <1>6. CASE Stopped
    <2>1. UNCHANGED st /\ \A u \in Threads : th'[u].pc = "idle"
      BY <1>6 DEF Stopped, Idle
    <2>2. \A u \in Threads : Checked(u)'
      BY <2>1 DEF Checked, BeforeRecord, AfterRecord
    <2> QED BY <1>2, <2>1, <2>2 DEF Inv, OneSwitch, V6OnlyWithSwitch, Backed
  <1>7. CASE UNCHANGED vars
    <2>1. UNCHANGED <<st, th>>
      BY <1>7 DEF vars
    <2>2. \A u \in Threads : Checked(u)'
      BY <2>1 DEF Inv, Checked, Doing, Op, Conflict
    <2> QED BY <2>1, <2>2 DEF Inv, StShape, ThShape, OneSwitch, V6OnlyWithSwitch, Backed
  <1> QED BY <1>1, <1>3, <1>4, <1>5, <1>6, <1>7 DEF Watched

(* The invariant behind the theorems that follow, in every reachable state:*)
(* one thread works the switches, any number of others portscan protection *)
(* and the Tor service.                                                    *)
THEOREM InvHolds ==
    ASSUME NEW t, SwitchesBelongTo(t)
    PROVE  Spec => [](TypeInv /\ Bystanders(t) /\ Inv)
  <1>1. Init => TypeInv /\ Bystanders(t) /\ Inv
    BY TypesInit, BystandersInit, InvInit
  <1>2. TypeInv /\ Bystanders(t) /\ Inv /\ [Next]_vars => (TypeInv /\ Bystanders(t) /\ Inv)'
    BY TypesNext, BystandersNext, InvNext
  <1> QED BY <1>1, <1>2, PTL DEF Spec

(* One thread at a time never has both kill switches on, wherever it is    *)
(* killed and whatever fails.                                              *)
THEOREM OneSwitchAlways ==
    ASSUME NEW t, SwitchesBelongTo(t)
    PROVE  Spec => []OneSwitch
  <1>1. Inv => OneSwitch
    BY DEF Inv
  <1> QED BY <1>1, InvHolds, PTL

(* IPv6 is recorded as blocked only along with a switch that wanted it so. *)
THEOREM V6NeedsSwitch ==
    ASSUME NEW t, SwitchesBelongTo(t)
    PROVE  Spec => []V6OnlyWithSwitch
  <1>1. Inv => V6OnlyWithSwitch
    BY DEF Inv
  <1> QED BY <1>1, InvHolds, PTL

(* The backup recorded with a kill switch is never replaced while that     *)
(* switch is on: enabling again is a no-op.                                *)
THEOREM BackupIsKept ==
    ASSUME NEW t, SwitchesBelongTo(t)
    PROVE  Spec => BackupKept
  <1>1. TypeInv /\ Bystanders(t) /\ Inv /\ [Next]_vars => [Backed]_vars
    BY InvNext
  <1> QED BY <1>1, InvHolds, PTL DEF Spec, BackupKept, Backed
-----------------------------------------------------------------------------
(* Every machine's rulesets are tame at first. *)
TameBases ==
    \A name \in DOMAIN Machines :
        \A fw \in Machines[name].bases4 \cup Machines[name].bases6 : Tame(fw)

(* Then all that flows is tame: the kernel's rulesets, what the state file *)
(* and the threads have of backups, and the commands still to run.         *)
TameBackup(b) == b = None \/ Tame(b)
AllTame ==
    /\ Tame(fw4) /\ Tame(fw6)
    /\ \A f \in BackupFields : TameBackup(st[f])
    /\ \A t \in Threads : TameBackup(th[t].b4) /\ TameBackup(th[t].b6) /\ TameList(th[t].todo)

(* All of it is at first, *)
LEMMA TameInit == TameBases /\ Init => AllTame
  <1> SUFFICES ASSUME TameBases, Init PROVE AllTame
    OBVIOUS
  <1>1. Tame(fw4) /\ Tame(fw6)
    BY DEF Init, TameBases, Here
  <1>2. \A f \in BackupFields : st[f] = None
    BY DEF Init, Off, BackupFields
  <1>3. \A t \in Threads : th[t].b4 = None /\ th[t].b6 = None /\ th[t].todo = <<>>
    BY DEF Init, Idle
  <1> QED BY <1>1, <1>2, <1>3, TameLists DEF AllTame, TameBackup

(* and stays so at every step. *)
LEMMA TameNext ==
    ASSUME TypeInv, AllTame, [Next]_vars
    PROVE  AllTame'
  <1>1. IsRuleset(fw4) /\ IsRuleset(fw6) /\ \A t \in Threads : ThreadTyped(th[t])
    BY DEF TypeInv, MachineTyped, ThreadsTyped
  <1>2. TameList(<<>>) /\ \A cs \in CommandLists : TameList(cs)
    BY TameLists DEF CommandLists
  <1>3. ASSUME NEW cs \in Seq(Command), cs # <<>>, TameList(cs)
        PROVE  Head(cs) \in Command /\ TameCommand(Head(cs)) /\ TameList(Tail(cs))
    <2>1. /\ Len(cs) \in Nat \ {0} /\ Head(cs) = cs[1] /\ Head(cs) \in Command
          /\ Len(Tail(cs)) = Len(cs) - 1 /\ \A i \in 1 .. Len(cs) - 1 : Tail(cs)[i] = cs[i + 1]
      BY <1>3, HeadTailProperties, LenProperties, EmptySeq
    <2> QED BY <1>3, <2>1 DEF TameList
  <1>4. CASE \E t \in Threads : Flow(t)
    <2>1. PICK t \in Threads : Flow(t)
      BY <1>4
    <2>2. th[t].todo \in Seq(Command)
      BY <1>1 DEF ThreadTyped
    <2>3. Tame(fw4') /\ Tame(fw6')
      <3>1. th[t].todo # <<>> => Head(th[t].todo) \in Command /\ TameCommand(Head(th[t].todo))
        BY <1>3, <2>2 DEF AllTame
      <3>2. /\ th[t].b4 # None => Tame(th[t].b4)
            /\ th[t].b6 # None => Tame(th[t].b6)
        BY DEF AllTame, TameBackup
      <3> QED BY <1>1, <2>1, <3>1, <3>2, TameExec, TameRestored DEF Flow, KernelFlow, AllTame
    <2>4. TameList(th'[t].todo)
      BY <1>2, <1>3, <2>1, <2>2 DEF Flow, TodoFlow, AllTame
    <2>5. \A b \in Recordable : TameBackup(b)
      BY DEF Recordable, AllTame
    <2>6. /\ TameBackup(th'[t].b4) /\ TameBackup(th'[t].b6)
          /\ \A f \in BackupFields : TameBackup(st'[f])
      BY <2>1, <2>5 DEF Flow, BackupFlow, AllTame, TameBackup
    <2> QED BY <2>1, <2>3, <2>4, <2>6 DEF Flow, AllTame
  <1>5. CASE Rest
    BY <1>2, <1>5 DEF Rest, AllTame, TameBackup
  <1>6. CASE Restart
    <2>1. Idle.b4 = None /\ Idle.b6 = None /\ Idle.todo = <<>>
      BY DEF Idle
    <2> QED BY <1>2, <1>6, <2>1, TameEmpty DEF Restart, AllTame, TameBackup
  <1> QED BY <1>4, <1>5, <1>6, NextFlows

(* So they are in every reachable state. *)
THEOREM TameHolds == TameBases => (Spec => [](TypeInv /\ AllTame))
  <1> SUFFICES ASSUME TameBases PROVE Spec => [](TypeInv /\ AllTame)
    OBVIOUS
  <1>1. Init => TypeInv /\ AllTame
    BY TypesInit, TameInit
  <1>2. TypeInv /\ AllTame /\ [Next]_vars => (TypeInv /\ AllTame)'
    BY TypesNext, TameNext
  <1> QED BY <1>1, <1>2, PTL DEF Spec

(* The checks of verify_active that look at the rules are evidence of what *)
(* they stand for, at every step of every operation, whichever threads run *)
(* at once, are killed or fail, and after every restart of the machine: a  *)
(* ping that is blocked, on a network that answers, means that nothing of  *)
(* an application's leaves in clear, and the DROP policy that none leaves  *)
(* over IPv6, if the rules the user had before are tame.                   *)
THEOREM ChecksCanBeTrusted == TameBases => (Spec => []ChecksAreEvidence)
  <1> SUFFICES ASSUME TameBases PROVE Spec => []ChecksAreEvidence
    OBVIOUS
  <1>1. TypeInv /\ AllTame => ChecksAreEvidence
    <2> SUFFICES ASSUME TypeInv, AllTame PROVE ChecksAreEvidence
      OBVIOUS
    <2>1. IsRuleset(fw4) /\ IsRuleset(fw6) /\ Tame(fw4) /\ Tame(fw6)
      BY DEF TypeInv, MachineTyped, AllTame
    <2>2. DirectTrafficBlocked(Healthy) => TorOnly(fw4)
      BY <2>1, PingSpeaksForAll DEF DirectTrafficBlocked, Healthy
    <2>3. Passes(V6Checks) => NoV6(fw6)
      <3>1. Passes(V6Checks) => "OUTPUT" \in fw6.drop
        <4>1. 1 \in DOMAIN V6Checks /\ V6Checks[1] = ("OUTPUT" \in fw6.drop)
          BY DEF V6Checks
        <4>2. Passes(V6Checks) => V6Checks[1]
          BY <4>1 DEF Passes
        <4> QED BY <4>1, <4>2
      <3> QED BY <2>1, <3>1, OneForAll DEF NoV6
    <2> QED BY <2>2, <2>3 DEF ChecksAreEvidence
  <1>2. Spec => [](TypeInv /\ AllTame)
    BY TameHolds
  <1> QED BY <1>1, <1>2, PTL
=============================================================================
