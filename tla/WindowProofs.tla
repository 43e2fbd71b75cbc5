---------------------------- MODULE WindowProofs ----------------------------
(* Theorems about Window: what holds for any number of monitors, buttons   *)
(* and networks, and for any scenes.                                       *)
EXTENDS Window, TLAPS

Monitor == [pc : Labels, stop : BOOLEAN, tunnel : BOOLEAN, baseline : Addresses \cup {None},
            seen : Addresses \cup {None}, leaking : BOOLEAN,
            worker : {"done", "asking"} \cup Answers, queue : Answers \cup {None},
            plain : BOOLEAN]

(* A check that began knows of an exit that is not Tor's: of the present   *)
(* one, and of any that the thread it asks has seen.                       *)
Noticed(i) ==
    /\ mon[i].pc \notin {"none", "head"} /\ net.exit = "plain" => mon[i].plain
    /\ mon[i].pc = "torWait" /\ "plain" \in {mon[i].worker, mon[i].queue} => mon[i].plain

(* What the window says runs is not told to stop.                          *)
Runs ==
    label = "running" /\ ui = "ready" => handle # None /\ Alive(handle) /\ ~mon[handle].stop

Inv ==
    /\ TypeOK
    /\ LoopCanBeStopped
    /\ Runs
    /\ AlertIsTrue
    /\ \A i \in Monitors : Noticed(i)

LEMMA InitInv == Init => Inv
  BY NetworkAssumption, NoneAssumption
  DEF Init, MonitorInit, Inv, TypeOK, LoopCanBeStopped, Runs, AlertIsTrue, Noticed, Alive, Idle, Labels

(* A step of one thread that neither starts a loop nor alerts.             *)
LEMMA QuietStep ==
    ASSUME Inv, NEW i \in Monitors, NEW m \in Monitor,
           m.pc = "none" \/ mon[i].pc # "none",
           mon[i].pc # "none" /\ ~mon[i].stop => m.pc # "none" /\ ~m.stop,
           m.pc \notin {"none", "head"} /\ net.exit = "plain" => m.plain,
           m.pc = "torWait" /\ "plain" \in {m.worker, m.queue} => m.plain,
           Set(i, m), UNCHANGED <<handle, net, ui, label>>,
           raised' \in [by : Monitors, kind : Kinds] \cup {None},
           raised' = None \/ raised'.kind # "notTor" \/ (raised'.by = i /\ m.plain)
    PROVE  Inv'
<1>1. mon' \in [Monitors -> Monitor] /\ mon'[i] = m
      /\ \A j \in Monitors : j # i => mon'[j] = mon[j]
  BY DEF Set, Inv, TypeOK, Monitor
<1>2. TypeOK'
  BY <1>1 DEF Inv, TypeOK, Monitor
<1>3. LoopCanBeStopped'
  BY <1>1 DEF Inv, LoopCanBeStopped, Alive
<1>4. AlertIsTrue'
  BY <1>1 DEF AlertIsTrue
<1>5. \A j \in Monitors : Noticed(j)'
  BY <1>1 DEF Inv, Noticed
<1>6. Runs'
  BY <1>1 DEF Inv, TypeOK, Runs, Alive
<1> QED
  BY <1>2, <1>3, <1>4, <1>5, <1>6 DEF Inv

(* The window's own steps.                                                 *)
LEMMA StartStep == Inv /\ Start => Inv'
<1> SUFFICES ASSUME Inv, ui = "ready", handle # None => ~Alive(handle),
                    NEW i \in Monitors \ {handle}, NEW tunnel \in BOOLEAN,
                    ~Alive(i), StartNew(i, tunnel)
             PROVE  Inv'
  BY DEF Start
<1> DEFINE m == [Idle EXCEPT !.pc = "head", !.tunnel = tunnel]
<1>1. m \in Monitor /\ m.pc = "head" /\ ~m.stop
  BY DEF Idle, Monitor, Labels
<1>2. mon' \in [Monitors -> Monitor] /\ mon'[i] = m
      /\ \A j \in Monitors : j # i => mon'[j] = mon[j]
  BY <1>1 DEF StartNew, Set, Inv, TypeOK, Monitor
<1> HIDE DEF m
<1>3. TypeOK'
  BY <1>2 DEF StartNew, Quiet, Inv, TypeOK, Monitor
<1>4. LoopCanBeStopped'
  <2>1. handle' = i /\ \A j \in Monitors : ~Alive(j)
    BY NoneAssumption DEF StartNew, Inv, LoopCanBeStopped
  <2> QED
    BY <1>2, <2>1 DEF LoopCanBeStopped, Alive
<1>5. AlertIsTrue'
  BY DEF StartNew, Quiet, AlertIsTrue
<1>6. \A j \in Monitors : Noticed(j)'
  BY <1>1, <1>2 DEF StartNew, Inv, Noticed
<1>7. Runs'
  BY <1>1, <1>2, NoneAssumption DEF StartNew, Runs, Alive
<1> QED
  BY <1>3, <1>4, <1>5, <1>6, <1>7 DEF Inv

LEMMA StopStep == Inv /\ Stop => Inv'
<1> SUFFICES ASSUME Inv, Stop PROVE Inv'
  OBVIOUS
<1> DEFINE m == [mon[handle] EXCEPT !.stop = Alive(handle)]
<1>1. handle \in Monitors
  BY DEF Stop, Inv, TypeOK
<1>2. m \in Monitor /\ m.pc = mon[handle].pc /\ m.plain = mon[handle].plain
      /\ m.worker = mon[handle].worker /\ m.queue = mon[handle].queue
  BY <1>1 DEF Inv, TypeOK, Monitor, Alive
<1>3. Noticed(handle) /\ mon[handle].pc \in Labels
  BY <1>1 DEF Inv, TypeOK
<1>4. Set(handle, m)
  BY DEF Stop
<1> HIDE DEF m
<1>5. mon' \in [Monitors -> Monitor] /\ mon'[handle] = m
      /\ \A j \in Monitors : j # handle => mon'[j] = mon[j]
  BY <1>1, <1>2, <1>4 DEF Set, Inv, TypeOK, Monitor
<1>6. TypeOK'
  BY <1>5 DEF Stop, Quiet, Inv, TypeOK, Monitor
<1>7. LoopCanBeStopped'
  BY <1>2, <1>5 DEF Stop, Inv, LoopCanBeStopped, Alive
<1>8. AlertIsTrue'
  BY DEF Stop, Quiet, AlertIsTrue
<1>9. \A j \in Monitors : Noticed(j)'
  BY <1>1, <1>2, <1>5 DEF Stop, Inv, Noticed
<1>10. Runs'
  BY DEF Stop, Runs
<1> QED
  BY <1>6, <1>7, <1>8, <1>9, <1>10 DEF Inv

LEMMA WorldStep == Inv /\ NetworkChanges => Inv'
<1> SUFFICES ASSUME Inv, NetworkChanges PROVE Inv'
  OBVIOUS
<1>1. \A i \in Monitors :
        mon'[i] = [mon[i] EXCEPT !.plain = Alive(i) /\ (@ \/ net'.exit = "plain")]
  BY DEF NetworkChanges
<1>2. \A i \in Monitors :
        /\ mon[i] \in Monitor
        /\ mon'[i].plain = (Alive(i) /\ (mon[i].plain \/ net'.exit = "plain"))
        /\ mon'[i].pc = mon[i].pc /\ mon'[i].stop = mon[i].stop
        /\ mon'[i].worker = mon[i].worker /\ mon'[i].queue = mon[i].queue
        /\ mon'[i] \in Monitor
  BY <1>1 DEF Inv, TypeOK, Monitor
<1>3. mon' \in [Monitors -> Monitor]
  BY <1>2 DEF NetworkChanges
<1>4. TypeOK'
  BY <1>3 DEF NetworkChanges, Quiet, Inv, TypeOK, Monitor
<1>5. LoopCanBeStopped'
  BY <1>2 DEF NetworkChanges, Inv, LoopCanBeStopped, Alive
<1>6. AlertIsTrue'
  BY DEF NetworkChanges, Quiet, AlertIsTrue
<1>7. \A i \in Monitors : Noticed(i)'
  BY <1>2 DEF Inv, Noticed, Alive
<1>8. Runs'
  BY <1>2 DEF NetworkChanges, Inv, TypeOK, Runs, Alive
<1> QED
  BY <1>4, <1>5, <1>6, <1>7, <1>8 DEF Inv

(* The steps of a loop and of its Tor check are steps of one thread.       *)
LEMMA LoopStepInv ==
    ASSUME Inv, NEW i \in Monitors,
           LoopStep(i) \/ CheckRaises(i) \/ WorkerAsks(i) \/ WorkerPuts(i)
    PROVE  Inv'
<1> USE DEF ByLoop, Quiet, Alert, Kinds
<1>1. /\ mon[i] \in Monitor /\ Noticed(i) /\ net \in Networks
      /\ ui \in {"ready", "joining"} /\ label \in {"running", "stopped"}
  BY DEF Inv, TypeOK, Monitor
<1>2. net.ip \in Addresses \cup {None} /\ net.exit \in Answers
  BY <1>1, NetworkAssumption
<1>3. CASE CheckStop(i)
  <2>1. mon[i].pc # "none" /\ UNCHANGED <<handle, net, ui, label>> /\ raised' = None
    BY <1>3 DEF CheckStop
  <2>2. CASE mon[i].stop
    <3>1. Idle \in Monitor /\ Idle.pc = "none"
      BY DEF Idle, Monitor, Labels
    <3>2. Set(i, Idle)
      BY <1>3, <2>2 DEF CheckStop
    <3> QED
      BY <1>1, <2>1, <2>2, <3>1, <3>2, QuietStep
  <2>3. CASE ~mon[i].stop
    <3> DEFINE m == [mon[i] EXCEPT !.pc = "ip", !.plain = (net.exit = "plain")]
    <3>1. (net.exit = "plain") \in BOOLEAN
      OBVIOUS
    <3>2. m \in Monitor /\ m.pc = "ip" /\ m.stop = mon[i].stop /\ (m.plain <=> net.exit = "plain")
      BY <1>1, <3>1 DEF Monitor, Labels
    <3>3. Set(i, m)
      BY <1>3, <2>3 DEF CheckStop, Set
    <3> HIDE DEF m
    <3> QED
      BY <1>1, <2>1, <3>2, <3>3, QuietStep
  <2> QED
    BY <2>2, <2>3
<1>4. CASE FetchIP(i)
  <2>1. PICK ip \in {net.ip, None}, m \in Monitor :
          /\ Set(i, m) /\ mon[i].pc = "ip" /\ m.plain = mon[i].plain /\ m.stop = mon[i].stop
          /\ m.pc \in {"head", "tor", "compare"}
          /\ raised' \in {None, [by |-> i, kind |-> "unreachable"]}
    BY <1>1, <1>2, <1>4 DEF FetchIP, Monitor, Labels
  <2>2. UNCHANGED <<handle, net, ui, label>>
    BY <1>4 DEF FetchIP
  <2> QED
    BY <1>1, <2>1, <2>2, QuietStep DEF Noticed
<1>5. CASE AskTor(i)
  <2>1. PICK m \in Monitor :
          /\ Set(i, m) /\ mon[i].pc = "tor"
          /\ m.pc = "torWait" /\ m.worker = "asking" /\ m.queue = None
          /\ m.plain = mon[i].plain /\ m.stop = mon[i].stop
          /\ raised' = None
    BY <1>1, <1>2, <1>5 DEF AskTor, Monitor, Labels, Asked
  <2>2. UNCHANGED <<handle, net, ui, label>>
    BY <1>5 DEF AskTor
  <2> QED
    BY <1>1, <2>1, <2>2, NoneAssumption, QuietStep DEF Noticed, Answers
<1>6. CASE TakeTor(i)
  <2>1. PICK m \in Monitor :
          /\ Set(i, m) /\ mon[i].pc = "torWait"
          /\ m.pc = "dns"
          /\ m.plain = mon[i].plain /\ m.stop = mon[i].stop
          /\ raised' = None \/ (mon[i].queue = "plain" /\ raised' = [by |-> i, kind |-> "notTor"])
    BY <1>1, <1>2, <1>6 DEF TakeTor, Monitor, Labels
  <2>2. UNCHANGED <<handle, net, ui, label>>
    BY <1>6 DEF TakeTor
  <2> QED
    BY <1>1, <2>1, <2>2, QuietStep DEF Noticed
<1>7. CASE CheckDns(i)
  <2>1. PICK m \in Monitor :
          /\ Set(i, m) /\ mon[i].pc = "dns"
          /\ m.pc = "dnsWait"
          /\ m.plain = mon[i].plain /\ m.stop = mon[i].stop
          /\ raised' = None
    BY <1>1, <1>2, <1>7 DEF CheckDns, Monitor, Labels, Asked
  <2>2. UNCHANGED <<handle, net, ui, label>>
    BY <1>7 DEF CheckDns
  <2> QED
    BY <1>1, <2>1, <2>2, QuietStep DEF Noticed
<1>8. CASE TakeDns(i)
  <2>1. PICK m \in Monitor :
          /\ Set(i, m) /\ mon[i].pc = "dnsWait"
          /\ m.pc = "compare"
          /\ m.plain = mon[i].plain /\ m.stop = mon[i].stop
          /\ raised' \in {None, [by |-> i, kind |-> "dns"]}
    BY <1>1, <1>2, <1>8 DEF TakeDns, Monitor, Labels, DnsReported
  <2>2. UNCHANGED <<handle, net, ui, label>>
    BY <1>8 DEF TakeDns, DnsReported
  <2> QED
    BY <1>1, <2>1, <2>2, QuietStep DEF Noticed
<1>9. CASE Timeout(i)
  <2>1. PICK m \in Monitor :
          /\ Set(i, m) /\ mon[i].pc \in {"torWait", "dnsWait"}
          /\ m.pc \in {"dns", "compare"}
          /\ m.plain = mon[i].plain /\ m.stop = mon[i].stop
          /\ raised' \in {None, [by |-> i, kind |-> "dns"]}
    BY <1>1, <1>2, <1>9 DEF Timeout, Monitor, Labels, DnsReported
  <2>2. UNCHANGED <<handle, net, ui, label>>
    BY <1>9 DEF Timeout, DnsReported
  <2> QED
    BY <1>1, <2>1, <2>2, QuietStep DEF Noticed
<1>10. CASE Compare(i)
  <2>1. PICK m \in Monitor :
          /\ Set(i, m) /\ mon[i].pc = "compare"
          /\ m.pc = "head"
          /\ m.plain = mon[i].plain /\ m.stop = mon[i].stop
          /\ raised' \in {None, [by |-> i, kind |-> "changed"]}
    BY <1>1, <1>2, <1>10 DEF Compare, Monitor, Labels
  <2>2. UNCHANGED <<handle, net, ui, label>>
    BY <1>10 DEF Compare
  <2> QED
    BY <1>1, <2>1, <2>2, QuietStep DEF Noticed
<1>11. CASE CheckRaises(i)
  <2>1. PICK m \in Monitor :
          /\ Set(i, m) /\ mon[i].pc # "none"
          /\ m.pc = "head"
          /\ m.plain = mon[i].plain /\ m.stop = mon[i].stop
          /\ raised' = [by |-> i, kind |-> "exception"]
    BY <1>1, <1>2, <1>11 DEF CheckRaises, Monitor, Labels
  <2>2. UNCHANGED <<handle, net, ui, label>>
    BY <1>11 DEF CheckRaises
  <2> QED
    BY <1>1, <2>1, <2>2, QuietStep DEF Noticed
<1>12. CASE WorkerAsks(i)
  <2>1. PICK m \in Monitor :
          /\ Set(i, m) /\ m.worker \in {net.exit, "error"}
          /\ m.pc = mon[i].pc /\ m.queue = mon[i].queue
          /\ m.plain = mon[i].plain /\ m.stop = mon[i].stop
          /\ raised' = None
    BY <1>1, <1>2, <1>12 DEF WorkerAsks, Monitor, Labels, Answers
  <2>2. UNCHANGED <<handle, net, ui, label>>
    BY <1>12 DEF WorkerAsks
  <2> QED
    BY <1>1, <2>1, <2>2, QuietStep DEF Noticed
<1>13. CASE WorkerPuts(i)
  <2>1. PICK m \in Monitor :
          /\ Set(i, m) /\ m.queue = mon[i].worker
          /\ m.pc = mon[i].pc /\ m.worker = "done"
          /\ m.plain = mon[i].plain /\ m.stop = mon[i].stop
          /\ raised' = None
    BY <1>1, <1>2, <1>13 DEF WorkerPuts, Monitor, Labels, Answers
  <2>2. UNCHANGED <<handle, net, ui, label>>
    BY <1>13 DEF WorkerPuts
  <2> QED
    BY <1>1, <2>1, <2>2, QuietStep DEF Noticed
<1> QED
  BY <1>3, <1>4, <1>5, <1>6, <1>7, <1>8, <1>9, <1>10, <1>11, <1>12, <1>13 DEF LoopStep

(* Every step of the window keeps the invariant.                          *)
LEMMA NextInv == Inv /\ [Next]_vars => Inv'
<1> SUFFICES ASSUME Inv, [Next]_vars PROVE Inv'
  OBVIOUS
<1>1. CASE MonitorNext
  <2>1. CASE JoinReturns
    BY <2>1 DEF JoinReturns, Quiet, Inv, TypeOK, LoopCanBeStopped, Alive, Runs, AlertIsTrue, Noticed
  <2> QED
    BY <1>1, <2>1, StartStep, StopStep, WorldStep, LoopStepInv DEF MonitorNext
<1>2. CASE raised' \in {None, raised} /\ UNCHANGED <<handle, ui, label, mon, net>>
  BY <1>2 DEF Inv, TypeOK, LoopCanBeStopped, Alive, Runs, AlertIsTrue, Noticed
<1> QED
  BY <1>1, <1>2 DEF Next, Beside, vars, monitorVars

(***************************************************************************)
(* The loop that runs is the one Stop Monitor reaches, whatever is pressed *)
(* and however long a check takes: _start_monitor replaces its handle only *)
(* when the thread of the old object has ended (gui.py).                   *)
(***************************************************************************)
THEOREM LoopAlwaysStoppable == Spec => []LoopCanBeStopped
<1>1. Inv => LoopCanBeStopped
  BY DEF Inv
<1> QED
  BY <1>1, InitInv, NextInv, PTL DEF Spec

(***************************************************************************)
(* While the window says that the monitor runs it does, for an exception   *)
(* in a check does not end the loop's thread (monitor.py _loop), and       *)
(* nothing but Stop Monitor sets its event.                                *)
(***************************************************************************)
THEOREM RunningMeansRunning == Spec => []RunningIsTrue
<1>1. Inv => RunningIsTrue
  BY DEF Inv, Runs, RunningIsTrue
<1> QED
  BY <1>1, InitInv, NextInv, PTL DEF Spec

(***************************************************************************)
(* An alert that the exit is not Tor's is raised on an answer of the same  *)
(* check: each call of check_tor_active reads a queue of its own, so what  *)
(* the thread of an earlier call says too late is lost (proxy_tor.py).     *)
(***************************************************************************)
THEOREM AlertsAreTrue == Spec => []AlertIsTrue
<1>1. Inv => AlertIsTrue
  BY DEF Inv
<1> QED
  BY <1>1, InitInv, NextInv, PTL DEF Spec

(* Every variable of the window keeps its type.                            *)
Thread == [pc : {"idle", "save", "redirect", "work", "failed", "restore"},
           job : {"command", "watch"}, saved : Streams]

LEMMA ThreadStep ==
    ASSUME WindowTypeOK, NEW b \in Buttons, NEW t \in Thread, bg' = [bg EXCEPT ![b] = t]
    PROVE  bg' \in [Buttons -> Thread]
  BY DEF WindowTypeOK, Thread

LEMMA TypeStep == WindowTypeOK /\ TypeOK' /\ [Next]_vars => WindowTypeOK'
<1> SUFFICES ASSUME WindowTypeOK, TypeOK', [Next]_vars PROVE WindowTypeOK'
  OBVIOUS
<1>1. CASE MonitorNext /\ MonitorMoves
  BY <1>1 DEF MonitorMoves, Alerted, WindowTypeOK, Entries, Put
<1>2. CASE Beside(Drain) \/ Beside(StopWatch)
  BY <1>2 DEF Beside, Drain, StopWatch, WindowTypeOK
<1>3. ASSUME NEW b \in Buttons, UNCHANGED scene,
             Press(b) \/ StartWatch(b) \/ ButtonStep(b) \/ Finish(b) \/ Fail(b) \/ NoLogFile(b)
      PROVE  WindowTypeOK'
  <2>1. bg[b] \in Thread /\ bg \in [Buttons -> Thread]
    BY DEF WindowTypeOK, Thread
  <2>2. stdout' \in Streams /\ watchStop' \in BOOLEAN
        /\ pending' \subseteq Entries /\ shown' \subseteq Entries
    BY <1>3, <2>1 DEF WindowTypeOK, Thread, Press, StartWatch, ButtonStep, SaveStdout, Redirect,
       FinishWatch, Restore, Finish, Fail, NoLogFile, Put, Entries, Streams
  <2>3. PICK t \in Thread : bg' = [bg EXCEPT ![b] = t]
    <3>1. CASE Press(b) \/ StartWatch(b) \/ Restore(b)
      <4>1. /\ Ready \in Thread /\ [Ready EXCEPT !.pc = "save"] \in Thread
            /\ [Ready EXCEPT !.pc = "save", !.job = "watch"] \in Thread
        BY DEF Ready, Thread, Streams
      <4> QED
        BY <3>1, <4>1 DEF Press, StartWatch, Restore
    <3>2. CASE SaveStdout(b)
      <4>1. [bg[b] EXCEPT !.saved = stdout, !.pc = "redirect"] \in Thread
        BY <2>1 DEF Thread, WindowTypeOK
      <4> QED
        BY <2>1, <3>2, <4>1 DEF SaveStdout
    <3>3. CASE Redirect(b) \/ Finish(b) \/ FinishWatch(b) \/ Fail(b) \/ NoLogFile(b)
      <4>1. \A pc \in {"work", "restore", "failed"} : [bg[b] EXCEPT !.pc = pc] \in Thread
        BY <2>1 DEF Thread
      <4> QED
        BY <2>1, <3>3, <4>1 DEF Redirect, Finish, FinishWatch, Fail, NoLogFile, Goto
    <3> QED
      BY <1>3, <3>1, <3>2, <3>3 DEF ButtonStep
  <2>4. bg' \in [Buttons -> Thread]
    BY <2>3, ThreadStep
  <2> QED
    BY <1>3, <2>2, <2>4 DEF WindowTypeOK, Thread
<1>4. CASE UNCHANGED vars
  BY <1>4 DEF vars, consoleVars, WindowTypeOK
<1> QED
  BY <1>1, <1>2, <1>3, <1>4 DEF Next, Beside

(* The type invariant of the window and of its monitors.                   *)
THEOREM WindowTypeCorrect == Spec => []WindowTypeOK
<1>1. Init => WindowTypeOK
  <2> SUFFICES ASSUME Init PROVE WindowTypeOK
    OBVIOUS
  <2>1. TypeOK
    BY InitInv DEF Inv
  <2>2. bg \in [Buttons -> Thread]
    BY DEF Init, Thread, Ready, Streams
  <2> QED
    BY <2>1, <2>2 DEF Init, WindowTypeOK, Thread, Streams
<1>2. Inv => TypeOK
  BY DEF Inv
<1> QED
  BY <1>1, <1>2, InitInv, NextInv, TypeStep, PTL DEF Spec
=============================================================================
