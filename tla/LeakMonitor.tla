---------------------------- MODULE LeakMonitor -----------------------------
(***************************************************************************)
(* The background monitor of monitor.py, started and stopped by the        *)
(* window (gui.py), with the Tor check of proxy_tor.py that its loop runs. *)
(*                                                                         *)
(* One LeakMonitor object is one member of Monitors; its thread runs at    *)
(* most once, for the window makes a new object for every start.  A check  *)
(* fetches the public address, asks check.torproject.org in a thread of    *)
(* its own, looks at the resolvers (where it asks once more), and compares *)
(* the address with the baseline.                                          *)
(***************************************************************************)
EXTENDS Naturals

CONSTANTS
    Monitors,   \* LeakMonitor objects; bound: two, the old one and the new
    Addresses,  \* public addresses
    Networks,   \* what the world may be like, see NetworkAssumption
    None        \* no address, no object, no answer, no alert

Answers == {"tor", "plain", "error"}  \* IsTor, not IsTor, {"error": ...}

(* A network: the address an observer sees (None: no connection), what the *)
(* Tor check answers, and whether a resolver that is not local is set.     *)
ASSUME NetworkAssumption ==
    \A n \in Networks : /\ n.ip \in Addresses \cup {None}
                        /\ n.exit \in Answers
                        /\ n.resolver \in {"local", "foreign"}
ASSUME NoneAssumption == None \notin Addresses \cup Monitors \cup Answers

VARIABLES
    handle,  \* the window's leak_monitor
    ui,      \* the window's thread: "ready", or "joining" a monitor's thread
    label,   \* what the window says of the monitor
    mon,     \* the objects, their threads, and the threads of their Tor checks
    net,     \* the network as it is now
    raised   \* history: the alert the last step raised

monitorVars == <<handle, ui, label, mon, net, raised>>

Kinds == {"unreachable", "notTor", "dns", "changed", "exception"}
Labels == {"none", "head", "ip", "tor", "torWait", "dns", "dnsWait", "compare"}
Idle == [pc |-> "none", stop |-> FALSE, tunnel |-> FALSE, baseline |-> None,
         seen |-> None, leaking |-> FALSE, worker |-> "done", queue |-> None, plain |-> FALSE]

TypeOK ==
    /\ handle \in Monitors \cup {None}
    /\ ui \in {"ready", "joining"}
    /\ label \in {"running", "stopped"}
    /\ mon \in [Monitors -> [pc : Labels,
                             stop : BOOLEAN,     \* _stop_event
                             tunnel : BOOLEAN,   \* expect_tunnel
                             baseline : Addresses \cup {None},
                             seen : Addresses \cup {None},     \* ip of this check
                             leaking : BOOLEAN,                \* verdict of this check
                             worker : {"done", "asking"} \cup Answers,
                             queue : Answers \cup {None},      \* result_q of this check
                             plain : BOOLEAN]]   \* history: not Tor since the check began?
    /\ net \in Networks
    /\ raised \in [by : Monitors, kind : Kinds] \cup {None}

MonitorInit ==
    /\ handle = None /\ ui = "ready" /\ label = "stopped"
    /\ mon = [i \in Monitors |-> Idle]
    /\ net \in Networks
    /\ raised = None

Alive(i) == mon[i].pc # "none"
Set(i, new) == mon' = [mon EXCEPT ![i] = new]
Quiet == raised' = None
Alert(i, kind) == raised' = [by |-> i, kind |-> kind]
ByLoop == UNCHANGED <<handle, ui, label, net>>

-----------------------------------------------------------------------------
(* The window.  Start is ignored while is_running() holds.                 *)
StartNew(i, tunnel) ==
    /\ handle' = i
    /\ label' = "running"
    /\ Set(i, [Idle EXCEPT !.pc = "head", !.tunnel = tunnel])
    /\ Quiet /\ UNCHANGED <<ui, net>>

(* mutant: what main.py does, which replaces its handle without a look *)
StartAnyway ==
    /\ ui = "ready"
    /\ \E i \in Monitors \ {handle}, tunnel \in BOOLEAN : ~Alive(i) /\ StartNew(i, tunnel)

Start ==
    /\ ui = "ready"
    /\ handle # None => ~Alive(handle)
    /\ \E i \in Monitors \ {handle}, tunnel \in BOOLEAN : ~Alive(i) /\ StartNew(i, tunnel)

(* stop(): the event, of which a thread that has ended takes no notice,    *)
(* then a join of five seconds, on the window's thread.                    *)
Stop ==
    /\ ui = "ready" /\ handle # None
    /\ Set(handle, [mon[handle] EXCEPT !.stop = Alive(handle)])
    /\ ui' = "joining"
    /\ Quiet /\ UNCHANGED <<handle, label, net>>

(* The thread has ended, or the five seconds have.                         *)
JoinReturns ==
    /\ ui = "joining"
    /\ ui' = "ready" /\ label' = "stopped"
    /\ Quiet /\ UNCHANGED <<handle, mon, net>>

-----------------------------------------------------------------------------
(* The loop's thread.                                                      *)
CheckStop(i) ==
    /\ mon[i].pc = "head"
    /\ Set(i, IF mon[i].stop THEN Idle
              ELSE [mon[i] EXCEPT !.pc = "ip", !.plain = net.exit = "plain"])
    /\ Quiet /\ ByLoop

(* mutant: the text of an error is taken for an address *)
FetchIPUnchecked(i) ==
    /\ mon[i].pc = "ip" /\ mon[i].baseline = None
    /\ Set(i, [mon[i] EXCEPT !.pc = "head", !.baseline = IF net.ip = None THEN "error" ELSE net.ip])
    /\ Quiet /\ ByLoop

FetchIP(i) ==
    /\ mon[i].pc = "ip"
    /\ \E ip \in {net.ip, None} :
        \/ /\ ip = None
           /\ Set(i, [mon[i] EXCEPT !.pc = "head"])
           /\ Alert(i, "unreachable")
        \/ /\ ip # None /\ mon[i].baseline = None
           /\ Set(i, [mon[i] EXCEPT !.pc = "head", !.baseline = ip])
           /\ Quiet
        \/ /\ ip # None /\ mon[i].baseline # None
           /\ Set(i, [mon[i] EXCEPT !.pc = IF mon[i].tunnel THEN "tor" ELSE "compare", !.seen = ip])
           /\ Quiet
    /\ ByLoop

(* mutant: one queue for all calls *)
AskedAgain(m) == [m EXCEPT !.worker = "asking"]

(* check_tor_active: a new queue and a new thread each time, so the thread *)
(* of an earlier call, should it still run, reaches no queue that is read. *)
Asked(m) == [m EXCEPT !.worker = "asking", !.queue = None]

AskTor(i) ==
    /\ mon[i].pc = "tor"
    /\ Set(i, [Asked(mon[i]) EXCEPT !.pc = "torWait"])
    /\ Quiet /\ ByLoop

TakeTor(i) ==
    /\ mon[i].pc = "torWait" /\ mon[i].queue # None
    /\ Set(i, [mon[i] EXCEPT !.pc = "dns", !.queue = None])
    /\ IF mon[i].queue = "plain" THEN Alert(i, "notTor") ELSE Quiet
    /\ ByLoop

(* dns_leak_check: the resolvers, and another Tor check whose answer only  *)
(* its report shows.                                                       *)
CheckDns(i) ==
    /\ mon[i].pc = "dns"
    /\ Set(i, [Asked(mon[i]) EXCEPT !.pc = "dnsWait", !.leaking = net.resolver = "foreign"])
    /\ Quiet /\ ByLoop

DnsReported(i) ==
    /\ Set(i, [mon[i] EXCEPT !.pc = "compare", !.queue = None, !.leaking = FALSE])
    /\ IF mon[i].leaking THEN Alert(i, "dns") ELSE Quiet
    /\ ByLoop

TakeDns(i) == mon[i].pc = "dnsWait" /\ mon[i].queue # None /\ DnsReported(i)

(* mutant: get() without a timeout *)
NoTimeout(i) == FALSE /\ UNCHANGED monitorVars

(* queue.get gives up after timeout + 2 seconds, and the check goes on.    *)
Timeout(i) ==
    /\ mon[i].queue = None
    /\ \/ /\ mon[i].pc = "torWait"
          /\ Set(i, [mon[i] EXCEPT !.pc = "dns"])
          /\ Quiet /\ ByLoop
       \/ mon[i].pc = "dnsWait" /\ DnsReported(i)

Compare(i) ==
    /\ mon[i].pc = "compare"
    /\ Set(i, [mon[i] EXCEPT !.pc = "head", !.baseline = mon[i].seen, !.seen = None])
    /\ IF mon[i].seen # mon[i].baseline THEN Alert(i, "changed") ELSE Quiet
    /\ ByLoop

(* mutant: no try around the check, so an exception ends the thread *)
CheckDies(i) ==
    /\ mon[i].pc \in {"tor", "torWait", "dns", "dnsWait"}
    /\ Set(i, Idle)
    /\ Quiet /\ ByLoop

(* An answer that is no object, a thread that cannot start: the loop says  *)
(* so and goes on.                                                         *)
CheckRaises(i) ==
    /\ mon[i].pc \in {"tor", "torWait", "dns", "dnsWait"}
    /\ Set(i, [mon[i] EXCEPT !.pc = "head", !.seen = None, !.leaking = FALSE])
    /\ Alert(i, "exception")
    /\ ByLoop

LoopStep(i) ==
    \/ CheckStop(i) \/ FetchIP(i) \/ AskTor(i) \/ TakeTor(i)
    \/ CheckDns(i) \/ TakeDns(i) \/ Timeout(i) \/ Compare(i)

(* The thread of a Tor check: what the site answers is settled some time   *)
(* before the answer is put on the queue, and either may take for ever.    *)
WorkerAsks(i) ==
    /\ mon[i].worker = "asking"
    /\ \E answer \in {net.exit, "error"} : Set(i, [mon[i] EXCEPT !.worker = answer])
    /\ Quiet /\ ByLoop

WorkerPuts(i) ==
    /\ mon[i].worker \in Answers
    /\ Set(i, [mon[i] EXCEPT !.queue = mon[i].worker, !.worker = "done"])
    /\ Quiet /\ ByLoop

NetworkChanges ==
    /\ net' \in Networks \ {net}
    /\ mon' = [i \in Monitors |->
                  [mon[i] EXCEPT !.plain = Alive(i) /\ (@ \/ net'.exit = "plain")]]
    /\ Quiet /\ UNCHANGED <<handle, ui, label>>

MonitorNext ==
    \/ Start \/ Stop \/ JoinReturns \/ NetworkChanges
    \/ \E i \in Monitors : LoopStep(i) \/ CheckRaises(i) \/ WorkerAsks(i) \/ WorkerPuts(i)

-----------------------------------------------------------------------------
(* A loop that runs is the one Stop Monitor reaches, hence there is never  *)
(* more than one (gui.py _start_monitor).                                  *)
LoopCanBeStopped == \A i \in Monitors : Alive(i) => i = handle

(* While the window says "running", a monitor does run, whatever its       *)
(* checks ran into (monitor.py _loop).                                     *)
RunningIsTrue == label = "running" /\ ui = "ready" => handle # None /\ Alive(handle)

(* An alert that traffic no longer goes through Tor is never raised on an  *)
(* answer from before the check began (proxy_tor.py check_tor_active).     *)
AlertIsTrue == raised # None /\ raised.kind = "notTor" => mon[raised.by].plain

(* A monitor told to stop ends, though a Tor check it waits for never      *)
(* answers (monitor.py stop, proxy_tor.py check_tor_active).               *)
StopIsObeyed == \A i \in Monitors : (Alive(i) /\ mon[i].stop) ~> ~Alive(i)

(* A connection that is lost for good is reported by a monitor that is not *)
(* stopped (monitor.py _check_once).                                       *)
Watching(i) == Alive(i) /\ ~mon[i].stop
OutageIsReported ==
    \A i \in Monitors :
        (Watching(i) /\ net.ip = None)
            ~> (~Watching(i) \/ net.ip # None \/ raised = [by |-> i, kind |-> "unreachable"])
=============================================================================
