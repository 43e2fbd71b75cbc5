------------------------------- MODULE Window -------------------------------
(***************************************************************************)
(* The threads of the window in gui.py: one per button (_run_bg), among    *)
(* them the access-log watch of anti_recon.py, and the leak monitor, all   *)
(* writing to one console through sys.stdout and log_q.                    *)
(*                                                                         *)
(* The window's own thread handles buttons and drains log_q; it does       *)
(* neither while it joins a monitor's thread.                              *)
(***************************************************************************)
EXTENDS LeakMonitor

CONSTANTS
    Buttons,  \* threads of buttons; bound: those that overlap
    Scenes    \* see SceneAssumption

(* What a run looks at, to keep it small: the buttons that may be pressed  *)
(* and their jobs, the monitors started and what they expect, the networks.*)
ASSUME SceneAssumption ==
    \A s \in Scenes : /\ s.buttons \subseteq Buttons
                      /\ s.jobs \subseteq {"command", "watch"}
                      /\ s.starts \subseteq Monitors \X BOOLEAN
                      /\ s.networks \subseteq Networks

VARIABLES
    scene,      \* the scene this is
    stdout,     \* sys.stdout: the "terminal", or a redirector to the "console"
    bg,         \* the threads of the buttons
    watchStop,  \* watch_stop_event
    pending,    \* what is on log_q: alerts, and errors of buttons
    shown       \* history: those of them shown since they were last put

consoleVars == <<stdout, bg, watchStop, pending, shown>>
vars == <<monitorVars, scene, consoleVars>>

Streams == {"terminal", "console"}
Entries == Buttons \cup {"alert"}
Ready == [pc |-> "idle", job |-> "command", saved |-> "terminal"]

WindowTypeOK ==
    /\ TypeOK
    /\ scene \in Scenes
    /\ stdout \in Streams
    /\ bg \in [Buttons -> [pc : {"idle", "save", "redirect", "work", "failed", "restore"},
                           job : {"command", "watch"}, saved : Streams]]
    /\ watchStop \in BOOLEAN
    /\ pending \subseteq Entries /\ shown \subseteq Entries

Init ==
    /\ scene \in Scenes
    /\ MonitorInit /\ net \in scene.networks
    /\ stdout = "terminal"
    /\ bg = [b \in Buttons |-> Ready]
    /\ watchStop = FALSE
    /\ pending = {} /\ shown = {}

Put(entry) == pending' = pending \cup {entry} /\ shown' = shown \ {entry}
Goto(b, pc) == bg' = [bg EXCEPT ![b].pc = pc]

-----------------------------------------------------------------------------
Press(b) ==
    /\ ui = "ready" /\ "command" \in scene.jobs /\ b \in scene.buttons /\ bg[b].pc = "idle"
    /\ bg' = [bg EXCEPT ![b] = [Ready EXCEPT !.pc = "save"]]
    /\ UNCHANGED <<stdout, watchStop, pending, shown>>

StartWatch(b) ==
    /\ ui = "ready" /\ "watch" \in scene.jobs /\ b \in scene.buttons /\ bg[b].pc = "idle"
    /\ watchStop' = FALSE
    /\ bg' = [bg EXCEPT ![b] = [Ready EXCEPT !.pc = "save", !.job = "watch"]]
    /\ UNCHANGED <<stdout, pending, shown>>

StopWatch ==
    /\ ui = "ready" /\ "watch" \in scene.jobs
    /\ watchStop' = TRUE
    /\ UNCHANGED <<stdout, bg, pending, shown>>

SaveStdout(b) ==
    /\ bg[b].pc = "save"
    /\ bg' = [bg EXCEPT ![b] = [@ EXCEPT !.saved = stdout, !.pc = "redirect"]]
    /\ UNCHANGED <<stdout, watchStop, pending, shown>>

Redirect(b) ==
    /\ bg[b].pc = "redirect"
    /\ stdout' = "console"
    /\ Goto(b, "work")
    /\ UNCHANGED <<watchStop, pending, shown>>

(* A command ends by itself; the watch ends when it meets its event, or at *)
(* once when there is no such file.                                        *)
Finish(b) ==
    /\ bg[b].pc = "work" /\ bg[b].job = "command"
    /\ Goto(b, "restore")
    /\ UNCHANGED <<stdout, watchStop, pending, shown>>

(* mutant: the watch is not given the event *)
FinishWatchNever(b) == FALSE /\ UNCHANGED <<b, consoleVars>>

FinishWatch(b) ==
    /\ bg[b].pc = "work" /\ bg[b].job = "watch" /\ watchStop
    /\ Goto(b, "restore")
    /\ UNCHANGED <<stdout, watchStop, pending, shown>>

NoLogFile(b) ==
    /\ bg[b].pc = "work" /\ bg[b].job = "watch"
    /\ Goto(b, "restore")
    /\ UNCHANGED <<stdout, watchStop, pending, shown>>

(* mutant: it is printed *)
FailByPrint(b) ==
    /\ bg[b].pc = "work"
    /\ IF stdout = "console" THEN Put(b) ELSE UNCHANGED <<pending, shown>>
    /\ Goto(b, "failed")
    /\ UNCHANGED <<stdout, watchStop>>

(* An exception of the button's function goes to log_q, not to sys.stdout. *)
Fail(b) ==
    /\ bg[b].pc = "work"
    /\ Put(b)
    /\ Goto(b, "failed")
    /\ UNCHANGED <<stdout, watchStop>>

Restore(b) ==
    /\ bg[b].pc \in {"restore", "failed"}
    /\ stdout' = bg[b].saved
    /\ bg' = [bg EXCEPT ![b] = Ready]
    /\ UNCHANGED <<watchStop, pending, shown>>

(* _drain_log_queue takes all there is.                                    *)
Drain ==
    /\ ui = "ready" /\ pending # {}
    /\ shown' = shown \cup pending /\ pending' = {}
    /\ UNCHANGED <<stdout, bg, watchStop>>

(* mutant: the monitor's own default, a print *)
AlertedByPrint ==
    IF raised' # None /\ stdout = "console" THEN Put("alert") ELSE UNCHANGED <<pending, shown>>

(* _monitor_alert puts an alert on log_q.                                  *)
Alerted == IF raised' # None THEN Put("alert") ELSE UNCHANGED <<pending, shown>>

ButtonStep(b) == SaveStdout(b) \/ Redirect(b) \/ FinishWatch(b) \/ Restore(b)

Beside(step) == step /\ raised' = None /\ UNCHANGED <<handle, ui, label, mon, net, scene>>
InScene == /\ net' \in scene.networks
           /\ handle' # handle => <<handle', mon'[handle'].tunnel>> \in scene.starts
MonitorMoves == Alerted /\ UNCHANGED <<scene, stdout, bg, watchStop>>

Next ==
    \/ MonitorNext /\ InScene /\ MonitorMoves
    \/ Beside(Drain)
    \/ Beside(StopWatch)
    \/ \E b \in Buttons :
        Beside(Press(b) \/ StartWatch(b) \/ ButtonStep(b) \/ Finish(b)
                  \/ Fail(b) \/ NoLogFile(b))

(* Threads are scheduled, and a join ends.  Drain is strongly fair: it is  *)
(* disabled while a join lasts, and Tk serves a timer that is due between  *)
(* two buttons.  Nothing is assumed of exceptions, nor of the thread of a  *)
(* Tor check or a button's command, which may hang.                        *)
Fairness ==
    /\ WF_vars(JoinReturns /\ MonitorMoves)
    /\ SF_vars(Beside(Drain))
    /\ \A i \in Monitors : WF_vars(LoopStep(i) /\ MonitorMoves)
    /\ \A b \in Buttons : WF_vars(Beside(ButtonStep(b)))

Spec == Init /\ [][Next]_vars /\ Fairness

-----------------------------------------------------------------------------
(* An alert of the monitor appears in the console, whichever buttons are   *)
(* at work, and although a join may hold up the console (gui.py            *)
(* _monitor_alert, _drain_log_queue).                                      *)
AlertIsShown == raised # None ~> "alert" \in shown

(* So does an error of a button, even when another button has turned       *)
(* sys.stdout back to the terminal (gui.py _run_bg).                       *)
ErrorIsShown == \A b \in Buttons : bg[b].pc = "failed" ~> b \in shown

(* Stop ends every access-log watch, unless a new one is started before    *)
(* they look (gui.py _start_log_watch, anti_recon.py                       *)
(* watch_http_access_log).                                                 *)
WatchIsStopped ==
    \A b \in Buttons :
        (watchStop /\ bg[b].job = "watch") ~> (~watchStop \/ bg[b].pc = "idle")

(* While a button's function runs, what it prints goes to the console.     *)
(* Violated when two buttons overlap (gui.py _run_bg).                     *)
OutputIsShown == \A b \in Buttons : bg[b].pc = "work" => stdout = "console"
=============================================================================
