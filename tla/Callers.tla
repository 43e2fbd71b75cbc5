------------------------------- MODULE Callers -------------------------------
(***************************************************************************)
(* The threads that run PrivacyGuard's operations on the host, one step at *)
(* a time: a button's thread (gui.py _run_bg) or the command line.  A plan *)
(* is what a thread was asked to run; its operations are done from the     *)
(* head.                                                                   *)
(***************************************************************************)
EXTENDS Sequences

CONSTANTS
    Threads,
    None     \* JSON's null, a file that is not there, a value that was not read

VARIABLES
    plan,    \* what each thread has left to run
    pc,      \* where each thread is
    unsaved  \* history: the threads whose latest plan a call of state.py ended

callers == <<plan, pc, unsaved>>

AllIdle ==
    /\ plan = [t \in Threads |-> <<>>] /\ pc = [t \in Threads |-> "idle"]
    /\ unsaved = {}

Called(t, op) == plan[t] # <<>> /\ Head(plan[t]) = op /\ pc[t] = "called"
At(t, label) == pc[t] = label
Goto(t, label) == pc' = [pc EXCEPT ![t] = label] /\ UNCHANGED <<plan, unsaved>>

ReturnIdle(t) ==   \* mutant: to the button, whatever the plan has left
    /\ plan' = [plan EXCEPT ![t] = Tail(@)]
    /\ pc' = [pc EXCEPT ![t] = "idle"]
    /\ UNCHANGED unsaved
Return(t) ==
    /\ plan' = [plan EXCEPT ![t] = Tail(@)]
    /\ pc' = [pc EXCEPT ![t] = IF Tail(plan[t]) = <<>> THEN "idle" ELSE "called"]
    /\ UNCHANGED unsaved

(* An exception that nothing catches ends the whole plan; one of them is   *)
(* that of a state file that cannot be looked for or written.              *)
End(t) ==
    /\ plan' = [plan EXCEPT ![t] = <<>>]
    /\ pc' = [pc EXCEPT ![t] = "idle"]
Raise(t) == End(t) /\ UNCHANGED unsaved
RaiseUnsaved(t) == End(t) /\ unsaved' = unsaved \cup {t}

Ask(t, p) ==
    /\ pc[t] = "idle"
    /\ plan' = [plan EXCEPT ![t] = p]
    /\ pc' = [pc EXCEPT ![t] = "called"]
    /\ unsaved' = unsaved \ {t}
=============================================================================
