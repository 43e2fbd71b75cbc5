----------------------------- MODULE StateStore -----------------------------
(***************************************************************************)
(* What privacyguard/state.py promises its callers: the record of what is  *)
(* switched on is one value, every load() returns it whole, and every      *)
(* update() replaces the named fields of the newest value and nothing      *)
(* else, in one step.  A call that raises or is killed changes nothing.    *)
(* A call that cannot read the record takes the defaults for it.           *)
(***************************************************************************)
EXTENDS StateCalls

VARIABLES store, call, ret,
          blind   \* the threads whose latest call could not read the record
vars == <<store, call, ret, blind>>

TypeOK ==
    /\ store \in States
    /\ call \in [Threads -> Calls]
    /\ ret \in [Threads -> States \cup {Pending, Raised}]
    /\ blind \subseteq Threads

Init ==
    /\ store \in States
    /\ call \in [Threads -> {[op |-> "load", arg |-> Default]}]
    /\ ret = [t \in Threads |-> Raised]
    /\ blind = {}

Request(t, c) ==
    /\ ret[t] # Pending
    /\ call' = [call EXCEPT ![t] = c]
    /\ ret' = [ret EXCEPT ![t] = Pending]
    /\ blind' = blind \ {t}
    /\ UNCHANGED store

(* What the call returns when it has seen s. *)
Outcome(t, s) == CASE call[t].op = "load"   -> s
                   [] call[t].op = "update" -> Merge(s, call[t].arg)
                   [] call[t].op = "save"   -> call[t].arg

(* A read that fails, at the latest when the call is performed. *)
Misread(t) ==
    /\ ret[t] = Pending
    /\ blind' = blind \cup {t}
    /\ UNCHANGED <<store, call, ret>>

Perform(t) ==
    /\ ret[t] = Pending
    /\ blind' \in {blind, blind \cup {t}}
    /\ ret' = [ret EXCEPT ![t] = Outcome(t, IF t \in blind' THEN Default ELSE store)]
    /\ store' = IF call[t].op = "load" THEN store ELSE ret'[t]
    /\ UNCHANGED call

(* Calls that raise, or die with their process, all at once. *)
Abort(T) ==
    /\ ret' = [t \in Threads |-> IF t \in T /\ ret[t] = Pending THEN Raised ELSE ret[t]]
    /\ UNCHANGED <<store, call, blind>>

Next ==
    \/ \E t \in Threads : Misread(t) \/ Perform(t) \/ \E c \in Calls : Request(t, c)
    \/ \E T \in SUBSET Threads : Abort(T)

Spec == Init /\ [][Next]_vars
=============================================================================
