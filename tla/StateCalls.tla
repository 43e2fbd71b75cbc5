----------------------------- MODULE StateCalls -----------------------------
(***************************************************************************)
(* The values privacyguard/state.py works on and the calls it accepts:     *)
(* shared by what the module promises (StateStore) and what it does        *)
(* (StateFile).                                                            *)
(***************************************************************************)
CONSTANTS
    Keys, Values, Default,   \* DEFAULT_STATE: its fields and what they hold
    Threads,
    Kwargs,                  \* the keyword arguments update is called with
    Saves,                   \* the dicts save is called with
    Pending, Raised          \* a call under way; a call that did not return

States == [Keys -> Values]

(* Documents a state file may hold: any of the fields may be missing, as in *)
(* a file an older version wrote.                                           *)
Docs == UNION {[K -> Values] : K \in SUBSET Keys}

ASSUME DefaultAssumption == Default \in States
ASSUME CallAssumption    == Kwargs \subseteq Docs /\ Saves \subseteq States
ASSUME ReturnAssumption  == Pending \notin States /\ Raised \notin States /\ Pending # Raised

MergeDropsFields(s, d) == d   \* mutant: the file's fields only
(* dict.update: the fields of d replace those of s. *)
Merge(s, d) == [k \in Keys |-> IF k \in DOMAIN d THEN d[k] ELSE s[k]]

(* The three public operations of the module; load takes no argument. *)
Calls == [op : {"load"}, arg : {Default}]
           \cup [op : {"update"}, arg : Kwargs]
           \cup [op : {"save"}, arg : Saves]
=============================================================================
