----------------------------- MODULE MCStateFile -----------------------------
(* StateFile on two fields, two values and a few threads. *)
EXTENDS StateFile, TLC

MCDefault == [k \in Keys |-> "off"]
MCKwargs  == {("tor" :> "on"), ("tor" :> "off"), ("scan" :> "on")}
MCSaves   == {MCDefault}
MCTexts   == {MCDefault, <<>>, "tor" :> "on", Junk}

OneProcess == [t \in Threads |-> "gui"]
TwoProcesses == [t \in Threads |-> IF t = "t1" THEN "gui" ELSE "cli"]
=============================================================================
