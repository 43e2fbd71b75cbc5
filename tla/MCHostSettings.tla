--------------------------- MODULE MCHostSettings ---------------------------
(* HostSettings, one part at a time, and full_start beside a second thread *)
(* that changes the same interface.                                        *)
EXTENDS HostSettings

One(ops) == [plans |-> [t \in Threads |-> IF t = "one" THEN {<<op>> : op \in ops} ELSE {}],
             mayEnd |-> TRUE]

FourScenes ==
    { One({"sysctlsOn", "sysctlsOff"}),
      One({"openvpnOn", "openvpnOff", "wireguardOn", "wireguardOff"}),
      One({"hookOn", "hookOff", "mac"}),
      [plans |-> [t \in Threads |-> IF t = "one" THEN {FullStart, <<"mac">>} ELSE {<<"mac">>}],
       mayEnd |-> FALSE] }
=============================================================================
