------------------------------ MODULE MCWindow ------------------------------
(* Window with four networks: as it should be; an exit that is not Tor's   *)
(* with a resolver of its own; Tor out of reach; no connection.            *)
EXTENDS Window, TLC

Good   == [ip |-> "exit", exit |-> "tor", resolver |-> "local"]
Leaky  == [ip |-> "home", exit |-> "plain", resolver |-> "foreign"]
NoTor  == [ip |-> "home", exit |-> "error", resolver |-> "local"]
NoLink == [ip |-> None, exit |-> "error", resolver |-> "local"]

AllNetworks == {Good, Leaky, NoTor, NoLink}

(* The network changes at will under a monitor that is stopped and started *)
(* again; two buttons overlap beside a monitor without a connection; two   *)
(* buttons, either of them a watch, overlap.                               *)
ThreeScenes ==
    {[buttons |-> {}, jobs |-> {}, starts |-> Monitors \X BOOLEAN, networks |-> AllNetworks],
     [buttons |-> Buttons, jobs |-> {"command"}, starts |-> {<<"old", TRUE>>}, networks |-> {NoLink}],
     [buttons |-> Buttons, jobs |-> {"command", "watch"}, starts |-> {}, networks |-> {Good}]}
=============================================================================
