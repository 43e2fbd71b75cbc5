----------------------------- MODULE MCTopology -----------------------------
(* Topology with three slots, wired in any way that has an adapter at all, *)
(* as a machine has on which an operating system was installed.            *)
EXTENDS Topology, TLC

AnyAdapters == {a \in [Slots -> {"none", "external"}] : \E s \in Slots : a[s] # "none"}
=============================================================================
