CONSTANTS
    Threads = {"one", "two"}
    None = None
    Keys = {"icmp", "tcp"}
    Values = {"0", "1"}
    Hardened = "1"
    Daemons = {"p1", "p2"}
    Interfaces = {"wg0", "wg1"}
    Scenes <- FourScenes
SPECIFICATION FairSpec
INVARIANTS HostTypeOK SysctlsRestored VpnUnderControl LinkComesBack HookIsWhole
PROPERTIES StartGoesOn
