CONSTANTS
    Threads = {"cli"}
    None = None
    Machines <- TorAlone
SPECIFICATION Spec
INVARIANTS TorReachesRelays
