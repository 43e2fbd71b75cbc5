CONSTANTS
    Sources = {"scanner", "visitor"}
    Log = "log"
    Ports = {1, 2, 3}
    Window = 2
    PortThreshold = 3
    BurstThreshold = 3
    Jumps = {1, 2}
    MaxSteps = 7
SPECIFICATION Spec
INVARIANTS AlertIsScan ScanIsSeen
