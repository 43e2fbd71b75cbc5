CONSTANTS
    Threads = {"cli"}
    None = None
    Machines <- Sequence
SPECIFICATION Spec
INVARIANTS ScanFlagIsTrue
