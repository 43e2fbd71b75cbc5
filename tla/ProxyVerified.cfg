CONSTANTS
    Threads = {"cli"}
    None = None
    Machines <- ProxyAlone
SPECIFICATION Spec
INVARIANTS OnVerifies
