CONSTANTS
    Threads = {"first", "second"}
    None = None
    Machines <- TorAlone
SPECIFICATION Spec
INVARIANTS AllOrNothing
