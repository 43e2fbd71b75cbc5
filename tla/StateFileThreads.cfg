CONSTANTS
    Keys = {"tor", "scan"}
    Values = {"off", "on"}
    Threads = {"t1", "t2"}
    Procs = {"gui"}
    Inodes = {1, 2}
    Pending = Pending
    Raised = Raised
    NoFile = NoFile
    Free = Free
    Junk = Junk
    Default <- MCDefault
    Kwargs <- MCKwargs
    Saves <- MCSaves
    InitialTexts <- MCTexts
    ProcOf <- OneProcess
SPECIFICATION FairSpec
INVARIANTS TypeOK InFlight
PROPERTIES NeverHalfWritten Atomic LockIsReleased
