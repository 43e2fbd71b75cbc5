CONSTANTS
    Threads = {"tor", "scan"}
    None = None
    Machines <- Disturbed
SPECIFICATION Spec
INVARIANTS TorFlagIsTrue OneSwitch V6OnlyWithSwitch
PROPERTIES RecordedOnceApplied BackupKept
CHECK_DEADLOCK FALSE
