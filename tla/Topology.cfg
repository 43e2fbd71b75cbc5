CONSTANTS
    Slots = {1, 2, 3}
    FirstAdapters <- AnyAdapters
    None = None
SPECIFICATION Spec
INVARIANTS TypeOK WiredCheckIsSound NoFalseAlarm
