SPECIFICATION Spec
CONSTANTS
    None = None
    Periods = {9, 10, 11}
    MaxEvents = 2
INVARIANTS TypeOK TokenLastsFromResync
PROPERTIES FreshAfterReconcile AccessSettles
CHECK_DEADLOCK FALSE
