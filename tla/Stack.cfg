SPECIFICATION Spec
CONSTANTS
    None = None
    Parts = 2
    Updated = {2}
    MaxUid = 2
    MaxEdit = 1
    MaxRelease = 2
    MaxLag = 2
    MaxRestarts = 2
    MaxFaults = 2
INVARIANTS TypeOK StackUnderFinalizer AdapterIsEquipped RestIsSettled
PROPERTIES DeletionCompletes StackSettles
CHECK_DEADLOCK FALSE
