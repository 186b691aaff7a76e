SPECIFICATION LiveSpec
CONSTANTS
    N = 2
    OMEMO = {2}
    WithId = {1, 2}
    Room = {r}
    Acct = acct
    MaxLogins = 2
INVARIANTS TypeOK StoredOnce FetchedIsStored
PROPERTIES DueIsStored NoneDropped
CHECK_DEADLOCK FALSE
