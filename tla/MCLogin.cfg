SPECIFICATION LiveSpec
CONSTANTS
    Tor = FALSE
    MaxDrops = 2
    MaxSwitches = 2
INVARIANTS TypeOK StatusSettles EarlyEndIsOffline NoneLeftDisconnecting
PROPERTIES LossesAreMended
CHECK_DEADLOCK FALSE
