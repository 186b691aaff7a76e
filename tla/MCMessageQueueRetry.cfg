SPECIFICATION LiveSpec
CONSTANTS
    m1 = m1  m2 = m2  g1 = g1  r1 = r1  buddy = buddy   room = room  acct = acct
    None = None
    Item = {m1, r1}
    Queue = {buddy}
    Room = {}
    OTRBuddies = {}
    Account = {acct}
    Autologin = {}
    QueueOf <- MCRetryQueueOf
    AccountOf <- MCAccountOf
    Date <- MCDate
    Kinds <- MCRetryKinds
    Blanks = {m1, r1}
    LocalDisable = FALSE
    MaxNotices = 1
    MaxTimers = 1
PROPERTIES StableLoginDelivers
CHECK_DEADLOCK FALSE
