SPECIFICATION Spec
CONSTANTS
    m1 = m1  m2 = m2  g1 = g1  r1 = r1  buddy = buddy   room = room  acct = acct
    None = None
    Item = {m1, m2}
    Queue = {buddy}
    Room = {}
    OTRBuddies = {buddy}
    Account = {acct}
    Autologin = {acct}
    QueueOf <- MCQueueOf
    AccountOf <- MCAccountOf
    Date <- MCDate
    Kinds <- MCOTRKinds
    Blanks = {}
    LocalDisable = FALSE
    MaxNotices = 1
    MaxTimers = 1
INVARIANTS TypeOK OneHolder NoneForgotten OTRWaitHasTimer SentOncePerLaunch OTRNeverClear
PROPERTIES KeepsPromise
CHECK_DEADLOCK FALSE
