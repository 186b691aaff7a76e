SPECIFICATION Spec
CONSTANTS
    m1 = m1  m2 = m2  g1 = g1  r1 = r1  buddy = buddy   room = room  acct = acct
    None = None
    Item = {m1, g1}
    Queue = {buddy, room}
    Room = {room}
    OTRBuddies = {}
    Account = {acct}
    Autologin = {acct}
    QueueOf <- MCQueueOf
    AccountOf <- MCAccountOf
    Date <- MCDate
    Kinds <- MCMixKinds
    Blanks = {m1}
    LocalDisable = FALSE
    MaxNotices = 1
    MaxTimers = 1
INVARIANTS AnswerComing NoSilentLoss SentWasAccepted
CHECK_DEADLOCK FALSE
