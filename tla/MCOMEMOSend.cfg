SPECIFICATION LiveSpec
CONSTANTS
    b = b  me = me  x = x  y = y  mine = mine  laptop = laptop  s1 = s1  s2 = s2
    None = None
    Send = {s1, s2}
    Party = {b, me}
    Me = me
    Device = {x, mine}
    Mine = mine
    PartyOf <- MCPartyOf
    BuddyKeys <- MCBuddyKeys
    Lists <- MCLists
    MaxPushes = 1
INVARIANTS TypeOK OnlyOverlapStrands PreparedMeansSession
PROPERTIES KeepsGroups EverySendEnds
CHECK_DEADLOCK FALSE
