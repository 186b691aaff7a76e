SPECIFICATION LiveSpec
CONSTANTS
    login = login  d1 = d1  d2 = d2  g1 = g1  g2 = g2  s1 = s1  s2 = s2
    Stanza = {login, d1, g1, g2, s1}
    KindOf <- MCKindOf
INVARIANTS TypeOK OnlyThisCircle
PROPERTIES HandledUnlessCircle
CHECK_DEADLOCK FALSE
