---------------------------- MODULE MCOMEMOSend ----------------------------
(* Small instances of OMEMOSend: messages s1 and s2 to the buddy b, which has *)
(* devices x and y; the account has this device and a laptop.               *)
EXTENDS OMEMOSend

CONSTANTS b, me, x, y, mine, laptop, s1, s2

MCPartyOf   == [d \in Device |-> IF d \in {mine, laptop} THEN me ELSE b]
MCBuddyKeys == [s \in Send |-> <<b>>]
\* The buddy's list as pushed, and an answer may also be empty; the account's
\* list was deleted, by another client.
MCLists == [p \in Party |-> IF p = b THEN {{x, y} \cap Device} ELSE {{laptop} \cap Device}]
=============================================================================
