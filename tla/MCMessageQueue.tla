--------------------------- MODULE MCMessageQueue ---------------------------
(* Small instances of MessageQueue: messages m1 and m2 of one buddy, a       *)
(* group message g1, and a roster change r1.                                      *)
EXTENDS MessageQueue

CONSTANTS m1, m2, g1, r1, buddy, room, acct

MCQueueOf   == [i \in Item |-> IF i = g1 THEN room ELSE buddy]
MCAccountOf == [q \in Queue |-> acct]
MCDate      == [i \in Item |-> IF i = m2 THEN 2 ELSE 1]

\* Two messages to one buddy that need its OTR session.
MCOTRKinds  == [i \in Item |-> {"OTR"}]
\* Everything else: a direct message or roster change beside a group message.
MCMixKinds  == [i \in Item |-> IF i = g1 THEN {"plaintext", "OMEMO"}
                                         ELSE Kind \ {"OTR"}]
\* A message or roster change of any kind.
MCLiveKinds == [i \in Item |-> Kind]
\* A plain message and a roster change of the same buddy.
MCRetryQueueOf == [i \in Item |-> buddy]
MCRetryKinds   == [i \in Item |-> IF i = r1 THEN {"roster"} ELSE {"plaintext"}]
=============================================================================
