-------------------------- MODULE MCStorageQueues --------------------------
(* A login, two direct messages, two group messages from an archive and two  *)
(* room subjects, delivered in any order.                                    *)
EXTENDS StorageQueues

CONSTANTS login, d1, d2, g1, g2, s1, s2

MCKindOf == [s \in Stanza |-> CASE s = login       -> "login"
                                [] s \in {d1, d2} -> "direct"
                                [] s \in {g1, g2} -> "roomResult"
                                [] s \in {s1, s2} -> "subject"]
=============================================================================
