------------------------------- MODULE Outbox -------------------------------
(* What the message queue promises, whatever logins, sessions, encryption,  *)
(* timers and the stream do underneath: each queue works on one action at a *)
(* time, only the action being worked on reaches the stream, at most once   *)
(* in a launch, and an action is never tried again after that.              *)
EXTENDS Naturals

CONSTANTS Item, Queue, None, QueueOf

VARIABLES
    written,    \* items ever created
    queued,     \* items whose action is in the database
    working,    \* the item each queue works on, or None
    taken       \* items the stream took since launch

vars == <<written, queued, working, taken>>

Init ==
    /\ written = {} /\ queued = {} /\ taken = {}
    /\ working = [q \in Queue |-> None]

Write(i) ==
    /\ i \notin written
    /\ written' = written \cup {i} /\ queued' = queued \cup {i}
    /\ UNCHANGED <<working, taken>>

\* An action disappears with its message, even while it is being worked on.
Withdraw(i) ==
    /\ i \in queued
    /\ queued' = queued \ {i}
    /\ UNCHANGED <<written, working, taken>>

Take(q) ==
    /\ working[q] = None
    /\ \E i \in queued \ taken :
          /\ QueueOf[i] = q
          /\ working' = [working EXCEPT ![q] = i]
    /\ UNCHANGED <<written, queued, taken>>

Send(i) ==
    /\ working[QueueOf[i]] = i /\ i \notin taken
    /\ taken' = taken \cup {i}
    /\ UNCHANGED <<written, queued, working>>

\* The action is over: sent, failed, or its message gone.
Finish(q) ==
    /\ working[q] # None
    /\ working' = [working EXCEPT ![q] = None]
    /\ queued' = queued \ {working[q]}
    /\ UNCHANGED <<written, taken>>

\* The action is to be tried again later.
PutBack(q) ==
    /\ working[q] # None /\ working[q] \notin taken
    /\ working' = [working EXCEPT ![q] = None]
    /\ UNCHANGED <<written, queued, taken>>

Relaunch ==
    /\ working' = [q \in Queue |-> None] /\ taken' = {}
    /\ UNCHANGED <<written, queued>>

Next ==
    \/ \E i \in Item : Write(i) \/ Withdraw(i) \/ Send(i)
    \/ \E q \in Queue : Take(q) \/ Finish(q) \/ PutBack(q)
    \/ Relaunch

Spec == Init /\ [][Next]_vars
=============================================================================
