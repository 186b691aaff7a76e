----------------------------- MODULE SendGroup -----------------------------
(* What OTROMEMOSignalCoordinator promises of a message it is asked to       *)
(* encrypt, whatever the server, the module and the device lists do          *)
(* underneath: the message enters a group once for each of its preparations, *)
(* they leave it one by one and for good, and the message is answered for    *)
(* once, when the last has left.                                             *)
CONSTANTS
    Send,   \* messages
    Parts   \* [Send -> set]: the preparations each message needs

VARIABLES
    state,  \* each message: "new" | "preparing" | an answer
    group   \* the preparations of each message that have not left

vars == <<state, group>>

Answers == {"sent", "failed", "dropped"}

Init ==
    /\ state = [s \in Send |-> "new"]
    /\ group = [s \in Send |-> {}]

\* The message's preparations begin, all together.
Enter(s) ==
    /\ state[s] = "new"
    /\ state' = [state EXCEPT ![s] = "preparing"]
    /\ group' = [group EXCEPT ![s] = Parts[s]]

\* A message for nobody fails at once.
Refuse(s) ==
    /\ state[s] = "new"
    /\ state' = [state EXCEPT ![s] = "failed"]
    /\ UNCHANGED group

Leave(s) ==
    /\ state[s] = "preparing"
    /\ \E c \in group[s] : group' = [group EXCEPT ![s] = @ \ {c}]
    /\ UNCHANGED state

\* Everything is there: the message is encrypted and sent, or it is not.
Answer(s) ==
    /\ state[s] = "preparing" /\ group[s] = {}
    /\ \E a \in Answers : state' = [state EXCEPT ![s] = a]
    /\ UNCHANGED group

Next == \E s \in Send : Enter(s) \/ Refuse(s) \/ Leave(s) \/ Answer(s)

Spec == Init /\ [][Next]_vars
=============================================================================
