---------------------------- MODULE StorageQueues ----------------------------
(***************************************************************************)
(* The three serial queues that store what the stream receives, and the     *)
(* calls among them that wait for an answer.  MessageStorage's transactions *)
(* ask its module queue for mamCatchupInProgress; its module queue asks the *)
(* room manager for a room; the room manager's queue runs transactions and  *)
(* waits for them.  performBlock is dispatch_sync from another queue: the   *)
(* block takes its turn behind whatever that queue has to do, and the       *)
(* caller's queue stands still until then.                                  *)
(*                                                                          *)
(* What the work is about is ArchiveCatchup's matter; here it only matters  *)
(* which queue does it and which queue it waits for.                        *)
(*                                                                          *)
(* The operators named for what goes wrong in them (RunBlockCounted,        *)
(* RoomTransactionOnOwnQueue) are faulty variants of the operator that      *)
(* follows them.  No action uses them.                                      *)
(***************************************************************************)
EXTENDS Naturals, Sequences

CONSTANTS
    Stanza,     \* what the stream delivers, each once
    KindOf      \* [Stanza -> Kind]

\* A login; a direct message; a group message from a room's archive; the
\* subject of a room, which comes with every join.
Kind == {"login", "direct", "roomResult", "subject"}

ASSUME KindsGiven == KindOf \in [Stanza -> Kind]

Queue == {"messages", "rooms", "database"}

VARIABLES
    arrived,    \* stanzas the stream has delivered
    queue,      \* [Queue -> Seq(Task)], the first being run
    phase,      \* [Queue -> ...] how far that task is
    done        \* stanzas handled to the end: saved, asked for, noted

vars == <<arrived, queue, phase, done>>

\* Work on a stanza, or a block that another queue waits for.
Task == [kind : {"stanza"}, of : Stanza] \cup [kind : {"block"}, of : Queue]

TypeOK ==
    /\ arrived \subseteq Stanza /\ done \subseteq arrived
    /\ queue \in [Queue -> Seq(Task)]
    /\ phase \in [Queue -> {"start", "waiting", "answered"}]

Init ==
    /\ arrived = {} /\ done = {}
    /\ queue = [q \in Queue |-> <<>>]
    /\ phase = [q \in Queue |-> "start"]

\* Queue q is at point p of work on a stanza of one of these kinds.
At(q, p, kinds) ==
    /\ queue[q] # <<>> /\ phase[q] = p
    /\ Head(queue[q]).kind = "stanza" /\ KindOf[Head(queue[q]).of] \in kinds

Work(q) == Head(queue[q])

\* q asks another queue to run a block, and waits for it.
WaitFor(q, other) ==
    /\ queue' = [queue EXCEPT ![other] = Append(@, [kind |-> "block", of |-> q])]
    /\ phase' = [phase EXCEPT ![q] = "waiting"]
    /\ UNCHANGED <<arrived, done>>

\* q is finished with its task and passes the stanza on.
PassOn(q, other) ==
    /\ queue' = [queue EXCEPT ![q] = Tail(@), ![other] = Append(@, Work(q))]
    /\ phase' = [phase EXCEPT ![q] = "start"]
    /\ UNCHANGED <<arrived, done>>

\* q is finished with its task, and that was all.
Finish(q) ==
    /\ queue' = [queue EXCEPT ![q] = Tail(@)]
    /\ phase' = [phase EXCEPT ![q] = "start"]
    /\ done' = done \cup {Work(q).of}
    /\ UNCHANGED arrived

-----------------------------------------------------------------------------
\* The stream calls its delegates, each on its own queue; a login concerns both.
Deliver(s) ==
    /\ s \notin arrived
    /\ arrived' = arrived \cup {s}
    /\ LET For(q) == CASE q = "messages" -> KindOf[s] # "subject"
                       [] q = "rooms"    -> KindOf[s] \in {"login", "subject"}
                       [] q = "database" -> FALSE
       IN  queue' = [q \in Queue |-> IF For(q) THEN Append(queue[q], [kind |-> "stanza", of |-> s])
                                               ELSE queue[q]]
    /\ UNCHANGED <<phase, done>>

\* A block is counted like a stanza.
RunBlockCounted(q) ==
    /\ queue[q] # <<>> /\ Work(q).kind = "block"
    /\ queue' = [queue EXCEPT ![q] = Tail(@)]
    /\ phase' = [phase EXCEPT ![Work(q).of] = "answered"]
    /\ done' = done \cup {Work(q).of}
    /\ UNCHANGED arrived

\* performBlock's block is run, and its caller goes on.
RunBlock(q) ==
    /\ queue[q] # <<>> /\ Work(q).kind = "block"
    /\ queue' = [queue EXCEPT ![q] = Tail(@)]
    /\ phase' = [phase EXCEPT ![Work(q).of] = "answered"]
    /\ UNCHANGED <<arrived, done>>

(* MessageStorage on its module queue *)

\* xmppStreamDidAuthenticate and handleDirectMessage ask for a transaction.
RequestTransaction ==
    /\ At("messages", "start", {"login", "direct"})
    /\ PassOn("messages", "database")

\* handleForwardedMessage: roomManager.room(for:), then the room's storage asks
\* for a transaction.
LookUpRoom ==
    /\ At("messages", "start", {"roomResult"})
    /\ WaitFor("messages", "rooms")

InsertIncoming ==
    /\ At("messages", "answered", {"roomResult"})
    /\ PassOn("messages", "database")

(* The room manager on its module queue *)

\* performBlock without its check for the queue it is on
RoomTransactionOnOwnQueue ==
    /\ At("rooms", "start", {"login", "subject"})
    /\ WaitFor("rooms", "rooms")

\* Joining rooms after a login, and noting a subject, run transactions and wait.
RoomTransaction ==
    /\ At("rooms", "start", {"login", "subject"})
    /\ WaitFor("rooms", "database")

RoomDone ==
    \/ /\ At("rooms", "answered", {"login"})
       /\ queue' = [queue EXCEPT !["rooms"] = Tail(@)]
       /\ phase' = [phase EXCEPT !["rooms"] = "start"]
       /\ UNCHANGED <<arrived, done>>
    \/ At("rooms", "answered", {"subject"}) /\ Finish("rooms")

(* Transactions *)

\* updateLastFetch reads mamCatchupInProgress, the catch-up sets it.
TouchCatchupFlag ==
    /\ At("database", "start", {"login", "direct"})
    /\ WaitFor("database", "messages")

TransactionDone ==
    \/ At("database", "answered", {"login", "direct"}) /\ Finish("database")
    \/ At("database", "start", {"roomResult"}) /\ Finish("database")

Messages == RequestTransaction \/ LookUpRoom \/ InsertIncoming \/ RunBlock("messages")
Rooms    == RoomTransaction \/ RoomDone \/ RunBlock("rooms")
Database == TouchCatchupFlag \/ TransactionDone \/ RunBlock("database")

Next == (\E s \in Stanza : Deliver(s)) \/ Messages \/ Rooms \/ Database

Spec == Init /\ [][Next]_vars

\* Each queue has a thread to run it.
LiveSpec == Spec /\ WF_vars(Messages) /\ WF_vars(Rooms) /\ WF_vars(Database)

-----------------------------------------------------------------------------
(* Properties                                                               *)

Waiting(q) == queue[q] # <<>> /\ phase[q] = "waiting"

\* The block that q waits for is on the queue named.
WaitsFor(q, other) ==
    Waiting(q) /\ \E k \in DOMAIN queue[other] : queue[other][k] = [kind |-> "block", of |-> q]

\* The work in which each queue calls another.
Calls(q) == CASE q = "messages" -> {"roomResult"}
              [] q = "rooms"    -> {"login", "subject"}
              [] q = "database" -> {"login", "direct"}

\* All three queues wait for each other: the message storage in a group message
\* from an archive, the room manager in a login or a subject, the database in a
\* login or a direct message.
Circle ==
    /\ \A q \in Queue : At(q, "waiting", Calls(q))
    /\ WaitsFor("messages", "rooms") /\ WaitsFor("rooms", "database")
    /\ WaitsFor("database", "messages")

\* If everything that has work to do waits, it waits in that one circle, and so
\* never without a group message from an archive: no other combination of the
\* calls can stop the storage.
OnlyThisCircle ==
    (\E q \in Queue : Waiting(q)) /\ (\A q \in Queue : queue[q] # <<>> => Waiting(q)) => Circle

\* Every stanza is handled to the end, unless the circle closes.
HandledUnlessCircle == \A s \in Stanza : s \in arrived ~> (s \in done \/ Circle)

=============================================================================
