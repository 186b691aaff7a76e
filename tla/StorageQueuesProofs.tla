------------------------ MODULE StorageQueuesProofs ------------------------
(* Proofs about StorageQueues, for any stanzas of any kinds.                 *)
(*                                                                          *)
(* A queue that waits has its block on the queue it waits for (WaitsInLine), *)
(* and each queue waits for one other only, so following the blocks from a  *)
(* waiting queue leads round the circle.  Each waits in work that makes its *)
(* call (WaitsAtWork), and for the message storage there is only one such.  *)
EXTENDS StorageQueues, QueueLemmas

USE KindsGiven

\* The queue that q's calls go to.
Callee(q) == CASE q = "messages" -> "rooms"
               [] q = "rooms"    -> "database"
               [] q = "database" -> "messages"

BlockOf(q) == [kind |-> "block", of |-> q]

\* Only delivered stanzas are worked on.
QueuedArrived ==
    \A q \in Queue : \A k \in DOMAIN queue[q] :
        queue[q][k].kind = "stanza" => queue[q][k].of \in arrived

WaitsInLine ==
    \A q \in Queue : phase[q] = "waiting" =>
        \E k \in DOMAIN queue[Callee(q)] : queue[Callee(q)][k] = BlockOf(q)

-----------------------------------------------------------------------------
(* The ways a queue moves on                                                *)

QInv == TypeOK /\ QueuedArrived /\ WaitsInLine

\* Tasks and points of work, as the lemmas need them.
LEMMA TaskKinds ==
    /\ \A t \in Task : \/ t.kind = "stanza" /\ t.of \in Stanza
                       \/ t.kind = "block" /\ t.of \in Queue
    /\ \A q \in Queue : BlockOf(q) \in Task /\ Callee(q) \in Queue
BY DEF Task, BlockOf, Callee, Queue

\* Waiting for another queue puts a block there.
LEMMA WaitForKeeps ==
    ASSUME QInv, NEW q \in Queue, WaitFor(q, Callee(q))
    PROVE  QInv'
<1> DEFINE o == Callee(q)
<1>1. /\ o \in Queue /\ BlockOf(q) \in Task
      /\ queue \in [Queue -> Seq(Task)] /\ queue[o] \in Seq(Task)
  BY TaskKinds DEF QInv, TypeOK
<1>2. /\ queue' = [queue EXCEPT ![o] = Append(@, BlockOf(q))]
      /\ phase' = [phase EXCEPT ![q] = "waiting"]
      /\ UNCHANGED <<arrived, done>>
  BY DEF WaitFor, BlockOf
<1> HIDE DEF o
<1>3. /\ queue'[o] = Append(queue[o], BlockOf(q))
      /\ \A p \in Queue \ {o} : queue'[p] = queue[p]
  BY <1>1, <1>2
<1>4. TypeOK'
  BY <1>1, <1>2, <1>3, Appended DEF QInv, TypeOK
<1>5. QueuedArrived'
  <2>1. SUFFICES ASSUME NEW p \in Queue, NEW k \in DOMAIN queue'[p], queue'[p][k].kind = "stanza"
                 PROVE  queue'[p][k].of \in arrived
    BY <1>2 DEF QueuedArrived
  <2>2. CASE p # o
    BY <1>3, <2>1, <2>2 DEF QInv, QueuedArrived
  <2>3. CASE p = o
    <3>1. DOMAIN queue'[o] = DOMAIN queue[o] \cup {Len(queue[o]) + 1}
      BY <1>1, <1>3, Appended
    <3>2. queue'[o][Len(queue[o]) + 1].kind = "block"
      BY <1>1, <1>3, Appended DEF BlockOf
    <3>3. \A j \in DOMAIN queue[o] : queue'[o][j] = queue[o][j]
      BY <1>1, <1>3, Appended
    <3> QED BY <1>1, <2>1, <2>3, <3>1, <3>2, <3>3 DEF QInv, QueuedArrived
  <2> QED BY <2>2, <2>3
<1>6. WaitsInLine'
  <2>1. SUFFICES ASSUME NEW p \in Queue, phase'[p] = "waiting"
                 PROVE  \E k \in DOMAIN queue'[Callee(p)] : queue'[Callee(p)][k] = BlockOf(p)
    BY DEF WaitsInLine
  <2>2. CASE p = q
    BY <1>1, <1>3, <2>2, Appended DEF o
  <2>3. CASE p # q
    <3>1. phase[p] = "waiting"
      BY <1>2, <2>1, <2>3 DEF QInv, TypeOK
    <3>2. PICK k \in DOMAIN queue[Callee(p)] : queue[Callee(p)][k] = BlockOf(p)
      BY <3>1 DEF QInv, WaitsInLine
    <3>3. k \in DOMAIN queue'[Callee(p)] /\ queue'[Callee(p)][k] = queue[Callee(p)][k]
      <4>1. CASE Callee(p) = o
        <5>1. k \in DOMAIN queue[o]
          BY <3>2, <4>1
        <5>2. k \in DOMAIN queue'[o] /\ queue'[o][k] = queue[o][k]
          BY <1>1, <1>3, <5>1, Appended
        <5> QED BY <4>1, <5>2
      <4>2. CASE Callee(p) # o
        BY <1>3, <3>2, <4>2, TaskKinds
      <4> QED BY <4>1, <4>2
    <3> QED BY <3>2, <3>3
  <2> QED BY <2>2, <2>3
<1> QED BY <1>4, <1>5, <1>6 DEF QInv

\* A stanza leaves q: it goes to the end of another queue or nowhere.  A block
\* that someone waits for is behind it and moves up.
LEMMA LeavingKeeps ==
    ASSUME QInv, NEW q \in Queue, queue[q] # <<>>, Work(q).kind = "stanza",
           phase' = [phase EXCEPT ![q] = "start"], arrived' = arrived,
           \/ queue' = [queue EXCEPT ![q] = Tail(@)]
           \/ \E o \in Queue \ {q} : queue' = [queue EXCEPT ![q] = Tail(@), ![o] = Append(@, Work(q))],
           done' = done \/ done' = done \cup {Work(q).of}
    PROVE  QInv'
<1>1. /\ queue \in [Queue -> Seq(Task)] /\ queue[q] \in Seq(Task)
      /\ Work(q) \in Task /\ Work(q) = queue[q][1] /\ 1 \in DOMAIN queue[q]
      /\ Tail(queue[q]) \in Seq(Task)
  BY HeadTaken DEF QInv, TypeOK, Work
<1>2. Work(q).of \in arrived
  BY <1>1 DEF QInv, QueuedArrived
<1>3. /\ queue' \in [Queue -> Seq(Task)]
      /\ queue'[q] = Tail(queue[q])
      /\ \A p \in Queue \ {q} : queue'[p] \in {queue[p], Append(queue[p], Work(q))}
  <2>1. CASE queue' = [queue EXCEPT ![q] = Tail(@)]
    BY <1>1, <2>1
  <2>2. ASSUME NEW o \in Queue \ {q}, queue' = [queue EXCEPT ![q] = Tail(@), ![o] = Append(@, Work(q))]
        PROVE  <1>3!1 /\ <1>3!2 /\ <1>3!3
    <3>1. queue[o] \in Seq(Task) /\ Append(queue[o], Work(q)) \in Seq(Task)
      BY <1>1, <2>2, Appended
    <3> QED BY <1>1, <2>2, <3>1
  <2> QED BY <2>1, <2>2
<1>4. TypeOK'
  BY <1>2, <1>3 DEF QInv, TypeOK
<1>5. QueuedArrived'
  <2>1. SUFFICES ASSUME NEW p \in Queue, NEW k \in DOMAIN queue'[p], queue'[p][k].kind = "stanza"
                 PROVE  queue'[p][k].of \in arrived
    BY DEF QueuedArrived
  <2>2. CASE p = q
    <3>1. k + 1 \in DOMAIN queue[q] /\ queue'[q][k] = queue[q][k + 1]
      BY <1>1, <1>3, <2>1, <2>2, HeadTaken
    <3> QED BY <2>1, <2>2, <3>1 DEF QInv, QueuedArrived
  <2>3. CASE p # q /\ queue'[p] = queue[p]
    BY <2>1, <2>3 DEF QInv, QueuedArrived
  <2>4. CASE p # q /\ queue'[p] = Append(queue[p], Work(q))
    <3>1. \/ k \in DOMAIN queue[p] /\ queue'[p][k] = queue[p][k]
          \/ queue'[p][k] = Work(q)
      BY <1>1, <2>1, <2>4, Appended
    <3> QED BY <1>2, <2>1, <3>1 DEF QInv, QueuedArrived
  <2> QED BY <1>3, <2>2, <2>3, <2>4
<1>6. WaitsInLine'
  <2>1. SUFFICES ASSUME NEW p \in Queue, phase'[p] = "waiting"
                 PROVE  \E k \in DOMAIN queue'[Callee(p)] : queue'[Callee(p)][k] = BlockOf(p)
    BY DEF WaitsInLine
  <2>2. Callee(p) \in Queue /\ BlockOf(p).kind = "block"
    BY TaskKinds DEF BlockOf
  <2>3. phase[p] = "waiting"
    BY <2>1 DEF QInv, TypeOK
  <2>4. PICK k \in DOMAIN queue[Callee(p)] : queue[Callee(p)][k] = BlockOf(p)
    BY <2>3 DEF QInv, WaitsInLine
  <2>5. CASE Callee(p) = q
    <3>1. k # 1
      <4>1. queue[q][k].kind = "block"
        BY <2>2, <2>4, <2>5
      <4>2. queue[q][1].kind = "stanza"
        BY <1>1
      <4> QED BY <4>1, <4>2
    <3>2. k - 1 \in DOMAIN queue'[q] /\ queue'[q][k - 1] = queue[q][k]
      BY <1>1, <1>3, <2>4, <2>5, <3>1, HeadTaken
    <3> QED BY <2>4, <2>5, <3>2
  <2>6. CASE Callee(p) # q
    <3>1. k \in DOMAIN queue'[Callee(p)] /\ queue'[Callee(p)][k] = queue[Callee(p)][k]
      <4>1. queue[Callee(p)] \in Seq(Task)
        BY <1>1, <2>2
      <4>2. CASE queue'[Callee(p)] = queue[Callee(p)]
        BY <2>4, <4>2
      <4>3. CASE queue'[Callee(p)] = Append(queue[Callee(p)], Work(q))
        BY <1>1, <2>4, <4>1, <4>3, Appended
      <4> QED BY <1>3, <2>2, <2>6, <4>2, <4>3
    <3> QED BY <2>4, <3>1
  <2> QED BY <2>5, <2>6
<1> QED BY <1>4, <1>5, <1>6 DEF QInv

\* A block is run and its caller goes on.
LEMMA RunBlockKeeps ==
    ASSUME QInv, NEW q \in Queue, RunBlock(q)
    PROVE  QInv'
<1> DEFINE c == Work(q).of
<1>1. /\ queue \in [Queue -> Seq(Task)] /\ queue[q] \in Seq(Task) /\ queue[q] # <<>>
      /\ Work(q) \in Task /\ Work(q) = queue[q][1] /\ Work(q).kind = "block"
      /\ Tail(queue[q]) \in Seq(Task)
      /\ queue' = [queue EXCEPT ![q] = Tail(@)]
      /\ phase' = [phase EXCEPT ![c] = "answered"]
      /\ UNCHANGED <<arrived, done>>
  BY HeadTaken DEF QInv, TypeOK, Work, RunBlock
<1>2. c \in Queue /\ Work(q) = BlockOf(c)
  BY <1>1 DEF Task, BlockOf, Queue
<1> HIDE DEF c
<1>3. TypeOK'
  BY <1>1, <1>2 DEF QInv, TypeOK
<1>4. QueuedArrived'
  <2>1. SUFFICES ASSUME NEW p \in Queue, NEW k \in DOMAIN queue'[p], queue'[p][k].kind = "stanza"
                 PROVE  queue'[p][k].of \in arrived
    BY <1>1 DEF QueuedArrived
  <2>2. CASE p = q
    <3>1. k + 1 \in DOMAIN queue[q] /\ queue'[q][k] = queue[q][k + 1]
      BY <1>1, <2>1, <2>2, HeadTaken
    <3> QED BY <2>1, <2>2, <3>1 DEF QInv, QueuedArrived
  <2>3. CASE p # q
    BY <1>1, <2>1, <2>3 DEF QInv, QueuedArrived
  <2> QED BY <2>2, <2>3
<1>5. WaitsInLine'
  <2>1. SUFFICES ASSUME NEW p \in Queue, phase'[p] = "waiting"
                 PROVE  \E k \in DOMAIN queue'[Callee(p)] : queue'[Callee(p)][k] = BlockOf(p)
    BY DEF WaitsInLine
  <2>2. Callee(p) \in Queue /\ p # c /\ BlockOf(p) # BlockOf(c)
    BY <1>1, <1>2, <2>1, TaskKinds DEF QInv, TypeOK, BlockOf
  <2>3. phase[p] = "waiting"
    BY <1>1, <2>1, <2>2 DEF QInv, TypeOK
  <2>4. PICK k \in DOMAIN queue[Callee(p)] : queue[Callee(p)][k] = BlockOf(p)
    BY <2>3 DEF QInv, WaitsInLine
  <2>5. CASE Callee(p) = q
    <3>1. k \in DOMAIN queue[q] /\ k # 1
      BY <1>1, <1>2, <2>2, <2>4, <2>5
    <3>2. k - 1 \in DOMAIN queue'[q] /\ queue'[q][k - 1] = queue[q][k]
      BY <1>1, <3>1, HeadTaken
    <3> QED BY <2>4, <2>5, <3>2
  <2>6. CASE Callee(p) # q
    BY <1>1, <2>2, <2>4, <2>6
  <2> QED BY <2>5, <2>6
<1> QED BY <1>3, <1>4, <1>5 DEF QInv

\* A stanza is delivered to the queues it concerns.
LEMMA DeliverKeeps ==
    ASSUME QInv, NEW s \in Stanza, Deliver(s)
    PROVE  QInv'
<1> DEFINE t == [kind |-> "stanza", of |-> s]
<1>1. /\ queue \in [Queue -> Seq(Task)] /\ t \in Task
      /\ arrived' = arrived \cup {s} /\ UNCHANGED <<phase, done>>
  BY DEF QInv, TypeOK, Task, Deliver
<1>2. /\ queue' \in [Queue -> Seq(Task)]
      /\ \A p \in Queue : queue'[p] \in {queue[p], Append(queue[p], t)}
  <2>1. PICK F \in [Queue -> BOOLEAN] :
            queue' = [p \in Queue |-> IF F[p] THEN Append(queue[p], t) ELSE queue[p]]
    <3> DEFINE F == [p \in Queue |-> CASE p = "messages" -> KindOf[s] # "subject"
                                       [] p = "rooms"    -> KindOf[s] \in {"login", "subject"}
                                       [] p = "database" -> FALSE]
    <3>1. F \in [Queue -> BOOLEAN]
      BY DEF Queue
    <3>2. queue' = [p \in Queue |-> IF F[p] THEN Append(queue[p], t) ELSE queue[p]]
      BY DEF Deliver
    <3> QED BY <3>1, <3>2
  <2>2. \A p \in Queue : queue[p] \in Seq(Task) /\ Append(queue[p], t) \in Seq(Task)
    BY <1>1, Appended
  <2> HIDE DEF t
  <2> QED BY <2>1, <2>2
<1>3. TypeOK'
  BY <1>1, <1>2 DEF QInv, TypeOK
<1>4. ASSUME NEW p \in Queue
      PROVE  /\ \A k \in DOMAIN queue[p] : k \in DOMAIN queue'[p] /\ queue'[p][k] = queue[p][k]
             /\ \A k \in DOMAIN queue'[p] : \/ k \in DOMAIN queue[p] /\ queue'[p][k] = queue[p][k]
                                           \/ queue'[p][k] = t
  <2> HIDE DEF t
  <2>1. queue[p] \in Seq(Task)
    BY <1>1
  <2>2. CASE queue'[p] = queue[p]
    BY <2>2
  <2>3. CASE queue'[p] = Append(queue[p], t)
    BY <1>1, <2>1, <2>3, Appended
  <2> QED BY <1>2, <2>2, <2>3
<1>5. QueuedArrived'
  BY <1>1, <1>4 DEF QInv, QueuedArrived
<1>6. WaitsInLine'
  BY <1>1, <1>4, TaskKinds DEF QInv, WaitsInLine
<1> QED BY <1>3, <1>5, <1>6 DEF QInv

-----------------------------------------------------------------------------
(* The invariant                                                            *)

\* Nothing is delivered, queued or waited for at first.
LEMMA QInit == Init => QInv
BY DEF Init, QInv, TypeOK, QueuedArrived, WaitsInLine

\* Every step is one of the ways above.
LEMMA QNext == QInv /\ [Next]_vars => QInv'
<1> SUFFICES ASSUME QInv, [Next]_vars PROVE QInv'
  OBVIOUS
<1> USE DEF At
<1>q. {"messages", "rooms", "database"} = Queue
  BY DEF Queue
<1>1. ASSUME NEW s \in Stanza, Deliver(s) PROVE QInv'
  BY <1>1, DeliverKeeps
<1>2. ASSUME NEW q \in Queue, RunBlock(q) PROVE QInv'
  BY <1>2, RunBlockKeeps
<1>3. CASE RequestTransaction
  BY <1>3, LeavingKeeps DEF RequestTransaction, PassOn, Work, Queue
<1>4. CASE LookUpRoom
  BY <1>4, WaitForKeeps DEF LookUpRoom, Callee, Queue
<1>5. CASE InsertIncoming
  BY <1>5, LeavingKeeps DEF InsertIncoming, PassOn, Work, Queue
<1>6. CASE RoomTransaction
  BY <1>6, WaitForKeeps DEF RoomTransaction, Callee, Queue
<1>7. CASE RoomDone
  BY <1>7, LeavingKeeps DEF RoomDone, Finish, Work, Queue
<1>8. CASE TouchCatchupFlag
  BY <1>8, WaitForKeeps DEF TouchCatchupFlag, Callee, Queue
<1>9. CASE TransactionDone
  BY <1>9, LeavingKeeps DEF TransactionDone, Finish, Work, Queue
<1>10. CASE UNCHANGED vars
  BY <1>10 DEF vars, QInv, TypeOK, QueuedArrived, WaitsInLine
<1> QED BY <1>q, <1>1, <1>2, <1>3, <1>4, <1>5, <1>6, <1>7, <1>8, <1>9, <1>10 DEF Next, Messages, Rooms, Database

\* In every reachable state whoever waits is in line, and only what has
\* arrived is worked on.
THEOREM WaitersAreInLine == Spec => []QInv
BY QInit, QNext, PTL DEF Spec

\* The queues keep their types, and nothing is done that has not arrived.
THEOREM QueuesTypeCorrect == Spec => []TypeOK
<1>1. QInv => TypeOK
  BY DEF QInv
<1> QED BY <1>1, WaitersAreInLine, PTL

-----------------------------------------------------------------------------
(* What the queues wait in                                                  *)

\* A queue that waits is in work on a stanza that has it call another.
WaitsAtWork == \A q \in Queue : phase[q] = "waiting" => At(q, "waiting", Calls(q))

\* A queue at work stays at it whatever comes to stand behind.
LEMMA StaysAtWork ==
    ASSUME QInv, NEW q \in Queue, At(q, "waiting", Calls(q)), phase'[q] = phase[q],
           queue'[q] = queue[q] \/ \E t \in Task : queue'[q] = Append(queue[q], t)
    PROVE  At(q, "waiting", Calls(q))'
<1>1. queue[q] \in Seq(Task) /\ queue[q] # <<>>
  BY DEF QInv, TypeOK, At
<1>2. ASSUME NEW t \in Task, queue'[q] = Append(queue[q], t)
      PROVE  Head(queue'[q]) = Head(queue[q]) /\ queue'[q] # <<>>
  BY <1>1, <1>2
<1> QED BY <1>2 DEF At, Calls

LEMMA CallAtWork ==
    ASSUME QInv, WaitsAtWork, NEW q \in Queue, At(q, "start", Calls(q)), WaitFor(q, Callee(q))
    PROVE  WaitsAtWork'
<1>1. /\ Callee(q) \in Queue /\ Callee(q) # q /\ BlockOf(q) \in Task
      /\ queue' = [queue EXCEPT ![Callee(q)] = Append(@, BlockOf(q))]
      /\ phase' = [phase EXCEPT ![q] = "waiting"]
      /\ queue \in [Queue -> Seq(Task)] /\ phase \in [Queue -> {"start", "waiting", "answered"}]
  BY TaskKinds DEF WaitFor, BlockOf, QInv, TypeOK, Callee, Queue
<1>2. At(q, "waiting", Calls(q))'
  BY <1>1 DEF At, Calls
<1>3. ASSUME NEW p \in Queue, p # q, phase'[p] = "waiting" PROVE At(p, "waiting", Calls(p))'
  <2>1. /\ phase'[p] = phase[p] /\ At(p, "waiting", Calls(p))
        /\ queue'[p] \in {queue[p], Append(queue[p], BlockOf(q))}
    BY <1>1, <1>3 DEF WaitsAtWork
  <2> QED BY <1>1, <2>1, StaysAtWork
<1> QED BY <1>2, <1>3 DEF WaitsAtWork

LEMMA LeftAtWork ==
    ASSUME QInv, WaitsAtWork, NEW q \in Queue, queue[q] # <<>>,
           phase' = [phase EXCEPT ![q] = "start"],
           \/ queue' = [queue EXCEPT ![q] = Tail(@)]
           \/ \E o \in Queue \ {q} : queue' = [queue EXCEPT ![q] = Tail(@), ![o] = Append(@, Work(q))]
    PROVE  WaitsAtWork'
<1>1. /\ queue \in [Queue -> Seq(Task)] /\ phase \in [Queue -> {"start", "waiting", "answered"}]
      /\ Work(q) \in Task
  BY HeadTaken DEF QInv, TypeOK, Work
<1> SUFFICES ASSUME NEW p \in Queue, phase'[p] = "waiting" PROVE At(p, "waiting", Calls(p))'
  BY DEF WaitsAtWork
<1>2. /\ p # q /\ phase'[p] = phase[p] /\ At(p, "waiting", Calls(p))
      /\ queue'[p] \in {queue[p], Append(queue[p], Work(q))}
  BY <1>1 DEF WaitsAtWork
<1> QED BY <1>1, <1>2, StaysAtWork

LEMMA AtWorkNext == ASSUME QInv, WaitsAtWork, [Next]_vars PROVE WaitsAtWork'
<1>0. /\ queue \in [Queue -> Seq(Task)] /\ phase \in [Queue -> {"start", "waiting", "answered"}]
      /\ {"messages", "rooms", "database"} = Queue
  BY DEF QInv, TypeOK, Queue
<1>1. ASSUME NEW s \in Stanza, Deliver(s) PROVE WaitsAtWork'
  <2> DEFINE t == [kind |-> "stanza", of |-> s]
  <2>1. t \in Task /\ phase' = phase
        /\ \A p \in Queue : queue'[p] \in {queue[p], Append(queue[p], t)}
    BY <1>1 DEF Deliver, Task
  <2> HIDE DEF t
  <2> QED BY <2>1, StaysAtWork DEF WaitsAtWork
<1>2. ASSUME NEW q \in Queue, RunBlock(q) PROVE WaitsAtWork'
  <2>1. /\ queue[q] # <<>> /\ Head(queue[q]).kind = "block"
        /\ queue' = [queue EXCEPT ![q] = Tail(@)]
        /\ phase' = [phase EXCEPT ![Work(q).of] = "answered"]
    BY <1>2 DEF RunBlock, Work
  <2> SUFFICES ASSUME NEW p \in Queue, phase'[p] = "waiting" PROVE At(p, "waiting", Calls(p))'
    BY DEF WaitsAtWork
  <2>2. phase'[p] = phase[p] /\ At(p, "waiting", Calls(p))
    BY <1>0, <2>1 DEF WaitsAtWork
  <2>3. p # q
    BY <2>1, <2>2 DEF At
  <2> QED BY <1>0, <2>1, <2>2, <2>3, StaysAtWork
<1>3. CASE RequestTransaction
  BY <1>0, <1>3, LeftAtWork DEF RequestTransaction, At, PassOn, Queue
<1>4. CASE LookUpRoom
  BY <1>4, CallAtWork DEF LookUpRoom, Callee, Calls, Queue
<1>5. CASE InsertIncoming
  BY <1>0, <1>5, LeftAtWork DEF InsertIncoming, At, PassOn, Queue
<1>6. CASE RoomTransaction
  BY <1>6, CallAtWork DEF RoomTransaction, Callee, Calls, Queue
<1>7. CASE RoomDone
  BY <1>0, <1>7, LeftAtWork DEF RoomDone, At, Finish
<1>8. CASE TouchCatchupFlag
  BY <1>8, CallAtWork DEF TouchCatchupFlag, Callee, Calls, Queue
<1>9. CASE TransactionDone
  BY <1>0, <1>9, LeftAtWork DEF TransactionDone, At, Finish
<1>10. CASE UNCHANGED vars
  BY <1>10 DEF vars, WaitsAtWork, At, Calls
<1> QED
  BY <1>0, <1>1, <1>2, <1>3, <1>4, <1>5, <1>6, <1>7, <1>8, <1>9, <1>10
  DEF Next, Messages, Rooms, Database

\* If nothing can go on, the three queues wait in the circle: from any queue
\* that waits, the blocks lead to a queue with work, which waits, and so round; each
\* waits in work that has it call the next.
THEOREM NoOtherDeadlock == Spec => []OnlyThisCircle
<1>1. QInv /\ WaitsAtWork => OnlyThisCircle
  <2>1. SUFFICES ASSUME QInv, WaitsAtWork, NEW q \in Queue, Waiting(q),
                        \A p \in Queue : queue[p] # <<>> => Waiting(p)
                 PROVE  Circle
    BY DEF OnlyThisCircle
  <2>2. ASSUME NEW p \in Queue, Waiting(p)
        PROVE  WaitsFor(p, Callee(p)) /\ Waiting(Callee(p))
    <3>1. PICK k \in DOMAIN queue[Callee(p)] : queue[Callee(p)][k] = BlockOf(p)
      BY <2>1, <2>2 DEF QInv, WaitsInLine, Waiting
    <3>2. queue[Callee(p)] # <<>>
      <4>1. DOMAIN <<>> = {}
        OBVIOUS
      <4> QED BY <3>1, <4>1, Zenon
    <3> QED BY <2>1, <2>2, <3>1, <3>2, TaskKinds DEF WaitsFor, BlockOf
  <2>3. /\ Callee("messages") = "rooms" /\ Callee("rooms") = "database"
        /\ Callee("database") = "messages"
    BY DEF Callee
  <2>4. \A p \in Queue : Waiting(p)
    BY <2>1, <2>2, <2>3 DEF Queue
  <2>5. \A p \in Queue : At(p, "waiting", Calls(p))
    BY <2>1, <2>4 DEF WaitsAtWork, Waiting
  <2> QED BY <2>2, <2>3, <2>4, <2>5 DEF Circle, Queue
<1>2. Init => WaitsAtWork
  BY DEF Init, WaitsAtWork
<1>3. QInv /\ WaitsAtWork /\ [Next]_vars => WaitsAtWork'
  BY AtWorkNext
<1> QED BY <1>1, <1>2, <1>3, WaitersAreInLine, PTL DEF Spec

\* Without group messages from an archive the storage never stops: some queue that
\* has work does not wait, or none waits.
THEOREM OnlyArchivesStop ==
    ASSUME \A s \in Stanza : KindOf[s] # "roomResult"
    PROVE  Spec => [](~ /\ \E q \in Queue : Waiting(q)
                        /\ \A q \in Queue : queue[q] # <<>> => Waiting(q))
<1>1. QInv => ~Circle
  <2> SUFFICES ASSUME QInv, At("messages", "waiting", Calls("messages")) PROVE FALSE
    BY DEF Circle, Queue
  <2>1. Head(queue["messages"]) \in Task
    BY HeadTaken DEF QInv, TypeOK, At, Queue
  <2> QED BY <2>1, TaskKinds DEF At, Calls
<1>2. QInv /\ OnlyThisCircle => ~ /\ \E q \in Queue : Waiting(q)
                                  /\ \A q \in Queue : queue[q] # <<>> => Waiting(q)
  BY <1>1 DEF OnlyThisCircle
<1> QED BY <1>2, WaitersAreInLine, NoOtherDeadlock, PTL
=============================================================================
