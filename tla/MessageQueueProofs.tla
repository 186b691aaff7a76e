------------------------- MODULE MessageQueueProofs -------------------------
(* Proofs about MessageQueue, for every set of items, queues, rooms and      *)
(* accounts.                                                                *)
(*                                                                          *)
(* IInv is the inductive invariant: who holds a completion block (OneHolder) *)
(* is preserved only together with how the tables are keyed (KeyedByOwner),  *)
(* with the stages a message passes through after it left the handler        *)
(* (OneStage), and with what a sent or a new message can still do            *)
(* (SentIsOver, NewUntouched).  TraceInv adds what a message leaves behind.  *)
(* The last part maps every step to a step or a stutter of Outbox.           *)
EXTENDS MessageQueue, TLAPS

USE ConstantTypes

-----------------------------------------------------------------------------
(* Types                                                                    *)

\* The initial tables, sets and counters are of their types.
LEMMA TypeInit == Init => TypeOK
BY DEF Init, TypeOK

\* Every step keeps the types.
LEMMA TypeNext == ASSUME TypeOK, [Next]_vars PROVE TypeOK'
<1> USE DEF TypeOK, dbVars, brokerVars, waitVars, loginVars, otrVars,
            streamVars, sendVars, faultVars, Acc, Group, Present, Complete,
            CompleteUnsent, Encode, MayProceed, Textless, RetryLater, Goto,
            SaveError, WaitForMessage, PopBuddy, PopMessage
<1>1. ASSUME NEW i \in Item, Enqueue(i) PROVE TypeOK'
  BY <1>1 DEF Enqueue
<1>2. ASSUME NEW i \in Item, DeleteMessage(i) PROVE TypeOK'
  BY <1>2 DEF DeleteMessage
<1>3. ASSUME NEW i \in Item, ReadAction(i) PROVE TypeOK'
  <2>1. CASE ~Present(i)
    <3>1. /\ busy' \in [Queue -> Item \cup {None}]
          /\ paused' \subseteq Queue
          /\ stored' \subseteq Item
      BY <1>3, <2>1, SMTT(30) DEF ReadAction
    <3>2. pc' \in [Item -> {"idle", "read", "park", "send", "otrMain", "refetch"}]
      BY <1>3, <2>1, SMTT(30) DEF ReadAction
    <3>3. UNCHANGED <<kind, blank, state, errored, waitVars, loginVars, otrVars,
                      streamVars, sendVars, faultVars>>
      BY <1>3, <2>1, SMTT(30) DEF ReadAction
    <3>4. QED
      BY <3>1, <3>2, <3>3, SMTT(30)
  <2>2. CASE Present(i) /\ MayProceed(i)
    BY <1>3, <2>2, SMTT(30) DEF ReadAction
  <2>3. CASE Present(i) /\ ~MayProceed(i) /\ Acc(i) \in Autologin
    BY <1>3, <2>3, SMTT(30) DEF ReadAction
  <2>4. CASE Present(i) /\ ~MayProceed(i) /\ Acc(i) \notin Autologin
    <3>1. /\ busy' \in [Queue -> Item \cup {None}]
          /\ paused' \subseteq Queue
          /\ stored' \subseteq Item
      BY <1>3, <2>4, SMTT(30) DEF ReadAction
    <3>2. pc' \in [Item -> {"idle", "read", "park", "send", "otrMain", "refetch"}]
      BY <1>3, <2>4, SMTT(30) DEF ReadAction
    <3>3. UNCHANGED <<kind, blank, state, errored, waitVars, loginVars, otrVars,
                      streamVars, sendVars, faultVars>>
      BY <1>3, <2>4, SMTT(30) DEF ReadAction
    <3>4. QED
      BY <3>1, <3>2, <3>3, SMTT(30)
  <2>5. QED
    BY <2>1, <2>2, <2>3, <2>4
<1>4. ASSUME NEW i \in Item, WaitForAccount(i) PROVE TypeOK'
  BY <1>4 DEF WaitForAccount
<1>5. ASSUME NEW i \in Item, UpdateRoster(i) PROVE TypeOK'
  BY <1>5 DEF UpdateRoster
<1>6. ASSUME NEW i \in Item, SendPlaintext(i) PROVE TypeOK'
  BY <1>6 DEF SendPlaintext
<1>7. ASSUME NEW i \in Item, SendOTR(i) PROVE TypeOK'
  <2>1. CASE CompleteUnsent(i)
    BY <1>7, <2>1, SMTT(30) DEF SendOTR
  <2>2. CASE pc' = [pc EXCEPT ![i] = "otrMain"]
    BY <1>7, <2>2, SMTT(30) DEF SendOTR
  <2>3. CASE Encode(i)
    BY <1>7, <2>3, SMTT(30) DEF SendOTR
  <2>4. QED
    BY <1>7, <2>1, <2>2, <2>3 DEF SendOTR
<1>8. ASSUME NEW i \in Item, SendOMEMO(i) PROVE TypeOK'
  BY <1>8 DEF SendOMEMO
<1>9. ASSUME NEW i \in Item, SendGroupMessage(i) PROVE TypeOK'
  <2>1. CASE QueueOf[i] \notin rooms
    BY <1>9, <2>1, SMTT(30) DEF SendGroupMessage
  <2>2. CASE QueueOf[i] \in rooms /\ kind[i] = "OMEMO" /\ i \in blank
    BY <1>9, <2>2, SMTT(60) DEF SendGroupMessage
  <2>3. CASE QueueOf[i] \in rooms /\ kind[i] = "OMEMO" /\ i \notin blank
    BY <1>9, <2>3, SMTT(30) DEF SendGroupMessage
  <2>4. CASE QueueOf[i] \in rooms /\ kind[i] # "OMEMO"
    BY <1>9, <2>4, SMTT(30) DEF SendGroupMessage
  <2>5. QED
    BY <2>1, <2>2, <2>3, <2>4
<1>10. ASSUME NEW i \in Item, MarkPendingSent(i) PROVE TypeOK'
  BY <1>10 DEF MarkPendingSent
<1>11. ASSUME NEW i \in Item, StartOTR(i) PROVE TypeOK'
  BY <1>11 DEF StartOTR
<1>12. ASSUME NEW i \in Item, RefetchAction(i) PROVE TypeOK'
  BY <1>12 DEF RefetchAction
<1>13. ASSUME NEW i \in Item, OTRTimeout(i) PROVE TypeOK'
  BY <1>13 DEF OTRTimeout
<1>14. ASSUME NEW i \in Item, OTREncoded(i) PROVE TypeOK'
  BY <1>14 DEF OTREncoded
<1>15. ASSUME NEW i \in Item, OTREncodeFails(i) PROVE TypeOK'
  BY <1>15 DEF OTREncodeFails
<1>16. ASSUME NEW i \in Item, OMEMOEncrypted(i) PROVE TypeOK'
  BY <1>16 DEF OMEMOEncrypted
<1>17. ASSUME NEW i \in Item, OMEMOFails(i) PROVE TypeOK'
  BY <1>17 DEF OMEMOFails
<1>18. ASSUME NEW i \in Item, OMEMOAborts(i) PROVE TypeOK'
  BY <1>18 DEF OMEMOAborts
<1>19. ASSUME NEW i \in Item, SendMessageReturns(i) PROVE TypeOK'
  BY <1>19 DEF SendMessageReturns
<1>20. ASSUME NEW i \in Item, SendElement(i) PROVE TypeOK'
  BY <1>20, SMTT(30) DEF SendElement
<1>21. ASSUME NEW i \in Item, StatusModule(i) PROVE TypeOK'
  <2>1. CASE Present(i) /\ i \in outstandingMessages
    BY <1>21, <2>1, SMTT(60) DEF StatusModule
  <2>2. CASE ~(Present(i) /\ i \in outstandingMessages)
    BY <1>21, <2>2, SMTT(30) DEF StatusModule
  <2>3. QED
    BY <2>1, <2>2
<1>22. ASSUME NEW i \in Item, SaveSendError(i) PROVE TypeOK'
  BY <1>22 DEF SaveSendError
<1>23. ASSUME NEW q \in Queue, HandleNextItem(q) PROVE TypeOK'
  BY <1>23 DEF HandleNextItem, Earliest, Ready
<1>24. ASSUME NEW q \in Queue, RetryTimeout(q) PROVE TypeOK'
  BY <1>24 DEF RetryTimeout
<1>25. ASSUME NEW q \in Queue, JoinRoom(q) PROVE TypeOK'
  BY <1>25 DEF JoinRoom
<1>26. ASSUME NEW q \in Queue, SessionOpens(q) PROVE TypeOK'
  BY <1>26 DEF SessionOpens
<1>27. ASSUME NEW q \in Queue, SessionEnds(q) PROVE TypeOK'
  BY <1>27 DEF SessionEnds
<1>28. ASSUME NEW q \in Queue, DidEncrypt(q) PROVE TypeOK'
  BY <1>28 DEF DidEncrypt
<1>29. ASSUME NEW a \in Account, Reconnect(a) PROVE TypeOK'
  BY <1>29 DEF Reconnect
<1>30. ASSUME NEW a \in Account, DidAuthenticate(a) PROVE TypeOK'
  BY <1>30 DEF DidAuthenticate
<1>31. ASSUME NEW a \in Account, DidDisconnect(a) PROVE TypeOK'
  BY <1>31 DEF DidDisconnect
<1>32. ASSUME NEW a \in Account, DidConnectAccount(a) PROVE TypeOK'
  BY <1>32 DEF DidConnectAccount
<1>33. CASE Restart
  BY <1>33 DEF Restart
<1>34. CASE UNCHANGED vars
  BY <1>34 DEF vars
<1>35. QED
  BY <1>1, <1>2, <1>3, <1>4, <1>5, <1>6, <1>7, <1>8, <1>9, <1>10, <1>11,
     <1>12, <1>13, <1>14, <1>15, <1>16, <1>17, <1>18, <1>19, <1>20, <1>21,
     <1>22, <1>23, <1>24, <1>25, <1>26, <1>27, <1>28, <1>29, <1>30, <1>31,
     <1>32, <1>33, <1>34 DEF Next, HandlerStep, LibraryStep

\* Types are right in every reachable state.
THEOREM TypeCorrect == Spec => []TypeOK
BY TypeInit, TypeNext, PTL DEF Spec

-----------------------------------------------------------------------------
(* The inductive invariant                                                  *)

\* At first nothing is stored, held or in flight.
LEMMA InvInit == Init => IInv
<1> SUFFICES ASSUME Init PROVE IInv
  OBVIOUS
<1>1. TypeOK
  BY TypeInit
<1>2. KeyedByOwner /\ OneStage /\ AnswerComing /\ SentOncePerLaunch /\ SentIsOver
  BY DEF Init, KeyedByOwner, OneStage, AnswerComing, SentOncePerLaunch, SentIsOver
<1>3. \A i \in Item : ~Held(i)
  BY DEF Init, Held, Running, ForMessage, ForBuddy, ForAccount, Acc
<1>4. OneHolder /\ NewUntouched /\ NoneForgotten /\ OTRWaitHasTimer
  BY <1>3 DEF Init, Held, OneHolder, NewUntouched, NoneForgotten, OTRWaitHasTimer
<1>5. QED
  BY <1>1, <1>2, <1>4 DEF IInv, Custody

\* Every step keeps it: one step per action of the handler, the libraries, the
\* broker and the accounts.
LEMMA CustodyNext == ASSUME IInv, [Next]_vars PROVE Custody'
<1> USE DEF IInv, Custody, TypeOK, KeyedByOwner, OneHolder, OneStage,
            NewUntouched, SentIsOver, SentOncePerLaunch, NoneForgotten,
            AnswerComing, OTRWaitHasTimer, Held, Running, ForMessage,
            ForBuddy, ForAccount, dbVars, brokerVars, waitVars, loginVars,
            otrVars, streamVars, sendVars, faultVars, Acc, Group, Present,
            Complete, CompleteUnsent, Encode, MayProceed, Textless, RetryLater,
            Goto, SaveError, WaitForMessage, PopBuddy,
            PopMessage
<1>1. ASSUME NEW i \in Item, Enqueue(i) PROVE Custody'
  <2>1. KeyedByOwner'
    BY <1>1, SMTT(30) DEF Enqueue
  <2>2. OneHolder'
    BY <1>1, SMTT(30) DEF Enqueue
  <2>3. OneStage'
    BY <1>1, SMTT(30) DEF Enqueue
  <2>4. NewUntouched'
    BY <1>1, SMTT(30) DEF Enqueue
  <2>5. SentIsOver'
    BY <1>1, SMTT(30) DEF Enqueue
  <2>6. SentOncePerLaunch'
    BY <1>1, SMTT(30) DEF Enqueue
  <2>7. NoneForgotten'
    BY <1>1, SMTT(30) DEF Enqueue
  <2>8. AnswerComing'
    BY <1>1, SMTT(30) DEF Enqueue
  <2>9. OTRWaitHasTimer'
    BY <1>1, SMTT(30) DEF Enqueue
  <2>10. QED
    BY <2>1, <2>2, <2>3, <2>4, <2>5, <2>6, <2>7, <2>8, <2>9
<1>2. ASSUME NEW i \in Item, DeleteMessage(i) PROVE Custody'
  BY <1>2, SMTT(30) DEF DeleteMessage
<1>3. ASSUME NEW i \in Item, ReadAction(i) PROVE Custody'
  <2>1. CASE ~Present(i)
    <3>1. KeyedByOwner'
      BY <1>3, <2>1, SMTT(30) DEF ReadAction
    <3>2. OneHolder'
      BY <1>3, <2>1, SMTT(30) DEF ReadAction
    <3>3. OneStage'
      BY <1>3, <2>1, SMTT(30) DEF ReadAction
    <3>4. NewUntouched'
      BY <1>3, <2>1, SMTT(30) DEF ReadAction
    <3>5. SentIsOver'
      BY <1>3, <2>1, SMTT(30) DEF ReadAction
    <3>6. SentOncePerLaunch'
      BY <1>3, <2>1, SMTT(30) DEF ReadAction
    <3>7. NoneForgotten'
      BY <1>3, <2>1, SMTT(30) DEF ReadAction
    <3>8. AnswerComing'
      BY <1>3, <2>1, SMTT(30) DEF ReadAction
    <3>9. OTRWaitHasTimer'
      BY <1>3, <2>1, SMTT(30) DEF ReadAction
    <3>10. QED
      BY <3>1, <3>2, <3>3, <3>4, <3>5, <3>6, <3>7, <3>8, <3>9
  <2>2. CASE Present(i) /\ MayProceed(i)
    BY <1>3, <2>2, SMTT(30) DEF ReadAction
  <2>3. CASE Present(i) /\ ~MayProceed(i) /\ Acc(i) \in Autologin
    BY <1>3, <2>3, SMTT(30) DEF ReadAction
  <2>4. CASE Present(i) /\ ~MayProceed(i) /\ Acc(i) \notin Autologin
    <3>1. KeyedByOwner'
      <4>1. \A q \in Queue : busy'[q] # None => busy'[q] = busy[q]
        BY <1>3, <2>4, SMTT(60) DEF ReadAction
      <4>2. UNCHANGED <<outstandingBuddies, outstandingAccounts>>
        BY <1>3, SMTT(30) DEF ReadAction
      <4>3. QED
        BY <4>1, <4>2, SMTT(60)
    <3>2. OneHolder'
      BY <1>3, <2>4, SMTT(60) DEF ReadAction
    <3>3. OneStage'
      BY <1>3, <2>4, SMTT(30) DEF ReadAction
    <3>4. NewUntouched'
      BY <1>3, <2>4, SMTT(30) DEF ReadAction
    <3>5. SentIsOver'
      BY <1>3, <2>4, SMTT(30) DEF ReadAction
    <3>6. SentOncePerLaunch'
      BY <1>3, <2>4, SMTT(30) DEF ReadAction
    <3>7. NoneForgotten'
      BY <1>3, <2>4, SMTT(30) DEF ReadAction
    <3>8. AnswerComing'
      BY <1>3, <2>4, SMTT(30) DEF ReadAction
    <3>9. OTRWaitHasTimer'
      BY <1>3, <2>4, SMTT(30) DEF ReadAction
    <3>10. QED
      BY <3>1, <3>2, <3>3, <3>4, <3>5, <3>6, <3>7, <3>8, <3>9
  <2>5. QED
    BY <2>1, <2>2, <2>3, <2>4
<1>4. ASSUME NEW i \in Item, WaitForAccount(i) PROVE Custody'
  BY <1>4, SMTT(30) DEF WaitForAccount
<1>5. ASSUME NEW i \in Item, UpdateRoster(i) PROVE Custody'
  <2>1. KeyedByOwner'
    BY <1>5, SMTT(30) DEF UpdateRoster
  <2>2. OneHolder'
    BY <1>5, SMTT(30) DEF UpdateRoster
  <2>3. OneStage'
    BY <1>5, SMTT(30) DEF UpdateRoster
  <2>4. NewUntouched'
    BY <1>5, SMTT(30) DEF UpdateRoster
  <2>5. SentIsOver'
    BY <1>5, SMTT(30) DEF UpdateRoster
  <2>6. SentOncePerLaunch'
    BY <1>5, SMTT(30) DEF UpdateRoster
  <2>7. NoneForgotten'
    BY <1>5, SMTT(30) DEF UpdateRoster
  <2>8. AnswerComing'
    BY <1>5, SMTT(30) DEF UpdateRoster
  <2>9. OTRWaitHasTimer'
    BY <1>5, SMTT(30) DEF UpdateRoster
  <2>10. QED
    BY <2>1, <2>2, <2>3, <2>4, <2>5, <2>6, <2>7, <2>8, <2>9
<1>6. ASSUME NEW i \in Item, SendPlaintext(i) PROVE Custody'
  BY <1>6, SMTT(30) DEF SendPlaintext
<1>7. ASSUME NEW i \in Item, SendOTR(i) PROVE Custody'
  <2>1. KeyedByOwner'
    BY <1>7, SMTT(30) DEF SendOTR
  <2>2. OneHolder'
    BY <1>7, SMTT(30) DEF SendOTR
  <2>3. OneStage'
    BY <1>7, SMTT(30) DEF SendOTR
  <2>4. NewUntouched'
    BY <1>7, SMTT(30) DEF SendOTR
  <2>5. SentIsOver'
    BY <1>7, SMTT(30) DEF SendOTR
  <2>6. SentOncePerLaunch'
    BY <1>7, SMTT(30) DEF SendOTR
  <2>7. NoneForgotten'
    BY <1>7, SMTT(30) DEF SendOTR
  <2>8. AnswerComing'
    BY <1>7, SMTT(30) DEF SendOTR
  <2>9. OTRWaitHasTimer'
    BY <1>7, SMTT(30) DEF SendOTR
  <2>10. QED
    BY <2>1, <2>2, <2>3, <2>4, <2>5, <2>6, <2>7, <2>8, <2>9
<1>8. ASSUME NEW i \in Item, SendOMEMO(i) PROVE Custody'
  <2>1. KeyedByOwner'
    <3>1. \A q \in Queue : busy'[q] # None => busy'[q] = busy[q]
      BY <1>8, SMTT(60) DEF SendOMEMO
    <3>2. UNCHANGED <<outstandingBuddies, outstandingAccounts>>
      BY <1>8, SMTT(30) DEF SendOMEMO
    <3>3. QED
      BY <3>1, <3>2, SMTT(60)
  <2>2. OneHolder'
    BY <1>8, SMTT(60) DEF SendOMEMO
  <2>3. OneStage'
    BY <1>8, SMTT(30) DEF SendOMEMO
  <2>4. NewUntouched'
    BY <1>8, SMTT(30) DEF SendOMEMO
  <2>5. SentIsOver'
    BY <1>8, SMTT(30) DEF SendOMEMO
  <2>6. SentOncePerLaunch'
    BY <1>8, SMTT(30) DEF SendOMEMO
  <2>7. NoneForgotten'
    BY <1>8, SMTT(30) DEF SendOMEMO
  <2>8. AnswerComing'
    BY <1>8, SMTT(30) DEF SendOMEMO
  <2>9. OTRWaitHasTimer'
    BY <1>8, SMTT(30) DEF SendOMEMO
  <2>10. QED
    BY <2>1, <2>2, <2>3, <2>4, <2>5, <2>6, <2>7, <2>8, <2>9
<1>9. ASSUME NEW i \in Item, SendGroupMessage(i) PROVE Custody'
  <2>1. KeyedByOwner'
    BY <1>9, SMTT(30) DEF SendGroupMessage
  <2>2. OneHolder'
    BY <1>9, SMTT(30) DEF SendGroupMessage
  <2>3. OneStage'
    BY <1>9, SMTT(30) DEF SendGroupMessage
  <2>4. NewUntouched'
    BY <1>9, SMTT(30) DEF SendGroupMessage
  <2>5. SentIsOver'
    BY <1>9, SMTT(30) DEF SendGroupMessage
  <2>6. SentOncePerLaunch'
    BY <1>9, SMTT(30) DEF SendGroupMessage
  <2>7. NoneForgotten'
    BY <1>9, SMTT(30) DEF SendGroupMessage
  <2>8. AnswerComing'
    BY <1>9, SMTT(30) DEF SendGroupMessage
  <2>9. OTRWaitHasTimer'
    BY <1>9, SMTT(30) DEF SendGroupMessage
  <2>10. QED
    BY <2>1, <2>2, <2>3, <2>4, <2>5, <2>6, <2>7, <2>8, <2>9
<1>10. ASSUME NEW i \in Item, MarkPendingSent(i) PROVE Custody'
  BY <1>10, SMTT(30) DEF MarkPendingSent
<1>11. ASSUME NEW i \in Item, StartOTR(i) PROVE Custody'
  <2>1. KeyedByOwner'
    BY <1>11, SMTT(30) DEF StartOTR
  <2>2. OneHolder'
    BY <1>11, SMTT(30) DEF StartOTR
  <2>3. OneStage'
    BY <1>11, SMTT(30) DEF StartOTR
  <2>4. NewUntouched'
    BY <1>11, SMTT(30) DEF StartOTR
  <2>5. SentIsOver'
    BY <1>11, SMTT(30) DEF StartOTR
  <2>6. SentOncePerLaunch'
    BY <1>11, SMTT(30) DEF StartOTR
  <2>7. NoneForgotten'
    BY <1>11, SMTT(30) DEF StartOTR
  <2>8. AnswerComing'
    BY <1>11, SMTT(30) DEF StartOTR
  <2>9. OTRWaitHasTimer'
    BY <1>11, SMTT(30) DEF StartOTR
  <2>10. QED
    BY <2>1, <2>2, <2>3, <2>4, <2>5, <2>6, <2>7, <2>8, <2>9
<1>12. ASSUME NEW i \in Item, RefetchAction(i) PROVE Custody'
  <2>1. KeyedByOwner'
    BY <1>12, SMTT(30) DEF RefetchAction
  <2>2. OneHolder'
    BY <1>12, SMTT(30) DEF RefetchAction
  <2>3. OneStage'
    BY <1>12, SMTT(30) DEF RefetchAction
  <2>4. NewUntouched'
    BY <1>12, SMTT(30) DEF RefetchAction
  <2>5. SentIsOver'
    BY <1>12, SMTT(30) DEF RefetchAction
  <2>6. SentOncePerLaunch'
    BY <1>12, SMTT(30) DEF RefetchAction
  <2>7. NoneForgotten'
    BY <1>12, SMTT(30) DEF RefetchAction
  <2>8. AnswerComing'
    BY <1>12, SMTT(30) DEF RefetchAction
  <2>9. OTRWaitHasTimer'
    BY <1>12, SMTT(30) DEF RefetchAction
  <2>10. QED
    BY <2>1, <2>2, <2>3, <2>4, <2>5, <2>6, <2>7, <2>8, <2>9
<1>13. ASSUME NEW i \in Item, OTRTimeout(i) PROVE Custody'
  <2>1. KeyedByOwner'
    BY <1>13, SMTT(30) DEF OTRTimeout
  <2>2. OneHolder'
    BY <1>13, SMTT(30) DEF OTRTimeout
  <2>3. OneStage'
    BY <1>13, SMTT(30) DEF OTRTimeout
  <2>4. NewUntouched'
    BY <1>13, SMTT(30) DEF OTRTimeout
  <2>5. SentIsOver'
    BY <1>13, SMTT(30) DEF OTRTimeout
  <2>6. SentOncePerLaunch'
    BY <1>13, SMTT(30) DEF OTRTimeout
  <2>7. NoneForgotten'
    BY <1>13, SMTT(30) DEF OTRTimeout
  <2>8. AnswerComing'
    BY <1>13, SMTT(30) DEF OTRTimeout
  <2>9. OTRWaitHasTimer'
    BY <1>13, SMTT(30) DEF OTRTimeout
  <2>10. QED
    BY <2>1, <2>2, <2>3, <2>4, <2>5, <2>6, <2>7, <2>8, <2>9
<1>14. ASSUME NEW i \in Item, OTREncoded(i) PROVE Custody'
  BY <1>14, SMTT(30) DEF OTREncoded
<1>15. ASSUME NEW i \in Item, OTREncodeFails(i) PROVE Custody'
  BY <1>15, SMTT(30) DEF OTREncodeFails
<1>16. ASSUME NEW i \in Item, OMEMOEncrypted(i) PROVE Custody'
  BY <1>16, SMTT(30) DEF OMEMOEncrypted
<1>17. ASSUME NEW i \in Item, OMEMOFails(i) PROVE Custody'
  <2>1. KeyedByOwner'
    BY <1>17, SMTT(30) DEF OMEMOFails
  <2>2. OneHolder'
    BY <1>17, SMTT(30) DEF OMEMOFails
  <2>3. OneStage'
    BY <1>17, SMTT(30) DEF OMEMOFails
  <2>4. NewUntouched'
    BY <1>17, SMTT(30) DEF OMEMOFails
  <2>5. SentIsOver'
    BY <1>17, SMTT(30) DEF OMEMOFails
  <2>6. SentOncePerLaunch'
    BY <1>17, SMTT(30) DEF OMEMOFails
  <2>7. NoneForgotten'
    BY <1>17, SMTT(30) DEF OMEMOFails
  <2>8. AnswerComing'
    BY <1>17, SMTT(30) DEF OMEMOFails
  <2>9. OTRWaitHasTimer'
    BY <1>17, SMTT(30) DEF OMEMOFails
  <2>10. QED
    BY <2>1, <2>2, <2>3, <2>4, <2>5, <2>6, <2>7, <2>8, <2>9
<1>18. ASSUME NEW i \in Item, OMEMOAborts(i) PROVE Custody'
  BY <1>18, SMTT(30) DEF OMEMOAborts
<1>19. ASSUME NEW i \in Item, SendMessageReturns(i) PROVE Custody'
  BY <1>19, SMTT(30) DEF SendMessageReturns
<1>20. ASSUME NEW i \in Item, SendElement(i) PROVE Custody'
  BY <1>20, SMTT(60) DEF SendElement
<1>21. ASSUME NEW i \in Item, StatusModule(i) PROVE Custody'
  <2>1. CASE Present(i) /\ i \in outstandingMessages
    <3>1. KeyedByOwner'
      BY <1>21, <2>1, SMTT(30) DEF StatusModule
    <3>2. OneHolder'
      BY <1>21, <2>1, SMTT(30) DEF StatusModule
    <3>3. OneStage'
      BY <1>21, <2>1, SMTT(30) DEF StatusModule
    <3>4. NewUntouched'
      BY <1>21, <2>1, SMTT(30) DEF StatusModule
    <3>5. SentIsOver'
      BY <1>21, <2>1, SMTT(30) DEF StatusModule
    <3>6. SentOncePerLaunch'
      BY <1>21, <2>1, SMTT(30) DEF StatusModule
    <3>7. NoneForgotten'
      BY <1>21, <2>1, SMTT(30) DEF StatusModule
    <3>8. AnswerComing'
      BY <1>21, <2>1, SMTT(30) DEF StatusModule
    <3>9. OTRWaitHasTimer'
      BY <1>21, <2>1, SMTT(30) DEF StatusModule
    <3>10. QED
      BY <3>1, <3>2, <3>3, <3>4, <3>5, <3>6, <3>7, <3>8, <3>9
  <2>2. CASE ~(Present(i) /\ i \in outstandingMessages)
    BY <1>21, <2>2, SMTT(30) DEF StatusModule
  <2>3. QED
    BY <2>1, <2>2
<1>22. ASSUME NEW i \in Item, SaveSendError(i) PROVE Custody'
  BY <1>22, SMTT(30) DEF SaveSendError
<1>23. ASSUME NEW q \in Queue, HandleNextItem(q) PROVE Custody'
  BY <1>23, SMTT(60) DEF HandleNextItem, Earliest, Ready
<1>24. ASSUME NEW q \in Queue, RetryTimeout(q) PROVE Custody'
  BY <1>24, SMTT(30) DEF RetryTimeout
<1>25. ASSUME NEW q \in Queue, JoinRoom(q) PROVE Custody'
  BY <1>25, SMTT(30) DEF JoinRoom
<1>26. ASSUME NEW q \in Queue, SessionOpens(q) PROVE Custody'
  BY <1>26, SMTT(30) DEF SessionOpens
<1>27. ASSUME NEW q \in Queue, SessionEnds(q) PROVE Custody'
  BY <1>27, SMTT(30) DEF SessionEnds
<1>28. ASSUME NEW q \in Queue, DidEncrypt(q) PROVE Custody'
  BY <1>28, SMTT(30) DEF DidEncrypt
<1>29. ASSUME NEW a \in Account, Reconnect(a) PROVE Custody'
  BY <1>29, SMTT(30) DEF Reconnect
<1>30. ASSUME NEW a \in Account, DidAuthenticate(a) PROVE Custody'
  BY <1>30, SMTT(30) DEF DidAuthenticate
<1>31. ASSUME NEW a \in Account, DidDisconnect(a) PROVE Custody'
  BY <1>31, SMTT(30) DEF DidDisconnect
<1>32. ASSUME NEW a \in Account, DidConnectAccount(a) PROVE Custody'
  BY <1>32, SMTT(30) DEF DidConnectAccount
<1>33. CASE Restart
  BY <1>33 DEF Restart
<1>34. CASE UNCHANGED vars
  BY <1>34 DEF vars
<1>35. QED
  BY <1>1, <1>2, <1>3, <1>4, <1>5, <1>6, <1>7, <1>8, <1>9, <1>10, <1>11,
     <1>12, <1>13, <1>14, <1>15, <1>16, <1>17, <1>18, <1>19, <1>20, <1>21,
     <1>22, <1>23, <1>24, <1>25, <1>26, <1>27, <1>28, <1>29, <1>30, <1>31,
     <1>32, <1>33, <1>34 DEF Next, HandlerStep, LibraryStep

\* Every block is held once and every table is as its reader expects, always.
LEMMA InductiveInv == Spec => []IInv
<1>1. IInv /\ [Next]_vars => IInv'
  BY TypeNext, CustodyNext DEF IInv
<1>2. QED
  BY <1>1, InvInit, PTL DEF Spec

\* No completion block of MessageQueueHandler is ever in two places, or held
\* for an action the broker has left behind.
THEOREM CompletionHeldOnce == Spec => []OneHolder
<1>1. IInv => OneHolder
  BY DEF IInv, Custody
<1>2. QED
  BY <1>1, InductiveInv, PTL

\* The broker never waits for a block that nothing holds, except for those
\* didConnectAccount drops.
THEOREM NoCompletionForgotten == Spec => []NoneForgotten
<1>1. IInv => NoneForgotten
  BY DEF IInv, Custody
<1>2. QED
  BY <1>1, InductiveInv, PTL

\* A message that waits for the stream is on its way to it, or its answer was
\* lost in one of the known ways.
THEOREM AnswersComing == Spec => []AnswerComing
<1>1. IInv => AnswerComing
  BY DEF IInv, Custody
<1>2. QED
  BY <1>1, InductiveInv, PTL

\* No message waits for an OTR session without a timer.
THEOREM OTRWaitsAreTimed == Spec => []OTRWaitHasTimer
<1>1. IInv => OTRWaitHasTimer
  BY DEF IInv, Custody
<1>2. QED
  BY <1>1, InductiveInv, PTL

\* No message is written to the stream twice in one launch.
THEOREM SentAtMostOnce == Spec => []SentOncePerLaunch
<1>1. IInv => SentOncePerLaunch
  BY DEF IInv, Custody
<1>2. QED
  BY <1>1, InductiveInv, PTL

-----------------------------------------------------------------------------
(* What a message leaves behind                                             *)

\* At first no message is unsettled, sent or being encoded.
LEMMA TraceInit == Init => TraceInv
BY DEF Init, TraceInv, RoomsTraced, VerdictTraced, NoSilentLoss, Unsettled,
       SentWasAccepted, OTRReady, OTRNeverClear, Present

\* Every step keeps it, given that a message is in one stage at a time.
LEMMA TraceNext == ASSUME IInv, TraceInv, [Next]_vars PROVE TraceInv'
<1> USE DEF TraceInv, RoomsTraced, VerdictTraced, NoSilentLoss, Unsettled,
            SentWasAccepted, OTRReady, OTRNeverClear, IInv, Custody, TypeOK,
            KeyedByOwner, OneHolder, OneStage, NewUntouched, Held, Running,
            ForMessage, ForBuddy, ForAccount, dbVars, brokerVars, waitVars,
            loginVars, otrVars, streamVars, sendVars, faultVars, Acc, Group,
            Present, Complete, CompleteUnsent, Encode, MayProceed, Textless,
            RetryLater, Goto, SaveError, WaitForMessage,
            PopBuddy, PopMessage
<1>1. ASSUME NEW i \in Item, Enqueue(i) PROVE TraceInv'
  BY <1>1, RoomKinds, SMTT(30) DEF Enqueue
<1>2. ASSUME NEW i \in Item, DeleteMessage(i) PROVE TraceInv'
  BY <1>2, RoomKinds, SMTT(30) DEF DeleteMessage
<1>3. ASSUME NEW i \in Item, ReadAction(i) PROVE TraceInv'
  BY <1>3, RoomKinds, SMTT(30) DEF ReadAction
<1>4. ASSUME NEW i \in Item, WaitForAccount(i) PROVE TraceInv'
  BY <1>4, RoomKinds, SMTT(30) DEF WaitForAccount
<1>5. ASSUME NEW i \in Item, UpdateRoster(i) PROVE TraceInv'
  BY <1>5, RoomKinds, SMTT(30) DEF UpdateRoster
<1>6. ASSUME NEW i \in Item, SendPlaintext(i) PROVE TraceInv'
  BY <1>6, RoomKinds, SMTT(30) DEF SendPlaintext
<1>7. ASSUME NEW i \in Item, SendOTR(i) PROVE TraceInv'
  BY <1>7, RoomKinds, SMTT(30) DEF SendOTR
<1>8. ASSUME NEW i \in Item, SendOMEMO(i) PROVE TraceInv'
  BY <1>8, RoomKinds, SMTT(30) DEF SendOMEMO
<1>9. ASSUME NEW i \in Item, SendGroupMessage(i) PROVE TraceInv'
  BY <1>9, RoomKinds, SMTT(30) DEF SendGroupMessage
<1>10. ASSUME NEW i \in Item, MarkPendingSent(i) PROVE TraceInv'
  BY <1>10, RoomKinds, SMTT(30) DEF MarkPendingSent
<1>11. ASSUME NEW i \in Item, StartOTR(i) PROVE TraceInv'
  BY <1>11, RoomKinds, SMTT(30) DEF StartOTR
<1>12. ASSUME NEW i \in Item, RefetchAction(i) PROVE TraceInv'
  BY <1>12, RoomKinds, SMTT(30) DEF RefetchAction
<1>13. ASSUME NEW i \in Item, OTRTimeout(i) PROVE TraceInv'
  BY <1>13, RoomKinds, SMTT(30) DEF OTRTimeout
<1>14. ASSUME NEW i \in Item, OTREncoded(i) PROVE TraceInv'
  BY <1>14, RoomKinds, SMTT(30) DEF OTREncoded
<1>15. ASSUME NEW i \in Item, OTREncodeFails(i) PROVE TraceInv'
  BY <1>15, RoomKinds, SMTT(30) DEF OTREncodeFails
<1>16. ASSUME NEW i \in Item, OMEMOEncrypted(i) PROVE TraceInv'
  BY <1>16, RoomKinds, SMTT(30) DEF OMEMOEncrypted
<1>17. ASSUME NEW i \in Item, OMEMOFails(i) PROVE TraceInv'
  BY <1>17, RoomKinds, SMTT(30) DEF OMEMOFails
<1>18. ASSUME NEW i \in Item, OMEMOAborts(i) PROVE TraceInv'
  BY <1>18, RoomKinds, SMTT(30) DEF OMEMOAborts
<1>19. ASSUME NEW i \in Item, SendMessageReturns(i) PROVE TraceInv'
  BY <1>19, RoomKinds, SMTT(30) DEF SendMessageReturns
<1>20. ASSUME NEW i \in Item, SendElement(i) PROVE TraceInv'
  BY <1>20, RoomKinds, SMTT(30) DEF SendElement
<1>21. ASSUME NEW i \in Item, StatusModule(i) PROVE TraceInv'
  <2>1. CASE Present(i) /\ i \in outstandingMessages
    <3>1. RoomsTraced'
      BY <1>21, <2>1, RoomKinds, SMTT(30) DEF StatusModule
    <3>2. VerdictTraced'
      BY <1>21, <2>1, RoomKinds, SMTT(30) DEF StatusModule
    <3>3. NoSilentLoss'
      BY <1>21, <2>1, RoomKinds, SMTT(30) DEF StatusModule
    <3>4. SentWasAccepted' /\ OTRReady' /\ OTRNeverClear'
      BY <1>21, <2>1, RoomKinds, SMTT(30) DEF StatusModule
    <3>5. QED
      BY <3>1, <3>2, <3>3, <3>4
  <2>2. CASE ~(Present(i) /\ i \in outstandingMessages)
    BY <1>21, <2>2, RoomKinds, SMTT(30) DEF StatusModule
  <2>3. QED
    BY <2>1, <2>2
<1>22. ASSUME NEW i \in Item, SaveSendError(i) PROVE TraceInv'
  BY <1>22, RoomKinds, SMTT(30) DEF SaveSendError
<1>23. ASSUME NEW q \in Queue, HandleNextItem(q) PROVE TraceInv'
  BY <1>23, RoomKinds, SMTT(30) DEF HandleNextItem, Earliest, Ready
<1>24. ASSUME NEW q \in Queue, RetryTimeout(q) PROVE TraceInv'
  BY <1>24, RoomKinds, SMTT(30) DEF RetryTimeout
<1>25. ASSUME NEW q \in Queue, JoinRoom(q) PROVE TraceInv'
  BY <1>25, RoomKinds, SMTT(30) DEF JoinRoom
<1>26. ASSUME NEW q \in Queue, SessionOpens(q) PROVE TraceInv'
  BY <1>26, RoomKinds, SMTT(30) DEF SessionOpens
<1>27. ASSUME NEW q \in Queue, SessionEnds(q) PROVE TraceInv'
  BY <1>27, RoomKinds, SMTT(30) DEF SessionEnds
<1>28. ASSUME NEW q \in Queue, DidEncrypt(q) PROVE TraceInv'
  BY <1>28, RoomKinds, SMTT(30) DEF DidEncrypt
<1>29. ASSUME NEW a \in Account, Reconnect(a) PROVE TraceInv'
  BY <1>29, RoomKinds, SMTT(30) DEF Reconnect
<1>30. ASSUME NEW a \in Account, DidAuthenticate(a) PROVE TraceInv'
  BY <1>30, RoomKinds, SMTT(30) DEF DidAuthenticate
<1>31. ASSUME NEW a \in Account, DidDisconnect(a) PROVE TraceInv'
  BY <1>31, RoomKinds, SMTT(30) DEF DidDisconnect
<1>32. ASSUME NEW a \in Account, DidConnectAccount(a) PROVE TraceInv'
  BY <1>32, RoomKinds, SMTT(30) DEF DidConnectAccount
<1>33. CASE Restart
  BY <1>33 DEF Restart
<1>34. CASE UNCHANGED vars
  BY <1>34 DEF vars
<1>35. QED
  BY <1>1, <1>2, <1>3, <1>4, <1>5, <1>6, <1>7, <1>8, <1>9, <1>10, <1>11,
     <1>12, <1>13, <1>14, <1>15, <1>16, <1>17, <1>18, <1>19, <1>20, <1>21,
     <1>22, <1>23, <1>24, <1>25, <1>26, <1>27, <1>28, <1>29, <1>30, <1>31,
     <1>32, <1>33, <1>34 DEF Next, HandlerStep, LibraryStep

\* Whatever has left the queue left the trace the code owes it, always.
LEMMA TraceInvariant == Spec => []TraceInv
<1>1. IInv /\ TraceInv /\ [Next]_vars => TraceInv'
  BY TraceNext
<1>2. QED
  BY <1>1, TraceInit, InductiveInv, PTL DEF Spec

\* Outside the ways listed with NoSilentLoss, a message that was not sent shows
\* an error.
THEOREM NothingLostSilently == Spec => []NoSilentLoss
<1>1. TraceInv => NoSilentLoss
  BY DEF TraceInv
<1>2. QED
  BY <1>1, TraceInvariant, PTL

\* A message marked sent was taken by the stream.
THEOREM SentIsTrue == Spec => []SentWasAccepted
<1>1. TraceInv => SentWasAccepted
  BY DEF TraceInv
<1>2. QED
  BY <1>1, TraceInvariant, PTL

\* A message that requires OTR leaves OTRKit encrypted unless the user switched
\* OTR off.
THEOREM OTRStaysPrivate == Spec => []OTRNeverClear
<1>1. TraceInv => OTRNeverClear
  BY DEF TraceInv
<1>2. QED
  BY <1>1, TraceInvariant, PTL

-----------------------------------------------------------------------------
(* MessageQueue implements Outbox                                           *)

\* A completion block called for a held item finishes its queue's work.
LEMMA CompleteFinishes ==
    ASSUME IInv, NEW i \in Item, Held(i), Complete(i), sends' = sends,
           {j \in Item : state'[j] # "new"} = {j \in Item : state[j] # "new"}
    PROVE  Promise!Finish(QueueOf[i]) /\ QueueOf[i] \in Queue
<1>1. busy[QueueOf[i]] = i /\ i # None /\ QueueOf[i] \in Queue
  BY DEF IInv, Custody, OneHolder
<1>2. QED
  BY <1>1 DEF Promise!Finish, Complete

\* Handing out a stored item that was not sent is a Take.
LEMMA PickTakes ==
    ASSUME NEW q \in Queue, NEW i \in stored, busy[q] = None, QueueOf[i] = q,
           ~(sends[i] > 0), busy' = [busy EXCEPT ![q] = i],
           UNCHANGED <<state, stored, sends>>
    PROVE  Promise!Take(q)
<1>1. i \in stored \ {j \in Item : sends[j] > 0}
  OBVIOUS
<1>2. {j \in Item : sends'[j] > 0} = {j \in Item : sends[j] > 0}
  OBVIOUS
<1>3. {j \in Item : state'[j] # "new"} = {j \in Item : state[j] # "new"}
  OBVIOUS
<1>4. QED
  BY <1>1, <1>2, <1>3 DEF Promise!Take

\* The initial state maps to the initial state.
LEMMA InitRefines == Init => Promise!Init
BY DEF Init, Promise!Init

\* Every step maps to a step of Outbox or to a stutter.
LEMMA StepRefines ==
    ASSUME IInv, IInv', [Next]_vars PROVE [Promise!Next]_(Promise!vars)
<1> USE DEF Promise!Next, Promise!vars, Promise!Write, Promise!Withdraw,
            Promise!Send, Promise!Finish, Promise!PutBack, Promise!Relaunch,
            IInv, Custody, TypeOK, KeyedByOwner, OneHolder, OneStage,
            NewUntouched, SentIsOver, SentOncePerLaunch, Held, Running,
            ForMessage, ForBuddy, ForAccount, dbVars, brokerVars, waitVars,
            loginVars, otrVars, streamVars, sendVars, faultVars, Acc, Group,
            Present, Complete, CompleteUnsent, Encode, MayProceed, Textless,
            RetryLater, Goto, SaveError, WaitForMessage,
            PopBuddy, PopMessage
<1>1. ASSUME NEW i \in Item, Enqueue(i) PROVE [Promise!Next]_(Promise!vars)
  BY <1>1, SMTT(30) DEF Enqueue
<1>2. ASSUME NEW i \in Item, DeleteMessage(i) PROVE [Promise!Next]_(Promise!vars)
  BY <1>2, SMTT(30) DEF DeleteMessage
<1>3. ASSUME NEW i \in Item, ReadAction(i) PROVE [Promise!Next]_(Promise!vars)
  <2>1. CASE ~Present(i)
    BY <1>3, <2>1, SMTT(30) DEF ReadAction
  <2>2. CASE Present(i) /\ MayProceed(i)
    BY <1>3, <2>2, SMTT(30) DEF ReadAction
  <2>3. CASE Present(i) /\ ~MayProceed(i) /\ Acc(i) \in Autologin
    BY <1>3, <2>3, SMTT(30) DEF ReadAction
  <2>4. CASE Present(i) /\ ~MayProceed(i) /\ Acc(i) \notin Autologin
    BY <1>3, <2>4, SMTT(30) DEF ReadAction
  <2>5. QED
    BY <2>1, <2>2, <2>3, <2>4
<1>4. ASSUME NEW i \in Item, WaitForAccount(i) PROVE [Promise!Next]_(Promise!vars)
  BY <1>4, SMTT(30) DEF WaitForAccount
<1>5. ASSUME NEW i \in Item, UpdateRoster(i) PROVE [Promise!Next]_(Promise!vars)
  <2>1. Held(i) /\ Complete(i) /\ sends' = sends /\ state' = state
    BY <1>5 DEF UpdateRoster
  <2>2. Promise!Finish(QueueOf[i]) /\ QueueOf[i] \in Queue
    BY <2>1, CompleteFinishes
  <2>3. QED
    BY <2>2
<1>6. ASSUME NEW i \in Item, SendPlaintext(i) PROVE [Promise!Next]_(Promise!vars)
  BY <1>6, SMTT(30) DEF SendPlaintext
<1>7. ASSUME NEW i \in Item, SendOTR(i) PROVE [Promise!Next]_(Promise!vars)
  <2>1. CASE CompleteUnsent(i)
    <3>1. Held(i) /\ Complete(i) /\ sends' = sends /\ state' = state
      BY <1>7, <2>1, SMTT(30) DEF SendOTR
    <3>2. Promise!Finish(QueueOf[i]) /\ QueueOf[i] \in Queue
      BY <3>1, CompleteFinishes
    <3>3. QED
      BY <3>2
  <2>2. CASE ~CompleteUnsent(i)
    BY <1>7, <2>2, SMTT(60) DEF SendOTR
  <2>3. QED
    BY <2>1, <2>2
<1>8. ASSUME NEW i \in Item, SendOMEMO(i) PROVE [Promise!Next]_(Promise!vars)
  <2>1. CASE i \in blank
    <3>1. Held(i) /\ Complete(i) /\ sends' = sends /\ state' = state
      BY <1>8, <2>1, SMTT(30) DEF SendOMEMO
    <3>2. Promise!Finish(QueueOf[i]) /\ QueueOf[i] \in Queue
      BY <3>1, CompleteFinishes
    <3>3. QED
      BY <3>2
  <2>2. CASE i \notin blank
    BY <1>8, <2>2, SMTT(30) DEF SendOMEMO
  <2>3. QED
    BY <2>1, <2>2
<1>9. ASSUME NEW i \in Item, SendGroupMessage(i) PROVE [Promise!Next]_(Promise!vars)
  <2>1. sends' = sends /\ state' = state
    BY <1>9 DEF SendGroupMessage
  <2>2. CASE Complete(i)
    <3>1. Held(i)
      BY <1>9 DEF SendGroupMessage
    <3>2. Promise!Finish(QueueOf[i]) /\ QueueOf[i] \in Queue
      BY <2>1, <2>2, <3>1, CompleteFinishes
    <3>3. QED
      BY <3>2
  <2>3. CASE ~Complete(i)
    <3>1. UNCHANGED <<stored, busy>>
      BY <1>9, <2>3, SMTT(30) DEF SendGroupMessage
    <3>2. QED
      BY <2>1, <3>1
  <2>4. QED
    BY <2>2, <2>3
<1>10. ASSUME NEW i \in Item, MarkPendingSent(i) PROVE [Promise!Next]_(Promise!vars)
  BY <1>10, SMTT(30) DEF MarkPendingSent
<1>11. ASSUME NEW i \in Item, StartOTR(i) PROVE [Promise!Next]_(Promise!vars)
  BY <1>11, SMTT(30) DEF StartOTR
<1>12. ASSUME NEW i \in Item, RefetchAction(i) PROVE [Promise!Next]_(Promise!vars)
  BY <1>12, SMTT(30) DEF RefetchAction
<1>13. ASSUME NEW i \in Item, OTRTimeout(i) PROVE [Promise!Next]_(Promise!vars)
  BY <1>13, SMTT(30) DEF OTRTimeout
<1>14. ASSUME NEW i \in Item, OTREncoded(i) PROVE [Promise!Next]_(Promise!vars)
  BY <1>14, SMTT(30) DEF OTREncoded
<1>15. ASSUME NEW i \in Item, OTREncodeFails(i) PROVE [Promise!Next]_(Promise!vars)
  <2>1. UNCHANGED <<state, busy, sends>> /\ stored' \in {stored, stored \ {i}}
    BY <1>15 DEF OTREncodeFails
  <2>2. CASE stored' = stored
    BY <2>1, <2>2
  <2>3. CASE stored' # stored
    <3>1. stored' = stored \ {i}
      BY <2>1, <2>3
    <3>2. i \in stored
      BY <2>3, <3>1
    <3>3. Promise!Withdraw(i)
      BY <2>1, <3>1, <3>2 DEF Promise!Withdraw
    <3>4. QED
      BY <3>3
  <2>4. QED
    BY <2>2, <2>3
<1>16. ASSUME NEW i \in Item, OMEMOEncrypted(i) PROVE [Promise!Next]_(Promise!vars)
  BY <1>16, SMTT(30) DEF OMEMOEncrypted
<1>17. ASSUME NEW i \in Item, OMEMOFails(i) PROVE [Promise!Next]_(Promise!vars)
  <2>1. Held(i) /\ Complete(i) /\ sends' = sends /\ state' = state
    BY <1>17 DEF OMEMOFails
  <2>2. Promise!Finish(QueueOf[i]) /\ QueueOf[i] \in Queue
    BY <2>1, CompleteFinishes
  <2>3. QED
    BY <2>2
<1>18. ASSUME NEW i \in Item, OMEMOAborts(i) PROVE [Promise!Next]_(Promise!vars)
  BY <1>18, SMTT(30) DEF OMEMOAborts
<1>19. ASSUME NEW i \in Item, SendMessageReturns(i) PROVE [Promise!Next]_(Promise!vars)
  BY <1>19, SMTT(30) DEF SendMessageReturns
<1>20. ASSUME NEW i \in Item, SendElement(i) PROVE [Promise!Next]_(Promise!vars)
  BY <1>20, SMTT(30) DEF SendElement
<1>21. ASSUME NEW i \in Item, StatusModule(i) PROVE [Promise!Next]_(Promise!vars)
  <2>1. sends' = sends
    BY <1>21 DEF StatusModule
  <2>2. CASE Present(i) /\ i \in outstandingMessages
    <3>1. Held(i) /\ Complete(i)
      BY <1>21, <2>2 DEF StatusModule
    <3>2. {j \in Item : state'[j] # "new"} = {j \in Item : state[j] # "new"}
      BY <1>21, <2>2 DEF StatusModule, Present
    <3>3. Promise!Finish(QueueOf[i]) /\ QueueOf[i] \in Queue
      BY <2>1, <3>1, <3>2, CompleteFinishes
    <3>4. QED
      BY <3>3
  <2>3. CASE ~(Present(i) /\ i \in outstandingMessages)
    BY <1>21, <2>3 DEF StatusModule
  <2>4. QED
    BY <2>2, <2>3
<1>22. ASSUME NEW i \in Item, SaveSendError(i) PROVE [Promise!Next]_(Promise!vars)
  BY <1>22, SMTT(30) DEF SaveSendError
<1>23. ASSUME NEW q \in Queue, HandleNextItem(q) PROVE [Promise!Next]_(Promise!vars)
  <2>1. PICK i \in Earliest(q) : busy' = [busy EXCEPT ![q] = i]
    BY <1>23 DEF HandleNextItem
  <2>2. i \in Item /\ i \in stored /\ QueueOf[i] = q
    BY DEF Earliest, Ready
  <2>3. busy[q] = None /\ UNCHANGED <<state, stored, sends>>
    BY <1>23 DEF HandleNextItem
  <2>4. ~(sends[i] > 0)
    BY <2>2, <2>3
  <2>5. QED
    BY <2>1, <2>2, <2>3, <2>4, PickTakes
<1>24. ASSUME NEW q \in Queue, RetryTimeout(q) PROVE [Promise!Next]_(Promise!vars)
  BY <1>24, SMTT(30) DEF RetryTimeout
<1>25. ASSUME NEW q \in Queue, JoinRoom(q) PROVE [Promise!Next]_(Promise!vars)
  BY <1>25, SMTT(30) DEF JoinRoom
<1>26. ASSUME NEW q \in Queue, SessionOpens(q) PROVE [Promise!Next]_(Promise!vars)
  BY <1>26, SMTT(30) DEF SessionOpens
<1>27. ASSUME NEW q \in Queue, SessionEnds(q) PROVE [Promise!Next]_(Promise!vars)
  BY <1>27, SMTT(30) DEF SessionEnds
<1>28. ASSUME NEW q \in Queue, DidEncrypt(q) PROVE [Promise!Next]_(Promise!vars)
  BY <1>28, SMTT(30) DEF DidEncrypt
<1>29. ASSUME NEW a \in Account, Reconnect(a) PROVE [Promise!Next]_(Promise!vars)
  BY <1>29, SMTT(30) DEF Reconnect
<1>30. ASSUME NEW a \in Account, DidAuthenticate(a) PROVE [Promise!Next]_(Promise!vars)
  BY <1>30, SMTT(30) DEF DidAuthenticate
<1>31. ASSUME NEW a \in Account, DidDisconnect(a) PROVE [Promise!Next]_(Promise!vars)
  BY <1>31, SMTT(30) DEF DidDisconnect
<1>32. ASSUME NEW a \in Account, DidConnectAccount(a) PROVE [Promise!Next]_(Promise!vars)
  BY <1>32, SMTT(30) DEF DidConnectAccount
<1>33. CASE Restart
  BY <1>33 DEF Restart
<1>34. CASE UNCHANGED vars
  BY <1>34 DEF vars
<1>35. QED
  BY <1>1, <1>2, <1>3, <1>4, <1>5, <1>6, <1>7, <1>8, <1>9, <1>10, <1>11,
     <1>12, <1>13, <1>14, <1>15, <1>16, <1>17, <1>18, <1>19, <1>20, <1>21,
     <1>22, <1>23, <1>24, <1>25, <1>26, <1>27, <1>28, <1>29, <1>30, <1>31,
     <1>32, <1>33, <1>34 DEF Next, HandlerStep, LibraryStep

\* The queue implements its abstract specification.
THEOREM ImplementsOutbox == Spec => KeepsPromise
<1>1. IInv /\ IInv' /\ [Next]_vars => [Promise!Next]_(Promise!vars)
  BY StepRefines
<1>2. QED
  BY <1>1, InitRefines, InductiveInv, PTL DEF Spec, KeepsPromise, Promise!Spec
=============================================================================
