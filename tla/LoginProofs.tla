---------------------------- MODULE LoginProofs ----------------------------
(* Proofs about Login, over Tor and not, for any bounds.                     *)
(*                                                                          *)
(* While main holds the lock, whoever sets the status stays at the observer  *)
(* that needs the lock (Held).  So the status that lets the group go is the  *)
(* last one that any thread but the login sets, unless it is the pinning     *)
(* check's, which leaves nothing on the account's queue that brings it up    *)
(* (NoneComesUp), because the callbacks of one connection come in their      *)
(* order (CallbacksInOrder).  While the thread is held the stream does not   *)
(* come up either (NotUp): for that its queue would have to go on.  What     *)
(* such a queue says of stream and status (DownSettles, OnlineSettles) is    *)
(* also where the status settles; LeavingGoesOn follows the presence that    *)
(* ends a connection through the queues.                                     *)
EXTENDS Login, QueueLemmas

USE LoginAssumption

-----------------------------------------------------------------------------
(* Types                                                                    *)

\* The group is entered by main only, once, and is nobody's when main is free.
GroupKept ==
    /\ main \in {"free", "entered"} =>
           group = 0 /\ ~observing /\ \A t \in Thread : "wait" \notin telling[t]
    /\ group <= 1

\* TypeOK in three parts.
Flags ==
    /\ task \in BOOLEAN /\ fetch \in BOOLEAN /\ observing \in BOOLEAN /\ wanted \in BOOLEAN
    /\ authenticated \in BOOLEAN /\ closing \in BOOLEAN
    /\ reconnect \in BOOLEAN /\ timer \in BOOLEAN
Queues == mainQ \in Seq({"online", "date"}) /\ workQ \in Seq(Callback \cup {"send"})
Places ==
    /\ app \in {"active", "background"}
    /\ main \in {"free", "entered", "disconnecting", "waiting"}
    /\ group \in -1 .. 1
    /\ telling \in [Thread -> SUBSET {"list", "wait"}]
    /\ status \in LoginStatus
    /\ login \in {"idle", "checked", "set", "authenticates", "connects"}
    /\ stream \in StreamState
    /\ drops \in 0 .. MaxDrops /\ switches \in 0 .. MaxSwitches

TypeInv == Flags /\ Queues /\ Places /\ GroupKept

LEMMA TypeParts == TypeInv <=> TypeOK /\ GroupKept
BY DEF TypeInv, TypeOK, Flags, Queues, Places

LEMMA TypeInit == Init => TypeInv
<1> SUFFICES ASSUME Init PROVE TypeInv
  OBVIOUS
<1>1. Flags
  BY DEF Init, Flags
<1>2. Queues
  BY DEF Init, Queues
<1>3. Places
  BY DEF Init, Places, LoginStatus, StreamState
<1>4. GroupKept
  BY DEF Init, GroupKept
<1> QED BY <1>1, <1>2, <1>3, <1>4 DEF TypeInv

LEMMA TypeNext == ASSUME TypeInv, [Next]_vars PROVE TypeInv'
<1> USE DEF TypeInv, Flags, Queues, Places, GroupKept, appVars, waitVars, loginVars,
            streamVars, bounds
<1>1. ASSUME NEW t \in Thread, group >= 0, ProtocolDidChange(t) \/ LeaveIfDisconnected(t)
      PROVE  TypeInv'
  BY <1>1 DEF ProtocolDidChange, LeaveIfDisconnected
<1>2. CASE SocketConnects /\ group >= 0
  BY <1>2, HeadTaken, Appended DEF SocketConnects, Callback, StreamState
<1>3. CASE StreamConnects /\ group >= 0
  <2>1. Flags'
    BY <1>3 DEF StreamConnects
  <2>2. Queues'
    BY <1>3, HeadTaken, Appended DEF StreamConnects, Callback
  <2>3. Places' /\ GroupKept'
    BY <1>3 DEF StreamConnects, LoginStatus, StreamState
  <2> QED BY <2>1, <2>2, <2>3
<1>4. CASE NewTrust /\ group >= 0
  BY <1>4, HeadTaken, Appended DEF NewTrust, SetStatus, Unasked, Thread, LoginStatus, StreamState
<1>5. CASE TrustRefused /\ group >= 0
  BY <1>5 DEF TrustRefused
<1>6. CASE Authenticates /\ group >= 0
  BY <1>6, HeadTaken, Appended DEF Authenticates, Callback, StreamState
<1>7. CASE AuthenticationFails /\ group >= 0
  BY <1>7, HeadTaken, Appended DEF AuthenticationFails, Unasked, Callback, StreamState
<1>8. CASE SocketDisconnects /\ group >= 0
  <2>1. Flags'
    BY <1>8 DEF SocketDisconnects, Unasked
  <2>2. Queues'
    BY <1>8, HeadTaken, Appended DEF SocketDisconnects, Unasked, Callback
  <2>3. drops' \in 0 .. MaxDrops
    <3>1. CASE UNCHANGED drops
      BY <3>1
    <3>2. CASE drops < MaxDrops /\ drops' = drops + 1
      BY <3>2
    <3> QED BY <1>8, <3>1, <3>2 DEF SocketDisconnects, Unasked
  <2>4. Places' /\ GroupKept'
    BY <1>8, <2>3 DEF SocketDisconnects, StreamState
  <2> QED BY <2>1, <2>2, <2>4
<1>9. CASE Reconnects /\ group >= 0
  <2>1. Flags'
    BY <1>9 DEF Reconnects, Connect, Unasked, IsDisconnected
  <2>2. Queues'
    BY <1>9, HeadTaken, Appended DEF Reconnects, Connect, Unasked, IsDisconnected
  <2>3. ASSUME stream = "down" /\ stream' = "connecting" /\ UNCHANGED drops
        PROVE  Places' /\ GroupKept'
    BY <1>9, <2>3 DEF Reconnects, StreamState
  <2>4. ASSUME UNCHANGED stream /\ drops < MaxDrops /\ drops' = drops + 1
        PROVE  Places' /\ GroupKept'
    BY <1>9, <2>4 DEF Reconnects
  <2>5. Places' /\ GroupKept'
    BY <1>9, <2>3, <2>4 DEF Reconnects, Connect, Unasked, IsDisconnected
  <2> QED BY <2>1, <2>2, <2>5
<1>10. CASE SocketDidConnect /\ group >= 0
  BY <1>10, HeadTaken, Appended DEF SocketDidConnect, Callbacks, SetStatus, Thread, LoginStatus
<1>11. CASE DidConnect /\ group >= 0
  BY <1>11, HeadTaken, Appended DEF DidConnect, Callbacks, SetStatus, Authenticate, Thread, LoginStatus, StreamState
<1>12. CASE DidAuthenticate /\ group >= 0
  BY <1>12, HeadTaken, Appended DEF DidAuthenticate, Callbacks, SetStatus, Thread, LoginStatus
<1>13. CASE DidNotAuthenticate /\ group >= 0
  <2>1. Flags'
    BY <1>13 DEF DidNotAuthenticate, Callbacks, GoOffline, Disconnect
  <2>2. Queues'
    BY <1>13, HeadTaken, Appended DEF DidNotAuthenticate, Callbacks, GoOffline, Disconnect
  <2>3. Places' /\ GroupKept'
    BY <1>13 DEF DidNotAuthenticate, Callbacks, GoOffline, Disconnect, LoginStatus, StreamState
  <2> QED BY <2>1, <2>2, <2>3
<1>14. CASE DidDisconnect /\ group >= 0
  BY <1>14, HeadTaken, Appended DEF DidDisconnect, Callbacks, SetStatus, Thread, LoginStatus
<1>15. CASE SendPresence /\ group >= 0
  BY <1>15, HeadTaken, Appended DEF SendPresence, Callbacks, AfterPresence, Callback
<1>16. CASE FinishDisconnectingIfNeeded /\ group >= 0
  <2>1. Flags'
    BY <1>16 DEF FinishDisconnectingIfNeeded, Callbacks, Disconnect
  <2>2. Queues'
    BY <1>16, HeadTaken, Appended DEF FinishDisconnectingIfNeeded, Callbacks, Disconnect
  <2>3. Places' /\ GroupKept'
    BY <1>16 DEF FinishDisconnectingIfNeeded, Callbacks, Disconnect, LoginStatus, StreamState
  <2> QED BY <2>1, <2>2, <2>3
<1>17. CASE LoginChecks /\ group >= 0
  <2>1. Flags'
    BY <1>17 DEF LoginChecks
  <2>2. Queues'
    BY <1>17, HeadTaken, Appended, SMTT(30) DEF LoginChecks
  <2>3. Places' /\ GroupKept'
    BY <1>17 DEF LoginChecks, LoginStatus, StreamState
  <2> QED BY <2>1, <2>2, <2>3
<1>18. CASE LoginSetsConnecting /\ group >= 0
  BY <1>18 DEF LoginSetsConnecting, SetStatus, Thread, LoginStatus
<1>19. CASE LoginLooks /\ group >= 0
  BY <1>19 DEF LoginLooks
<1>20. CASE LoginCalls /\ group >= 0
  BY <1>20 DEF LoginCalls, Authenticate, Connect, StreamState
<1>21. CASE GoOnline /\ group >= 0
  <2>1. Flags'
    BY <1>21 DEF GoOnline, AfterPresence, GoAway, Callback
  <2>2. Queues'
    <3>1. Tail(mainQ) \in Seq({"online", "date"})
      BY <1>21, HeadTaken DEF GoOnline
    <3>2. /\ Append(Tail(mainQ), "date") \in Seq({"online", "date"})
          /\ Append(workQ, "presence") \in Seq(Callback \cup {"send"})
      BY <3>1, Appended DEF Callback
    <3> QED BY <1>21, <3>1, <3>2 DEF GoOnline, AfterPresence, GoAway
  <2>3. Places' /\ GroupKept'
    BY <1>21 DEF GoOnline, AfterPresence, GoAway, Callback, LoginStatus, StreamState
  <2> QED BY <2>1, <2>2, <2>3
<1>22. CASE TellDate /\ group >= 0
  BY <1>22, HeadTaken, Appended DEF TellDate
<1>23. CASE BecomeActive /\ group >= 0
  <2>1. Flags'
    BY <1>23 DEF BecomeActive, Asked
  <2>2. Queues'
    BY <1>23, HeadTaken, Appended DEF BecomeActive, Asked
  <2>3. Places' /\ GroupKept'
    BY <1>23 DEF BecomeActive, Asked, LoginStatus, StreamState
  <2> QED BY <2>1, <2>2, <2>3
<1>24. CASE EnterBackground /\ group >= 0
  BY <1>24, HeadTaken, Appended DEF EnterBackground, Asked, GoAway
<1>25. CASE PerformFetch /\ group >= 0
  BY <1>25 DEF PerformFetch, Asked
<1>26. CASE AskLogin /\ group >= 0
  BY <1>26 DEF AskLogin, Asked
<1>27. CASE Logout /\ group >= 0
  <2>1. Flags'
    BY <1>27 DEF Logout, Asked, GoOffline, Disconnect
  <2>2. Queues'
    BY <1>27, HeadTaken, Appended DEF Logout, Asked, GoOffline, Disconnect
  <2>3. Places' /\ GroupKept'
    BY <1>27 DEF Logout, Asked, GoOffline, Disconnect, LoginStatus, StreamState
  <2> QED BY <2>1, <2>2, <2>3
<1>28. CASE BeginDisconnect /\ group >= 0
  <2>1. Flags'
    BY <1>28 DEF BeginDisconnect
  <2>2. Queues'
    BY <1>28, HeadTaken, Appended DEF BeginDisconnect
  <2>3. Places' /\ GroupKept'
    BY <1>28 DEF BeginDisconnect, LoginStatus, StreamState
  <2> QED BY <2>1, <2>2, <2>3
<1>29. CASE Observe /\ group >= 0
  BY <1>29 DEF Observe
<1>30. CASE DisconnectSocketOnly /\ group >= 0
  BY <1>30, HeadTaken, Appended DEF DisconnectSocketOnly, SetStatus, GoAway, Thread, LoginStatus
<1>31. CASE WaitEnds /\ group >= 0
  <2>1. Flags'
    BY <1>31 DEF WaitEnds, Thread
  <2>2. Queues'
    BY <1>31, HeadTaken, Appended DEF WaitEnds, Thread
  <2>3. Places' /\ GroupKept'
    BY <1>31 DEF WaitEnds, Thread, LoginStatus, StreamState
  <2> QED BY <2>1, <2>2, <2>3
<1>32. CASE UNCHANGED vars
  BY <1>32 DEF vars
<1> QED
  BY <1>1, <1>2, <1>3, <1>4, <1>5, <1>6, <1>7, <1>8, <1>9, <1>10, <1>11, <1>12, <1>13,
     <1>14, <1>15, <1>16, <1>17, <1>18, <1>19, <1>20, <1>21, <1>22, <1>23, <1>24, <1>25,
     <1>26, <1>27, <1>28, <1>29, <1>30, <1>31, <1>32
  DEF Next, Observers, Network, Work, LoginThread, AppDelegate, DisconnectAll

\* Every variable of Login keeps its type; the group is never entered twice.
THEOREM LoginTypeCorrect == Spec => []TypeOK
<1>1. Spec => []TypeInv
  BY TypeInit, TypeNext, PTL DEF Spec
<1> QED BY <1>1, TypeParts, PTL

-----------------------------------------------------------------------------
(* The account's queue                                                      *)

OnlineStatus == {"connected", "authenticating", "authenticated"}
BringsUp     == {"socketDidConnect", "didConnect", "didAuthenticate"}

\* A queue in which every callback that brings the account up comes after one
\* that takes it down; and one with such a callback at all.
NoneComesUp(q) == \A k \in DOMAIN q : q[k] \in BringsUp =>
                      \E j \in DOMAIN q : j < k /\ q[j] = "didDisconnect"
GoesDown(q)    == \E k \in DOMAIN q : q[k] = "didDisconnect"

\* The callbacks of a connection that has got beyond its socket.
OfConnection == {"didConnect", "didAuthenticate", "didDisconnect"}

\* While a stream is being opened, what is left of an older connection stands in
\* the queue before the socket's own callback.
CallbacksInOrder ==
    stream = "opened" =>
        \A k \in DOMAIN workQ : workQ[k] \in OfConnection =>
            \E j \in DOMAIN workQ : j > k /\ workQ[j] = "socketDidConnect"

Kind == Callback \cup {"send"}

\* Something more at the end of the queue.
LEMMA MoreCallbacks ==
    ASSUME NEW q \in Seq(Kind), NEW e \in Kind
    PROVE  /\ GoesDown(q) \/ e = "didDisconnect" => GoesDown(Append(q, e))
           /\ NoneComesUp(q) /\ (GoesDown(q) \/ e \notin BringsUp) => NoneComesUp(Append(q, e))
<1> DEFINE p == Append(q, e)
<1>1. /\ p \in Seq(Kind) /\ DOMAIN p = DOMAIN q \cup {Len(q) + 1}
      /\ p[Len(q) + 1] = e /\ \A k \in DOMAIN q : p[k] = q[k]
  BY Appended
<1>2. DOMAIN q = 1 .. Len(q) /\ Len(q) \in Nat
  OBVIOUS
<1>3. GoesDown(q) \/ e = "didDisconnect" => GoesDown(p)
  BY <1>1 DEF GoesDown
<1>4. ASSUME NoneComesUp(q), GoesDown(q) \/ e \notin BringsUp
      PROVE  NoneComesUp(p)
  <2> SUFFICES ASSUME NEW k \in DOMAIN p, p[k] \in BringsUp
               PROVE  \E j \in DOMAIN p : j < k /\ p[j] = "didDisconnect"
    BY DEF NoneComesUp
  <2>1. CASE k \in DOMAIN q
    BY <1>1, <1>4, <2>1 DEF NoneComesUp
  <2>2. CASE k = Len(q) + 1
    BY <1>1, <1>2, <1>4, <2>2 DEF GoesDown
  <2> QED BY <1>1, <2>1, <2>2
<1> HIDE DEF p
<1> QED BY <1>3, <1>4 DEF p

\* The first callback is taken, and does not take the account down.
LEMMA CallbackTaken ==
    ASSUME NEW q \in Seq(Kind), q # <<>>, Head(q) # "didDisconnect", NoneComesUp(q)
    PROVE  /\ Head(q) \notin BringsUp /\ NoneComesUp(Tail(q))
           /\ GoesDown(q) => GoesDown(Tail(q))
<1>1. /\ 1 \in DOMAIN q /\ Head(q) = q[1]
      /\ \A k \in DOMAIN Tail(q) : k + 1 \in DOMAIN q /\ Tail(q)[k] = q[k + 1]
      /\ \A k \in DOMAIN q : k # 1 => k - 1 \in DOMAIN Tail(q) /\ Tail(q)[k - 1] = q[k]
  BY HeadTaken
<1>2. DOMAIN q \subseteq Nat \ {0} /\ DOMAIN Tail(q) \subseteq Nat \ {0}
  OBVIOUS
<1>3. Head(q) \notin BringsUp
  BY <1>1, <1>2 DEF NoneComesUp
<1>4. NoneComesUp(Tail(q))
  <2> SUFFICES ASSUME NEW k \in DOMAIN Tail(q), Tail(q)[k] \in BringsUp
               PROVE  \E j \in DOMAIN Tail(q) : j < k /\ Tail(q)[j] = "didDisconnect"
    BY DEF NoneComesUp
  <2>1. PICK j \in DOMAIN q : j < k + 1 /\ q[j] = "didDisconnect"
    BY <1>1 DEF NoneComesUp
  <2>2. j # 1 /\ j - 1 \in DOMAIN Tail(q) /\ Tail(q)[j - 1] = "didDisconnect" /\ j - 1 < k
    BY <1>1, <1>2, <2>1
  <2> QED BY <2>2
<1>5. GoesDown(q) => GoesDown(Tail(q))
  BY <1>1 DEF GoesDown
<1> QED BY <1>3, <1>4, <1>5
-----------------------------------------------------------------------------
(* What a step may do to the queue, to the status, to a thread that is held, *)
(* and to the group                                                          *)

Distrusts == stream = "distrusted" => stream' = "distrusted"

Comes(e) ==
    /\ workQ' = Append(workQ, e)
    /\ stream = "distrusted" => e \notin BringsUp /\ (Distrusts \/ e = "didDisconnect")
    /\ stream' = "opened" =>
          e = "socketDidConnect" \/ (stream = "opened" /\ e \notin BringsUp \cup OfConnection)

Goes ==
    /\ Told("work") /\ workQ # <<>> /\ Distrusts
    /\ Head(workQ) = "didDisconnect" => "list" \in telling'["work"]
    /\ stream' = "opened" => stream = "opened"
    /\ \/ workQ' = Tail(workQ)
       \/ (Head(workQ) = "send" /\ workQ' = Append(Tail(workQ), "presence"))

LEMMA QueueSteps ==
    ASSUME TypeInv, Next
    PROVE  \/ workQ' = workQ /\ Distrusts /\ (stream' = "opened" => stream = "opened")
           \/ \E e \in Kind : Comes(e)
           \/ Goes
<1> USE DEF Comes, Goes, Distrusts, Kind, Callback, BringsUp, OfConnection, streamVars, Callbacks
<1>0. telling \in [Thread -> SUBSET {"list", "wait"}]
  BY DEF TypeInv, Places
<1>1. CASE Observers
  BY <1>1 DEF Observers, ProtocolDidChange, LeaveIfDisconnected
<1>2. CASE SocketConnects
  BY <1>2 DEF SocketConnects
<1>3. CASE StreamConnects
  BY <1>3 DEF StreamConnects
<1>4. CASE NewTrust \/ TrustRefused
  BY <1>4 DEF NewTrust, TrustRefused
<1>5. CASE Authenticates
  BY <1>5 DEF Authenticates
<1>6. CASE AuthenticationFails
  BY <1>6 DEF AuthenticationFails
<1>7. CASE SocketDisconnects
  BY <1>7 DEF SocketDisconnects
<1>8. CASE Reconnects
  BY <1>8 DEF Reconnects, Connect, IsDisconnected
<1>9. CASE Work
  BY <1>0, <1>9 DEF Work, SetStatus, Thread, SocketDidConnect, DidConnect, Authenticate, DidAuthenticate,
              DidNotAuthenticate, GoOffline, Disconnect, DidDisconnect, SendPresence,
              AfterPresence, FinishDisconnectingIfNeeded
<1>10. CASE LoginThread
  BY <1>10 DEF LoginThread, LoginChecks, LoginSetsConnecting, LoginLooks, LoginCalls,
               Authenticate, Connect, IsDisconnected
<1>11. CASE GoOnline
  BY <1>11 DEF GoOnline, AfterPresence
<1>12. CASE TellDate
  BY <1>12 DEF TellDate
<1>13. CASE AppDelegate
  BY <1>13 DEF AppDelegate, BecomeActive, EnterBackground, PerformFetch, AskLogin, Logout,
               GoOffline, Disconnect
<1>14. CASE DisconnectAll
  BY <1>14 DEF DisconnectAll, BeginDisconnect, Observe, DisconnectSocketOnly, WaitEnds
<1> QED
  BY <1>1, <1>2, <1>3, <1>4, <1>5, <1>6, <1>7, <1>8, <1>9, <1>10, <1>11, <1>12, <1>13,
     <1>14 DEF Next, Network

\* Only callbacks bring the status up; the thread that takes it down has its
\* observers to tell.
LEMMA StatusSteps ==
    ASSUME TypeInv, Next
    PROVE  /\ status' \in OnlineStatus /\ status \notin OnlineStatus =>
                  Told("work") /\ workQ # <<>> /\ Head(workQ) \in BringsUp
           /\ status' = "disconnected" /\ status # "disconnected" =>
                  \/ /\ "list" \in telling'["work"] /\ stream' = stream
                     /\ workQ # <<>> /\ Head(workQ) = "didDisconnect" /\ workQ' = Tail(workQ)
                  \/ /\ "list" \in telling'["trust"]
                     /\ stream = "opened" /\ stream' = "distrusted" /\ workQ' = workQ
                     /\ ~Contains(workQ, "socketDidConnect")
<1> USE DEF SetStatus, OnlineStatus, BringsUp, Callbacks, Thread, LoginStatus
<1>0. telling \in [Thread -> SUBSET {"list", "wait"}]
  BY DEF TypeInv, Places
<1>1. CASE Observers
  BY <1>1 DEF Observers, ProtocolDidChange, LeaveIfDisconnected
<1>2. CASE NewTrust
  BY <1>0, <1>2 DEF NewTrust
<1>3. CASE Network /\ ~NewTrust
  BY <1>3 DEF Network, SocketConnects, StreamConnects, TrustRefused, Authenticates,
              AuthenticationFails, SocketDisconnects, Reconnects
<1>4. CASE Work
  BY <1>0, <1>4 DEF Work, SocketDidConnect, DidConnect, DidAuthenticate, streamVars,
              DidNotAuthenticate, DidDisconnect, SendPresence, FinishDisconnectingIfNeeded
<1>5. CASE LoginThread
  BY <1>5 DEF LoginThread, LoginChecks, LoginSetsConnecting, LoginLooks, LoginCalls
<1>6. CASE GoOnline \/ TellDate \/ AppDelegate
  BY <1>6 DEF GoOnline, TellDate, AppDelegate, BecomeActive, EnterBackground,
              PerformFetch, AskLogin, Logout
<1>7. CASE DisconnectAll
  BY <1>7 DEF DisconnectAll, BeginDisconnect, Observe, DisconnectSocketOnly, WaitEnds
<1> QED BY <1>1, <1>2, <1>3, <1>4, <1>5, <1>6, <1>7 DEF Next

\* While main has the lock, a thread that waits for it does not get on.
LEMMA LockHolds ==
    ASSUME TypeInv, Next, main # "free", main' # "free",
           NEW t \in {"work", "trust"}, "list" \in telling[t]
    PROVE  "list" \in telling'[t]
<1> USE DEF SetStatus, Callbacks, Thread, Told
<1>0. telling \in [Thread -> SUBSET {"list", "wait"}]
  BY DEF TypeInv, Places
<1>1. CASE Observers
  BY <1>0, <1>1 DEF Observers, ProtocolDidChange, LeaveIfDisconnected
<1>2. CASE Network
  BY <1>0, <1>2 DEF Network, SocketConnects, StreamConnects, NewTrust, TrustRefused,
              Authenticates, AuthenticationFails, SocketDisconnects, Reconnects
<1>3. CASE Work
  BY <1>0, <1>3 DEF Work, SocketDidConnect, DidConnect, DidAuthenticate,
              DidNotAuthenticate, DidDisconnect, SendPresence, FinishDisconnectingIfNeeded
<1>4. CASE LoginThread
  BY <1>0, <1>4 DEF LoginThread, LoginChecks, LoginSetsConnecting, LoginLooks, LoginCalls
<1>5. CASE GoOnline \/ TellDate \/ AppDelegate
  BY <1>5 DEF GoOnline, TellDate, AppDelegate, BecomeActive, EnterBackground,
              PerformFetch, AskLogin, Logout
<1>6. CASE DisconnectAll
  BY <1>0, <1>6 DEF DisconnectAll, BeginDisconnect, Observe, DisconnectSocketOnly, WaitEnds
<1> QED BY <1>1, <1>2, <1>3, <1>4, <1>5, <1>6 DEF Next

Waits == main \in {"disconnecting", "waiting"}

\* main waits with the group entered, which is left by an observer that reads
\* that the account is disconnected.
LEMMA GroupSteps ==
    ASSUME TypeInv, Next
    PROVE  /\ main = "free" => main' = "free" \/ (main' = "entered" /\ status' # "disconnected")
           /\ (Waits /\ group <= 0)' =>
                  Waits /\ (group <= 0 \/ (status = "disconnected" /\ status' = status))
<1> USE DEF Waits, TypeInv, GroupKept
<1>0. group \in -1 .. 1 /\ telling \in [Thread -> SUBSET {"list", "wait"}]
  BY DEF Places
<1>1. CASE Observers
  BY <1>0, <1>1 DEF Observers, ProtocolDidChange, LeaveIfDisconnected, waitVars
<1>2. CASE Network \/ Work \/ LoginThread
  BY <1>2 DEF waitVars, Network, SocketConnects, StreamConnects, NewTrust, TrustRefused,
              Authenticates, AuthenticationFails, SocketDisconnects, Reconnects,
              Work, SocketDidConnect, DidConnect, DidAuthenticate,
              DidNotAuthenticate, DidDisconnect, SendPresence, FinishDisconnectingIfNeeded,
              LoginThread, LoginChecks, LoginSetsConnecting, LoginLooks, LoginCalls
<1>3. CASE GoOnline \/ TellDate \/ AppDelegate
  BY <1>3 DEF waitVars, GoOnline, TellDate, AppDelegate, BecomeActive, EnterBackground,
              PerformFetch, AskLogin, Logout
<1>4. CASE DisconnectAll
  BY <1>0, <1>4 DEF DisconnectAll, BeginDisconnect, Observe, DisconnectSocketOnly, WaitEnds,
              waitVars
<1> QED BY <1>1, <1>2, <1>3, <1>4 DEF Next
-----------------------------------------------------------------------------
(* A thread that is held                                                    *)

\* The thread that took the account down waits for main's lock: the account's
\* own, or that of the pinning check with a queue that brings nothing up.
Held ==
    \/ "list" \in telling["work"]
    \/ /\ "list" \in telling["trust"]
       /\ NoneComesUp(workQ)
       /\ stream = "distrusted" \/ GoesDown(workQ)

LEMMA OrderKept == ASSUME TypeInv, CallbacksInOrder, Next PROVE CallbacksInOrder'
<1> SUFFICES ASSUME stream' = "opened", NEW k \in DOMAIN workQ', workQ'[k] \in OfConnection
             PROVE  \E j \in DOMAIN workQ' : j > k /\ workQ'[j] = "socketDidConnect"
  BY DEF CallbacksInOrder
<1>0. workQ \in Seq(Kind)
  BY DEF TypeInv, Queues, Kind
<1>1. CASE workQ' = workQ /\ stream = "opened"
  BY <1>1 DEF CallbacksInOrder
<1>2. ASSUME NEW e \in Kind, Comes(e)
      PROVE  \E j \in DOMAIN workQ' : j > k /\ workQ'[j] = "socketDidConnect"
  <2>1. /\ workQ' = Append(workQ, e) /\ DOMAIN workQ' = DOMAIN workQ \cup {Len(workQ) + 1}
        /\ workQ'[Len(workQ) + 1] = e /\ \A i \in DOMAIN workQ : workQ'[i] = workQ[i]
    BY <1>0, <1>2, Appended DEF Comes
  <2>2. DOMAIN workQ = 1 .. Len(workQ) /\ Len(workQ) \in Nat
    BY <1>0
  <2>3. CASE e = "socketDidConnect"
    BY <2>1, <2>2, <2>3 DEF OfConnection
  <2>4. CASE stream = "opened" /\ e \notin BringsUp \cup OfConnection
    BY <2>1, <2>4 DEF CallbacksInOrder, BringsUp, OfConnection
  <2> QED BY <1>2, <2>3, <2>4 DEF Comes
<1>3. CASE Goes
  <2>1. /\ Tail(workQ) \in Seq(Kind)
        /\ \A i \in DOMAIN Tail(workQ) : i + 1 \in DOMAIN workQ /\ Tail(workQ)[i] = workQ[i + 1]
        /\ \A i \in DOMAIN workQ :
               i # 1 => i - 1 \in DOMAIN Tail(workQ) /\ Tail(workQ)[i - 1] = workQ[i]
        /\ DOMAIN workQ \subseteq Nat \ {0} /\ DOMAIN Tail(workQ) \subseteq Nat \ {0}
    BY <1>0, <1>3, HeadTaken DEF Goes
  <2>2. ASSUME NEW i \in DOMAIN Tail(workQ), Tail(workQ)[i] \in OfConnection
        PROVE  \E j \in DOMAIN Tail(workQ) : j > i /\ Tail(workQ)[j] = "socketDidConnect"
    <3>1. PICK j \in DOMAIN workQ : j > i + 1 /\ workQ[j] = "socketDidConnect"
      BY <1>3, <2>1, <2>2 DEF CallbacksInOrder, Goes
    <3>2. i \in Nat \ {0} /\ j \in Nat \ {0}
      BY <2>1
    <3>3. j # 1 /\ j - 1 > i
      BY <3>1, <3>2
    <3> QED BY <2>1, <3>1, <3>3
  <2>3. CASE workQ' = Tail(workQ)
    BY <2>2, <2>3
  <2>4. CASE workQ' = Append(Tail(workQ), "presence")
    <3>1. /\ DOMAIN workQ' = DOMAIN Tail(workQ) \cup {Len(Tail(workQ)) + 1}
          /\ workQ'[Len(Tail(workQ)) + 1] = "presence"
          /\ \A i \in DOMAIN Tail(workQ) : workQ'[i] = Tail(workQ)[i]
      BY <2>1, <2>4, Appended DEF Kind, Callback
    <3> QED BY <2>2, <3>1 DEF OfConnection
  <2> QED BY <1>3, <2>3, <2>4 DEF Goes
<1> QED BY <1>1, <1>2, <1>3, QueueSteps

LEMMA HeldKept ==
    ASSUME TypeInv, Next, Held, main # "free", main' # "free"
    PROVE  Held'
<1>0. workQ \in Seq(Kind)
  BY DEF TypeInv, Queues, Kind
<1>1. CASE "list" \in telling["work"]
  BY <1>1, LockHolds DEF Held
<1>2. CASE /\ "list" \in telling["trust"] /\ NoneComesUp(workQ)
           /\ stream = "distrusted" \/ GoesDown(workQ)
  <2>1. "list" \in telling'["trust"]
    BY <1>2, LockHolds
  <2>2. CASE workQ' = workQ /\ Distrusts
    BY <1>2, <2>1, <2>2 DEF Held, Distrusts, NoneComesUp, GoesDown
  <2>3. ASSUME NEW e \in Kind, Comes(e) PROVE Held'
    <3>1. /\ GoesDown(workQ) \/ e = "didDisconnect" => GoesDown(workQ')
          /\ GoesDown(workQ) \/ e \notin BringsUp => NoneComesUp(workQ')
      BY <1>0, <1>2, <2>3, MoreCallbacks DEF Comes
    <3> QED BY <1>2, <2>1, <2>3, <3>1 DEF Held, Comes, Distrusts, NoneComesUp, GoesDown
  <2>4. CASE Goes /\ Head(workQ) = "didDisconnect"
    BY <2>4 DEF Goes, Held
  <2>5. CASE Goes /\ Head(workQ) # "didDisconnect"
    <3>1. /\ Tail(workQ) \in Seq(Kind) /\ NoneComesUp(Tail(workQ))
          /\ GoesDown(workQ) => GoesDown(Tail(workQ))
      BY <1>0, <1>2, <2>5, CallbackTaken, HeadTaken DEF Goes
    <3>2. Head(workQ) = "send" =>
             /\ NoneComesUp(Append(Tail(workQ), "presence"))
             /\ GoesDown(workQ) => GoesDown(Append(Tail(workQ), "presence"))
      BY <3>1, MoreCallbacks DEF Kind, Callback, BringsUp
    <3>3. NoneComesUp(workQ') /\ (GoesDown(workQ) => GoesDown(workQ'))
      BY <2>5, <3>1, <3>2 DEF Goes
    <3> QED BY <1>2, <2>1, <2>5, <3>3 DEF Held, Goes, Distrusts, NoneComesUp, GoesDown
  <2> QED BY <2>2, <2>3, <2>4, <2>5, QueueSteps
<1> QED BY <1>1, <1>2 DEF Held
-----------------------------------------------------------------------------
(* Where the status settles                                                 *)

\* A queue whose last word on the connection is that it is over.
EndsDown(q) == \E k \in DOMAIN q :
    q[k] = "didDisconnect" /\ \A j \in DOMAIN q : j > k => q[j] \notin BringsUp

\* A stream that is down: either the account's queue still ends with that, or
\* the queue is done with the connection and the status is down as well, but for
\* a login that is about to call the stream.
DownSettles ==
    stream = "down" =>
        \/ EndsDown(workQ)
        \/ /\ Range(workQ) \cap BringsUp = {}
           /\ status \in {"disconnected", "disconnecting"} \/ login \in {"set", "connects"}

\* A stream that is up: its queue no longer holds what belongs to its socket or
\* to an older connection, and only such a stream is authenticated.
UpUndisturbed ==
    /\ stream \in {"connected", "auth"} =>
           Range(workQ) \cap {"socketDidConnect", "didDisconnect"} = {}
    /\ authenticated => stream \in {"connected", "auth"}

\* A stream that is online: the status says so, or a callback or a login is on
\* its way that sets it or leaves the stream no longer online.
OnlineSettles ==
    IsOnline /\ ~closing =>
        \/ Range(workQ) \cap {"didConnect", "didAuthenticate", "didNotAuthenticate"} # {}
        \/ login \in {"set", "authenticates"}
        \/ status \in {"authenticated", "disconnecting"}

SettleInv == TypeInv /\ CallbacksInOrder /\ DownSettles /\ UpUndisturbed /\ OnlineSettles

LEMMA EndAppended ==
    ASSUME NEW q \in Seq(Kind), NEW e \in Kind
    PROVE  (EndsDown(q) /\ e \notin BringsUp) \/ e = "didDisconnect" => EndsDown(Append(q, e))
<1>1. /\ Append(q, e) \in Seq(Kind) /\ DOMAIN Append(q, e) = DOMAIN q \cup {Len(q) + 1}
      /\ Append(q, e)[Len(q) + 1] = e /\ \A k \in DOMAIN q : Append(q, e)[k] = q[k]
  BY Appended
<1>2. DOMAIN q = 1 .. Len(q) /\ Len(q) \in Nat
  OBVIOUS
<1>3. CASE e = "didDisconnect"
  BY <1>1, <1>2, <1>3 DEF EndsDown
<1>4. CASE EndsDown(q) /\ e \notin BringsUp
  BY <1>1, <1>2, <1>4 DEF EndsDown
<1> QED BY <1>3, <1>4

LEMMA EndTaken ==
    ASSUME NEW q \in Seq(Kind), q # <<>>, EndsDown(q)
    PROVE  \/ EndsDown(Tail(q))
           \/ Head(q) = "didDisconnect" /\ Range(Tail(q)) \cap BringsUp = {}
<1>1. /\ 1 \in DOMAIN q /\ Head(q) = q[1]
      /\ \A k \in DOMAIN Tail(q) : k + 1 \in DOMAIN q /\ Tail(q)[k] = q[k + 1]
      /\ \A k \in DOMAIN q : k # 1 => k - 1 \in DOMAIN Tail(q) /\ Tail(q)[k - 1] = q[k]
  BY HeadTaken
<1>2. DOMAIN q \subseteq Nat \ {0} /\ DOMAIN Tail(q) \subseteq Nat \ {0}
  OBVIOUS
<1>3. PICK k \in DOMAIN q :
          q[k] = "didDisconnect" /\ \A j \in DOMAIN q : j > k => q[j] \notin BringsUp
  BY DEF EndsDown
<1>4. CASE k = 1
  <2>1. \A j \in DOMAIN Tail(q) : Tail(q)[j] \notin BringsUp
    BY <1>1, <1>2, <1>3, <1>4
  <2> QED BY <1>1, <1>3, <1>4, <2>1 DEF Range
<1>5. CASE k # 1
  <2>1. k - 1 \in DOMAIN Tail(q) /\ Tail(q)[k - 1] = "didDisconnect"
    BY <1>1, <1>3, <1>5
  <2>2. ASSUME NEW j \in DOMAIN Tail(q), j > k - 1 PROVE Tail(q)[j] \notin BringsUp
    <3>1. j \in Nat \ {0} /\ k \in Nat \ {0} /\ j + 1 > k
      BY <1>2, <2>2
    <3> QED BY <1>1, <1>3, <3>1
  <2> QED BY <2>1, <2>2 DEF EndsDown
<1> QED BY <1>4, <1>5

\* What is left of the queue when a callback is taken, and when "send" gives way
\* to a presence.
LEMMA QueueTaken ==
    ASSUME NEW q \in Seq(Kind), q # <<>>
    PROVE  /\ Tail(q) \in Seq(Kind) /\ Head(q) \in Kind
           /\ Range(q) = {Head(q)} \cup Range(Tail(q))
           /\ Range(Append(Tail(q), "presence")) = Range(Tail(q)) \cup {"presence"}
           /\ EndsDown(q) => \/ EndsDown(Tail(q))
                             \/ Head(q) = "didDisconnect" /\ Range(Tail(q)) \cap BringsUp = {}
           /\ EndsDown(Tail(q)) => EndsDown(Append(Tail(q), "presence"))
<1>1. Tail(q) \in Seq(Kind) /\ Head(q) \in Kind
  BY HeadTaken
<1>2. "presence" \in Kind \ BringsUp
  BY DEF Kind, Callback, BringsUp
<1>3. Range(q) = {Head(q)} \cup Range(Tail(q))
  BY RangeTaken
<1>4. Range(Append(Tail(q), "presence")) = Range(Tail(q)) \cup {"presence"}
  <2> DEFINE t == Tail(q)
  <2>1. t \in Seq(Kind) /\ "presence" \in Kind
    BY <1>1, <1>2
  <2> HIDE DEF t
  <2>2. Range(Append(t, "presence")) = Range(t) \cup {"presence"}
    BY <2>1, RangeAppended
  <2> QED BY <2>2 DEF t
<1>5. EndsDown(Tail(q)) => EndsDown(Append(Tail(q), "presence"))
  <2>1. Tail(q) \in Seq(Kind) /\ "presence" \in Kind /\ "presence" \notin BringsUp
    BY <1>1, <1>2
  <2> QED BY <2>1, EndAppended
<1> QED BY <1>1, <1>3, <1>4, <1>5, EndTaken

LEMMA QueueLonger ==
    ASSUME NEW q \in Seq(Kind), NEW e \in Kind
    PROVE  /\ Range(Append(q, e)) = Range(q) \cup {e}
           /\ (EndsDown(q) /\ e \notin BringsUp) \/ e = "didDisconnect" => EndsDown(Append(q, e))
BY EndAppended, RangeAppended

\* A stream that has got beyond its socket has nothing older in the queue.
LEMMA NothingOlder ==
    ASSUME TypeInv, CallbacksInOrder, stream = "opened", ~Contains(workQ, "socketDidConnect")
    PROVE  Range(workQ) \cap {"socketDidConnect", "didDisconnect"} = {}
<1>1. workQ \in Seq(Kind)
  BY DEF TypeInv, Queues, Kind
<1>2. \A k \in DOMAIN workQ : workQ[k] # "socketDidConnect"
  BY <1>1 DEF Contains
<1>3. \A k \in DOMAIN workQ : workQ[k] # "didDisconnect"
  BY <1>2 DEF CallbacksInOrder, OfConnection
<1> QED BY <1>2, <1>3 DEF Range

LEMMA SettleNext == ASSUME SettleInv, Next PROVE (DownSettles /\ UpUndisturbed /\ OnlineSettles)'
<1> USE DEF SettleInv, DownSettles, UpUndisturbed, OnlineSettles, IsOnline, IsDisconnected,
            BringsUp, Kind, Callback
<1>0. workQ \in Seq(Kind)
  BY DEF TypeInv, Queues
<1>a. \A e \in Kind :
         /\ Range(Append(workQ, e)) = Range(workQ) \cup {e}
         /\ (EndsDown(workQ) /\ e \notin BringsUp) \/ e = "didDisconnect" => EndsDown(Append(workQ, e))
  BY <1>0, QueueLonger
<1>b. workQ # <<>> =>
         /\ Range(workQ) = {Head(workQ)} \cup Range(Tail(workQ))
         /\ Range(Append(Tail(workQ), "presence")) = Range(Tail(workQ)) \cup {"presence"}
         /\ EndsDown(workQ) => \/ EndsDown(Tail(workQ))
                               \/ /\ Head(workQ) = "didDisconnect"
                                  /\ Range(Tail(workQ)) \cap BringsUp = {}
         /\ EndsDown(Tail(workQ)) => EndsDown(Append(Tail(workQ), "presence"))
  BY <1>0, QueueTaken
<1>1. CASE Observers
  BY <1>1 DEF Observers, ProtocolDidChange, LeaveIfDisconnected, loginVars, streamVars
<1>2. CASE SocketConnects
  BY <1>2, <1>a DEF SocketConnects, loginVars
<1>3. CASE StreamConnects
  BY <1>3, <1>a, NothingOlder DEF StreamConnects, loginVars
<1>4. CASE NewTrust \/ TrustRefused
  BY <1>4 DEF NewTrust, TrustRefused, loginVars
<1>5. CASE Authenticates
  BY <1>5, <1>a DEF Authenticates, loginVars
<1>6. CASE AuthenticationFails
  BY <1>6, <1>a DEF AuthenticationFails, loginVars
<1>7. CASE SocketDisconnects
  BY <1>7, <1>a DEF SocketDisconnects, loginVars
<1>8. CASE Reconnects
  <2>1. CASE stream = "down" /\ stream' = "connecting"
    BY <1>8, <2>1 DEF Reconnects, Connect, loginVars
  <2>2. CASE stream \in {"connecting", "opened", "distrusted"} /\ UNCHANGED stream
    <3>1. stream # "down" /\ ~IsOnline /\ ~authenticated
      BY <2>2
    <3>2. UNCHANGED <<stream, authenticated>>
      BY <1>8, <2>2 DEF Reconnects, Connect
    <3> QED BY <2>2, <3>1, <3>2
  <2> QED BY <1>8, <2>1, <2>2 DEF Reconnects, Connect
<1>9. CASE SocketDidConnect
  BY <1>9, <1>b DEF SocketDidConnect, Callbacks, SetStatus, loginVars, streamVars
<1>10. CASE DidConnect
  BY <1>10, <1>b DEF DidConnect, Callbacks, SetStatus, Authenticate, loginVars
<1>11. CASE DidAuthenticate
  BY <1>11, <1>b DEF DidAuthenticate, Callbacks, SetStatus, loginVars, streamVars
<1>12. CASE DidNotAuthenticate
  BY <1>12, <1>b DEF DidNotAuthenticate, Callbacks, GoOffline, Disconnect, loginVars, streamVars
<1>13. CASE DidDisconnect
  BY <1>13, <1>b DEF DidDisconnect, Callbacks, SetStatus, loginVars, streamVars
<1>14. CASE SendPresence
  BY <1>14, <1>b DEF SendPresence, Callbacks, AfterPresence, loginVars, streamVars
<1>15. CASE FinishDisconnectingIfNeeded
  BY <1>15, <1>b DEF FinishDisconnectingIfNeeded, Callbacks, Disconnect, loginVars, streamVars
<1>16. CASE LoginChecks \/ LoginSetsConnecting \/ LoginLooks
  BY <1>16 DEF LoginChecks, LoginSetsConnecting, LoginLooks, SetStatus, streamVars
<1>17. CASE LoginCalls
  BY <1>17 DEF LoginCalls, Authenticate, Connect
<1>18. CASE GoOnline
  <2>1. CASE workQ' = workQ
    BY <1>18, <2>1 DEF GoOnline, loginVars, streamVars
  <2>2. CASE workQ' = Append(workQ, "presence")
    BY <1>18, <1>a, <2>2 DEF GoOnline, loginVars, streamVars
  <2> QED BY <1>18, <2>1, <2>2 DEF GoOnline, AfterPresence
<1>19. CASE TellDate
  BY <1>19, <1>a DEF TellDate, loginVars, streamVars
<1>20. CASE AppDelegate
  BY <1>20 DEF AppDelegate, BecomeActive, EnterBackground, PerformFetch, AskLogin, Logout,
               GoOffline, Disconnect, loginVars, streamVars
<1>21. CASE DisconnectAll
  BY <1>21 DEF DisconnectAll, BeginDisconnect, Observe, DisconnectSocketOnly, WaitEnds,
               SetStatus, loginVars, streamVars
<1> QED
  BY <1>1, <1>2, <1>3, <1>4, <1>5, <1>6, <1>7, <1>8, <1>9, <1>10, <1>11, <1>12, <1>13,
     <1>14, <1>15, <1>16, <1>17, <1>18, <1>19, <1>20, <1>21
  DEF Next, Network, Work, LoginThread

LEMMA SettleInit == Init => SettleInv
BY TypeInit DEF Init, SettleInv, CallbacksInOrder, DownSettles, UpUndisturbed,
                OnlineSettles, IsOnline, Range

LEMMA SettleStep == ASSUME SettleInv, [Next]_vars PROVE SettleInv'
<1>1. CASE Next
  BY <1>1, TypeNext, OrderKept, SettleNext DEF SettleInv
<1>2. CASE UNCHANGED vars
  <2>1. TypeInv'
    BY <1>2, TypeNext DEF SettleInv
  <2>2. (CallbacksInOrder /\ DownSettles /\ UpUndisturbed /\ OnlineSettles)'
    BY <1>2 DEF SettleInv, vars, loginVars, streamVars, CallbacksInOrder, DownSettles,
                UpUndisturbed, OnlineSettles, IsOnline, EndsDown
  <2> QED BY <2>1, <2>2 DEF SettleInv
<1> QED BY <1>1, <1>2

\* When every callback has been handled, the status agrees with the stream.
THEOREM StatusesSettle == Spec => []StatusSettles
<1>1. SettleInv => StatusSettles
  BY DEF SettleInv, DownSettles, OnlineSettles, StatusSettles, Quiet, EndsDown, Range,
         IsOnline, IsDisconnected
<1> QED BY <1>1, SettleInit, SettleStep, PTL DEF Spec
-----------------------------------------------------------------------------
(* Early ends                                                               *)

\* The stream is not up, and comes no further than its socket as long as the
\* account's queue has not told of that.
NotUp ==
    /\ stream \notin {"connected", "auth"}
    /\ stream = "opened" => "socketDidConnect" \in Range(workQ)

SettledDown == main # "free" /\ status = "disconnected" => Held /\ NotUp
GroupLetGo  == Waits /\ group <= 0 => status \notin OnlineStatus /\ Held /\ NotUp

EarlyInv == SettleInv /\ SettledDown /\ GroupLetGo

\* While the thread that took it down is held, the stream does not come up.
LEMMA NotUpKept == ASSUME TypeInv, Held, NotUp, Next PROVE NotUp'
<1>0. workQ \in Seq(Kind)
  BY DEF TypeInv, Queues, Kind
<1>1. ASSUME NEW e \in Kind, workQ' = Append(workQ, e)
      PROVE  e \in Range(workQ') /\ Range(workQ) \subseteq Range(workQ')
  BY <1>0, <1>1, RangeAppended
<1>2. ASSUME Told("work"), workQ # <<>>
      PROVE  /\ Head(workQ) # "socketDidConnect"
             /\ Range(workQ) = {Head(workQ)} \cup Range(Tail(workQ))
             /\ Range(Append(Tail(workQ), "presence")) = Range(Tail(workQ)) \cup {"presence"}
  <2>1. NoneComesUp(workQ)
    BY <1>2 DEF Held, Told
  <2>2. Head(workQ) # "socketDidConnect"
    <3>1. CASE Head(workQ) = "didDisconnect"
      BY <3>1
    <3>2. CASE Head(workQ) # "didDisconnect"
      BY <1>0, <1>2, <2>1, <3>2, CallbackTaken DEF BringsUp
    <3> QED BY <3>1, <3>2
  <2> QED BY <1>0, <1>2, <2>2, QueueTaken
<1>3. Contains(workQ, "socketDidConnect") <=> "socketDidConnect" \in Range(workQ)
  BY <1>0 DEF Contains, Range
<1> USE DEF NotUp, Kind, Callback, IsDisconnected, streamVars
<1>4. CASE Observers
  BY <1>4 DEF Observers, ProtocolDidChange, LeaveIfDisconnected
<1>5. CASE SocketConnects
  BY <1>1, <1>5 DEF SocketConnects
<1>6. CASE StreamConnects \/ NewTrust
  BY <1>3, <1>6 DEF StreamConnects, NewTrust
<1>7. CASE Authenticates \/ AuthenticationFails
  BY <1>7 DEF Authenticates, AuthenticationFails
<1>8. CASE TrustRefused \/ SocketDisconnects
  BY <1>8 DEF TrustRefused, SocketDisconnects
<1>9. CASE Reconnects
  BY <1>9 DEF Reconnects, Connect
<1>10. CASE Work
  <2>1. Told("work") /\ workQ # <<>>
    BY <1>10 DEF Work, Callbacks, SocketDidConnect, DidConnect, DidAuthenticate,
                 DidNotAuthenticate, DidDisconnect, SendPresence, FinishDisconnectingIfNeeded
  <2>2. stream' = stream
    BY <1>10 DEF Work, SocketDidConnect, DidConnect, Authenticate, DidAuthenticate,
                 DidNotAuthenticate, GoOffline, Disconnect, DidDisconnect, SendPresence,
                 FinishDisconnectingIfNeeded
  <2>3. workQ' \in {Tail(workQ), Append(Tail(workQ), "presence")}
    BY <1>10 DEF Work, SocketDidConnect, DidConnect, DidAuthenticate, DidNotAuthenticate,
                 DidDisconnect, SendPresence, AfterPresence, FinishDisconnectingIfNeeded
  <2> QED BY <1>2, <2>1, <2>2, <2>3
<1>11. CASE LoginThread
  BY <1>11 DEF LoginThread, LoginChecks, LoginSetsConnecting, LoginLooks, LoginCalls,
               Authenticate, Connect
<1>12. CASE GoOnline
  BY <1>1, <1>12 DEF GoOnline, AfterPresence
<1>13. CASE TellDate
  BY <1>1, <1>13 DEF TellDate
<1>14. CASE AppDelegate
  BY <1>14 DEF AppDelegate, BecomeActive, EnterBackground, PerformFetch, AskLogin, Logout,
               GoOffline, Disconnect
<1>15. CASE DisconnectAll
  BY <1>15 DEF DisconnectAll, BeginDisconnect, Observe, DisconnectSocketOnly, WaitEnds
<1> QED
  BY <1>4, <1>5, <1>6, <1>7, <1>8, <1>9, <1>10, <1>11, <1>12, <1>13, <1>14, <1>15
  DEF Next, Network

\* When the account is put down while main waits, the thread that did it is held.
LEMMA SettledKept == ASSUME EarlyInv, Next PROVE SettledDown'
<1> SUFFICES ASSUME main' # "free", status' = "disconnected" PROVE Held' /\ NotUp'
  BY DEF SettledDown
<1> USE DEF EarlyInv, SettleInv
<1>1. main # "free"
  BY GroupSteps
<1>2. CASE status = "disconnected"
  BY <1>1, <1>2, HeldKept, NotUpKept DEF SettledDown
<1>3. CASE /\ "list" \in telling'["work"] /\ stream' = stream
           /\ workQ # <<>> /\ Head(workQ) = "didDisconnect" /\ workQ' = Tail(workQ)
  <2>1. workQ \in Seq(Kind) /\ "didDisconnect" \in Range(workQ)
    BY <1>3, HeadTaken DEF TypeInv, Queues, Kind, Range
  <2>2. stream \notin {"connected", "auth"}
    BY <2>1 DEF UpUndisturbed
  <2>3. ASSUME stream = "opened" PROVE "socketDidConnect" \in Range(Tail(workQ))
    <3>1. "socketDidConnect" \in Range(workQ)
      BY <2>1, <2>3 DEF CallbacksInOrder, OfConnection, Range
    <3> QED BY <1>3, <2>1, <3>1, RangeTaken
  <2> QED BY <1>3, <2>2, <2>3 DEF Held, NotUp
<1>4. CASE /\ "list" \in telling'["trust"]
           /\ stream = "opened" /\ stream' = "distrusted" /\ workQ' = workQ
           /\ ~Contains(workQ, "socketDidConnect")
  <2>1. workQ \in Seq(Kind)
    BY DEF TypeInv, Queues, Kind
  <2>2. \A k \in DOMAIN workQ : workQ[k] # "socketDidConnect"
    BY <1>4, <2>1 DEF Contains
  <2>3. \A k \in DOMAIN workQ : workQ[k] \notin BringsUp
    BY <1>4, <2>2 DEF CallbacksInOrder, BringsUp, OfConnection
  <2> QED BY <1>4, <2>3 DEF Held, NoneComesUp, NotUp
<1> QED BY <1>2, <1>3, <1>4, StatusSteps

\* A group that is let go finds the account offline, and it stays so.
LEMMA LetGoKept == ASSUME EarlyInv, Next PROVE GroupLetGo'
<1> SUFFICES ASSUME (Waits /\ group <= 0)' PROVE status' \notin OnlineStatus /\ Held' /\ NotUp'
  BY DEF GroupLetGo
<1> USE DEF EarlyInv, SettleInv
<1>1. /\ Waits /\ main # "free" /\ main' # "free"
      /\ group <= 0 \/ (status = "disconnected" /\ status' = status)
  BY GroupSteps DEF Waits
<1>2. status \notin OnlineStatus /\ Held /\ NotUp
  BY <1>1 DEF GroupLetGo, SettledDown, OnlineStatus
<1>3. ASSUME status' \in OnlineStatus PROVE FALSE
  <2>1. Told("work") /\ workQ # <<>> /\ Head(workQ) \in BringsUp
    BY <1>2, <1>3, StatusSteps
  <2>2. workQ \in Seq(Kind) /\ NoneComesUp(workQ)
    BY <1>2, <2>1 DEF TypeInv, Queues, Kind, Held, Told
  <2>3. Head(workQ) # "didDisconnect"
    BY <2>1 DEF BringsUp
  <2> QED BY <2>1, <2>2, <2>3, CallbackTaken
<1> QED BY <1>1, <1>2, <1>3, HeldKept, NotUpKept

\* From the end of the group to the end of the wait the account is offline.
THEOREM EarlyEndsAreOffline == Spec => []EarlyEndIsOffline
<1>1. Init => EarlyInv
  BY SettleInit DEF Init, EarlyInv, SettledDown, GroupLetGo, Waits
<1>2. EarlyInv /\ [Next]_vars => EarlyInv'
  <2>1. ASSUME EarlyInv, Next PROVE EarlyInv'
    BY <2>1, SettleStep, SettledKept, LetGoKept DEF EarlyInv
  <2>2. ASSUME EarlyInv, UNCHANGED vars PROVE EarlyInv'
    <3>1. SettleInv'
      BY <2>2, SettleStep DEF EarlyInv
    <3>2. SettledDown' /\ GroupLetGo'
      BY <2>2 DEF EarlyInv, vars, waitVars, streamVars, SettledDown, NotUp,
                  GroupLetGo, Waits, Held, NoneComesUp, GoesDown
    <3> QED BY <3>1, <3>2 DEF EarlyInv
  <2> QED BY <2>1, <2>2
<1>3. EarlyInv => EarlyEndIsOffline
  BY DEF EarlyInv, SettleInv, TypeInv, Places, LoginStatus, GroupLetGo, Waits, NotUp,
         OnlineStatus, EarlyEndIsOffline
<1> QED BY <1>1, <1>2, <1>3, PTL DEF Spec
-----------------------------------------------------------------------------
(* Leaving                                                                  *)

\* An account that is to go offline, and not over Tor: its presence is on its way
\* through main's queue or its own, or the stream is closing or not yet up, and
\* comes up only with a status of its own.
LeavingGoesOn ==
    ~Tor /\ status = "disconnecting" =>
        \/ "date" \in Range(mainQ)
        \/ Range(workQ) \cap {"send", "presence"} # {}
        \/ closing
        \/ stream \in {"down", "connecting", "distrusted"}
        \/ stream = "opened" /\ "socketDidConnect" \in Range(workQ)

LEMMA LeavingNext ==
    ASSUME TypeInv, LeavingGoesOn, Next PROVE LeavingGoesOn'
<1> USE DEF LeavingGoesOn, IsDisconnected, Kind, Callback
<1>0. workQ \in Seq(Kind) /\ mainQ \in Seq({"online", "date"})
  BY DEF TypeInv, Queues
<1>a. \A e \in Kind : Range(Append(workQ, e)) = Range(workQ) \cup {e}
  BY <1>0, RangeAppended
<1>b. workQ # <<>> =>
         /\ Range(workQ) = {Head(workQ)} \cup Range(Tail(workQ))
         /\ Range(Append(Tail(workQ), "presence")) = Range(Tail(workQ)) \cup {"presence"}
  BY <1>0, QueueTaken
<1>c. \A q \in Seq({"online", "date"}), e \in {"online", "date"} :
          Range(Append(q, e)) = Range(q) \cup {e}
  BY <1>0, RangeAppended
<1>d. mainQ # <<>> =>
         /\ Range(mainQ) = {Head(mainQ)} \cup Range(Tail(mainQ))
         /\ Range(Append(Tail(mainQ), "date")) = Range(Tail(mainQ)) \cup {"date"}
  <2> SUFFICES ASSUME mainQ # <<>>
               PROVE  /\ Range(mainQ) = {Head(mainQ)} \cup Range(Tail(mainQ))
                      /\ Range(Append(Tail(mainQ), "date")) = Range(Tail(mainQ)) \cup {"date"}
    OBVIOUS
  <2>1. Tail(mainQ) \in Seq({"online", "date"})
    BY <1>0, HeadTaken
  <2>2. Range(mainQ) = {Head(mainQ)} \cup Range(Tail(mainQ))
    BY <1>0, RangeTaken
  <2>3. Range(Append(Tail(mainQ), "date")) = Range(Tail(mainQ)) \cup {"date"}
    BY <1>c, <2>1
  <2> QED BY <2>2, <2>3
<1>1. CASE Observers
  BY <1>1 DEF Observers, ProtocolDidChange, LeaveIfDisconnected, streamVars
<1>2. CASE SocketConnects \/ Authenticates \/ AuthenticationFails \/ SocketDisconnects
  <2>1. CASE SocketConnects
    BY <1>a, <2>1 DEF SocketConnects
  <2>2. CASE Authenticates
    BY <1>a, <2>2 DEF Authenticates
  <2>3. CASE AuthenticationFails
    BY <1>a, <2>3 DEF AuthenticationFails
  <2>4. CASE SocketDisconnects
    BY <2>4 DEF SocketDisconnects
  <2> QED BY <1>2, <2>1, <2>2, <2>3, <2>4
<1>3. CASE StreamConnects
  <2>1. "socketDidConnect" \notin Range(workQ)
    BY <1>0, <1>3 DEF StreamConnects, Contains, Range
  <2> QED BY <1>3, <1>a, <2>1 DEF StreamConnects
<1>4. CASE NewTrust \/ TrustRefused
  BY <1>4 DEF NewTrust, TrustRefused, SetStatus
<1>5. CASE Reconnects
  BY <1>5 DEF Reconnects, Connect
<1>6. CASE SocketDidConnect \/ DidConnect \/ DidAuthenticate \/ DidDisconnect
  BY <1>6 DEF SocketDidConnect, DidConnect, DidAuthenticate, DidDisconnect, SetStatus
<1>7. CASE DidNotAuthenticate
  BY <1>7, <1>b, <1>0, <1>c DEF DidNotAuthenticate, Callbacks, GoOffline, Disconnect, streamVars
<1>8. CASE SendPresence
  BY <1>8, <1>b DEF SendPresence, Callbacks, AfterPresence, streamVars
<1>9. CASE FinishDisconnectingIfNeeded
  BY <1>9, <1>b DEF FinishDisconnectingIfNeeded, Callbacks, Disconnect, streamVars
<1>10. CASE LoginThread
  BY <1>10, <1>0, <1>c DEF LoginThread, LoginChecks, LoginSetsConnecting, LoginLooks, LoginCalls,
                     Authenticate, Connect, SetStatus, streamVars
<1>11. CASE GoOnline
  <2>1. CASE app = "active"
    BY <1>11, <1>a, <2>1 DEF GoOnline, AfterPresence, streamVars
  <2>2. CASE app # "active"
    BY <1>11, <1>d, <2>2 DEF GoOnline, GoAway, streamVars
  <2> QED BY <2>1, <2>2
<1>12. CASE TellDate
  BY <1>12, <1>a, <1>d DEF TellDate, streamVars
<1>13. CASE AppDelegate
  BY <1>13, <1>0, <1>c DEF AppDelegate, BecomeActive, EnterBackground, PerformFetch, AskLogin,
                     Logout, GoOffline, GoAway, Disconnect, streamVars
<1>14. CASE DisconnectAll
  BY <1>14, <1>0, <1>c DEF DisconnectAll, BeginDisconnect, Observe, DisconnectSocketOnly, WaitEnds,
                     GoAway, SetStatus, streamVars
<1> QED
  BY <1>1, <1>2, <1>3, <1>4, <1>5, <1>6, <1>7, <1>8, <1>9, <1>10, <1>11, <1>12, <1>13, <1>14
  DEF Next, Network, Work

\* When there is nothing more to do, an account that is to go offline is not left
\* online, unless it is used over Tor.
THEOREM NoneIsLeftDisconnecting == Spec => []NoneLeftDisconnecting
<1> DEFINE Inv == TypeInv /\ LeavingGoesOn
<1>1. Init => Inv
  BY TypeInit DEF Init, LeavingGoesOn
<1>2. Inv /\ [Next]_vars => Inv'
  <2>1. ASSUME Inv, Next PROVE Inv'
    BY <2>1, TypeNext, LeavingNext
  <2>2. ASSUME Inv, UNCHANGED vars PROVE Inv'
    <3>1. TypeInv'
      BY <2>2, TypeNext
    <3>2. LeavingGoesOn'
      BY <2>2 DEF vars, streamVars, LeavingGoesOn
    <3> QED BY <3>1, <3>2
  <2> QED BY <2>1, <2>2
<1>3. Inv => NoneLeftDisconnecting
  BY DEF LeavingGoesOn, NoneLeftDisconnecting, Quiet, IsOnline, Range
<1> QED BY <1>1, <1>2, <1>3, PTL DEF Spec
-----------------------------------------------------------------------------
(* Mending                                                                  *)

\* A connection that was lost and is to be made again has its timer.
TimerIsSet == IsDisconnected /\ reconnect => timer

\* XMPPReconnect never waits for a timer it has not set: a stream that is down
\* and to be connected again has one, whoever stopped it while the stream was up.
THEOREM LossesKeepTheirTimer == Spec => []TimerIsSet
<1> USE DEF TimerIsSet, IsDisconnected
<1>1. Init => TimerIsSet
  BY DEF Init
<1>2. TypeInv /\ TimerIsSet /\ [Next]_vars => TimerIsSet'
  <2> SUFFICES ASSUME TypeInv, TimerIsSet, [Next]_vars PROVE TimerIsSet'
    OBVIOUS
  <2>1. CASE UNCHANGED streamVars
    BY <2>1 DEF streamVars
  <2>2. CASE SocketDisconnects
    BY <2>2 DEF SocketDisconnects, TypeInv, Flags
  <2>3. CASE Network /\ ~SocketDisconnects
    BY <2>3 DEF Network, SocketConnects, StreamConnects, NewTrust, TrustRefused,
                Authenticates, AuthenticationFails, Reconnects, Connect
  <2>4. CASE Work
    BY <2>4 DEF Work, SocketDidConnect, DidConnect, DidAuthenticate, DidNotAuthenticate,
                DidDisconnect, SendPresence, FinishDisconnectingIfNeeded, Authenticate,
                GoOffline, Disconnect, streamVars
  <2>5. CASE LoginThread
    BY <2>5 DEF LoginThread, LoginChecks, LoginSetsConnecting, LoginLooks, LoginCalls,
                Authenticate, Connect, streamVars
  <2>6. CASE AppDelegate
    BY <2>6 DEF AppDelegate, BecomeActive, EnterBackground, PerformFetch, AskLogin, Logout,
                GoOffline, Disconnect, streamVars
  <2>7. CASE Observers \/ GoOnline \/ TellDate \/ DisconnectAll
    BY <2>1, <2>7 DEF Observers, ProtocolDidChange, LeaveIfDisconnected, GoOnline, TellDate,
                DisconnectAll, BeginDisconnect, Observe, DisconnectSocketOnly, WaitEnds
  <2> QED BY <2>1, <2>2, <2>3, <2>4, <2>5, <2>6, <2>7 DEF Next, vars
<1>3. Init /\ [][Next]_vars => []TypeInv
  BY TypeInit, TypeNext, PTL
<1> QED BY <1>1, <1>2, <1>3, PTL DEF Spec
=============================================================================
