-------------------------- MODULE DeviceListProofs --------------------------
(* Proofs about DeviceList, for any number of devices.  What a device that   *)
(* is off the list has under way, and what the user thinks of the recorded   *)
(* devices, are inductive by themselves once the types are known.            *)
EXTENDS DeviceList, QueueLemmas

USE ListConstants

-----------------------------------------------------------------------------
(* Types                                                                    *)

Shared ==
    /\ list \subseteq Device /\ online \subseteq Device
    /\ logins \in [Device -> Nat]
    /\ asked \in [Device -> SUBSET Nat] /\ \A c \in Device : asked[c] \subseteq 1..logins[c]
    /\ todo \in [Device -> {None} \cup SUBSET Device]
    /\ \A c \in Device : todo[c] # None => c \notin todo[c]
    /\ events \in 0..MaxEvents
    /\ denied \subseteq Device
Streams ==
    /\ up \in [Device -> Seq(Requests)] /\ down \in [Device -> Seq(Answers)]
    /\ \A c \in Device \ online : up[c] = <<>> /\ down[c] = <<>>
Kept ==
    /\ level \in [Device -> Level] /\ view \in {None} \cup [Device -> Level]
    /\ seen \subseteq Device /\ unlisted \subseteq Device
    /\ distrusted \subseteq Recorded(level)

LEMMA Parts == TypeOK <=> Shared /\ Streams /\ Kept
BY DEF TypeOK, Shared, Streams, Kept

LEMMA TypeInit == Init => TypeOK
<1> SUFFICES ASSUME Init PROVE TypeOK
  OBVIOUS
<1>1. Shared
  BY DEF Init, Shared
<1>2. Streams
  BY DEF Init, Streams
<1>3. Kept
  BY DEF Init, Kept, Level, Recorded
<1> QED BY <1>1, <1>2, <1>3, Parts

\* A device list gives every device a level again.
LEMMA StoredLevels ==
    ASSUME Kept, NEW L \in SUBSET Device
    PROVE  StoreDevices(level, L) \in [Device -> Level]
BY DEF Kept, StoreDevices, Level

LEMMA StoreKeeps ==
    ASSUME Kept, NEW c \in Device, NEW L \in SUBSET Device, StoreDeviceIds(c, L), view' = view
    PROVE  Kept'
<1>1. CASE c = Mine
  <2>1. level' \in [Device -> Level] /\ distrusted' = distrusted \cap Recorded(level')
    BY <1>1, StoredLevels DEF StoreDeviceIds, NewRecords
  <2> QED BY <1>1, <2>1 DEF Kept, StoreDeviceIds
<1>2. CASE c # Mine
  BY <1>2 DEF StoreDeviceIds, records, Kept
<1> QED BY <1>1, <1>2

\* A request is sent, or dropped for want of a connection.
LEMMA AskKeeps ==
    ASSUME Streams, NEW c \in Device, NEW r \in Requests, Ask(c, r),
           UNCHANGED <<online, down>>
    PROVE  Streams'
<1>1. Append(up[c], r) \in Seq(Requests)
  BY DEF Streams
<1> QED BY <1>1 DEF Streams, Ask

\* The next answer is taken off the connection of device c.
LEMMA AnswerTaken ==
    ASSUME Streams, NEW c \in Device, down[c] # <<>>
    PROVE  /\ Head(down[c]) \in Answers /\ Tail(down[c]) \in Seq(Answers) /\ c \in online
           /\ [down EXCEPT ![c] = Tail(@)] \in [Device -> Seq(Answers)]
<1>1. down[c] \in Seq(Answers)
  BY DEF Streams
<1>2. Head(down[c]) \in Answers /\ Tail(down[c]) \in Seq(Answers)
  BY <1>1, HeadTaken
<1> QED BY <1>2 DEF Streams

LEMMA RequestTaken ==
    ASSUME Streams, NEW c \in Device, up[c] # <<>>
    PROVE  /\ Head(up[c]) \in Requests /\ Tail(up[c]) \in Seq(Requests) /\ c \in online
           /\ [up EXCEPT ![c] = Tail(@)] \in [Device -> Seq(Requests)]
<1>1. up[c] \in Seq(Requests)
  BY DEF Streams
<1>2. Head(up[c]) \in Requests /\ Tail(up[c]) \in Seq(Requests)
  BY <1>1, HeadTaken
<1> QED BY <1>2 DEF Streams

LEMMA TypeNext == ASSUME TypeOK, [Next]_vars PROVE TypeOK'
<1>0. Shared /\ Streams /\ Kept
  BY Parts
<1> SUFFICES Shared' /\ Streams' /\ Kept'
  BY Parts DEF TypeOK, Shared, Streams, Kept
<1>1. ASSUME NEW c \in Device, Authenticate(c) PROVE Shared' /\ Streams' /\ Kept'
  <2>1. Shared'
    BY <1>0, <1>1 DEF Authenticate, Shared
  <2>2. <<[op |-> "fetch", login |-> logins[c] + 1]>> \in Seq(Requests)
    BY <1>0 DEF Shared, Requests
  <2>3. Streams'
    BY <1>0, <1>1, <2>2 DEF Authenticate, Streams
  <2> QED BY <1>0, <1>1, <2>1, <2>3 DEF Authenticate, Kept, records
<1>2. ASSUME NEW c \in Device, Disconnect(c) PROVE Shared' /\ Streams' /\ Kept'
  <2>1. Shared'
    BY <1>0, <1>2 DEF Disconnect, Shared
  <2>2. Streams'
    BY <1>0, <1>2 DEF Disconnect, Streams
  <2> QED BY <1>0, <1>2, <2>1, <2>2 DEF Disconnect, Kept, records
<1>3. ASSUME NEW c \in Device, DeviceIdsArrive(c) PROVE Shared' /\ Streams' /\ Kept'
  <2>1. Head(down[c]) \in Answers /\ [down EXCEPT ![c] = Tail(@)] \in [Device -> Seq(Answers)]
        /\ c \in online
    BY <1>0, <1>3, AnswerTaken DEF DeviceIdsArrive
  <2>2. Head(down[c]).list \in SUBSET Device
    BY <2>1 DEF Answers
  <2>3. Kept'
    BY <1>0, <1>3, <2>2, StoreKeeps DEF DeviceIdsArrive, ProcessIncomingDeviceIds
  <2>4. Shared'
    BY <1>0, <1>3, <2>2 DEF DeviceIdsArrive, ProcessIncomingDeviceIds, Shared
  <2>5. Streams'
    BY <1>0, <1>3, <2>1 DEF DeviceIdsArrive, Streams
  <2> QED BY <2>3, <2>4, <2>5
<1>4. ASSUME NEW c \in Device, FetchTimesOut(c) PROVE Shared' /\ Streams' /\ Kept'
  <2>1. Kept'
    BY <1>0, <1>4, StoreKeeps DEF FetchTimesOut, ProcessIncomingDeviceIds
  <2>2. Shared'
    BY <1>0, <1>4 DEF FetchTimesOut, ProcessIncomingDeviceIds, Shared
  <2>3. Streams'
    BY <1>0, <1>4 DEF FetchTimesOut, Streams
  <2> QED BY <2>1, <2>2, <2>3
<1>5. ASSUME NEW c \in Device, PublishDeviceIds(c) PROVE Shared' /\ Streams' /\ Kept'
  <2>1. todo[c] \cup {c} \in SUBSET Device
    BY <1>0, <1>5 DEF PublishDeviceIds, Shared
  <2>2. Kept'
    BY <1>0, <1>5, <2>1, StoreKeeps DEF PublishDeviceIds
  <2>3. Shared'
    BY <1>0, <1>5 DEF PublishDeviceIds, Shared
  <2>4. [op |-> "publish", list |-> todo[c] \cup {c}] \in Requests
    BY <2>1 DEF Requests
  <2>5. Streams'
    BY <1>0, <1>5, <2>4, AskKeeps DEF PublishDeviceIds
  <2> QED BY <2>2, <2>3, <2>5
<1>6. ASSUME NEW c \in Device, NEW d \in Device, RemoveDevice(c, d)
      PROVE  Shared' /\ Streams' /\ Kept'
  <2>1. [op |-> "take", device |-> d] \in Requests
    BY DEF Requests
  <2>2. Streams'
    BY <1>0, <1>6, <2>1, AskKeeps DEF RemoveDevice
  <2>3. Shared'
    BY <1>0, <1>6 DEF RemoveDevice, Shared
  <2>4. CASE c = Mine
    <3>1. level' \in [Device -> Level] /\ distrusted' = distrusted \cap Recorded(level')
      BY <1>0, <1>6, <2>4 DEF RemoveDevice, Kept, NewRecords, Level
    <3>2. view' \in {None} \cup [Device -> Level]
      BY <1>0, <1>6, <2>4 DEF RemoveDevice, Kept, Level
    <3> QED BY <1>0, <1>6, <2>2, <2>3, <2>4, <3>1, <3>2 DEF RemoveDevice, Kept
  <2>5. CASE c # Mine
    BY <1>0, <1>6, <2>2, <2>3, <2>5 DEF RemoveDevice, Kept
  <2> QED BY <2>4, <2>5
<1>7. ASSUME NEW c \in Device, RemoveFromList(c) PROVE Shared' /\ Streams' /\ Kept'
  <2>1. Head(down[c]) \in Answers /\ [down EXCEPT ![c] = Tail(@)] \in [Device -> Seq(Answers)]
        /\ c \in online
    BY <1>0, <1>7, AnswerTaken DEF RemoveFromList
  <2>2. [op |-> "removal", list |-> Head(down[c]).list \ {Head(down[c]).device}] \in Requests
    BY <2>1 DEF Answers, Requests
  <2>3. up' \in [Device -> Seq(Requests)] /\ \A d \in Device \ online : up'[d] = up[d]
    BY <1>0, <1>7, <2>1, <2>2 DEF RemoveFromList, Ask, Streams
  <2>4. Streams'
    BY <1>0, <1>7, <2>1, <2>3 DEF RemoveFromList, Streams
  <2> QED BY <1>0, <1>7, <2>4 DEF RemoveFromList, Shared, Kept, records
<1>8. CASE OpenKeys
  <2>1. view' \in [Device -> Level]
    BY <1>0, <1>8 DEF OpenKeys, Kept, Level
  <2> QED BY <1>0, <1>8, <2>1 DEF OpenKeys, Shared, Streams, Kept, records
<1>9. CASE Save
  <2>1. PICK shown \in Switched(view) :
           LET saved == {d \in Recorded(level) : shown[d] # "none"} IN
           /\ level' = [d \in Device |-> IF d \in saved THEN shown[d] ELSE level[d]]
           /\ distrusted' = (distrusted \ {d \in saved : shown[d] \in TrustedLevel})
                                \cup {d \in saved : shown[d] = "untrusted"}
           /\ unlisted' = unlisted \cup {d \in saved \ seen : shown[d] \in TrustedLevel}
    BY <1>9 DEF Save
  <2>2. shown \in [Device -> Level]
    BY DEF Switched
  <2>3. Recorded(level) \subseteq Device
    BY <1>0 DEF Kept, Recorded
  <2>4. level' \in [Device -> Level]
    BY <1>0, <2>1, <2>2 DEF Kept
  <2>5. distrusted' \subseteq Recorded(level')
    BY <1>0, <2>1, <2>2, <2>3 DEF Kept, Recorded
  <2>6. unlisted' \subseteq Device
    BY <1>0, <2>1, <2>3 DEF Kept
  <2> QED BY <1>0, <1>9, <2>4, <2>5, <2>6 DEF Save, Shared, Streams, Kept
<1>10. CASE CloseKeys
  BY <1>0, <1>10 DEF CloseKeys, Shared, Streams, Kept, records
<1>11. ASSUME NEW d \in Device, KeyLearned(d) PROVE Shared' /\ Streams' /\ Kept'
  <2>1. level' \in [Device -> Level] /\ distrusted' = distrusted \cap Recorded(level')
    BY <1>0, <1>11 DEF KeyLearned, NewRecords, SaveIdentity, Kept, Level
  <2> QED BY <1>0, <1>11, <2>1 DEF KeyLearned, Shared, Streams, Kept
<1>12. ASSUME NEW c \in Device, ServerAnswers(c) PROVE Shared' /\ Streams' /\ Kept'
  <2> DEFINE r == Head(up[c])
  <2>1. r \in Requests /\ up' \in [Device -> Seq(Requests)] /\ c \in online
        /\ \A d \in Device \ online : up'[d] = up[d]
    BY <1>0, <1>12, RequestTaken DEF ServerAnswers
  <2>2. Kept' /\ (list' \subseteq Device => Shared')
    <3>1. UNCHANGED <<online, logins, asked, todo, events, records, view, denied>>
      BY <1>12 DEF ServerAnswers
    <3> QED BY <1>0, <3>1 DEF Shared, Kept, records
  <2>3. CASE r.op = "fetch"
    <3>1. [op |-> "answer", login |-> r.login, list |-> list] \in Answers
      BY <1>0, <2>1, <2>3 DEF Requests, Answers, Shared
    <3>2. /\ list' = list /\ UNCHANGED online
          /\ down' = [down EXCEPT ![c] = Append(@,
                             [op |-> "answer", login |-> r.login, list |-> list])]
      BY <1>12, <2>3 DEF ServerAnswers
    <3>3. down' \in [Device -> Seq(Answers)] /\ \A d \in Device \ online : down'[d] = down[d]
      BY <1>0, <2>1, <3>1, <3>2 DEF Streams
    <3>4. Streams' /\ list' = list
      BY <1>0, <2>1, <3>2, <3>3 DEF Streams
    <3>5. list' \subseteq Device
      BY <1>0, <3>1, <3>4 DEF Shared
    <3> QED BY <2>2, <3>4, <3>5
  <2>4. CASE r.op = "take"
    <3>1. [op |-> "taken", device |-> r.device, list |-> list] \in Answers
      BY <1>0, <2>1, <2>4 DEF Requests, Answers, Shared
    <3>2. /\ list' = list /\ UNCHANGED online
          /\ down' = [down EXCEPT ![c] = Append(@,
                             [op |-> "taken", device |-> r.device, list |-> list])]
      BY <1>12, <2>4 DEF ServerAnswers
    <3>3. down' \in [Device -> Seq(Answers)] /\ \A d \in Device \ online : down'[d] = down[d]
      BY <1>0, <2>1, <3>1, <3>2 DEF Streams
    <3>4. Streams' /\ list' = list
      BY <1>0, <2>1, <3>2, <3>3 DEF Streams
    <3>5. list' \subseteq Device
      BY <1>0, <3>1, <3>4 DEF Shared
    <3> QED BY <2>2, <3>4, <3>5
  <2>5. CASE r.op \in {"publish", "removal"}
    <3>1. r.list \in SUBSET Device /\ [op |-> "push", list |-> r.list] \in Answers
      BY <2>1, <2>5 DEF Requests, Answers
    <3>2. /\ list' = r.list /\ UNCHANGED online
          /\ down' = [d \in Device |-> IF d \in online
                             THEN Append(down[d], [op |-> "push", list |-> r.list]) ELSE down[d]]
      BY <1>12, <2>5 DEF ServerAnswers
    <3>3. down' \in [Device -> Seq(Answers)] /\ \A d \in Device \ online : down'[d] = down[d]
      BY <1>0, <2>1, <3>1, <3>2 DEF Streams
    <3>4. Streams' /\ list' = r.list
      BY <1>0, <2>1, <3>2, <3>3 DEF Streams
    <3>5. list' \subseteq Device
      BY <1>0, <3>1, <3>4 DEF Shared
    <3> QED BY <2>2, <3>4, <3>5
  <2> QED BY <1>12, <2>3, <2>4, <2>5 DEF ServerAnswers
<1>13. ASSUME NEW c \in Device, ServerRefuses(c) PROVE Shared' /\ Streams' /\ Kept'
  <2> DEFINE r == Head(up[c])
  <2>1. r \in Requests /\ up' \in [Device -> Seq(Requests)] /\ c \in online
        /\ \A d \in Device \ online : up'[d] = up[d]
    BY <1>0, <1>13, RequestTaken DEF ServerRefuses
  <2>2. r.op = "fetch" => [op |-> "answer", login |-> r.login, list |-> {}] \in Answers
    BY <2>1 DEF Requests, Answers
  <2>3. Streams'
    BY <1>0, <1>13, <2>1, <2>2 DEF ServerRefuses, Streams
  <2>4. Shared'
    BY <1>0, <1>13 DEF ServerRefuses, Shared
  <2> QED BY <1>0, <1>13, <2>3, <2>4 DEF ServerRefuses, Kept, records
<1>14. CASE UNCHANGED vars
  BY <1>0, <1>14 DEF vars, records, Shared, Streams, Kept
<1> QED
  BY <1>1, <1>2, <1>3, <1>4, <1>5, <1>6, <1>7, <1>8, <1>9, <1>10, <1>11, <1>12, <1>13,
     <1>14 DEF Next

\* Every variable of DeviceList keeps its type.
THEOREM DeviceListTypeCorrect == Spec => []TypeOK
BY TypeInit, TypeNext, PTL DEF Spec
-----------------------------------------------------------------------------
(* The records                                                              *)

LEMMA DistrustInit == Init => DistrustKept /\ OffListUntrusted
BY DEF Init, DistrustKept, OffListUntrusted, TrustedLevel

\* What a device list does to the records of Mine.
LEMMA StoreIsSafe ==
    ASSUME TypeOK, DistrustKept, OffListUntrusted,
           NEW c \in Device, NEW L \in SUBSET Device, StoreDeviceIds(c, L)
    PROVE  DistrustKept' /\ OffListUntrusted'
<1>1. CASE c = Mine
  <2>1. /\ level' = StoreDevices(level, L) /\ DOMAIN level = Device
        /\ distrusted' = distrusted \cap Recorded(level')
        /\ seen' = L /\ unlisted' = unlisted \cap L
    BY <1>1 DEF StoreDeviceIds, NewRecords, TypeOK
  <2>2. \A d \in Device \ L : level'[d] \in {"none", "removed"}
    BY <2>1 DEF StoreDevices, Recorded
  <2>3. \A d \in Recorded(level) : level'[d] \in {"none", "removed", level[d]}
    BY <2>1 DEF StoreDevices, Recorded
  <2>4. DistrustKept'
    BY <2>1, <2>3 DEF TypeOK, DistrustKept, TrustedLevel
  <2>5. OffListUntrusted'
    BY <2>1, <2>2 DEF OffListUntrusted, TrustedLevel
  <2> QED BY <2>4, <2>5
<1>2. CASE c # Mine
  BY <1>2 DEF StoreDeviceIds, records, DistrustKept, OffListUntrusted
<1> QED BY <1>1, <1>2

LEMMA DistrustNext ==
    ASSUME TypeOK, DistrustKept, OffListUntrusted, [Next]_vars
    PROVE  DistrustKept' /\ OffListUntrusted'
<1> USE DEF DistrustKept, OffListUntrusted
<1>1. ASSUME NEW c \in Device, DeviceIdsArrive(c) PROVE DistrustKept' /\ OffListUntrusted'
  <2>1. Head(down[c]).list \in SUBSET Device
    BY <1>1, Parts, AnswerTaken DEF DeviceIdsArrive, Answers
  <2> QED BY <1>1, <2>1, StoreIsSafe DEF DeviceIdsArrive, ProcessIncomingDeviceIds
<1>2. ASSUME NEW c \in Device, FetchTimesOut(c) PROVE DistrustKept' /\ OffListUntrusted'
  BY <1>2, StoreIsSafe DEF FetchTimesOut, ProcessIncomingDeviceIds
<1>3. ASSUME NEW c \in Device, PublishDeviceIds(c) PROVE DistrustKept' /\ OffListUntrusted'
  <2>1. todo[c] \cup {c} \in SUBSET Device
    BY <1>3 DEF PublishDeviceIds, TypeOK
  <2> QED BY <1>3, <2>1, StoreIsSafe DEF PublishDeviceIds
<1>4. ASSUME NEW c \in Device, NEW d \in Device, RemoveDevice(c, d)
      PROVE  DistrustKept' /\ OffListUntrusted'
  <2>1. CASE c = Mine
    <3>1. /\ level' = [level EXCEPT ![d] = "none"] /\ level \in [Device -> Level]
          /\ distrusted' = distrusted \cap Recorded(level')
          /\ unlisted' = unlisted \ {d} /\ seen' = seen
      BY <1>4, <2>1 DEF RemoveDevice, NewRecords, TypeOK
    <3> QED BY <3>1 DEF TypeOK, TrustedLevel, Recorded
  <2>2. CASE c # Mine
    BY <1>4, <2>2 DEF RemoveDevice
  <2> QED BY <2>1, <2>2
<1>5. CASE Save
  <2>1. PICK shown \in Switched(view) :
           LET saved == {d \in Recorded(level) : shown[d] # "none"} IN
           /\ level' = [d \in Device |-> IF d \in saved THEN shown[d] ELSE level[d]]
           /\ distrusted' = (distrusted \ {d \in saved : shown[d] \in TrustedLevel})
                                \cup {d \in saved : shown[d] = "untrusted"}
           /\ unlisted' = unlisted \cup {d \in saved \ seen : shown[d] \in TrustedLevel}
    BY <1>5 DEF Save
  <2>2. Recorded(level) \subseteq Device /\ distrusted \subseteq Device /\ seen' = seen
    BY <1>5 DEF Save, TypeOK, Recorded
  <2>3. DistrustKept'
    BY <2>1, <2>2 DEF TrustedLevel
  <2>4. OffListUntrusted'
    BY <2>1, <2>2
  <2> QED BY <2>3, <2>4
<1>6. ASSUME NEW d \in Device, KeyLearned(d) PROVE DistrustKept' /\ OffListUntrusted'
  <2>1. /\ level \in [Device -> Level] /\ level[d] = "none" /\ seen' = seen
        /\ level' = [level EXCEPT ![d] = IF Recorded(level) = {} THEN "tofu" ELSE "new"]
        /\ distrusted' = distrusted \cap Recorded(level') /\ d \notin distrusted
        /\ unlisted' = IF Recorded(level) = {} THEN unlisted \cup ({d} \ seen) ELSE unlisted
    BY <1>6 DEF KeyLearned, NewRecords, SaveIdentity, TypeOK, Recorded
  <2>2. DistrustKept'
    BY <2>1 DEF TypeOK, Recorded
  <2>3. OffListUntrusted'
    BY <2>1 DEF TrustedLevel
  <2> QED BY <2>2, <2>3
<1>7. CASE UNCHANGED records
  BY <1>7 DEF records
<1> QED
  BY <1>1, <1>2, <1>3, <1>4, <1>5, <1>6, <1>7
  DEF Next, vars, Authenticate, Disconnect, RemoveFromList, OpenKeys, CloseKeys,
      ServerAnswers, ServerRefuses

LEMMA TrustInvariant == Spec => [](DistrustKept /\ OffListUntrusted)
<1>1. TypeOK /\ DistrustKept /\ OffListUntrusted /\ [Next]_vars
         => (DistrustKept /\ OffListUntrusted)'
  BY DistrustNext
<1> QED BY <1>1, DistrustInit, DeviceListTypeCorrect, PTL DEF Spec

\* What the user distrusted is trusted again by the user only, as long as its
\* record lasts: lists, fetches, timeouts and messages keep the distrust, but an
\* empty list, of a timeout say, deletes the record and with it the opinion.
THEOREM TrustIsTheUsers == Spec => []DistrustKept
BY TrustInvariant, PTL

\* A device that the last list lacks is trusted only if the screen or a first key
\* made it so.
THEOREM OffListIsUntrusted == Spec => []OffListUntrusted
BY TrustInvariant, PTL

-----------------------------------------------------------------------------
(* The list                                                                 *)

BackByRequest(c, r) == r.op = "fetch" \/ (r.op = "publish" /\ c \in r.list)
BackByAnswer(c, a)  == a.op \in {"answer", "push"} /\ c \notin a.list

Back(c) == c \in list \/ c \in denied \/ ComesBack(c)

\* A device whose own part of the state is left alone, or only gets more to
\* handle, comes back as before.
LEMMA StillBack ==
    ASSUME TypeOK, NEW c \in Device, Back(c),
           c \in list => c \in list', c \in denied => c \in denied',
           todo[c] # None => todo'[c] # None,
           \A r \in Range(up[c]) : BackByRequest(c, r) => r \in Range(up'[c]),
           \A a \in Range(down[c]) : BackByAnswer(c, a) => a \in Range(down'[c])
    PROVE  Back(c)'
BY DEF Back, ComesBack, BackByRequest, BackByAnswer

\* Asking for something more loses no request.
LEMMA AskAdds ==
    ASSUME TypeOK, NEW c \in Device, NEW r \in Requests, Ask(c, r)
    PROVE  /\ \A d \in Device : Range(up[d]) \subseteq Range(up'[d])
           /\ c \in online => r \in Range(up'[c])
<1>1. up \in [Device -> Seq(Requests)] /\ Range(Append(up[c], r)) = Range(up[c]) \cup {r}
  BY RangeAppended DEF TypeOK
<1> QED BY <1>1 DEF Ask

LEMMA BackInit == Init => OffListComesBack
BY DEF Init, OffListComesBack
LEMMA BackNext == ASSUME TypeOK, OffListComesBack, [Next]_vars PROVE OffListComesBack'
<1> SUFFICES ASSUME NEW e \in Device, e \in online' PROVE Back(e)'
  BY TypeNext DEF OffListComesBack, Back, TypeOK
<1>0. Streams /\ (e \in online => Back(e))
  BY Parts DEF OffListComesBack, Back
<1>1. ASSUME NEW c \in Device, Authenticate(c) PROVE Back(e)'
  <2>1. CASE e = c
    <3>1. up'[c] = <<[op |-> "fetch", login |-> logins[c] + 1]>>
      BY <1>1 DEF Authenticate, TypeOK
    <3>2. [op |-> "fetch", login |-> logins[c] + 1] \in Range(up'[c])
      BY <3>1 DEF Range
    <3> QED BY <2>1, <3>2 DEF Back, ComesBack
  <2>2. CASE e # c
    BY <1>0, <1>1, <2>2, StillBack DEF Authenticate, TypeOK
  <2> QED BY <2>1, <2>2
<1>2. ASSUME NEW c \in Device, Disconnect(c) PROVE Back(e)'
  <2>1. /\ e \in online /\ e # c /\ UNCHANGED <<list, todo, denied>>
        /\ up'[e] = up[e] /\ down'[e] = down[e]
    BY <1>2 DEF Disconnect, TypeOK
  <2> QED BY <1>0, <2>1, StillBack
<1>3. ASSUME NEW c \in Device, DeviceIdsArrive(c) PROVE Back(e)'
  <2> DEFINE a == Head(down[c])
  <2>1. /\ a \in Answers /\ c \in online /\ Range(down[c]) = {a} \cup Range(Tail(down[c]))
        /\ down[c] \in Seq(Answers)
    BY <1>0, <1>3, AnswerTaken, RangeTaken DEF DeviceIdsArrive, Streams
  <2>2. /\ \/ /\ todo' = [todo EXCEPT ![c] = IF c \in a.list THEN None ELSE a.list]
              /\ denied' = denied
           \/ c \notin a.list /\ todo' = todo /\ denied' = denied \cup {c}
        /\ todo[c] = None /\ down' = [down EXCEPT ![c] = Tail(@)]
        /\ UNCHANGED <<list, online, up>>
    BY <1>3 DEF DeviceIdsArrive, ProcessIncomingDeviceIds
  <2>3. CASE e = c /\ c \notin a.list
    <3>1. todo'[c] # None \/ c \in denied'
      BY <2>1, <2>2, <2>3 DEF TypeOK, Answers
    <3> QED BY <2>3, <3>1 DEF Back, ComesBack
  <2>4. CASE e = c /\ c \in a.list
    BY <1>0, <2>1, <2>2, <2>4, StillBack DEF TypeOK, BackByAnswer
  <2>5. CASE e # c
    BY <1>0, <2>2, <2>5, StillBack DEF TypeOK
  <2> QED BY <2>3, <2>4, <2>5
<1>4. ASSUME NEW c \in Device, FetchTimesOut(c) PROVE Back(e)'
  <2>1. /\ \/ todo' = [todo EXCEPT ![c] = {}] /\ {} # None /\ denied' = denied
           \/ todo' = todo /\ denied' = denied \cup {c}
        /\ UNCHANGED <<list, online, up, down>>
    BY <1>4, ListConstants DEF FetchTimesOut, ProcessIncomingDeviceIds
  <2> QED BY <1>0, <2>1, StillBack DEF TypeOK
<1>5. ASSUME NEW c \in Device, PublishDeviceIds(c) PROVE Back(e)'
  <2> DEFINE r == [op |-> "publish", list |-> todo[c] \cup {c}]
  <2>1. /\ r \in Requests /\ Ask(c, r) /\ todo' = [todo EXCEPT ![c] = None]
        /\ denied' = denied \ {c} /\ UNCHANGED <<list, online, down>>
    BY <1>5 DEF PublishDeviceIds, TypeOK, Requests
  <2>2. \A d \in Device : Range(up[d]) \subseteq Range(up'[d])
    BY <2>1, AskAdds
  <2>3. CASE e = c
    <3>1. r \in Range(up'[c])
      BY <2>1, <2>3, AskAdds
    <3> QED BY <2>3, <3>1 DEF Back, ComesBack
  <2>4. CASE e # c
    BY <1>0, <2>1, <2>2, <2>4, StillBack DEF TypeOK
  <2> QED BY <2>3, <2>4
<1>6. ASSUME NEW c \in Device, NEW d \in Device, RemoveDevice(c, d) PROVE Back(e)'
  <2>1. [op |-> "take", device |-> d] \in Requests
    BY DEF Requests
  <2>2. \A f \in Device : Range(up[f]) \subseteq Range(up'[f])
    BY <1>6, <2>1, AskAdds DEF RemoveDevice
  <2> QED BY <1>0, <1>6, <2>2, StillBack DEF RemoveDevice
<1>7. ASSUME NEW c \in Device, RemoveFromList(c) PROVE Back(e)'
  <2> DEFINE a == Head(down[c])
  <2>1. /\ a \in Answers /\ Range(down[c]) = {a} \cup Range(Tail(down[c]))
        /\ a.op = "taken"
    BY <1>0, <1>7, AnswerTaken, RangeTaken DEF RemoveFromList, Streams
  <2>2. [op |-> "removal", list |-> a.list \ {a.device}] \in Requests
    BY <2>1 DEF Answers, Requests
  <2>3. \A f \in Device : Range(up[f]) \subseteq Range(up'[f])
    BY <1>7, <2>2, AskAdds DEF RemoveFromList
  <2>4. /\ down' = [down EXCEPT ![c] = Tail(@)] /\ UNCHANGED <<list, online, todo, denied>>
    BY <1>7 DEF RemoveFromList
  <2>5. \A f \in Device : \A b \in Range(down[f]) : BackByAnswer(f, b) => b \in Range(down'[f])
    BY <2>1, <2>4 DEF TypeOK, BackByAnswer
  <2> QED BY <1>0, <2>3, <2>4, <2>5, StillBack
<1>8. CASE OpenKeys \/ Save \/ CloseKeys
  BY <1>0, <1>8, StillBack DEF OpenKeys, Save, CloseKeys
<1>9. ASSUME NEW d \in Device, KeyLearned(d) PROVE Back(e)'
  BY <1>0, <1>9, StillBack DEF KeyLearned
<1>10. ASSUME NEW c \in Device, ServerAnswers(c) PROVE Back(e)'
  <2> DEFINE r == Head(up[c])
  <2>1. /\ r \in Requests /\ Range(up[c]) = {r} \cup Range(Tail(up[c]))
        /\ up' = [up EXCEPT ![c] = Tail(@)]
        /\ UNCHANGED <<online, todo, denied>>
    BY <1>0, <1>10, RequestTaken, RangeTaken DEF ServerAnswers, Streams
  <2>2. CASE r.op = "fetch"
    <3> DEFINE a == [op |-> "answer", login |-> r.login, list |-> list]
    <3>1. a \in Answers /\ down' = [down EXCEPT ![c] = Append(@, a)] /\ list' = list
      BY <1>10, <2>1, <2>2 DEF ServerAnswers, Requests, Answers, TypeOK
    <3>2. Range(Append(down[c], a)) = Range(down[c]) \cup {a}
      BY <1>0, <3>1, RangeAppended DEF Streams
    <3>3. CASE e = c
      BY <3>1, <3>2, <3>3 DEF TypeOK, Back, ComesBack
    <3>4. CASE e # c
      BY <1>0, <2>1, <3>1, <3>4, StillBack DEF TypeOK
    <3> QED BY <3>3, <3>4
  <2>3. CASE r.op = "take"
    <3> DEFINE a == [op |-> "taken", device |-> r.device, list |-> list]
    <3>1. a \in Answers /\ down' = [down EXCEPT ![c] = Append(@, a)] /\ list' = list
      BY <1>10, <2>1, <2>3 DEF ServerAnswers, Requests, Answers, TypeOK
    <3>2. Range(Append(down[c], a)) = Range(down[c]) \cup {a}
      BY <1>0, <3>1, RangeAppended DEF Streams
    <3>3. \A f \in Device : /\ Range(down[f]) \subseteq Range(down'[f])
                            /\ \A q \in Range(up[f]) : BackByRequest(f, q) => q \in Range(up'[f])
      BY <2>1, <2>3, <3>1, <3>2 DEF TypeOK, BackByRequest
    <3> QED BY <1>0, <2>1, <3>1, <3>3, StillBack
  <2>4. CASE r.op \in {"publish", "removal"}
    <3> DEFINE a == [op |-> "push", list |-> r.list]
    <3>1. /\ a \in Answers /\ list' = r.list
          /\ down' = [d \in Device |-> IF d \in online THEN Append(down[d], a) ELSE down[d]]
      BY <1>10, <2>1, <2>4 DEF ServerAnswers, Requests, Answers
    <3>2. e \in online /\ down'[e] = Append(down[e], a)
      BY <2>1, <3>1
    <3>3. a \in Range(down'[e])
      BY <1>0, <3>1, <3>2, RangeAppended DEF Streams
    <3> QED BY <3>1, <3>3 DEF Back, ComesBack
  <2> QED BY <1>10, <2>2, <2>3, <2>4 DEF ServerAnswers
<1>11. ASSUME NEW c \in Device, ServerRefuses(c) PROVE Back(e)'
  <2> DEFINE r == Head(up[c])
  <2>1. /\ r \in Requests /\ Range(up[c]) = {r} \cup Range(Tail(up[c]))
        /\ up' = [up EXCEPT ![c] = Tail(@)]
        /\ UNCHANGED <<list, online, todo>>
    BY <1>0, <1>11, RequestTaken, RangeTaken DEF ServerRefuses, Streams
  <2>2. CASE r.op = "fetch"
    <3> DEFINE a == [op |-> "answer", login |-> r.login, list |-> {}]
    <3>1. a \in Answers /\ down' = [down EXCEPT ![c] = Append(@, a)] /\ denied' = denied
      BY <1>11, <2>1, <2>2 DEF ServerRefuses, Requests, Answers
    <3>2. Range(Append(down[c], a)) = Range(down[c]) \cup {a}
      <4>1. a \in Answers /\ down[c] \in Seq(Answers)
        BY <1>0, <3>1 DEF Streams
      <4> HIDE DEF a
      <4> QED BY <4>1, RangeAppended
    <3>3. CASE e = c
      BY <3>1, <3>2, <3>3 DEF TypeOK, Back, ComesBack
    <3>4. CASE e # c
      BY <1>0, <2>1, <3>1, <3>4, StillBack DEF TypeOK
    <3> QED BY <3>3, <3>4
  <2>3. CASE r.op # "fetch"
    <3>1. down' = down /\ denied' = IF r.op = "publish" THEN denied \cup {c} ELSE denied
      BY <1>11, <2>3 DEF ServerRefuses
    <3>2. CASE e = c /\ r.op = "publish"
      <4>1. e \in denied'
        BY <3>1, <3>2
      <4> QED BY <4>1 DEF Back
    <3>3. CASE e # c \/ r.op # "publish"
      <4>1. \A q \in Range(up[e]) : BackByRequest(e, q) => q \in Range(up'[e])
        BY <2>1, <2>3, <3>3 DEF TypeOK, BackByRequest
      <4> QED BY <1>0, <2>1, <3>1, <4>1, StillBack
    <3> QED BY <3>2, <3>3
  <2> QED BY <2>2, <2>3
<1>12. CASE UNCHANGED vars
  BY <1>0, <1>12, StillBack DEF vars
<1> QED
  BY <1>1, <1>2, <1>3, <1>4, <1>5, <1>6, <1>7, <1>8, <1>9, <1>10, <1>11, <1>12 DEF Next

\* Whatever the devices overwrite, one that is off the list and connected has
\* something under way that puts it back, unless the server refused its list or it
\* had no bundle.
THEOREM NoneIsLeftOff == Spec => []OffListComesBack
<1>1. TypeOK /\ OffListComesBack /\ [Next]_vars => OffListComesBack'
  BY BackNext
<1> QED BY <1>1, BackInit, DeviceListTypeCorrect, PTL DEF Spec

-----------------------------------------------------------------------------
(* The list that Mine has stored                                            *)

Brings(a)   == a.op \in {"answer", "push"}
AsksList(r) == r.op \in {"fetch", "publish"}

\* Of what is on its way in q, the last list is L, or one that Mine is not on and
\* will answer with one of its own; with none on its way, Mine has stored S = L.
UpToDate(q, L, S) ==
    \/ S = L /\ \A k \in DOMAIN q : ~Brings(q[k])
    \/ \E k \in DOMAIN q :
          /\ Brings(q[k]) /\ \A j \in DOMAIN q : j > k => ~Brings(q[j])
          /\ q[k].list = L \/ Mine \notin q[k].list

Follows ==
    \/ Mine \in denied \/ todo[Mine] # None
    \/ \E r \in Range(up[Mine]) : AsksList(r)
    \/ UpToDate(down[Mine], list, seen)
FollowInv == Mine \in online => Follows

\* A list that comes last settles it.
LEMMA ListSent ==
    ASSUME NEW q \in Seq(Answers), NEW a \in Answers, NEW L, NEW S,
           Brings(a), a.list = L \/ Mine \notin a.list
    PROVE  UpToDate(Append(q, a), L, S)
<1> DEFINE t == Append(q, a)
<1>1. /\ DOMAIN t = DOMAIN q \cup {Len(q) + 1} /\ t[Len(q) + 1] = a
      /\ DOMAIN q = 1 .. Len(q) /\ Len(q) \in Nat
  BY Appended
<1> HIDE DEF t
<1>2. \A j \in DOMAIN t : ~ (j > Len(q) + 1)
  BY <1>1
<1>3. UpToDate(t, L, S)
  BY <1>1, <1>2 DEF UpToDate
<1> QED BY <1>3 DEF t

LEMMA OtherSent ==
    ASSUME NEW q \in Seq(Answers), NEW a \in Answers, NEW L, NEW S,
           ~Brings(a), UpToDate(q, L, S)
    PROVE  UpToDate(Append(q, a), L, S)
<1> DEFINE t == Append(q, a)
<1>1. /\ DOMAIN t = DOMAIN q \cup {Len(q) + 1} /\ t[Len(q) + 1] = a
      /\ \A k \in DOMAIN q : t[k] = q[k]
  BY Appended
<1> HIDE DEF t
<1>2. UpToDate(t, L, S)
  BY <1>1 DEF UpToDate
<1> QED BY <1>2 DEF t

\* What is handled first decides only if no list comes after it.
LEMMA FirstHandled ==
    ASSUME NEW q \in Seq(Answers), q # <<>>, NEW L, NEW S, UpToDate(q, L, S)
    PROVE  /\ ~Brings(Head(q)) => UpToDate(Tail(q), L, S)
           /\ Brings(Head(q)) => \/ Mine \notin Head(q).list
                                 \/ UpToDate(Tail(q), L, Head(q).list)
<1>1. /\ 1 \in DOMAIN q /\ Head(q) = q[1]
      /\ \A k \in DOMAIN Tail(q) : k + 1 \in DOMAIN q /\ Tail(q)[k] = q[k + 1]
      /\ \A k \in DOMAIN q : k # 1 => k - 1 \in DOMAIN Tail(q) /\ Tail(q)[k - 1] = q[k]
      /\ DOMAIN q \subseteq Nat \ {0} /\ DOMAIN Tail(q) \subseteq Nat \ {0}
  BY HeadTaken
<1>2. CASE S = L /\ \A k \in DOMAIN q : ~Brings(q[k])
  BY <1>1, <1>2 DEF UpToDate
<1>3. ASSUME NEW k \in DOMAIN q, Brings(q[k]), \A j \in DOMAIN q : j > k => ~Brings(q[j]),
             q[k].list = L \/ Mine \notin q[k].list
      PROVE  /\ ~Brings(Head(q)) => UpToDate(Tail(q), L, S)
             /\ Brings(Head(q)) => \/ Mine \notin Head(q).list
                                   \/ UpToDate(Tail(q), L, Head(q).list)
  <2>1. CASE k = 1
    <3>1. \A j \in DOMAIN Tail(q) : ~Brings(Tail(q)[j])
      BY <1>1, <1>3, <2>1
    <3> QED BY <1>1, <1>3, <2>1, <3>1 DEF UpToDate
  <2>2. CASE k # 1
    <3>1. /\ k - 1 \in DOMAIN Tail(q) /\ Tail(q)[k - 1] = q[k]
          /\ \A j \in DOMAIN Tail(q) : j > k - 1 => ~Brings(Tail(q)[j])
      BY <1>1, <1>3, <2>2
    <3>2. \A T : UpToDate(Tail(q), L, T)
      BY <1>3, <3>1 DEF UpToDate
    <3> QED BY <3>2
  <2> QED BY <2>1, <2>2
<1> QED BY <1>2, <1>3 DEF UpToDate

\* A step that takes nothing of the device's away leaves it up to date.
LEMMA StillFollows ==
    ASSUME Follows, Mine \in denied => Mine \in denied', todo[Mine] # None => todo'[Mine] # None,
           \A r \in Range(up[Mine]) : AsksList(r) => r \in Range(up'[Mine]),
           UpToDate(down[Mine], list, seen) => UpToDate(down'[Mine], list', seen')
    PROVE  Follows'
BY DEF Follows, AsksList

LEMMA FollowNext == ASSUME TypeOK, FollowInv, [Next]_vars PROVE FollowInv'
<1> SUFFICES ASSUME Mine \in online' PROVE Follows'
  BY DEF FollowInv
<1>0. /\ Streams /\ (Mine \in online => Follows) /\ TypeOK
      /\ down[Mine] \in Seq(Answers) /\ up[Mine] \in Seq(Requests)
  BY Parts DEF FollowInv, TypeOK
<1>1. ASSUME NEW c \in Device, Authenticate(c) PROVE Follows'
  <2>1. CASE c = Mine
    <3>1. up'[Mine] = <<[op |-> "fetch", login |-> logins[c] + 1]>>
      BY <1>1, <2>1 DEF Authenticate, TypeOK
    <3>2. [op |-> "fetch", login |-> logins[c] + 1] \in Range(up'[Mine])
      BY <3>1 DEF Range
    <3> QED BY <3>2 DEF Follows, AsksList
  <2>2. CASE c # Mine
    <3>1. /\ Mine \in online /\ up'[Mine] = up[Mine] /\ UNCHANGED <<list, down, todo, seen>>
          /\ Mine \in denied => Mine \in denied'
      BY <1>1, <2>2 DEF Authenticate, records, TypeOK
    <3> QED BY <1>0, <3>1, StillFollows
  <2> QED BY <2>1, <2>2
<1>2. ASSUME NEW c \in Device, Disconnect(c) PROVE Follows'
  <2>1. /\ Mine \in online /\ up'[Mine] = up[Mine] /\ down'[Mine] = down[Mine]
        /\ UNCHANGED <<list, todo, denied, seen>>
    BY <1>2 DEF Disconnect, records, TypeOK
  <2> QED BY <1>0, <2>1, StillFollows
<1>3. ASSUME NEW c \in Device, DeviceIdsArrive(c) PROVE Follows'
  <2> DEFINE a == Head(down[c])
  <2>1. /\ a \in Answers /\ Brings(a)
        /\ \/ /\ todo' = [todo EXCEPT ![c] = IF c \in a.list THEN None ELSE a.list]
              /\ denied' = denied
           \/ c \notin a.list /\ todo' = todo /\ denied' = denied \cup {c}
        /\ todo[c] = None /\ down' = [down EXCEPT ![c] = Tail(@)] /\ down[c] # <<>>
        /\ StoreDeviceIds(c, a.list) /\ UNCHANGED <<list, online, up>>
    BY <1>0, <1>3, AnswerTaken DEF DeviceIdsArrive, ProcessIncomingDeviceIds, Brings
  <2>2. CASE c = Mine /\ Mine \notin a.list
    <3>1. todo'[Mine] # None \/ Mine \in denied'
      BY <2>1, <2>2 DEF TypeOK, Answers, Brings
    <3> QED BY <3>1 DEF Follows
  <2>3. CASE c = Mine /\ Mine \in a.list
    <3>1. down'[Mine] = Tail(down[Mine]) /\ seen' = a.list
      BY <2>1, <2>3 DEF StoreDeviceIds, TypeOK
    <3>2. UpToDate(down[Mine], list, seen) => UpToDate(Tail(down[Mine]), list, a.list)
      BY <1>0, <2>1, <2>3, FirstHandled
    <3> QED BY <1>0, <2>1, <2>3, <3>1, <3>2, StillFollows
  <2>4. CASE c # Mine
    <3>1. /\ seen' = seen /\ down'[Mine] = down[Mine] /\ todo'[Mine] = todo[Mine]
          /\ Mine \in denied => Mine \in denied'
      BY <2>1, <2>4 DEF StoreDeviceIds, records, TypeOK
    <3> QED BY <1>0, <2>1, <3>1, StillFollows
  <2> QED BY <2>2, <2>3, <2>4
<1>4. ASSUME NEW c \in Device, FetchTimesOut(c) PROVE Follows'
  <2>1. /\ \/ todo' = [todo EXCEPT ![c] = {}] /\ {} # None /\ denied' = denied
           \/ todo' = todo /\ denied' = denied \cup {c}
        /\ StoreDeviceIds(c, {}) /\ UNCHANGED <<list, online, up, down>>
    BY <1>4, ListConstants DEF FetchTimesOut, ProcessIncomingDeviceIds
  <2>2. CASE c = Mine
    BY <2>1, <2>2 DEF Follows, TypeOK
  <2>3. CASE c # Mine
    BY <1>0, <2>1, <2>3, StillFollows DEF StoreDeviceIds, records, TypeOK
  <2> QED BY <2>2, <2>3
<1>5. ASSUME NEW c \in Device, PublishDeviceIds(c) PROVE Follows'
  <2> DEFINE r == [op |-> "publish", list |-> todo[c] \cup {c}]
  <2>1. /\ r \in Requests /\ Ask(c, r) /\ todo' = [todo EXCEPT ![c] = None]
        /\ StoreDeviceIds(c, todo[c] \cup {c})
        /\ denied' = denied \ {c} /\ UNCHANGED <<list, online, down>>
    BY <1>5 DEF PublishDeviceIds, TypeOK, Requests
  <2>2. CASE c = Mine
    <3>1. r \in Range(up'[Mine])
      BY <2>1, <2>2, AskAdds
    <3> QED BY <3>1 DEF Follows, AsksList
  <2>3. CASE c # Mine
    <3>1. seen' = seen /\ todo'[Mine] = todo[Mine]
      BY <2>1, <2>3 DEF StoreDeviceIds, records, TypeOK
    <3>2. Range(up[Mine]) \subseteq Range(up'[Mine])
      BY <2>1, AskAdds
    <3> QED BY <1>0, <2>1, <2>3, <3>1, <3>2, StillFollows
  <2> QED BY <2>2, <2>3
<1>6. ASSUME NEW c \in Device, NEW d \in Device, RemoveDevice(c, d) PROVE Follows'
  <2>1. [op |-> "take", device |-> d] \in Requests
    BY DEF Requests
  <2>2. Range(up[Mine]) \subseteq Range(up'[Mine])
    BY <1>6, <2>1, AskAdds DEF RemoveDevice
  <2>3. UNCHANGED <<list, online, down, todo, seen, denied>>
    BY <1>6 DEF RemoveDevice
  <2> QED BY <1>0, <2>2, <2>3, StillFollows
<1>7. ASSUME NEW c \in Device, RemoveFromList(c) PROVE Follows'
  <2> DEFINE a == Head(down[c])
  <2>1. /\ a \in Answers /\ a.op = "taken" /\ down' = [down EXCEPT ![c] = Tail(@)]
        /\ down[c] # <<>> /\ UNCHANGED <<list, online, todo, denied, seen>>
    BY <1>0, <1>7, AnswerTaken DEF RemoveFromList, records
  <2>2. [op |-> "removal", list |-> a.list \ {a.device}] \in Requests
    BY <2>1 DEF Answers, Requests
  <2>3. Range(up[Mine]) \subseteq Range(up'[Mine])
    BY <1>7, <2>2, AskAdds DEF RemoveFromList
  <2>4. UpToDate(down[Mine], list, seen) => UpToDate(down'[Mine], list, seen)
    <3>1. CASE c = Mine
      BY <1>0, <2>1, <3>1, FirstHandled DEF Brings, TypeOK
    <3>2. CASE c # Mine
      BY <2>1, <3>2 DEF TypeOK
    <3> QED BY <3>1, <3>2
  <2> QED BY <1>0, <2>1, <2>3, <2>4, StillFollows
<1>8. CASE OpenKeys \/ Save \/ CloseKeys
  BY <1>0, <1>8, StillFollows DEF OpenKeys, Save, CloseKeys, records
<1>9. ASSUME NEW d \in Device, KeyLearned(d) PROVE Follows'
  BY <1>0, <1>9, StillFollows DEF KeyLearned
<1>10. ASSUME NEW c \in Device, ServerAnswers(c) PROVE Follows'
  <2> DEFINE r == Head(up[c])
  <2>1. /\ r \in Requests /\ Range(up[c]) = {r} \cup Range(Tail(up[c]))
        /\ up' = [up EXCEPT ![c] = Tail(@)]
        /\ UNCHANGED <<online, todo, denied, seen>>
    BY <1>0, <1>10, RequestTaken, RangeTaken DEF ServerAnswers, Streams, records
  <2>2. ASSUME NEW a \in Answers, Brings(a), a.list = list',
               down'[Mine] = Append(down[Mine], a)
        PROVE  Follows'
    BY <1>0, <2>2, ListSent DEF Follows
  <2>3. CASE r.op \in {"publish", "removal"}
    <3> DEFINE a == [op |-> "push", list |-> r.list]
    <3>1. /\ a \in Answers /\ Brings(a) /\ a.list = list'
          /\ down' = [d \in Device |-> IF d \in online THEN Append(down[d], a) ELSE down[d]]
      BY <1>10, <2>1, <2>3 DEF ServerAnswers, Requests, Answers, Brings
    <3>2. down'[Mine] = Append(down[Mine], a)
      BY <2>1, <3>1
    <3> HIDE DEF a
    <3> QED BY <2>2, <3>1, <3>2
  <2>4. CASE r.op = "fetch"
    <3> DEFINE a == [op |-> "answer", login |-> r.login, list |-> list]
    <3>1. /\ a \in Answers /\ Brings(a) /\ a.list = list' /\ list' = list
          /\ down' = [down EXCEPT ![c] = Append(@, a)]
      BY <1>10, <2>1, <2>4 DEF ServerAnswers, Requests, Answers, TypeOK, Brings
    <3> HIDE DEF a
    <3>2. CASE c = Mine
      BY <2>2, <3>1, <3>2 DEF TypeOK
    <3>3. CASE c # Mine
      <4>1. up'[Mine] = up[Mine] /\ down'[Mine] = down[Mine]
        BY <2>1, <3>1, <3>3 DEF TypeOK
      <4> QED BY <1>0, <2>1, <3>1, <4>1, StillFollows
    <3> QED BY <3>2, <3>3
  <2>5. CASE r.op = "take"
    <3> DEFINE a == [op |-> "taken", device |-> r.device, list |-> list]
    <3>1. /\ a \in Answers /\ ~Brings(a) /\ list' = list
          /\ down' = [down EXCEPT ![c] = Append(@, a)]
      BY <1>10, <2>1, <2>5 DEF ServerAnswers, Requests, Answers, TypeOK, Brings
    <3> HIDE DEF a
    <3>2. UpToDate(down[Mine], list, seen) => UpToDate(down'[Mine], list, seen)
      BY <1>0, <3>1, OtherSent DEF TypeOK
    <3>3. \A x \in Range(up[Mine]) : AsksList(x) => x \in Range(up'[Mine])
      BY <2>1, <2>5 DEF TypeOK, AsksList
    <3> QED BY <1>0, <2>1, <3>1, <3>2, <3>3, StillFollows
  <2> QED BY <1>10, <2>3, <2>4, <2>5 DEF ServerAnswers
<1>11. ASSUME NEW c \in Device, ServerRefuses(c) PROVE Follows'
  <2> DEFINE r == Head(up[c])
  <2>1. /\ r \in Requests /\ Range(up[c]) = {r} \cup Range(Tail(up[c]))
        /\ up' = [up EXCEPT ![c] = Tail(@)]
        /\ UNCHANGED <<list, online, todo, seen>>
    BY <1>0, <1>11, RequestTaken, RangeTaken DEF ServerRefuses, Streams, records
  <2>2. CASE c = Mine /\ r.op = "fetch"
    <3> DEFINE a == [op |-> "answer", login |-> r.login, list |-> {}]
    <3>1. /\ a \in Answers /\ Brings(a) /\ Mine \notin a.list
          /\ down' = [down EXCEPT ![c] = Append(@, a)]
      BY <1>11, <2>1, <2>2 DEF ServerRefuses, Requests, Answers, Brings
    <3> HIDE DEF a
    <3>2. UpToDate(down'[Mine], list', seen')
      BY <1>0, <2>2, <3>1, ListSent DEF TypeOK
    <3> QED BY <3>2 DEF Follows
  <2>3. CASE c = Mine /\ r.op = "publish"
    BY <1>11, <2>3 DEF ServerRefuses, Follows
  <2>4. CASE c = Mine /\ r.op \in {"take", "removal"}
    <3>1. down' = down /\ denied' = denied
      BY <1>11, <2>4 DEF ServerRefuses
    <3>2. \A x \in Range(up[Mine]) : AsksList(x) => x \in Range(up'[Mine])
      BY <2>1, <2>4 DEF TypeOK, AsksList
    <3> QED BY <1>0, <2>1, <3>1, <3>2, StillFollows
  <2>5. CASE c # Mine
    <3>1. /\ up'[Mine] = up[Mine] /\ down'[Mine] = down[Mine]
          /\ Mine \in denied => Mine \in denied'
      BY <1>11, <2>1, <2>5 DEF ServerRefuses, TypeOK
    <3> QED BY <1>0, <2>1, <3>1, StillFollows
  <2> QED BY <2>1, <2>2, <2>3, <2>4, <2>5 DEF Requests
<1>12. CASE UNCHANGED vars
  BY <1>0, <1>12, StillFollows DEF vars, records
<1> QED
  BY <1>1, <1>2, <1>3, <1>4, <1>5, <1>6, <1>7, <1>8, <1>9, <1>10, <1>11, <1>12 DEF Next

\* A connected device whose stored list is not the server's has something under way
\* that brings it one to store, unless the server refused its own or it had no
\* bundle.
THEOREM NoneStaysBehind == Spec => []BehindCatchesUp
<1>1. Init => FollowInv
  BY DEF Init, FollowInv
<1>2. TypeOK /\ FollowInv /\ [Next]_vars => FollowInv'
  BY FollowNext
<1>3. FollowInv => BehindCatchesUp
  BY DEF FollowInv, Follows, UpToDate, Brings, AsksList, BehindCatchesUp, Range
<1> QED BY <1>1, <1>2, <1>3, DeviceListTypeCorrect, PTL DEF Spec
=============================================================================
