------------------------ MODULE ArchiveCatchupProofs ------------------------
(* Proofs about ArchiveCatchup, for any number of messages and logins, any   *)
(* set of rooms, and any choice of OMEMO messages and ids.                   *)
(*                                                                          *)
(* The fetch date may count a fetch as done because its results are ahead of *)
(* its end wherever the end is: on the wire (ResultsFirst) and among the      *)
(* transactions (SavesFirst).  Only OMEMO messages leave that line.          *)
EXTENDS ArchiveCatchup, QueueLemmas

USE Parameters DEF Parameters

Covers(fin) == IF fin.owner = Acct THEN (fin.since .. fin.upto) \ OMEMO ELSE {}

\* Only OMEMO messages are on the OMEMO queue, and the decryption asked for is
\* that of the first, which stays there meanwhile.
OMEMOQueue ==
    /\ \A k \in DOMAIN encrypted : encrypted[k].m \in OMEMO
    /\ \A k \in DOMAIN jobs : jobs[k].op = "decrypt" =>
           /\ encrypted # <<>> /\ jobs[k].text = Head(encrypted)
           /\ \A j \in DOMAIN jobs : jobs[j].op = "decrypt" => j = k

\* m is in st, or will be saved by one of the first n transactions of q.
SavedBy(st, q, m, n) ==
    \/ m \in st
    \/ \E j \in DOMAIN q : j <= n /\ q[j].op = "save" /\ q[j].text.m = m

\* What is saved when all transactions of q are through.
Saved(st, q) == {m \in Message : SavedBy(st, q, m, Len(q))}

\* Behind the transactions of q, in the order in which they run, is what their
\* ends cover.
SavesLead(st, q) ==
    \A k \in DOMAIN q : q[k].op = "finish" => \A m \in Covers(q[k].fin) : SavedBy(st, q, m, k)

\* Ahead of an end on the wire w is what it covers, as far as it is not in g.
ResultsLead(g, w) ==
    \A k \in DOMAIN w : w[k].kind = "fin" =>
        \A m \in Covers(w[k]) : m \in g \/ \E j \in DOMAIN w : j < k /\ w[j].kind # "fin" /\ w[j].m = m

-----------------------------------------------------------------------------
(* Types                                                                    *)

TInv == TypeOK /\ OMEMOQueue

\* Nothing is on any queue at first.
LEMMA TInit == Init => TInv
<1> SUFFICES ASSUME Init PROVE TInv
  OBVIOUS
<1>1. TypeOK
  <2>1. wire \in Seq(Text \cup Fin) /\ queries \in Seq(Query) /\ jobs \in Seq(Job) /\ encrypted \in Seq(Text)
    BY DEF Init
  <2>2. archived \in 0 .. N /\ logins \in 0 .. MaxLogins /\ lastHistoryFetchDate \in Time
    BY DEF Init, Time
  <2>3. online \in BOOLEAN /\ mamCatchupInProgress \in BOOLEAN /\ broken \in BOOLEAN
    BY DEF Init
  <2> QED BY <2>1, <2>2, <2>3 DEF Init, TypeOK
<1>2. OMEMOQueue
  BY DEF Init, OMEMOQueue
<1> QED BY <1>1, <1>2 DEF TInv

\* What each kind of stanza and transaction carries.
LEMMA Kinds ==
    /\ \A x \in Text \cup Fin : IF x.kind = "fin" THEN x \in Fin ELSE x \in Text
    /\ \A x \in Text : x.m \in Message /\ x.kind # "fin"
    /\ \A x \in Fin : x.owner \in Owner /\ x.since \in Time \ {0} /\ x.upto \in 0 .. N
    /\ \A j \in Job : /\ j.op \in {"decrypt", "save"} => j.text \in Text
                      /\ j.op = "ask" => j.owner \in Owner
                      /\ j.op = "finish" => j.fin \in Fin
BY DEF Text, Fin, Job

\* The messages of an answer.
LEMMA ResultsTyped ==
    ASSUME NEW first \in Nat \ {0}, NEW last \in 0 .. N
    PROVE  /\ Results(first, last) \in Seq(Text)
           /\ \A k \in DOMAIN Results(first, last) :
                  Results(first, last)[k] = [kind |-> "mam", m |-> first + k - 1]
           /\ \A m \in first .. last : /\ m + 1 - first \in DOMAIN Results(first, last)
                                       /\ m + 1 - first <= Len(Results(first, last))
<1> DEFINE n == last + 1 - first
<1>1. \A k \in 1 .. n : [kind |-> "mam", m |-> first + k - 1] \in Text
  BY DEF Text, Message
<1>2. CASE first <= last
  BY <1>1, <1>2 DEF Results
<1>3. CASE first > last
  <2>1. 1 .. n = {}
    BY <1>3
  <2>2. Results(first, last) = <<>>
    BY <2>1 DEF Results
  <2> QED BY <1>3, <2>2
<1> QED BY <1>2, <1>3

\* What an answer puts on the wire.
LEMMA AnswersTyped ==
    ASSUME TypeOK, NEW q \in Query,
           AnswerInFull(q) \/ AnswerInPart(q) \/ AnswerForRoom(q)
    PROVE  wire' \in Seq(Text \cup Fin) /\ broken' \in BOOLEAN
<1> USE DEF TypeOK
<1>1. FirstOf(q) \in Time \ {0} /\ FirstOf(q) \in Nat \ {0} /\ FinOf(q) \in Fin
  BY DEF FirstOf, FinOf, Query, Time, Fin
<1>2. \A last \in 0 .. N : Results(FirstOf(q), last) \in Seq(Text \cup Fin)
  BY <1>1, ResultsTyped
<1>3. CASE AnswerInFull(q)
  BY <1>1, <1>2, <1>3, Appended, SentAfter DEF AnswerInFull
<1>4. CASE AnswerInPart(q)
  <2>1. PICK last \in 0 .. archived : wire' = wire \o Results(FirstOf(q), last)
    BY <1>4 DEF AnswerInPart
  <2>2. last \in 0 .. N
    OBVIOUS
  <2>3. wire' \in Seq(Text \cup Fin)
    BY <1>2, <2>1, <2>2, SentAfter
  <2>4. broken' = TRUE
    BY <1>4 DEF AnswerInPart
  <2> QED BY <2>3, <2>4
<1>5. CASE AnswerForRoom(q)
  <2>1. Append(wire, FinOf(q)) \in Seq(Text \cup Fin)
    BY <1>1, Appended
  <2> QED BY <1>5, <2>1 DEF AnswerForRoom
<1> QED BY <1>3, <1>4, <1>5

\* Times and messages are numbers in range.
LEMMA Numbers ==
    ASSUME TypeOK
    PROVE  /\ Message \subseteq Time /\ 0 .. N \subseteq Time /\ Now \in Time /\ 0 \in Time
           /\ \A a, b \in Time : (b <= archived /\ a # 0) => a .. b \subseteq Message
BY DEF TypeOK, Time, Message, Now

\* Every step keeps the types.
LEMMA TypeNext == ASSUME TInv, [Next]_vars PROVE TypeOK'
<1> USE DEF TInv, TypeOK, serverVars, netVars, memVars, dbVars, histVars
<1>1. CASE ServerArchives
  <2>1. [kind |-> "live", m |-> archived + 1, delayed |-> ~online] \in Text \cup Fin
    BY <1>1 DEF ServerArchives, Text, Message
  <2> QED BY <1>1, <2>1, Appended DEF ServerArchives
<1>2. CASE ServerAnswers
  <2>1. PICK k \in DOMAIN queries :
            /\ queries' = SubSeq(queries, 1, k - 1) \o SubSeq(queries, k + 1, Len(queries))
            /\ AnswerInFull(queries[k]) \/ AnswerInPart(queries[k]) \/ AnswerForRoom(queries[k])
    BY <1>2 DEF ServerAnswers
  <2>2. queries' \in Seq(Query)
    BY <2>1, TakenOut
  <2>3. queries[k] \in Query
    OBVIOUS
  <2>4. wire' \in Seq(Text \cup Fin) /\ broken' \in BOOLEAN
    BY <2>1, <2>3, AnswersTyped
  <2> QED BY <1>2, <2>2, <2>4 DEF ServerAnswers
<1>3. CASE Disconnect
  BY <1>3 DEF Disconnect
<1>4. CASE Authenticate
  <2>1. [op |-> "ask", owner |-> Acct] \in Job
    BY DEF Job, Owner
  <2>2. jobs' \in Seq(Job)
    BY <1>4, <2>1, Appended DEF Authenticate
  <2>3. wire' \in Seq(Text \cup Fin) /\ queries' \in Seq(Query)
    <3>1. (wire' = wire \/ wire' = <<>>) /\ (queries' = queries \/ queries' = <<>>)
      BY <1>4 DEF Authenticate
    <3>2. <<>> \in Seq(Text \cup Fin) /\ <<>> \in Seq(Query)
      OBVIOUS
    <3> QED BY <3>1, <3>2, Zenon
  <2>4. logins' \in 0 .. MaxLogins
    BY <1>4 DEF Authenticate
  <2> QED BY <1>4, <2>2, <2>3, <2>4 DEF Authenticate
<1>5. ASSUME NEW r \in Room, FetchRoomHistory(r) PROVE TypeOK'
  <2>1. [op |-> "ask", owner |-> r] \in Job
    BY DEF Job, Owner
  <2> QED BY <1>5, <2>1, Appended DEF FetchRoomHistory
<1>6. CASE ReceiveMessage
  <2>1. Head(wire) \in Text /\ Tail(wire) \in Seq(Text \cup Fin)
    BY <1>6, HeadTaken, Kinds DEF ReceiveMessage
  <2>2. [op |-> "save", text |-> Head(wire)] \in Job
    BY <2>1 DEF Job
  <2>3. jobs' \in Seq(Job) /\ encrypted' \in Seq(Text)
    <3> DEFINE e == [op |-> "save", text |-> Head(wire)]
    <3> HIDE DEF e
    <3>1. Append(jobs, e) \in Seq(Job) /\ Append(encrypted, Head(wire)) \in Seq(Text)
      BY <2>1, <2>2, Appended DEF e
    <3>2. \/ jobs' = Append(jobs, e) /\ encrypted' = encrypted
          \/ jobs' = jobs /\ encrypted' = Append(encrypted, Head(wire))
      BY <1>6 DEF ReceiveMessage, e
    <3> QED BY <3>1, <3>2
  <2> QED BY <1>6, <2>1, <2>3 DEF ReceiveMessage
<1>7. CASE DidFinish
  <2>1. Head(wire) \in Fin /\ Tail(wire) \in Seq(Text \cup Fin)
    BY <1>7, HeadTaken, Kinds DEF DidFinish
  <2>2. [op |-> "finish", fin |-> Head(wire)] \in Job
    BY <2>1 DEF Job
  <2> QED BY <1>7, <2>1, <2>2, Appended DEF DidFinish
<1>8. CASE ProcessKeyData
  <2>1. [op |-> "decrypt", text |-> Head(encrypted)] \in Job
    BY <1>8, HeadTaken DEF ProcessKeyData, Job
  <2> QED BY <1>8, <2>1, Appended DEF ProcessKeyData
<1>9. CASE AskArchive
  <2>1. Tail(jobs) \in Seq(Job) /\ Head(jobs) \in Job /\ Head(jobs).owner \in Owner
    BY <1>9, HeadTaken, Kinds DEF AskArchive, NextJob
  <2>2. \A t \in Time, o \in Owner : [owner |-> o, since |-> t] \in Query
    BY DEF Query
  <2>3. queries' \in Seq(Query)
    BY <1>9, <2>1, <2>2, Appended, Numbers DEF AskArchive
  <2>4. mamCatchupInProgress' \in BOOLEAN
    BY <1>9 DEF AskArchive
  <2> QED BY <1>9, <2>1, <2>3, <2>4 DEF AskArchive
<1>10. CASE Decrypt
  <2>1. /\ Tail(jobs) \in Seq(Job) /\ Head(jobs) \in Job /\ Head(jobs).text \in Text
        /\ Head(jobs) = jobs[1] /\ 1 \in DOMAIN jobs
    BY <1>10, HeadTaken, Kinds DEF Decrypt, NextJob
  <2>2. Head(jobs).text.m \in OMEMO /\ encrypted # <<>>
    BY <1>10, <2>1 DEF Decrypt, NextJob, OMEMOQueue
  <2>3. Tail(encrypted) \in Seq(Text)
    BY <2>2, HeadTaken
  <2>4. [op |-> "save", text |-> Head(jobs).text] \in Job
    BY <2>1 DEF Job
  <2>5. jobs' \in Seq(Job)
    <3> DEFINE e == [op |-> "save", text |-> Head(jobs).text]
    <3> HIDE DEF e
    <3>1. Append(Tail(jobs), e) \in Seq(Job)
      BY <2>1, <2>4, Appended DEF e
    <3>2. jobs' = Tail(jobs) \/ jobs' = Append(Tail(jobs), e)
      BY <1>10 DEF Decrypt, e
    <3> QED BY <2>1, <3>1, <3>2
  <2> QED BY <1>10, <2>2, <2>3, <2>5 DEF Decrypt
<1>11. CASE SaveMessage
  <2>1. /\ Tail(jobs) \in Seq(Job) /\ Head(jobs).text \in Text /\ Head(jobs).text.m \in Message
    BY <1>11, HeadTaken, Kinds DEF SaveMessage, NextJob
  <2>2. lastHistoryFetchDate' \in Time
    BY <1>11, <2>1, Numbers DEF SaveMessage, UpdateLastFetch
  <2>3. stored' \subseteq Message /\ twice' \subseteq Message
    BY <1>11, <2>1 DEF SaveMessage
  <2> QED BY <1>11, <2>1, <2>2, <2>3 DEF SaveMessage
<1>12. CASE FinishFetch
  <2>1. Tail(jobs) \in Seq(Job) /\ Head(jobs).fin \in Fin
    BY <1>12, HeadTaken, Kinds DEF FinishFetch, NextJob
  <2>2. covered' \subseteq Message
    <3>1. Head(jobs).fin.since .. Head(jobs).fin.upto \subseteq Message
      BY <2>1, Kinds, SMTT(30) DEF Time, Message
    <3> QED BY <1>12, <3>1 DEF FinishFetch
  <2>3. lastHistoryFetchDate' \in Time
    BY <1>12, Numbers DEF FinishFetch
  <2> QED BY <1>12, <2>1, <2>2, <2>3 DEF FinishFetch
<1>13. CASE Relaunch
  <2>1. /\ wire' \in Seq(Text \cup Fin) /\ queries' \in Seq(Query)
        /\ jobs' \in Seq(Job) /\ encrypted' \in Seq(Text)
    BY <1>13 DEF Relaunch
  <2>2. online' \in BOOLEAN /\ mamCatchupInProgress' \in BOOLEAN
    BY <1>13 DEF Relaunch
  <2> QED BY <1>13, <2>1, <2>2 DEF Relaunch
<1>14. CASE UNCHANGED vars
  BY <1>14 DEF vars
<1> QED BY <1>1, <1>2, <1>3, <1>4, <1>5, <1>6, <1>7, <1>8, <1>9, <1>10, <1>11, <1>12, <1>13, <1>14 DEF Next

\* The OMEMO queue's stanzas stay until they are decrypted, one at a time.
LEMMA OMEMONext == ASSUME TInv, [Next]_vars PROVE OMEMOQueue'
<1> USE DEF TInv, TypeOK, serverVars, netVars, memVars, dbVars, histVars
<1>1. ASSUME UNCHANGED <<jobs, encrypted>> PROVE OMEMOQueue'
  BY <1>1 DEF OMEMOQueue
<1>2. ASSUME NEW e \in Job, e.op # "decrypt", jobs' = Append(jobs, e), UNCHANGED encrypted
      PROVE  OMEMOQueue'
  <2>1. \A k \in DOMAIN jobs' : jobs'[k].op = "decrypt" => k \in DOMAIN jobs /\ jobs'[k] = jobs[k]
    BY <1>2, Appended
  <2> QED BY <1>2, <2>1 DEF OMEMOQueue
<1>3. ASSUME jobs # <<>>, Head(jobs).op # "decrypt", jobs' = Tail(jobs), UNCHANGED encrypted
      PROVE  OMEMOQueue'
  <2>1. \A k \in DOMAIN jobs' : k + 1 \in DOMAIN jobs /\ jobs'[k] = jobs[k + 1]
    BY <1>3, HeadTaken
  <2>2. DOMAIN jobs' \subseteq Nat
    BY <1>3, HeadTaken
  <2>3. ASSUME NEW k \in DOMAIN jobs', jobs'[k].op = "decrypt",
               NEW j \in DOMAIN jobs', jobs'[j].op = "decrypt"
        PROVE  j = k
    <3>1. j + 1 = k + 1
      BY <2>1, <2>3 DEF OMEMOQueue
    <3> QED BY <2>2, <3>1
  <2> QED BY <1>3, <2>1, <2>3 DEF OMEMOQueue
<1>4. CASE ServerArchives
  BY <1>1, <1>4 DEF ServerArchives
<1>5. CASE ServerAnswers
  BY <1>1, <1>5 DEF ServerAnswers
<1>6. CASE Disconnect
  BY <1>1, <1>6 DEF Disconnect
<1>7. CASE Authenticate
  BY <1>2, <1>7 DEF Authenticate, Job, Owner
<1>8. ASSUME NEW r \in Room, FetchRoomHistory(r) PROVE OMEMOQueue'
  BY <1>2, <1>8 DEF FetchRoomHistory, Job, Owner
<1>9. CASE ReceiveMessage
  <2>1. Head(wire) \in Text
    BY <1>9, HeadTaken, Kinds DEF ReceiveMessage
  <2>2. CASE Head(wire).m \notin OMEMO
    BY <1>2, <1>9, <2>1, <2>2 DEF ReceiveMessage, Job
  <2>3. CASE Head(wire).m \in OMEMO
    <3>1. jobs' = jobs /\ encrypted' = Append(encrypted, Head(wire))
      BY <1>9, <2>3 DEF ReceiveMessage
    <3>2. \A k \in DOMAIN encrypted' : encrypted'[k] = Head(wire) \/ (k \in DOMAIN encrypted /\ encrypted'[k] = encrypted[k])
      BY <2>1, <3>1, Appended
    <3>3. encrypted' # <<>>
      BY <2>1, <3>1, SMTT(30)
    <3> QED BY <2>3, <3>1, <3>2, <3>3, SMTT(30) DEF OMEMOQueue
  <2> QED BY <2>2, <2>3
<1>10. CASE DidFinish
  <2>1. Head(wire) \in Fin
    BY <1>10, HeadTaken, Kinds DEF DidFinish
  <2> QED BY <1>2, <1>10, <2>1 DEF DidFinish, Job
<1>11. CASE ProcessKeyData
  <2> DEFINE e == [op |-> "decrypt", text |-> Head(encrypted)]
  <2>1. e \in Job /\ Head(encrypted) = encrypted[1] /\ 1 \in DOMAIN encrypted
    BY <1>11, HeadTaken DEF ProcessKeyData, Job
  <2>2. e.text = Head(encrypted)
    OBVIOUS
  <2> HIDE DEF e
  <2>3. jobs' = Append(jobs, e) /\ UNCHANGED encrypted /\ encrypted # <<>>
    BY <1>11 DEF ProcessKeyData, e
  <2>4. \A k \in DOMAIN jobs' : jobs'[k].op = "decrypt" => k = Len(jobs) + 1 /\ jobs'[k] = e
    BY <1>11, <2>1, <2>3, Appended DEF ProcessKeyData
  <2> QED BY <2>2, <2>3, <2>4 DEF OMEMOQueue
<1>12. CASE AskArchive
  BY <1>3, <1>12 DEF AskArchive, NextJob
<1>13. CASE Decrypt
  <2>1. /\ Tail(jobs) \in Seq(Job) /\ Head(jobs) \in Job /\ Head(jobs).text \in Text
        /\ Head(jobs) = jobs[1] /\ 1 \in DOMAIN jobs /\ Head(jobs).op = "decrypt"
    BY <1>13, HeadTaken, Kinds DEF Decrypt, NextJob
  <2>2. \A k \in DOMAIN Tail(jobs) : Tail(jobs)[k].op # "decrypt"
    <3>1. SUFFICES ASSUME NEW k \in DOMAIN Tail(jobs) PROVE Tail(jobs)[k].op # "decrypt"
      OBVIOUS
    <3>2. k + 1 \in DOMAIN jobs /\ Tail(jobs)[k] = jobs[k + 1] /\ k + 1 # 1
      BY <1>13, HeadTaken DEF Decrypt, NextJob
    <3> QED BY <2>1, <3>2 DEF OMEMOQueue
  <2>3. \A k \in DOMAIN jobs' : jobs'[k].op # "decrypt"
    <3> DEFINE e == [op |-> "save", text |-> Head(jobs).text]
    <3>1. e \in Job /\ e.op # "decrypt"
      BY <2>1 DEF Job
    <3> HIDE DEF e
    <3>2. jobs' = Tail(jobs) \/ jobs' = Append(Tail(jobs), e)
      BY <1>13 DEF Decrypt, e
    <3>3. CASE jobs' = Tail(jobs)
      BY <2>2, <3>3
    <3>4. CASE jobs' = Append(Tail(jobs), e)
      <4>1. \A k \in DOMAIN jobs' : jobs'[k] = e \/ (k \in DOMAIN Tail(jobs) /\ jobs'[k] = Tail(jobs)[k])
        BY <2>1, <3>1, <3>4, Appended
      <4> QED BY <2>2, <3>1, <4>1
    <3> QED BY <3>2, <3>3, <3>4
  <2>4. encrypted # <<>>
    BY <2>1 DEF OMEMOQueue
  <2>5. \A k \in DOMAIN encrypted' : k + 1 \in DOMAIN encrypted /\ encrypted'[k] = encrypted[k + 1]
    BY <1>13, <2>4, HeadTaken DEF Decrypt
  <2> QED BY <2>3, <2>5 DEF OMEMOQueue
<1>14. CASE SaveMessage
  BY <1>3, <1>14 DEF SaveMessage, NextJob
<1>15. CASE FinishFetch
  BY <1>3, <1>15 DEF FinishFetch, NextJob
<1>16. CASE Relaunch
  BY <1>16 DEF Relaunch, OMEMOQueue
<1>17. CASE UNCHANGED vars
  BY <1>1, <1>17 DEF vars
<1> QED BY <1>4, <1>5, <1>6, <1>7, <1>8, <1>9, <1>10, <1>11, <1>12, <1>13, <1>14, <1>15, <1>16, <1>17 DEF Next

-----------------------------------------------------------------------------
(* What a fetch covers                                                      *)

\* One transaction more.
LEMMA JobAsked ==
    ASSUME NEW st, NEW q \in Seq(Job), NEW e \in Job, SavesLead(st, q),
           e.op = "finish" => Covers(e.fin) \subseteq Saved(st, q)
    PROVE  /\ SavesLead(st, Append(q, e))
           /\ Saved(st, q) \subseteq Saved(st, Append(q, e))
           /\ e.op = "save" => e.text.m \in Saved(st, Append(q, e))
<1> DEFINE r == Append(q, e)
<1>1. /\ Len(q) \in Nat /\ Len(r) = Len(q) + 1 /\ r[Len(q) + 1] = e
      /\ DOMAIN q = 1 .. Len(q) /\ DOMAIN r = 1 .. Len(q) + 1
      /\ \A k \in DOMAIN q : r[k] = q[k]
  BY Appended
<1> HIDE DEF r
<1>2. \A m, n : n \in Nat /\ SavedBy(st, q, m, n) => SavedBy(st, r, m, n)
  BY <1>1 DEF SavedBy
<1>3. Saved(st, q) \subseteq Saved(st, r)
  BY <1>1, <1>2 DEF Saved, SavedBy
<1>4. ASSUME NEW k \in DOMAIN r, r[k].op = "finish", NEW m \in Covers(r[k].fin)
      PROVE  SavedBy(st, r, m, k)
  <2>1. CASE k \in DOMAIN q
    BY <1>1, <1>2, <1>4, <2>1 DEF SavesLead
  <2>2. CASE k = Len(q) + 1
    <3>1. SavedBy(st, r, m, Len(q))
      BY <1>1, <1>2, <1>4, <2>2 DEF Saved
    <3> QED BY <1>1, <2>2, <3>1 DEF SavedBy
  <2> QED BY <1>1, <2>1, <2>2
<1>5. e.op = "save" => e.text.m \in Saved(st, r)
  BY <1>1, Kinds DEF SavedBy, Saved
<1> QED BY <1>3, <1>4, <1>5 DEF SavesLead, r

\* The first transaction has run and, if it saves, saved.
LEMMA JobRun ==
    ASSUME NEW st, NEW u, NEW q \in Seq(Job), q # <<>>, SavesLead(st, q), st \subseteq u,
           Head(q).op = "save" => Head(q).text.m \in u
    PROVE  SavesLead(u, Tail(q)) /\ Saved(st, q) \subseteq Saved(u, Tail(q))
<1> DEFINE r == Tail(q)
<1>1. /\ Head(q) = q[1] /\ Len(q) \in Nat /\ Len(r) = Len(q) - 1
      /\ DOMAIN q = 1 .. Len(q) /\ DOMAIN r = 1 .. Len(q) - 1
      /\ \A k \in DOMAIN r : r[k] = q[k + 1]
  BY HeadTaken
<1> HIDE DEF r
<1>2. ASSUME NEW m, NEW n \in Nat, SavedBy(st, q, m, n + 1)
      PROVE  SavedBy(u, r, m, n)
  <2>1. CASE m \in st
    BY <2>1 DEF SavedBy
  <2>2. ASSUME NEW j \in DOMAIN q, j <= n + 1, q[j].op = "save", q[j].text.m = m
        PROVE  SavedBy(u, r, m, n)
    <3>1. CASE j = 1
      BY <1>1, <2>2, <3>1 DEF SavedBy
    <3>2. CASE j # 1
      <4>1. j - 1 \in DOMAIN r /\ r[j - 1] = q[j] /\ j - 1 <= n
        BY <1>1, <2>2, <3>2
      <4> QED BY <2>2, <4>1 DEF SavedBy
    <3> QED BY <3>1, <3>2
  <2> QED BY <1>2, <2>1, <2>2 DEF SavedBy
<1>3. Saved(st, q) \subseteq Saved(u, r)
  BY <1>1, <1>2 DEF Saved
<1>4. ASSUME NEW k \in DOMAIN r, r[k].op = "finish", NEW m \in Covers(r[k].fin)
      PROVE  SavedBy(u, r, m, k)
  <2>1. k \in Nat /\ k + 1 \in DOMAIN q /\ r[k] = q[k + 1]
    BY <1>1
  <2>2. SavedBy(st, q, m, k + 1)
    BY <1>4, <2>1 DEF SavesLead
  <2> QED BY <1>2, <2>1, <2>2
<1> QED BY <1>3, <1>4 DEF SavesLead, r

\* An answer is sent after what is on the wire, with its own results ahead of
\* its end.
LEMMA AnswerSent ==
    ASSUME NEW g, NEW w \in Seq(Text \cup Fin), NEW t \in Seq(Text \cup Fin),
           ResultsLead(g, w), ResultsLead(g, t)
    PROVE  ResultsLead(g, w \o t)
<1> DEFINE v == w \o t
<1>1. /\ Len(w) \in Nat /\ Len(t) \in Nat
      /\ DOMAIN w = 1 .. Len(w) /\ DOMAIN t = 1 .. Len(t) /\ DOMAIN v = 1 .. Len(w) + Len(t)
      /\ \A k \in DOMAIN w : v[k] = w[k]
      /\ \A k \in DOMAIN t : v[Len(w) + k] = t[k]
  BY SentAfter
<1> HIDE DEF v
<1>2. ASSUME NEW k \in DOMAIN v, v[k].kind = "fin", NEW m \in Covers(v[k]), m \notin g
      PROVE  \E j \in DOMAIN v : j < k /\ v[j].kind # "fin" /\ v[j].m = m
  <2>1. CASE k \in DOMAIN w
    BY <1>1, <1>2, <2>1 DEF ResultsLead
  <2>2. CASE k \notin DOMAIN w
    <3>1. k - Len(w) \in DOMAIN t /\ v[k] = t[k - Len(w)]
      BY <1>1, <2>2
    <3>2. PICK j \in DOMAIN t : j < k - Len(w) /\ t[j].kind # "fin" /\ t[j].m = m
      BY <1>2, <3>1 DEF ResultsLead
    <3>3. Len(w) + j \in DOMAIN v /\ Len(w) + j < k /\ v[Len(w) + j] = t[j]
      BY <1>1, <3>2
    <3> QED BY <3>2, <3>3
  <2> QED BY <2>1, <2>2
<1> QED BY <1>2 DEF ResultsLead, v

\* The first stanza is received: if it is a message in the clear, it is in h now.
LEMMA StanzaReceived ==
    ASSUME NEW g, NEW h, NEW w \in Seq(Text \cup Fin), w # <<>>, ResultsLead(g, w), g \subseteq h,
           Head(w).kind # "fin" /\ Head(w).m \notin OMEMO => Head(w).m \in h
    PROVE  ResultsLead(h, Tail(w))
<1> DEFINE v == Tail(w)
<1>1. /\ Head(w) = w[1] /\ Len(w) \in Nat
      /\ DOMAIN w = 1 .. Len(w) /\ DOMAIN v = 1 .. Len(w) - 1
      /\ \A k \in DOMAIN v : v[k] = w[k + 1]
  BY HeadTaken
<1> HIDE DEF v
<1>2. ASSUME NEW k \in DOMAIN v, v[k].kind = "fin", NEW m \in Covers(v[k]), m \notin h
      PROVE  \E j \in DOMAIN v : j < k /\ v[j].kind # "fin" /\ v[j].m = m
  <2>1. k + 1 \in DOMAIN w /\ v[k] = w[k + 1] /\ m \notin g /\ m \notin OMEMO
    BY <1>1, <1>2 DEF Covers
  <2>2. PICK j \in DOMAIN w : j < k + 1 /\ w[j].kind # "fin" /\ w[j].m = m
    BY <1>2, <2>1 DEF ResultsLead
  <2>3. j # 1
    BY <1>1, <1>2, <2>1, <2>2
  <2>4. j - 1 \in DOMAIN v /\ j - 1 < k /\ v[j - 1] = w[j]
    BY <1>1, <1>2, <2>2, <2>3
  <2> QED BY <2>2, <2>4
<1> QED BY <1>2 DEF ResultsLead, v

\* A message more on the wire, or the end of a room's fetch, covers nothing.
LEMMA StanzaSent ==
    ASSUME NEW g, NEW w \in Seq(Text \cup Fin), NEW x \in Text \cup Fin, ResultsLead(g, w),
           x.kind = "fin" => x.owner # Acct
    PROVE  ResultsLead(g, Append(w, x))
<1>1. /\ DOMAIN Append(w, x) = DOMAIN w \cup {Len(w) + 1} /\ Append(w, x)[Len(w) + 1] = x
      /\ \A k \in DOMAIN w : Append(w, x)[k] = w[k]
  BY Appended
<1> DEFINE v == Append(w, x)
<1> HIDE DEF v
<1>2. ASSUME NEW k \in DOMAIN v, v[k].kind = "fin", NEW m \in Covers(v[k]), m \notin g
      PROVE  \E j \in DOMAIN v : j < k /\ v[j].kind # "fin" /\ v[j].m = m
  <2>1. k \in DOMAIN w
    BY <1>1, <1>2 DEF Covers, v
  <2> QED BY <1>1, <1>2, <2>1 DEF ResultsLead, v
<1> QED BY <1>2 DEF ResultsLead, v

\* All that the end of an account's fetch covers is among the results sent
\* ahead of it.
LEMMA AnswerIsWhole ==
    ASSUME TypeOK, NEW g, NEW q \in Query
    PROVE  LET rs == Results(FirstOf(q), archived)
           IN  /\ rs \in Seq(Text \cup Fin) /\ Append(rs, FinOf(q)) \in Seq(Text \cup Fin)
               /\ ResultsLead(g, rs) /\ ResultsLead(g, Append(rs, FinOf(q)))
<1> DEFINE rs == Results(FirstOf(q), archived)
           v  == Append(rs, FinOf(q))
<1>1. /\ FirstOf(q) \in Nat \ {0} /\ archived \in 0 .. N /\ FinOf(q) \in Fin
      /\ FinOf(q).since = FirstOf(q) /\ FinOf(q).upto = archived /\ FinOf(q).kind = "fin"
  BY DEF TypeOK, FirstOf, FinOf, Query, Time, Fin
<1>2. /\ rs \in Seq(Text)
      /\ \A k \in DOMAIN rs : rs[k] = [kind |-> "mam", m |-> FirstOf(q) + k - 1]
      /\ \A m \in FirstOf(q) .. archived : m + 1 - FirstOf(q) \in DOMAIN rs
  BY <1>1, ResultsTyped
<1> HIDE DEF rs
<1>3. rs \in Seq(Text \cup Fin)
  BY <1>2
<1>4. /\ v \in Seq(Text \cup Fin)
      /\ DOMAIN v = DOMAIN rs \cup {Len(rs) + 1} /\ DOMAIN rs = 1 .. Len(rs) /\ Len(rs) \in Nat
      /\ v[Len(rs) + 1] = FinOf(q) /\ \A k \in DOMAIN rs : v[k] = rs[k]
  BY <1>1, <1>3, Appended
<1> HIDE DEF v
<1>5. \A k \in DOMAIN rs : rs[k].kind # "fin"
  BY <1>2
<1>6. ASSUME NEW k \in DOMAIN v, v[k].kind = "fin", NEW m \in Covers(v[k])
      PROVE  \E j \in DOMAIN v : j < k /\ v[j].kind # "fin" /\ v[j].m = m
  <2>1. k = Len(rs) + 1 /\ v[k] = FinOf(q)
    BY <1>4, <1>5, <1>6
  <2>2. m \in FirstOf(q) .. archived
    BY <1>1, <1>6, <2>1 DEF Covers
  <2>3. PICK j \in DOMAIN rs : j = m + 1 - FirstOf(q)
    BY <1>2, <2>2
  <2>4. v[j].m = m
    BY <1>1, <1>2, <1>4, <2>2, <2>3
  <2> QED BY <1>4, <1>5, <2>1, <2>3, <2>4
<1> QED BY <1>3, <1>4, <1>5, <1>6 DEF ResultsLead, rs, v

-----------------------------------------------------------------------------
(* Nothing is counted as fetched that is not stored                         *)

FInv ==
    /\ SavesLead(stored, jobs)
    /\ ResultsLead(Saved(stored, jobs), wire)
    /\ FetchedIsStored

\* Nothing has been fetched at first.
LEMMA FInit == Init => FInv
BY DEF Init, FInv, SavesLead, ResultsLead, FetchedIsStored

\* More may be saved than the wire needs.
LEMMA MoreSaved ==
    ASSUME NEW g, NEW h, g \subseteq h, NEW w, ResultsLead(g, w)
    PROVE  ResultsLead(h, w)
BY DEF ResultsLead

\* A transaction is asked for and nothing else changes.
LEMMA AskKeeps ==
    ASSUME TypeOK, FInv, NEW e \in Job, e.op # "finish", jobs' = Append(jobs, e),
           UNCHANGED <<wire, stored, covered>>
    PROVE  FInv'
<1>1. SavesLead(stored, jobs') /\ Saved(stored, jobs) \subseteq Saved(stored, jobs')
  BY JobAsked DEF TypeOK, FInv
<1>2. ResultsLead(Saved(stored, jobs'), wire)
  BY <1>1, MoreSaved DEF FInv
<1> QED BY <1>1, <1>2 DEF FInv, FetchedIsStored

\* The first transaction runs.
LEMMA RunKeeps ==
    ASSUME TypeOK, FInv, jobs # <<>>, jobs' = Tail(jobs), stored \subseteq stored', UNCHANGED wire,
           Head(jobs).op = "save" => Head(jobs).text.m \in stored'
    PROVE  SavesLead(stored', jobs') /\ ResultsLead(Saved(stored', jobs'), wire')
<1>1. SavesLead(stored', jobs') /\ Saved(stored, jobs) \subseteq Saved(stored', jobs')
  BY JobRun DEF TypeOK, FInv
<1> QED BY <1>1, MoreSaved DEF FInv

\* The server's answers keep results ahead of ends.
LEMMA AnswersKeep ==
    ASSUME TypeOK, FInv, NEW q \in Query,
           AnswerInFull(q) \/ AnswerInPart(q) \/ AnswerForRoom(q)
    PROVE  ResultsLead(Saved(stored, jobs), wire')
<1>1. CASE AnswerInFull(q)
  BY <1>1, AnswerIsWhole, AnswerSent DEF AnswerInFull, TypeOK, FInv
<1>2. CASE AnswerInPart(q)
  <2>1. PICK last \in 0 .. archived : wire' = wire \o Results(FirstOf(q), last)
    BY <1>2 DEF AnswerInPart
  <2>2. /\ Results(FirstOf(q), last) \in Seq(Text)
        /\ \A k \in DOMAIN Results(FirstOf(q), last) : Results(FirstOf(q), last)[k].kind = "mam"
    <3>1. FirstOf(q) \in Nat \ {0} /\ last \in 0 .. N
      BY DEF TypeOK, FirstOf, Query, Time
    <3> QED BY <3>1, ResultsTyped
  <2>3. ResultsLead(Saved(stored, jobs), Results(FirstOf(q), last))
    BY <2>2 DEF ResultsLead
  <2>4. Results(FirstOf(q), last) \in Seq(Text \cup Fin)
    BY <2>2
  <2> QED BY <2>1, <2>3, <2>4, AnswerSent DEF TypeOK, FInv
<1>3. CASE AnswerForRoom(q)
  <2>1. FinOf(q) \in Fin /\ FinOf(q).owner # Acct
    BY <1>3 DEF AnswerForRoom, TypeOK, FirstOf, FinOf, Query, Time, Fin
  <2> QED BY <1>3, <2>1, StanzaSent DEF AnswerForRoom, TypeOK, FInv
<1> QED BY <1>1, <1>2, <1>3

\* Every step keeps saves and results ahead of ends.
LEMMA FNext == ASSUME TInv, FInv, [Next]_vars PROVE FInv'
<1> USE DEF serverVars, netVars, memVars, dbVars, histVars
<1>t. TypeOK /\ OMEMOQueue
  BY DEF TInv
<1>1. CASE ServerArchives
  <2>1. [kind |-> "live", m |-> archived + 1, delayed |-> ~online] \in Text \cup Fin
    BY <1>1, <1>t DEF ServerArchives, Text, Message, TypeOK
  <2>2. ResultsLead(Saved(stored, jobs), wire')
    BY <1>1, <1>t, <2>1, StanzaSent DEF ServerArchives, FInv, TypeOK
  <2> QED BY <1>1, <2>2 DEF ServerArchives, FInv, FetchedIsStored
<1>2. CASE ServerAnswers
  <2>1. PICK k \in DOMAIN queries :
            AnswerInFull(queries[k]) \/ AnswerInPart(queries[k]) \/ AnswerForRoom(queries[k])
    BY <1>2 DEF ServerAnswers
  <2>2. queries[k] \in Query
    BY <1>t DEF TypeOK
  <2>3. ResultsLead(Saved(stored, jobs), wire')
    BY <1>t, <2>1, <2>2, AnswersKeep
  <2> QED BY <1>2, <2>3 DEF ServerAnswers, FInv, FetchedIsStored
<1>3. CASE Disconnect
  BY <1>3 DEF Disconnect, FInv, FetchedIsStored
<1>4. CASE Authenticate
  <2> DEFINE e == [op |-> "ask", owner |-> Acct]
  <2>1. e \in Job /\ e.op = "ask"
    BY DEF Job, Owner
  <2> HIDE DEF e
  <2>2. jobs' = Append(jobs, e) /\ (wire' = wire \/ wire' = <<>>) /\ UNCHANGED <<stored, covered>>
    BY <1>4 DEF Authenticate, e
  <2>3. SavesLead(stored, jobs') /\ Saved(stored, jobs) \subseteq Saved(stored, jobs')
    BY <1>t, <2>1, <2>2, JobAsked DEF TypeOK, FInv
  <2>4. ResultsLead(Saved(stored, jobs'), wire) /\ ResultsLead(Saved(stored, jobs'), <<>>)
    BY <2>3, MoreSaved DEF FInv, ResultsLead
  <2> QED BY <2>2, <2>3, <2>4 DEF FInv, FetchedIsStored
<1>5. ASSUME NEW r \in Room, FetchRoomHistory(r) PROVE FInv'
  BY <1>5, <1>t, AskKeeps DEF FetchRoomHistory, Job, Owner
<1>6. CASE ReceiveMessage
  <2>1. Head(wire) \in Text /\ wire # <<>>
    BY <1>6, <1>t, HeadTaken, Kinds DEF ReceiveMessage, TypeOK
  <2>2. CASE Head(wire).m \notin OMEMO
    <3> DEFINE e == [op |-> "save", text |-> Head(wire)]
    <3>1. e \in Job /\ e.op = "save" /\ e.text = Head(wire)
      BY <2>1 DEF Job
    <3> HIDE DEF e
    <3>2. jobs' = Append(jobs, e) /\ wire' = Tail(wire) /\ UNCHANGED <<stored, covered>>
      BY <1>6, <2>2 DEF ReceiveMessage, e
    <3>3. /\ SavesLead(stored, jobs') /\ Saved(stored, jobs) \subseteq Saved(stored, jobs')
          /\ Head(wire).m \in Saved(stored, jobs')
      BY <1>t, <3>1, <3>2, JobAsked DEF TypeOK, FInv
    <3>4. ResultsLead(Saved(stored, jobs'), wire')
      BY <1>t, <2>1, <3>2, <3>3, StanzaReceived DEF TypeOK, FInv
    <3> QED BY <3>2, <3>3, <3>4 DEF FInv, FetchedIsStored
  <2>3. CASE Head(wire).m \in OMEMO
    <3>1. UNCHANGED <<jobs, stored, covered>> /\ wire' = Tail(wire)
      BY <1>6, <2>3 DEF ReceiveMessage
    <3>2. ResultsLead(Saved(stored, jobs), wire')
      BY <1>t, <2>1, <2>3, <3>1, StanzaReceived DEF TypeOK, FInv
    <3> QED BY <3>1, <3>2 DEF FInv, FetchedIsStored
  <2> QED BY <2>2, <2>3
<1>7. CASE DidFinish
  <2>1. Head(wire) \in Fin /\ wire # <<>> /\ Head(wire).kind = "fin" /\ Head(wire) = wire[1] /\ 1 \in DOMAIN wire
    BY <1>7, <1>t, HeadTaken, Kinds DEF DidFinish, TypeOK
  <2>2. Covers(Head(wire)) \subseteq Saved(stored, jobs)
    <3>1. \A j \in DOMAIN wire : ~(j < 1)
      BY <1>t DEF TypeOK
    <3> QED BY <2>1, <3>1 DEF FInv, ResultsLead
  <2> DEFINE e == [op |-> "finish", fin |-> Head(wire)]
  <2>3. e \in Job /\ e.op = "finish" /\ e.fin = Head(wire)
    BY <2>1 DEF Job
  <2> HIDE DEF e
  <2>4. jobs' = Append(jobs, e) /\ wire' = Tail(wire) /\ UNCHANGED <<stored, covered>>
    BY <1>7 DEF DidFinish, e
  <2>5. SavesLead(stored, jobs') /\ Saved(stored, jobs) \subseteq Saved(stored, jobs')
    BY <1>t, <2>2, <2>3, <2>4, JobAsked DEF TypeOK, FInv
  <2>6. ResultsLead(Saved(stored, jobs'), wire')
    BY <1>t, <2>1, <2>4, <2>5, StanzaReceived DEF TypeOK, FInv
  <2> QED BY <2>4, <2>5, <2>6 DEF FInv, FetchedIsStored
<1>8. CASE ProcessKeyData
  <2>1. Head(encrypted) \in Text
    BY <1>8, <1>t, HeadTaken DEF ProcessKeyData, TypeOK
  <2> QED BY <1>8, <1>t, <2>1, AskKeeps DEF ProcessKeyData, Job
<1>9. CASE AskArchive
  <2>1. SavesLead(stored', jobs') /\ ResultsLead(Saved(stored', jobs'), wire')
    BY <1>9, <1>t, RunKeeps DEF AskArchive, NextJob
  <2> QED BY <1>9, <2>1 DEF AskArchive, FInv, FetchedIsStored
<1>10. CASE Decrypt
  <2>1. /\ Tail(jobs) \in Seq(Job) /\ Head(jobs).text \in Text /\ Head(jobs).op = "decrypt" /\ jobs # <<>>
    BY <1>10, <1>t, HeadTaken, Kinds DEF Decrypt, NextJob, TypeOK
  <2>2. SavesLead(stored, Tail(jobs)) /\ Saved(stored, jobs) \subseteq Saved(stored, Tail(jobs))
    BY <1>t, <2>1, JobRun DEF TypeOK, FInv
  <2> DEFINE e == [op |-> "save", text |-> Head(jobs).text]
  <2>3. e \in Job /\ e.op = "save"
    BY <2>1 DEF Job
  <2> HIDE DEF e
  <2>4. (jobs' = Tail(jobs) \/ jobs' = Append(Tail(jobs), e)) /\ UNCHANGED <<wire, stored, covered>>
    BY <1>10 DEF Decrypt, e
  <2>5. SavesLead(stored, jobs') /\ Saved(stored, jobs) \subseteq Saved(stored, jobs')
    <3>1. CASE jobs' = Tail(jobs)
      BY <2>2, <3>1
    <3>2. CASE jobs' = Append(Tail(jobs), e)
      <4>1. SavesLead(stored, jobs') /\ Saved(stored, Tail(jobs)) \subseteq Saved(stored, jobs')
        BY <2>1, <2>2, <2>3, <3>2, JobAsked
      <4> QED BY <2>2, <4>1
    <3> QED BY <2>4, <3>1, <3>2
  <2>6. ResultsLead(Saved(stored, jobs'), wire)
    BY <2>5, MoreSaved DEF FInv
  <2> QED BY <2>4, <2>5, <2>6 DEF FInv, FetchedIsStored
<1>11. CASE SaveMessage
  <2>1. /\ jobs # <<>> /\ Head(jobs).op = "save" /\ jobs' = Tail(jobs)
        /\ stored \subseteq stored' /\ Head(jobs).text.m \in stored' /\ UNCHANGED <<wire, covered>>
    BY <1>11 DEF SaveMessage, NextJob, IsDuplicate
  <2>2. SavesLead(stored', jobs') /\ ResultsLead(Saved(stored', jobs'), wire')
    BY <1>t, <2>1, RunKeeps
  <2> QED BY <2>1, <2>2 DEF FInv, FetchedIsStored
<1>12. CASE FinishFetch
  <2>1. /\ jobs # <<>> /\ Head(jobs).op = "finish" /\ jobs' = Tail(jobs) /\ UNCHANGED <<wire, stored>>
        /\ Head(jobs) = jobs[1] /\ 1 \in DOMAIN jobs
    BY <1>12, <1>t, HeadTaken DEF FinishFetch, NextJob, TypeOK
  <2>2. SavesLead(stored', jobs') /\ ResultsLead(Saved(stored', jobs'), wire')
    BY <1>t, <2>1, RunKeeps
  <2>3. Covers(Head(jobs).fin) \subseteq stored
    <3>1. ASSUME NEW m \in Covers(Head(jobs).fin), m \notin stored PROVE FALSE
      <4>1. PICK j \in DOMAIN jobs : j <= 1 /\ jobs[j].op = "save"
        BY <2>1, <3>1 DEF FInv, SavesLead, SavedBy
      <4>2. j = 1
        BY <1>t, <4>1 DEF TypeOK
      <4> QED BY <2>1, <4>1, <4>2
    <3> QED BY <3>1
  <2>4. covered' \subseteq covered \cup Covers(Head(jobs).fin) \cup OMEMO
    BY <1>12 DEF FinishFetch, Covers
  <2> QED BY <2>1, <2>2, <2>3, <2>4 DEF FInv, FetchedIsStored
<1>13. CASE Relaunch
  BY <1>13 DEF Relaunch, FInv, FetchedIsStored, SavesLead, ResultsLead
<1>14. CASE UNCHANGED vars
  BY <1>14 DEF vars, FInv, FetchedIsStored
<1> QED BY <1>1, <1>2, <1>3, <1>4, <1>5, <1>6, <1>7, <1>8, <1>9, <1>10, <1>11, <1>12, <1>13, <1>14 DEF Next

-----------------------------------------------------------------------------
(* The theorems                                                             *)

\* Types, and the order on the OMEMO queue.
LEMMA TInvNext == TInv /\ [Next]_vars => TInv'
BY TypeNext, OMEMONext DEF TInv

\* Every variable keeps its type.
THEOREM CatchupTypeCorrect == Spec => []TypeOK
<1>1. TInv => TypeOK
  BY DEF TInv
<1> QED BY <1>1, TInit, TInvNext, PTL DEF Spec

\* A message with an id is never saved a second time, whichever way its copies
\* come: the look-up and the save are one transaction.
THEOREM NeverStoredTwice == Spec => []StoredOnce
<1>1. Init => StoredOnce
  BY DEF Init, StoredOnce
<1>2. StoredOnce /\ [Next]_vars => StoredOnce'
  <2>1. SUFFICES ASSUME StoredOnce, [Next]_vars PROVE StoredOnce'
    OBVIOUS
  <2>2. CASE SaveMessage
    BY <2>1, <2>2 DEF SaveMessage, IsDuplicate, StoredOnce
  <2>3. CASE UNCHANGED twice
    BY <2>1, <2>3 DEF StoredOnce
  <2>4. SaveMessage \/ UNCHANGED twice
    BY <2>1 DEF Next, vars, histVars, ServerArchives, ServerAnswers, Disconnect, Authenticate, FetchRoomHistory,
       ReceiveMessage, DidFinish, ProcessKeyData, AskArchive, Decrypt, FinishFetch, Relaunch
  <2> QED BY <2>2, <2>3, <2>4
<1> QED BY <1>1, <1>2, PTL DEF Spec

\* The fetch date never gets ahead of the database: what an account's fetch
\* covers is stored when the fetch counts as done, but for OMEMO messages.
THEOREM FetchedMessagesAreStored == Spec => []FetchedIsStored
<1>1. Init => TInv /\ FInv
  BY TInit, FInit
<1>2. TInv /\ FInv /\ [Next]_vars => (TInv /\ FInv)'
  BY TInvNext, FNext
<1>3. FInv => FetchedIsStored
  BY DEF FInv
<1> QED BY <1>1, <1>2, <1>3, PTL DEF Spec

-----------------------------------------------------------------------------
(* Nothing is dropped on its way                                            *)

Asked(qs, m) == \E k \in DOMAIN qs : /\ qs[k].owner = Acct
                                     /\ qs[k].since <= m /\ m <= archived
OnWire(w, m)     == \E k \in DOMAIN w : w[k].kind # "fin" /\ w[k].m = m
OnQueue(ss, m)   == \E k \in DOMAIN ss : ss[k].m = m
AmongSaves(q, m) == \E k \in DOMAIN q : q[k].op = "save" /\ q[k].text.m = m

LEMMA Places ==
    ASSUME NEW m
    PROVE  OnItsWay(m) <=> \/ Asked(queries, m) \/ OnWire(wire, m)
                           \/ OnQueue(encrypted, m) \/ AmongSaves(jobs, m)
BY DEF OnItsWay, Due, Asked, OnWire, OnQueue, AmongSaves

\* A whole answer brings every message that was asked for.
LEMMA AnswerBrings ==
    ASSUME TypeOK, NEW q \in Query, AnswerInFull(q),
           NEW m \in Message, q.since <= m, m <= archived
    PROVE  OnWire(wire', m)
<1> DEFINE rs == Results(FirstOf(q), archived)
           v  == Append(rs, FinOf(q))
<1>1. /\ FirstOf(q) \in Nat \ {0} /\ archived \in 0 .. N /\ FinOf(q) \in Text \cup Fin
      /\ m \in FirstOf(q) .. archived
  BY DEF TypeOK, FirstOf, FinOf, Query, Time, Fin, Message
<1>2. /\ rs \in Seq(Text)
      /\ \A k \in DOMAIN rs : rs[k] = [kind |-> "mam", m |-> FirstOf(q) + k - 1]
      /\ m + 1 - FirstOf(q) \in DOMAIN rs
  BY <1>1, ResultsTyped
<1> HIDE DEF rs
<1>3. PICK k \in DOMAIN rs : rs[k].kind = "mam" /\ rs[k].m = m
  <2>1. FirstOf(q) + (m + 1 - FirstOf(q)) - 1 = m
    BY <1>1
  <2>2. rs[m + 1 - FirstOf(q)] = [kind |-> "mam", m |-> m]
    BY <1>2, <2>1
  <2> QED BY <1>2, <2>2
<1>4. v \in Seq(Text \cup Fin) /\ k \in DOMAIN v /\ v[k] = rs[k]
  <2>1. rs \in Seq(Text \cup Fin)
    BY <1>2
  <2> QED BY <1>1, <2>1, Appended
<1> HIDE DEF v
<1>5. wire' = wire \o v
  BY DEF AnswerInFull, rs, v
<1>6. Len(wire) + k \in DOMAIN wire' /\ wire'[Len(wire) + k] = v[k]
  BY <1>4, <1>5, SentAfter DEF TypeOK
<1> QED BY <1>3, <1>4, <1>6 DEF OnWire

\* An answer leaves the wire's stanzas where they were.
LEMMA AnswersFollow ==
    ASSUME TypeOK, NEW q \in Query, NEW m, OnWire(wire, m),
           AnswerInFull(q) \/ AnswerInPart(q) \/ AnswerForRoom(q)
    PROVE  OnWire(wire', m)
<1>1. \A t \in Seq(Text \cup Fin) : OnWire(wire \o t, m)
  BY SentAfter DEF OnWire, TypeOK
<1>2. FinOf(q) \in Fin /\ FirstOf(q) \in Nat \ {0}
  BY DEF FirstOf, FinOf, Query, Time, Fin, TypeOK
<1>3. ASSUME NEW last \in 0 .. N
      PROVE  Results(FirstOf(q), last) \in Seq(Text \cup Fin)
  <2>1. Results(FirstOf(q), last) \in Seq(Text)
    BY <1>2, ResultsTyped
  <2> QED BY <2>1
<1>4. CASE AnswerInFull(q)
  <2>1. Append(Results(FirstOf(q), archived), FinOf(q)) \in Seq(Text \cup Fin)
    BY <1>2, <1>3, Appended DEF TypeOK
  <2> QED BY <1>1, <1>4, <2>1 DEF AnswerInFull
<1>5. CASE AnswerInPart(q)
  <2>1. PICK last \in 0 .. archived : wire' = wire \o Results(FirstOf(q), last)
    BY <1>5 DEF AnswerInPart
  <2>2. last \in 0 .. N
    BY DEF TypeOK
  <2> QED BY <1>1, <1>3, <2>1, <2>2
<1>6. CASE AnswerForRoom(q)
  <2>1. OnWire(Append(wire, FinOf(q)), m)
    BY <1>2, Appended DEF OnWire, TypeOK
  <2> QED BY <1>6, <2>1 DEF AnswerForRoom
<1> QED BY <1>4, <1>5, <1>6

\* One element more, or one taken from the front.
LEMMA PlacesKept ==
    ASSUME NEW m
    PROVE  /\ \A w \in Seq(Text \cup Fin), x \in Text \cup Fin :
                  OnWire(w, m) => OnWire(Append(w, x), m)
           /\ \A w \in Seq(Text \cup Fin) : w # <<>> /\ OnWire(w, m) =>
                  OnWire(Tail(w), m) \/ (Head(w).kind # "fin" /\ Head(w).m = m)
           /\ \A ss \in Seq(Text), x \in Text :
                  OnQueue(ss, m) \/ x.m = m => OnQueue(Append(ss, x), m)
           /\ \A ss \in Seq(Text) : ss # <<>> /\ OnQueue(ss, m) =>
                  OnQueue(Tail(ss), m) \/ Head(ss).m = m
           /\ \A q \in Seq(Job), e \in Job :
                  AmongSaves(q, m) \/ (e.op = "save" /\ e.text.m = m) => AmongSaves(Append(q, e), m)
           /\ \A q \in Seq(Job) : q # <<>> /\ AmongSaves(q, m) =>
                  AmongSaves(Tail(q), m) \/ (Head(q).op = "save" /\ Head(q).text.m = m)
<1>1. ASSUME NEW w \in Seq(Text \cup Fin), NEW x \in Text \cup Fin, OnWire(w, m)
      PROVE  OnWire(Append(w, x), m)
  BY <1>1, Appended DEF OnWire
<1>2. ASSUME NEW w \in Seq(Text \cup Fin), w # <<>>, OnWire(w, m)
      PROVE  OnWire(Tail(w), m) \/ (Head(w).kind # "fin" /\ Head(w).m = m)
  <2>1. /\ Head(w) = w[1]
        /\ \A k \in DOMAIN w : k # 1 => k - 1 \in DOMAIN Tail(w) /\ Tail(w)[k - 1] = w[k]
    BY <1>2, HeadTaken
  <2> QED BY <1>2, <2>1 DEF OnWire
<1>3. ASSUME NEW ss \in Seq(Text), NEW x \in Text, OnQueue(ss, m) \/ x.m = m
      PROVE  OnQueue(Append(ss, x), m)
  BY <1>3, Appended DEF OnQueue
<1>4. ASSUME NEW ss \in Seq(Text), ss # <<>>, OnQueue(ss, m)
      PROVE  OnQueue(Tail(ss), m) \/ Head(ss).m = m
  <2>1. /\ Head(ss) = ss[1]
        /\ \A k \in DOMAIN ss : k # 1 => k - 1 \in DOMAIN Tail(ss) /\ Tail(ss)[k - 1] = ss[k]
    BY <1>4, HeadTaken
  <2> QED BY <1>4, <2>1 DEF OnQueue
<1>5. ASSUME NEW q \in Seq(Job), NEW e \in Job,
             AmongSaves(q, m) \/ (e.op = "save" /\ e.text.m = m)
      PROVE  AmongSaves(Append(q, e), m)
  BY <1>5, Appended DEF AmongSaves
<1>6. ASSUME NEW q \in Seq(Job), q # <<>>, AmongSaves(q, m)
      PROVE  AmongSaves(Tail(q), m) \/ (Head(q).op = "save" /\ Head(q).text.m = m)
  <2>1. /\ Head(q) = q[1]
        /\ \A k \in DOMAIN q : k # 1 => k - 1 \in DOMAIN Tail(q) /\ Tail(q)[k - 1] = q[k]
    BY <1>6, HeadTaken
  <2> QED BY <1>6, <2>1 DEF AmongSaves
<1> QED BY <1>1, <1>2, <1>3, <1>4, <1>5, <1>6

\* Where a step takes a message from, it is followed to the next place.
Followed(m) ==
    \/ OnItsWay(m)'
    \/ m \in stored' \/ m \in ignored'
    \/ broken' /\ queries' # queries
    \/ ~online \/ ~online'

LEMMA AnswersKeepTrack ==
    ASSUME TInv, ServerAnswers, NEW m \in Message, OnItsWay(m)
    PROVE  Followed(m)
<1> USE DEF TInv
<1>1. PICK k \in DOMAIN queries :
          /\ queries' = SubSeq(queries, 1, k - 1) \o SubSeq(queries, k + 1, Len(queries))
          /\ AnswerInFull(queries[k]) \/ AnswerInPart(queries[k]) \/ AnswerForRoom(queries[k])
  BY DEF ServerAnswers
<1>2. queries[k] \in Query /\ queries \in Seq(Query) /\ UNCHANGED <<archived, encrypted, jobs>>
  BY DEF TypeOK, ServerAnswers, netVars, memVars
<1>3. CASE OnWire(wire, m)
  BY <1>1, <1>2, <1>3, AnswersFollow, Places DEF Followed, OnItsWay, Due, OnWire
<1>4. CASE OnQueue(encrypted, m) \/ AmongSaves(jobs, m)
  BY <1>2, <1>4 DEF Followed, OnItsWay, OnQueue, AmongSaves
<1>5. CASE Asked(queries, m)
  <2>1. PICK j \in DOMAIN queries : /\ queries[j].owner = Acct
                                    /\ queries[j].since <= m /\ m <= archived
    BY <1>5 DEF Asked
  <2>2. CASE j # k
    <3>1. PICK i \in DOMAIN queries' : queries'[i] = queries[j]
      BY <1>1, <1>2, <2>2, OthersLeft
    <3> QED BY <1>2, <2>1, <3>1 DEF Followed, OnItsWay, Due
  <2>3. CASE j = k /\ AnswerInFull(queries[k])
    <3>1. OnWire(wire', m)
      BY <1>2, <2>1, <2>3, AnswerBrings
    <3> QED BY <3>1 DEF Followed, OnItsWay, Due, OnWire
  <2>4. CASE j = k /\ AnswerInPart(queries[k])
    <3>1. queries' # queries
      <4>1. Len(queries') = Len(queries) - 1 /\ Len(queries) \in Nat
        BY <1>1, <1>2, SMTT(30)
      <4> QED BY <4>1
    <3> QED BY <2>4, <3>1 DEF AnswerInPart, Followed
  <2>5. CASE j = k /\ AnswerForRoom(queries[k])
    BY <2>1, <2>5 DEF AnswerForRoom
  <2> QED BY <1>1, <2>2, <2>3, <2>4, <2>5
<1> QED BY <1>3, <1>4, <1>5, Places

LEMMA StepsKeepTrack ==
    ASSUME TInv, Next, NEW m \in Message, OnItsWay(m)
    PROVE  Followed(m)
<1> USE DEF serverVars, netVars, memVars, dbVars, histVars
<1>t. TypeOK /\ OMEMOQueue
  BY DEF TInv
<1>q. wire \in Seq(Text \cup Fin) /\ jobs \in Seq(Job) /\ encrypted \in Seq(Text)
      /\ archived \in 0 .. N
  BY <1>t DEF TypeOK
<1>l. Asked(queries, m) \/ OnWire(wire, m) \/ OnQueue(encrypted, m) \/ AmongSaves(jobs, m)
  BY Places
\* Being in some place after the step is being followed.
<1>f. ASSUME archived <= archived',
             Asked(queries', m) \/ OnWire(wire', m) \/ OnQueue(encrypted', m) \/ AmongSaves(jobs', m)
      PROVE  Followed(m)
  <2>1. archived' \in 0 .. N /\ m \in Nat
    <3>1. TypeOK'
      BY TypeNext
    <3> QED BY <3>1 DEF TypeOK, Message
  <2>2. Asked(queries', m) => OnItsWay(m)'
    BY <1>f, <1>q, <2>1 DEF Asked, OnItsWay, Due
  <2> QED BY <1>f, <2>2 DEF Followed, OnItsWay, Due, OnWire, OnQueue, AmongSaves
<1>a. archived <= archived
  BY <1>q
\* What one queue's step does to the places.
<1>p. /\ \A x \in Text \cup Fin : OnWire(wire, m) => OnWire(Append(wire, x), m)
      /\ wire # <<>> /\ OnWire(wire, m) =>
             OnWire(Tail(wire), m) \/ (Head(wire).kind # "fin" /\ Head(wire).m = m)
      /\ \A x \in Text : OnQueue(encrypted, m) \/ x.m = m => OnQueue(Append(encrypted, x), m)
      /\ encrypted # <<>> /\ OnQueue(encrypted, m) =>
             OnQueue(Tail(encrypted), m) \/ Head(encrypted).m = m
      /\ \A e \in Job : AmongSaves(jobs, m) => AmongSaves(Append(jobs, e), m)
      /\ jobs # <<>> /\ AmongSaves(jobs, m) =>
             AmongSaves(Tail(jobs), m) \/ (Head(jobs).op = "save" /\ Head(jobs).text.m = m)
  BY <1>q, PlacesKept
<1>1. CASE ServerArchives
  <2> DEFINE x == [kind |-> "live", m |-> archived + 1, delayed |-> ~online]
  <2>1. x \in Text \cup Fin
    BY <1>1, <1>t DEF ServerArchives, Text, Message, TypeOK
  <2>2. UNCHANGED <<queries, encrypted, jobs>> /\ wire' = Append(wire, x) /\ archived <= archived'
    BY <1>1, <1>q DEF ServerArchives
  <2> HIDE DEF x
  <2> QED BY <1>f, <1>l, <1>p, <2>1, <2>2
<1>2. CASE ServerAnswers
  BY <1>2, AnswersKeepTrack
<1>3. CASE Disconnect \/ Relaunch \/ Authenticate
  BY <1>3 DEF Disconnect, Relaunch, Authenticate, Followed
<1>4. ASSUME NEW r \in Room, FetchRoomHistory(r) PROVE Followed(m)
  <2>1. [op |-> "ask", owner |-> r] \in Job
    BY DEF Job, Owner
  <2> QED BY <1>4, <1>a, <1>f, <1>l, <1>p, <2>1 DEF FetchRoomHistory
<1>5. CASE ReceiveMessage
  <2>1. /\ wire # <<>> /\ Head(wire) \in Text /\ Head(wire).kind # "fin" /\ wire' = Tail(wire)
        /\ UNCHANGED <<archived, queries>>
    BY <1>5, <1>q, HeadTaken, Kinds DEF ReceiveMessage
  <2>2. [op |-> "save", text |-> Head(wire)] \in Job
    BY <2>1 DEF Job
  <2>3. CASE jobs' = Append(jobs, [op |-> "save", text |-> Head(wire)]) /\ UNCHANGED encrypted
    <3>1. AmongSaves(jobs, m) \/ Head(wire).m = m => AmongSaves(jobs', m)
      BY <1>q, <2>2, <2>3, PlacesKept
    <3> QED BY <1>a, <1>f, <1>l, <1>p, <2>1, <2>3, <3>1
  <2>4. CASE encrypted' = Append(encrypted, Head(wire)) /\ UNCHANGED jobs
    BY <1>a, <1>f, <1>l, <1>p, <2>1, <2>4
  <2> QED BY <1>5, <2>3, <2>4 DEF ReceiveMessage
<1>6. CASE DidFinish
  <2>1. /\ wire # <<>> /\ Head(wire) \in Fin /\ Head(wire).kind = "fin" /\ wire' = Tail(wire)
        /\ UNCHANGED <<archived, queries, encrypted>>
    BY <1>6, <1>q, HeadTaken, Kinds DEF DidFinish
  <2>2. [op |-> "finish", fin |-> Head(wire)] \in Job
    BY <2>1 DEF Job
  <2> QED BY <1>6, <1>a, <1>f, <1>l, <1>p, <2>1, <2>2 DEF DidFinish
<1>7. CASE ProcessKeyData
  <2>1. [op |-> "decrypt", text |-> Head(encrypted)] \in Job
    BY <1>7, <1>q, HeadTaken DEF ProcessKeyData, Job
  <2> QED BY <1>7, <1>a, <1>f, <1>l, <1>p, <2>1 DEF ProcessKeyData
<1>8. CASE AskArchive
  <2>1. Asked(queries, m) => Asked(queries', m)
    <3>1. \A o \in Owner, t \in Time : [owner |-> o, since |-> t] \in Query
      BY DEF Query
    <3>2. Head(jobs).owner \in Owner
      BY <1>8, <1>q, HeadTaken, Kinds DEF AskArchive, NextJob
    <3>3. lastHistoryFetchDate \in Time /\ 0 \in Time /\ queries \in Seq(Query)
      BY <1>t, Numbers DEF TypeOK
    <3>4. queries' = queries \/ \E e \in Query : queries' = Append(queries, e)
      BY <1>8, <3>1, <3>2, <3>3 DEF AskArchive
    <3> QED BY <3>3, <3>4, Appended DEF Asked
  <2>2. AmongSaves(jobs, m) => AmongSaves(Tail(jobs), m)
    BY <1>8, <1>p DEF AskArchive, NextJob
  <2> QED BY <1>8, <1>a, <1>f, <1>l, <1>p, <2>1, <2>2 DEF AskArchive
<1>9. CASE Decrypt
  <2>1. /\ jobs # <<>> /\ Head(jobs) = jobs[1] /\ 1 \in DOMAIN jobs /\ Head(jobs).op = "decrypt"
        /\ Tail(jobs) \in Seq(Job) /\ Head(jobs).text \in Text
    BY <1>9, <1>q, HeadTaken, Kinds DEF Decrypt, NextJob
  <2>2. encrypted # <<>> /\ Head(jobs).text = Head(encrypted)
    BY <1>t, <2>1 DEF OMEMOQueue
  <2>3. OnQueue(encrypted, m) => OnQueue(encrypted', m) \/ Head(jobs).text.m = m
    BY <1>9, <1>p, <2>2 DEF Decrypt
  <2>4. AmongSaves(jobs, m) => AmongSaves(Tail(jobs), m)
    BY <1>p, <2>1
  <2>5. CASE ignored' = ignored \cup {Head(jobs).text.m} /\ jobs' = Tail(jobs)
    BY <1>9, <1>a, <1>f, <1>l, <1>p, <2>3, <2>4, <2>5 DEF Decrypt, Followed
  <2>6. CASE jobs' = Append(Tail(jobs), [op |-> "save", text |-> Head(jobs).text])
    <3>1. [op |-> "save", text |-> Head(jobs).text] \in Job
      BY <2>1 DEF Job
    <3>2. AmongSaves(jobs, m) \/ Head(jobs).text.m = m => AmongSaves(jobs', m)
      BY <2>1, <2>4, <2>6, <3>1, PlacesKept
    <3> QED BY <1>9, <1>a, <1>f, <1>l, <1>p, <2>3, <3>2 DEF Decrypt
  <2> QED BY <1>9, <2>5, <2>6 DEF Decrypt
<1>10. CASE SaveMessage
  <2>1. AmongSaves(jobs, m) => AmongSaves(Tail(jobs), m) \/ Head(jobs).text.m = m
    BY <1>10, <1>p DEF SaveMessage, NextJob
  <2>2. Head(jobs).text.m \in stored'
    BY <1>10 DEF SaveMessage, IsDuplicate
  <2> QED BY <1>10, <1>a, <1>f, <1>l, <1>p, <2>1, <2>2 DEF SaveMessage, Followed
<1>11. CASE FinishFetch
  <2>1. AmongSaves(jobs, m) => AmongSaves(Tail(jobs), m)
    BY <1>11, <1>p DEF FinishFetch, NextJob
  <2> QED BY <1>11, <1>a, <1>f, <1>l, <1>p, <2>1 DEF FinishFetch
<1> QED BY <1>1, <1>2, <1>3, <1>4, <1>5, <1>6, <1>7, <1>8, <1>9, <1>10, <1>11 DEF Next

\* While the connection lasts, no step drops a message that was asked for or
\* sent: it is in one of the queues until it is stored, but for a failed answer.
THEOREM NothingIsDropped == Spec => NoneDropped
<1>1. TInv /\ [Next]_vars =>
         [\A m \in Message : OnItsWay(m) =>
             \/ OnItsWay(m)'
             \/ m \in stored' \/ m \in ignored'
             \/ broken' /\ queries' # queries
             \/ ~online \/ ~online']_vars
  BY StepsKeepTrack DEF Followed
<1>2. Spec => []TInv
  BY TInit, TInvNext, PTL DEF Spec
<1> QED BY <1>1, <1>2, PTL DEF Spec, NoneDropped
=============================================================================
