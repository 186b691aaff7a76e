--------------------------- MODULE ArchiveCatchup ---------------------------
(***************************************************************************)
(* How messages reach the database: live ones and carbons from the stream,  *)
(* and those the account missed from the server's archive, as               *)
(* MessageStorage.swift stores them, with OMEMO messages taking a detour    *)
(* through OTROMEMOSignalCoordinator.swift.                                 *)
(*                                                                          *)
(* The archive is asked for everything since lastHistoryFetchDate, so what  *)
(* matters is what has been stored whenever that date moves.  Three queues  *)
(* run at their own pace: the module queue takes stanzas off the stream,    *)
(* the OMEMO delegate queue decrypts, and one database connection runs      *)
(* transactions in the order they were asked for.  All three die with the   *)
(* app; the database survives.                                              *)
(*                                                                          *)
(* Messages are numbered in the order the server archives them, and a time  *)
(* is a number of messages: Date() is later than every message archived so  *)
(* far and not later than the next one.                                     *)
(*                                                                          *)
(* The operators named for what goes wrong in them (DidFinishAtOnce,        *)
(* IsDuplicateNever, ...) are faulty variants of the operator that follows  *)
(* them.  No action uses them.                                              *)
(***************************************************************************)
EXTENDS Naturals, Sequences

CONSTANTS
    N,          \* messages the server will archive
    OMEMO,      \* those encrypted with OMEMO
    WithId,     \* those with an origin-id or a stanza-id (XEP-0359)
    Room,       \* rooms, whose archives are fetched by the same module
    Acct,       \* the account's own archive
    MaxLogins   \* bound: logins in a behaviour

Message == 1 .. N

ASSUME Parameters ==
    /\ N \in Nat /\ MaxLogins \in Nat
    /\ OMEMO \subseteq Message /\ WithId \subseteq Message
    /\ Acct \notin Room

VARIABLES
    \* ---- the server
    archived,   \* messages archived so far
    wire,       \* stanzas sent to this client and not yet received
    queries,    \* archive queries still to be answered
    \* ---- the connection
    online,     \* the stream is authenticated
    logins,     \* logins so far
    \* ---- the app's memory
    mamCatchupInProgress,
    jobs,       \* transactions waiting on the database connection
    encrypted,  \* stanzas on the OMEMO delegate queue
    fetchedRooms, \* rooms with hasFetchedHistory set
    \* ---- the database
    lastHistoryFetchDate,   \* 0: never fetched
    stored,     \* messages saved
    ratchet,    \* OMEMO messages whose key has been used up
    \* ---- history
    twice,      \* messages saved a second time
    covered,    \* messages in the range of an account fetch counted as done
    ignored,    \* OMEMO messages dropped as duplicates
    broken      \* a fetch of the account's archive failed

serverVars == <<archived, wire, queries>>
netVars    == <<online, logins>>
memVars    == <<mamCatchupInProgress, jobs, encrypted, fetchedRooms>>
dbVars     == <<lastHistoryFetchDate, stored, ratchet>>
histVars   == <<twice, covered, ignored, broken>>
vars == <<serverVars, netVars, memVars, dbVars, histVars>>

-----------------------------------------------------------------------------
Time  == 0 .. N + 1
Owner == Room \cup {Acct}
Now   == archived + 1

\* A stanza is a message, or the end of a query's results.  A message comes
\* live or as a carbon, with a delay stamp if the server had to hold it back,
\* or from the archive.  A query's range is kept for the properties.
Text  == [kind : {"live"}, m : Message, delayed : BOOLEAN] \cup [kind : {"mam"}, m : Message]
Query == [owner : Owner, since : Time]
Fin   == [kind : {"fin"}, owner : Owner, since : Time \ {0}, upto : 0 .. N]

\* A transaction reads the fetch date and asks for an archive, uses up an OMEMO
\* key, saves a message, or notes that a query has ended.
Job == [op : {"ask"}, owner : Owner] \cup [op : {"decrypt", "save"}, text : Text]
       \cup [op : {"finish"}, fin : Fin]

TypeOK ==
    /\ archived \in 0 .. N
    /\ wire \in Seq(Text \cup Fin)
    /\ queries \in Seq(Query)
    /\ online \in BOOLEAN
    /\ logins \in 0 .. MaxLogins
    /\ mamCatchupInProgress \in BOOLEAN
    /\ jobs \in Seq(Job)
    /\ encrypted \in Seq(Text)
    /\ fetchedRooms \subseteq Room
    /\ lastHistoryFetchDate \in Time
    /\ stored \subseteq Message /\ ratchet \subseteq OMEMO
    /\ twice \subseteq Message /\ covered \subseteq Message /\ ignored \subseteq OMEMO
    /\ broken \in BOOLEAN

Init ==
    /\ archived = 0 /\ wire = <<>> /\ queries = <<>>
    /\ online = FALSE /\ logins = 0
    /\ mamCatchupInProgress = FALSE
    /\ jobs = <<>> /\ encrypted = <<>> /\ fetchedRooms = {}
    /\ lastHistoryFetchDate = 0 /\ stored = {} /\ ratchet = {}
    /\ twice = {} /\ covered = {} /\ ignored = {} /\ broken = FALSE

\* The first transaction of the connection's queue does op.
NextJob(op) == jobs # <<>> /\ Head(jobs).op = op

-----------------------------------------------------------------------------
(* The server and the connection                                            *)

\* A message is archived, and sent to this client or held back for it.
ServerArchives ==
    /\ archived < N
    /\ archived' = archived + 1
    /\ wire' = Append(wire, [kind |-> "live", m |-> archived + 1, delayed |-> ~online])
    /\ UNCHANGED <<queries, netVars, memVars, dbVars, histVars>>

Results(first, last) == [k \in 1 .. (last + 1 - first) |-> [kind |-> "mam", m |-> first + k - 1]]

FirstOf(q) == IF q.since = 0 THEN 1 ELSE q.since
FinOf(q)   == [kind |-> "fin", owner |-> q.owner, since |-> FirstOf(q), upto |-> archived]

\* The account's archive answers with all there is since the date and an end,
AnswerInFull(q) ==
    /\ q.owner = Acct
    /\ wire' = wire \o Append(Results(FirstOf(q), archived), FinOf(q))
    /\ UNCHANGED broken

\* or with some of it and then an error, or nothing before the query times out,
\* which didFailToReceiveMessages only logs.
AnswerInPart(q) ==
    /\ q.owner = Acct
    /\ \E last \in 0 .. archived : wire' = wire \o Results(FirstOf(q), last)
    /\ broken' = TRUE

\* A room's messages go to RoomStorage; of its answer only the end matters here.
AnswerForRoom(q) ==
    /\ q.owner # Acct
    /\ wire' \in {wire, Append(wire, FinOf(q))}
    /\ UNCHANGED broken

\* Queries are answered in any order, for a room's archive may be on another
\* server.
ServerAnswers ==
    /\ online
    /\ \E k \in DOMAIN queries :
          /\ queries' = SubSeq(queries, 1, k - 1) \o SubSeq(queries, k + 1, Len(queries))
          /\ AnswerInFull(queries[k]) \/ AnswerInPart(queries[k]) \/ AnswerForRoom(queries[k])
    /\ UNCHANGED <<archived, netVars, memVars, dbVars, twice, covered, ignored>>

Disconnect ==
    /\ online
    /\ online' = FALSE
    /\ UNCHANGED <<serverVars, logins, memVars, dbVars, histVars>>

\* xmppStreamDidAuthenticate.  The server may resume the old stream, or deliver
\* what it kept, or leave it all to the archive.
Authenticate ==
    /\ ~online /\ logins < MaxLogins
    /\ online' = TRUE /\ logins' = logins + 1
    /\ mamCatchupInProgress' = FALSE
    /\ jobs' = Append(jobs, [op |-> "ask", owner |-> Acct])
    /\ \/ UNCHANGED <<wire, queries>>
       \/ wire' = <<>> /\ queries' = <<>>
    /\ UNCHANGED <<archived, encrypted, fetchedRooms, dbVars, histVars>>

\* A room has been joined and its lists are there: its history is fetched, once
\* in a launch.
FetchRoomHistory(r) ==
    /\ online /\ r \notin fetchedRooms
    /\ fetchedRooms' = fetchedRooms \cup {r}
    /\ jobs' = Append(jobs, [op |-> "ask", owner |-> r])
    /\ UNCHANGED <<serverVars, netVars, mamCatchupInProgress, encrypted, dbVars, histVars>>

-----------------------------------------------------------------------------
(* The module queue takes the next stanza                                   *)

\* Everything is taken for OMEMO.
ReceiveMessageUnsorted ==
    /\ online /\ wire # <<>> /\ Head(wire).kind \in {"live", "mam"}
    /\ wire' = Tail(wire)
    /\ encrypted' = Append(encrypted, Head(wire))
    /\ UNCHANGED <<archived, queries, netVars, mamCatchupInProgress, jobs, fetchedRooms, dbVars, histVars>>

\* didReceive message, didReceive carbon, didReceiveMAMMessage: a message in the
\* clear is saved in a transaction of its own, an OMEMO message is left to the
\* coordinator.
ReceiveMessage ==
    /\ online /\ wire # <<>> /\ Head(wire).kind \in {"live", "mam"}
    /\ wire' = Tail(wire)
    /\ \/ /\ Head(wire).m \notin OMEMO
          /\ jobs' = Append(jobs, [op |-> "save", text |-> Head(wire)])
          /\ UNCHANGED encrypted
       \/ /\ Head(wire).m \in OMEMO
          /\ encrypted' = Append(encrypted, Head(wire))
          /\ UNCHANGED jobs
    /\ UNCHANGED <<archived, queries, netVars, mamCatchupInProgress, fetchedRooms, dbVars, histVars>>

\* The date is set without waiting for the messages' transactions.
DidFinishAtOnce ==
    /\ online /\ wire # <<>> /\ Head(wire).kind = "fin"
    /\ wire' = Tail(wire)
    /\ mamCatchupInProgress' = FALSE
    /\ lastHistoryFetchDate' = Now
    /\ covered' = covered \cup IF Head(wire).owner = Acct THEN Head(wire).since .. Head(wire).upto ELSE {}
    /\ UNCHANGED <<archived, queries, netVars, jobs, encrypted, fetchedRooms, stored, ratchet, twice, ignored, broken>>

\* didFinishReceivingMessages, whosever archive it was
DidFinish ==
    /\ online /\ wire # <<>> /\ Head(wire).kind = "fin"
    /\ wire' = Tail(wire)
    /\ mamCatchupInProgress' = FALSE
    /\ jobs' = Append(jobs, [op |-> "finish", fin |-> Head(wire)])
    /\ UNCHANGED <<archived, queries, netVars, encrypted, fetchedRooms, dbVars, histVars>>

-----------------------------------------------------------------------------
(* The OMEMO delegate queue                                                 *)

\* processKeyData: decrypting reads and writes the session record, and waits
\* for the connection to do so.
ProcessKeyData ==
    /\ encrypted # <<>>
    /\ \A k \in DOMAIN jobs : jobs[k].op # "decrypt"
    /\ jobs' = Append(jobs, [op |-> "decrypt", text |-> Head(encrypted)])
    /\ UNCHANGED <<serverVars, netVars, mamCatchupInProgress, encrypted, fetchedRooms, dbVars, histVars>>

-----------------------------------------------------------------------------
(* The database connection runs the next transaction                        *)

\* The date is read, the flag set, and the query sent, if there is a stream.
AskArchive ==
    /\ NextJob("ask")
    /\ jobs' = Tail(jobs)
    /\ LET owner == Head(jobs).owner
           since == IF owner = Acct THEN lastHistoryFetchDate ELSE 0
       IN  /\ mamCatchupInProgress' = (mamCatchupInProgress \/ owner = Acct)
           /\ queries' = IF online THEN Append(queries, [owner |-> owner, since |-> since]) ELSE queries
    /\ UNCHANGED <<archived, wire, netVars, encrypted, fetchedRooms, dbVars, histVars>>

\* The key of a message works once; a second copy is dropped as a duplicate.
Decrypt ==
    /\ NextJob("decrypt")
    /\ LET text == Head(jobs).text
       IN  \/ /\ text.m \in ratchet
              /\ ignored' = ignored \cup {text.m}
              /\ jobs' = Tail(jobs)
              /\ UNCHANGED ratchet
           \/ /\ text.m \notin ratchet
              /\ ratchet' = ratchet \cup {text.m}
              /\ jobs' = Append(Tail(jobs), [op |-> "save", text |-> text])
              /\ UNCHANGED ignored
    /\ encrypted' = Tail(encrypted)
    /\ UNCHANGED <<serverVars, netVars, mamCatchupInProgress, fetchedRooms, lastHistoryFetchDate, stored,
                   twice, covered, broken>>

\* No message is looked up; any earlier message counts.
IsDuplicateNever(m) == FALSE
IsDuplicateOfAny(m) == stored # {} /\ m \in WithId

\* isDuplicate: a message with one of its ids is in the thread.
IsDuplicate(m) == m \in stored /\ m \in WithId

\* updateLastFetch: only forward, only once there is a date, and not from
\* realtime messages while the account catches up.
UpdateLastFetch(date) ==
    lastHistoryFetchDate' =
        IF ~mamCatchupInProgress /\ lastHistoryFetchDate > 0 /\ date > lastHistoryFetchDate
        THEN date ELSE lastHistoryFetchDate

\* handleDirectMessage, handleForwardedMessage
SaveMessage ==
    /\ NextJob("save")
    /\ jobs' = Tail(jobs)
    /\ LET text == Head(jobs).text
       IN  IF IsDuplicate(text.m)
           THEN UNCHANGED <<stored, twice, lastHistoryFetchDate>>
           ELSE /\ stored' = stored \cup {text.m}
                /\ twice' = twice \cup ({text.m} \cap stored)
                /\ \/ text.kind = "mam" /\ UNCHANGED lastHistoryFetchDate
                   \/ text.kind = "live" /\ UpdateLastFetch(IF text.delayed THEN text.m ELSE Now)
    /\ UNCHANGED <<serverVars, netVars, mamCatchupInProgress, encrypted, fetchedRooms, ratchet,
                   covered, ignored, broken>>

FinishFetch ==
    /\ NextJob("finish")
    /\ jobs' = Tail(jobs)
    /\ lastHistoryFetchDate' = Now
    /\ LET fin == Head(jobs).fin
       IN  covered' = IF fin.owner = Acct THEN covered \cup (fin.since .. fin.upto) ELSE covered
    /\ UNCHANGED <<serverVars, netVars, mamCatchupInProgress, encrypted, fetchedRooms, stored, ratchet,
                   twice, ignored, broken>>

-----------------------------------------------------------------------------
\* The app is killed and launched again.
Relaunch ==
    /\ online' = FALSE
    /\ wire' = <<>> /\ queries' = <<>>
    /\ mamCatchupInProgress' = FALSE
    /\ jobs' = <<>> /\ encrypted' = <<>> /\ fetchedRooms' = {}
    /\ UNCHANGED <<archived, logins, dbVars, histVars>>

Next ==
    \/ ServerArchives \/ ServerAnswers \/ Disconnect \/ Authenticate
    \/ \E r \in Room : FetchRoomHistory(r)
    \/ ReceiveMessage \/ DidFinish \/ ProcessKeyData
    \/ AskArchive \/ Decrypt \/ SaveMessage \/ FinishFetch
    \/ Relaunch

Spec == Init /\ [][Next]_vars

\* The app's queues run what is put on them, and the server answers.
Fairness ==
    /\ WF_vars(ServerAnswers)
    /\ WF_vars(ReceiveMessage \/ DidFinish)
    /\ WF_vars(ProcessKeyData)
    /\ WF_vars(AskArchive \/ Decrypt \/ SaveMessage \/ FinishFetch)

LiveSpec == Spec /\ Fairness

-----------------------------------------------------------------------------
(* Properties                                                               *)

\* A message with an id is saved once, however often it comes live, as a carbon
\* and from overlapping fetches of the archive.
StoredOnce == twice \cap WithId = {}

\* Once the account's fetch date counts a fetch as done, every message in the
\* range of that fetch is in the database, even if the app died in between.
\* OMEMO messages are excepted: the end of the fetch may overtake them.
FetchedIsStored == covered \ OMEMO \subseteq stored

\* As long as the connection lasts, every message that is asked for or sent live
\* comes to be saved, unless the fetch fails or an earlier copy of an OMEMO
\* message used up its key.
Due(m) ==
    \/ \E k \in DOMAIN queries : /\ queries[k].owner = Acct
                                 /\ queries[k].since <= m /\ m <= archived
    \/ \E k \in DOMAIN wire : wire[k].kind # "fin" /\ wire[k].m = m
DueIsStored ==
    \A m \in Message : Due(m) ~> (m \in stored \/ broken \/ m \in ignored \/ ~online)

\* No step drops such a message: as it goes from an answer to the wire, to the
\* OMEMO queue, to a transaction and to the database, every step that takes it
\* from one place has put it in the next one.  Only an answer that fails, and a
\* connection that ends, may leave it behind.
OnItsWay(m) ==
    \/ Due(m)
    \/ \E k \in DOMAIN encrypted : encrypted[k].m = m
    \/ \E k \in DOMAIN jobs : jobs[k].op = "save" /\ jobs[k].text.m = m
NoneDropped ==
    [][\A m \in Message : OnItsWay(m) =>
          \/ OnItsWay(m)'
          \/ m \in stored' \/ m \in ignored'
          \/ broken' /\ queries' # queries
          \/ ~online \/ ~online']_vars
=============================================================================
