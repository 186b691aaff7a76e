---------------------------- MODULE MessageQueue ----------------------------
(***************************************************************************)
(* The outgoing half of the messenger: the persistent queue of send and    *)
(* roster actions, the in-memory tables of MessageQueueHandler.swift that   *)
(* remember which action waits for what, and the callbacks that empty them. *)
(*                                                                          *)
(* An action is handed to the handler together with a completion block.     *)
(* The task queue broker runs one action per queue at a time and moves on   *)
(* only when that block is called, so the whole design rests on where the   *)
(* block is kept while the account logs in, an OTR session is negotiated,   *)
(* a message is encrypted, and the XMPP stream answers.                     *)
(*                                                                          *)
(* Every dispatch_async, operation queue and delegate queue of the code is  *)
(* a separate step here.  The broker (YapTaskQueue), OTRKit and the XMPP    *)
(* stream are libraries: they appear as the code uses them.                 *)
(***************************************************************************)
EXTENDS Integers, FiniteSets

CONSTANTS
    Item,           \* actions: messages to send, and roster updates
    Queue,          \* task queues: one per thread (a buddy or a room)
    Room,           \* the queues whose thread is a group chat
    OTRBuddies,     \* the queues whose buddy's client speaks OTR
    Account,        \* the user's XMPP accounts
    Autologin,      \* the accounts with autologin set
    None,           \* no item
    QueueOf,        \* [Item -> Queue]    the action's queueName
    AccountOf,      \* [Queue -> Account] the thread's account
    Date,           \* [Item -> Nat]      the action's date, which orders a queue
    Kinds,          \* [Item -> SUBSET Kind] the kinds an item may turn out to have
    Blanks,         \* items that may turn out to be blank
    LocalDisable,   \* whether the user may switch OTR off for a buddy
    MaxNotices,     \* bound: undelivered login notifications of an account
    MaxTimers       \* bound: OTR timers an item has running at once

\* What an action carries: a message with its transport security, or a roster change.
Kind == {"plaintext", "plaintextWithOTR", "OTR", "OMEMO", "roster"}

ASSUME ConstantTypes ==
    /\ Room \subseteq Queue
    /\ OTRBuddies \subseteq Queue \ Room
    /\ Autologin \subseteq Account
    /\ QueueOf \in [Item -> Queue]
    /\ AccountOf \in [Queue -> Account]
    /\ Date \in [Item -> Nat]
    /\ Kinds \in [Item -> SUBSET Kind]
    /\ Blanks \subseteq Item
    /\ None \notin Item
    /\ LocalDisable \in BOOLEAN
    /\ MaxNotices \in Nat /\ MaxTimers \in Nat

\* A group message is sent in the clear or with OMEMO; asserted at 255 of the source.
ASSUME RoomKinds ==
    \A i \in Item : QueueOf[i] \in Room => Kinds[i] \subseteq {"plaintext", "OMEMO"}

VARIABLES
    \* ---- the database, which survives a relaunch
    kind,       \* [Item -> Kind] fixed when the message is written
    blank,      \* messages without a text, roster removals without an address
    stored,     \* actions in the database
    state,      \* the message: "new" | "unsent" | "pendingSent" | "sent" | "deleted"
    errored,    \* messages whose error is set
    \* ---- the broker
    busy,       \* the item each queue is blocked on, or None
    paused,     \* queues that wait for a retry timeout
    \* ---- MessageQueueHandler
    pc,         \* where a completion block held by running code is
    outstandingMessages,    \* items that wait for the stream's answer
    outstandingBuddies,     \* per queue, the item that waits for an OTR session
    outstandingAccounts,    \* per account, the items that wait for its login
    timers,     \* OTR timers running for each item
    \* ---- accounts, OTR, OMEMO, rooms and the stream
    login,      \* loginStatus of each account
    notices,    \* login notifications on the operation queue
    otr,        \* OTR message state with each buddy
    otrNotes,   \* queues whose OTR state change is still to be handled
    preparing,  \* items being encoded by OTRKit or encrypted by OMEMO
    rooms,      \* rooms the room manager has joined since launch
    submitted,  \* items whose stanza is on its way to the stream
    reported,   \* the stream's verdict, not yet handled by the status module
    errorDue,   \* failed items whose error is still to be written
    pendingDue, \* room messages still to be marked pendingSent
    \* ---- history
    sends,      \* times the stream took the item since launch
    accepted,   \* items the stream has ever taken
    clear,      \* OTR-only messages OTRKit let through unencrypted
    dropped,    \* completions thrown away by didConnectAccount
    unanswered, \* items nothing will answer any more
    strayed,    \* items failed by another item's OTR timer
    lost        \* messages that left the queue with no trace

dbVars      == <<kind, blank, stored, state, errored>>
brokerVars  == <<busy, paused>>
waitVars    == <<outstandingMessages, outstandingBuddies, outstandingAccounts>>
loginVars   == <<login, notices>>
otrVars     == <<otr, otrNotes, timers>>
streamVars  == <<preparing, rooms, submitted, reported, errorDue, pendingDue>>
sendVars    == <<sends, accepted, clear>>
faultVars   == <<dropped, unanswered, strayed, lost>>
vars == <<dbVars, brokerVars, pc, waitVars, loginVars, otrVars, streamVars,
          sendVars, faultVars>>

-----------------------------------------------------------------------------
Acc(i)   == AccountOf[QueueOf[i]]
Group(i) == QueueOf[i] \in Room

\* The message is still in the database.
Present(i) == state[i] \notin {"new", "deleted"}

\* Items the broker may pick next in queue q: the earliest dates first.  A
\* message and a roster change compare as equal, so that a queue which holds
\* both has no order.
Ready(q) == {i \in stored : QueueOf[i] = q}
Mixed(q) == \E i, j \in Ready(q) : kind[i] = "roster" /\ kind[j] # "roster"
Earliest(q) ==
    {i \in Ready(q) : Mixed(q) \/ \A j \in Ready(q) : Date[i] <= Date[j]}

TypeOK ==
    /\ kind \in [Item -> Kind]
    /\ blank \subseteq Item
    /\ stored \subseteq Item
    /\ state \in [Item -> {"new", "unsent", "pendingSent", "sent", "deleted"}]
    /\ errored \subseteq Item
    /\ busy \in [Queue -> Item \cup {None}]
    /\ paused \subseteq Queue
    /\ pc \in [Item -> {"idle", "read", "park", "send", "otrMain", "refetch"}]
    /\ outstandingMessages \subseteq Item
    /\ outstandingBuddies \in [Queue -> Item \cup {None}]
    /\ outstandingAccounts \in [Account -> SUBSET Item]
    /\ timers \in [Item -> Nat]
    /\ login \in [Account -> {"disconnected", "connecting", "authenticated"}]
    /\ notices \in [Account -> Nat]
    /\ otr \in [Queue -> {"plaintext", "encrypted", "finished"}]
    /\ otrNotes \subseteq Queue
    /\ preparing \subseteq Item
    /\ rooms \subseteq Room
    /\ submitted \subseteq Item
    /\ reported \in [Item -> {"none", "sent", "failed"}]
    /\ errorDue \subseteq Item
    /\ pendingDue \subseteq Item
    /\ sends \in [Item -> Nat]
    /\ accepted \subseteq Item
    /\ clear \subseteq Item
    /\ dropped \subseteq Item
    /\ unanswered \subseteq Item
    /\ strayed \subseteq Item
    /\ lost \subseteq Item

Init ==
    /\ kind \in {k \in [Item -> Kind] : \A i \in Item : k[i] \in Kinds[i]}
    /\ blank \in SUBSET Blanks
    /\ stored = {} /\ errored = {}
    /\ state = [i \in Item |-> "new"]
    /\ busy = [q \in Queue |-> None]
    /\ paused = {}
    /\ pc = [i \in Item |-> "idle"]
    /\ outstandingMessages = {}
    /\ outstandingBuddies = [q \in Queue |-> None]
    /\ outstandingAccounts = [a \in Account |-> {}]
    /\ timers = [i \in Item |-> 0]
    /\ login = [a \in Account |-> "disconnected"]
    /\ notices = [a \in Account |-> 0]
    /\ otr = [q \in Queue |-> "plaintext"]
    /\ otrNotes = {}
    /\ preparing = {} /\ rooms = {} /\ submitted = {}
    /\ reported = [i \in Item |-> "none"]
    /\ errorDue = {} /\ pendingDue = {}
    /\ sends = [i \in Item |-> 0]
    /\ accepted = {} /\ clear = {}
    /\ dropped = {} /\ unanswered = {} /\ strayed = {} /\ lost = {}

-----------------------------------------------------------------------------
(* Steps shared by the handlers.  An operator named for what goes wrong in   *)
(* it is a mutant of the one that follows it, and no part of the model.      *)
(*                                                                          *)
(* The completion block.  completion(true, 0) makes the broker remove the   *)
(* action and go on; completion(false, t) makes it try again after t.       *)
Complete(i) ==
    /\ busy' = [busy EXCEPT ![QueueOf[i]] = None]
    /\ stored' = stored \ {i}
    /\ UNCHANGED paused

RetryLater(i) ==
    /\ busy' = [busy EXCEPT ![QueueOf[i]] = None]
    /\ paused' = paused \cup {QueueOf[i]}
    /\ UNCHANGED stored

Goto(i, where) == pc' = [pc EXCEPT ![i] = where]

\* The error is written into the message, if it is still there.
SaveErrorForgotten(i) == UNCHANGED errored

SaveError(i) == errored' = IF Present(i) THEN errored \cup {i} ELSE errored

\* waitingForMessage: the block moves into outstandingMessages.
WaitForMessageDropped(i) == UNCHANGED waitVars

WaitForMessage(i) ==
    /\ outstandingMessages' = outstandingMessages \cup {i}
    /\ UNCHANGED <<outstandingBuddies, outstandingAccounts>>

PopBuddyPeeks(q) == UNCHANGED waitVars

PopBuddy(q) ==
    /\ outstandingBuddies' = [outstandingBuddies EXCEPT ![q] = None]
    /\ UNCHANGED <<outstandingMessages, outstandingAccounts>>

PopMessagePeeks(i) == UNCHANGED waitVars

PopMessage(i) ==
    /\ outstandingMessages' = outstandingMessages \ {i}
    /\ UNCHANGED <<outstandingBuddies, outstandingAccounts>>

-----------------------------------------------------------------------------
(* The user, the database and the broker                                    *)

\* A message and its action are saved in one transaction.
Enqueue(i) ==
    /\ state[i] = "new"
    /\ state' = [state EXCEPT ![i] = "unsent"]
    /\ stored' = stored \cup {i}
    /\ UNCHANGED <<kind, blank, errored, brokerVars, pc, waitVars, loginVars, otrVars,
                   streamVars, sendVars, faultVars>>

\* The message is deleted (by hand, by its timer, with its buddy): its action
\* goes with it, whatever the handler is doing with it.
DeleteMessage(i) ==
    /\ Present(i)
    /\ state' = [state EXCEPT ![i] = "deleted"]
    /\ stored' = stored \ {i}
    /\ UNCHANGED <<kind, blank, errored, brokerVars, pc, waitVars, loginVars, otrVars,
                   streamVars, sendVars, faultVars>>

\* The broker hands the next action of an idle queue to handleNextItem.
HandleNextItem(q) ==
    /\ busy[q] = None /\ q \notin paused
    /\ \E i \in Earliest(q) :
          /\ busy' = [busy EXCEPT ![q] = i]
          /\ Goto(i, "read")
    /\ UNCHANGED <<dbVars, paused, waitVars, loginVars, otrVars, streamVars,
                   sendVars, faultVars>>

RetryTimeout(q) ==
    /\ q \in paused
    /\ paused' = paused \ {q}
    /\ UNCHANGED <<dbVars, busy, pc, waitVars, loginVars, otrVars, streamVars,
                   sendVars, faultVars>>

-----------------------------------------------------------------------------
(* sendMessage(action), addBuddyToRoster, removeBuddyFromRoster             *)

\* A removal without an address is treated as if its account were offline.
MayProceed(i) ==
    login[Acc(i)] = "authenticated" /\ ~(kind[i] = "roster" /\ i \in blank)

ReadActionGivesUp(i) ==
    /\ pc[i] = "read"
    /\ IF Present(i) /\ MayProceed(i)
          THEN Goto(i, "send") /\ UNCHANGED <<dbVars, brokerVars>>
          ELSE Goto(i, "idle") /\ UNCHANGED <<dbVars, brokerVars>>
    /\ UNCHANGED <<waitVars, loginVars, otrVars, streamVars, sendVars, faultVars>>

\* The message, its thread and its account are read and loginStatus is looked
\* at; what is decided here is acted on in a later step.
ReadAction(i) ==
    /\ pc[i] = "read"
    /\ \/ /\ ~Present(i)
          /\ Complete(i) /\ Goto(i, "idle")
          /\ UNCHANGED <<kind, blank, state, errored>>
       \/ /\ Present(i) /\ MayProceed(i)
          /\ Goto(i, "send")
          /\ UNCHANGED <<dbVars, brokerVars>>
       \/ /\ Present(i) /\ ~MayProceed(i) /\ Acc(i) \in Autologin
          /\ Goto(i, "park")
          /\ UNCHANGED <<dbVars, brokerVars>>
       \/ /\ Present(i) /\ ~MayProceed(i) /\ Acc(i) \notin Autologin
          /\ RetryLater(i) /\ Goto(i, "idle")
          /\ UNCHANGED <<kind, blank, state, errored>>
    /\ UNCHANGED <<waitVars, loginVars, otrVars, streamVars, sendVars,
                   faultVars>>

\* waitingForAccount, then connectUserInitiated(false), which leaves an
\* authenticated stream alone: what was read as "not authenticated" may be
\* authenticated by now, and then nothing will wake the item before the next
\* login.
WaitForAccount(i) ==
    /\ pc[i] = "park"
    /\ outstandingAccounts' = [outstandingAccounts EXCEPT ![Acc(i)] = @ \cup {i}]
    /\ login' = [login EXCEPT ![Acc(i)] = IF @ = "authenticated" THEN @ ELSE "connecting"]
    /\ Goto(i, "idle")
    /\ UNCHANGED <<dbVars, brokerVars, outstandingMessages, outstandingBuddies, notices,
                   otrVars, streamVars, sendVars, faultVars>>

UpdateRosterWaits(i) ==
    /\ pc[i] = "send" /\ kind[i] = "roster"
    /\ Goto(i, "idle")
    /\ UNCHANGED <<dbVars, brokerVars, waitVars, loginVars, otrVars, streamVars, sendVars,
                   faultVars>>

\* A roster action is one IQ; its answer is not waited for.
UpdateRoster(i) ==
    /\ pc[i] = "send" /\ kind[i] = "roster"
    /\ Complete(i) /\ Goto(i, "idle")
    /\ UNCHANGED <<kind, blank, state, errored, waitVars, loginVars, otrVars, streamVars,
                   sendVars, faultVars>>

\* sendDirectMessage, case .plaintext: the block waits, and the message goes
\* its way through the protocol manager, whatever its text.
SendPlaintext(i) ==
    /\ pc[i] = "send" /\ kind[i] = "plaintext" /\ ~Group(i)
    /\ WaitForMessage(i) /\ Goto(i, "idle")
    /\ submitted' = submitted \cup {i}
    /\ UNCHANGED <<dbVars, brokerVars, loginVars, otrVars, preparing, rooms, reported,
                   errorDue, pendingDue, sendVars, faultVars>>

\* A blank message leaves the queue with nothing but completion(true).
CompleteUnsent(i) ==
    /\ i \in blank
    /\ Complete(i) /\ Goto(i, "idle")
    /\ lost' = lost \cup {i}
    /\ UNCHANGED <<kind, blank, state, errored, waitVars, preparing>>

\* The block waits for the stream while OTRKit or the OMEMO coordinator works.
Encode(i) ==
    /\ WaitForMessage(i) /\ Goto(i, "idle")
    /\ preparing' = preparing \cup {i}
    /\ UNCHANGED <<dbVars, brokerVars, lost>>

SendOTRUnchecked(i) ==
    /\ pc[i] = "send" /\ kind[i] \in {"plaintextWithOTR", "OTR"}
    /\ WaitForMessage(i) /\ Goto(i, "idle")
    /\ preparing' = preparing \cup {i}
    /\ UNCHANGED <<dbVars, brokerVars, loginVars, otrVars, rooms, submitted, reported,
                   errorDue, pendingDue, sendVars, faultVars>>

\* sendOTRMessage: a message whose text is nil is completed unsent; without the
\* session it needs, one waits for it; otherwise OTRKit encodes the text, be it
\* empty.
SendOTR(i) ==
    /\ pc[i] = "send" /\ kind[i] \in {"plaintextWithOTR", "OTR"}
    /\ \/ CompleteUnsent(i)
       \/ /\ kind[i] = "OTR" /\ otr[QueueOf[i]] # "encrypted"
          /\ Goto(i, "otrMain")
          /\ UNCHANGED <<dbVars, brokerVars, waitVars, preparing, lost>>
       \/ /\ kind[i] = "OTR" => otr[QueueOf[i]] = "encrypted"
          /\ Encode(i)
    /\ UNCHANGED <<loginVars, otrVars, rooms, submitted, reported, errorDue, pendingDue,
                   sendVars, dropped, unanswered, strayed>>

\* sendOMEMOMessage to a buddy: a message with a nil or empty text is completed
\* unsent.
SendOMEMO(i) ==
    /\ pc[i] = "send" /\ kind[i] = "OMEMO" /\ ~Group(i)
    /\ IF i \in blank THEN CompleteUnsent(i) ELSE Encode(i)
    /\ UNCHANGED <<loginVars, otrVars, rooms, submitted, reported, errorDue, pendingDue,
                   sendVars, dropped, unanswered, strayed>>

\* sendGroupMessage: a room the manager does not know completes the action;
\* otherwise the message is sent and only then marked pendingSent.  A blank
\* OMEMO message is completed unsent, and marked too; what stays of it in
\* outstandingMessages nobody looks up again and is left out.
SendGroupMessage(i) ==
    /\ pc[i] = "send" /\ Group(i)
    /\ \/ /\ QueueOf[i] \notin rooms
          /\ Complete(i) /\ Goto(i, "idle")
          /\ lost' = lost \cup {i}
          /\ UNCHANGED <<kind, blank, state, errored, waitVars, preparing, submitted, pendingDue>>
       \/ /\ QueueOf[i] \in rooms /\ kind[i] = "OMEMO"
          /\ IF i \in blank THEN CompleteUnsent(i) ELSE Encode(i)
          /\ pendingDue' = pendingDue \cup {i}
          /\ UNCHANGED submitted
       \/ /\ QueueOf[i] \in rooms /\ kind[i] # "OMEMO"
          /\ WaitForMessage(i) /\ Goto(i, "idle")
          /\ submitted' = submitted \cup {i}
          /\ pendingDue' = pendingDue \cup {i}
          /\ UNCHANGED <<dbVars, brokerVars, preparing, lost>>
    /\ UNCHANGED <<loginVars, otrVars, rooms, reported, errorDue, sendVars,
                   dropped, unanswered, strayed>>

MarkPendingSent(i) ==
    /\ i \in pendingDue
    /\ pendingDue' = pendingDue \ {i}
    /\ state' = IF Present(i) THEN [state EXCEPT ![i] = "pendingSent"] ELSE state
    /\ UNCHANGED <<kind, blank, stored, errored, brokerVars, pc, waitVars, loginVars, otrVars,
                   preparing, rooms, submitted, reported, errorDue, sendVars,
                   faultVars>>

-----------------------------------------------------------------------------
(* Accounts                                                                 *)

\* The app connects an account (at launch, or XMPPReconnect after a loss).
Reconnect(a) ==
    /\ login[a] = "disconnected"
    /\ login' = [login EXCEPT ![a] = "connecting"]
    /\ UNCHANGED <<dbVars, brokerVars, pc, waitVars, notices, otrVars,
                   streamVars, sendVars, faultVars>>

DidAuthenticateQuietly(a) ==
    /\ login[a] = "connecting" /\ notices[a] < MaxNotices
    /\ login' = [login EXCEPT ![a] = "authenticated"]
    /\ UNCHANGED <<dbVars, brokerVars, pc, waitVars, notices, otrVars, streamVars,
                   sendVars, faultVars>>

\* xmppStreamDidAuthenticate sets the status and posts kOTRProtocolLoginSuccess.
DidAuthenticate(a) ==
    /\ login[a] = "connecting" /\ notices[a] < MaxNotices
    /\ login' = [login EXCEPT ![a] = "authenticated"]
    /\ notices' = [notices EXCEPT ![a] = @ + 1]
    /\ UNCHANGED <<dbVars, brokerVars, pc, waitVars, otrVars, streamVars,
                   sendVars, faultVars>>

DidDisconnect(a) ==
    /\ login[a] # "disconnected"
    /\ login' = [login EXCEPT ![a] = "disconnected"]
    /\ UNCHANGED <<dbVars, brokerVars, pc, waitVars, notices, otrVars,
                   streamVars, sendVars, faultVars>>

\* The room manager joins the account's rooms on its own queue after login.
JoinRoom(q) ==
    /\ q \in Room \ rooms /\ login[AccountOf[q]] = "authenticated"
    /\ rooms' = rooms \cup {q}
    /\ UNCHANGED <<dbVars, brokerVars, pc, waitVars, loginVars, otrVars, preparing,
                   submitted, reported, errorDue, pendingDue, sendVars, faultVars>>

\* didConnectAccount pops every waiting item and resumes one of them.
DidConnectAccount(a) ==
    /\ notices[a] > 0
    /\ notices' = [notices EXCEPT ![a] = @ - 1]
    /\ outstandingAccounts' = [outstandingAccounts EXCEPT ![a] = {}]
    /\ IF outstandingAccounts[a] = {}
          THEN UNCHANGED <<pc, dropped>>
          ELSE \E i \in outstandingAccounts[a] :
                 /\ Goto(i, "read")
                 /\ dropped' = dropped \cup (outstandingAccounts[a] \ {i})
    /\ UNCHANGED <<dbVars, brokerVars, outstandingMessages, outstandingBuddies, login,
                   otrVars, streamVars, sendVars, unanswered,
                   strayed, lost>>

-----------------------------------------------------------------------------
(* OTR                                                                      *)

\* On the main queue: a timer is started, never to be cancelled, the item
\* waits for its buddy, and OTRKit is asked to open a session.
StartOTRWithoutTimer(i) ==
    /\ pc[i] = "otrMain"
    /\ outstandingBuddies' = [outstandingBuddies EXCEPT ![QueueOf[i]] = i]
    /\ Goto(i, "idle")
    /\ UNCHANGED <<dbVars, brokerVars, outstandingMessages, outstandingAccounts, loginVars,
                   otrVars, streamVars, sendVars, faultVars>>

StartOTR(i) ==
    /\ pc[i] = "otrMain" /\ timers[i] < MaxTimers
    /\ timers' = [timers EXCEPT ![i] = @ + 1]
    /\ outstandingBuddies' = [outstandingBuddies EXCEPT ![QueueOf[i]] = i]
    /\ Goto(i, "idle")
    /\ UNCHANGED <<dbVars, brokerVars, outstandingMessages, outstandingAccounts, loginVars,
                   otr, otrNotes, streamVars, sendVars, faultVars>>

\* A session opens, at our request or the buddy's.
SessionOpens(q) ==
    /\ q \in OTRBuddies /\ otr[q] # "encrypted" /\ q \notin otrNotes
    /\ login[AccountOf[q]] = "authenticated"
    /\ otr' = [otr EXCEPT ![q] = "encrypted"]
    /\ otrNotes' = otrNotes \cup {q}
    /\ UNCHANGED <<dbVars, brokerVars, pc, waitVars, loginVars, timers, streamVars,
                   sendVars, faultVars>>

\* The buddy ends the session, or the user switches OTR off.
SessionEnds(q) ==
    /\ otr[q] = "encrypted"
    /\ \E s \in IF LocalDisable THEN {"finished", "plaintext"} ELSE {"finished"} :
          otr' = [otr EXCEPT ![q] = s]
    /\ UNCHANGED <<dbVars, brokerVars, pc, waitVars, loginVars, otrNotes, timers,
                   streamVars, sendVars, faultVars>>

DidEncryptForgets(q) ==
    /\ q \in otrNotes
    /\ otrNotes' = otrNotes \ {q}
    /\ PopBuddy(q)
    /\ UNCHANGED <<dbVars, brokerVars, pc, loginVars, otr, timers, streamVars, sendVars, faultVars>>

\* handleMessageStateDidChangeNotification: "Buddy has gone encrypted"
DidEncrypt(q) ==
    /\ q \in otrNotes
    /\ otrNotes' = otrNotes \ {q}
    /\ PopBuddy(q)
    /\ IF outstandingBuddies[q] = None
          THEN UNCHANGED pc
          ELSE Goto(outstandingBuddies[q], "refetch")
    /\ UNCHANGED <<dbVars, brokerVars, loginVars, otr, timers, streamVars, sendVars, faultVars>>

\* sendMessage(outstandingMessage): start over unless the action is gone.
RefetchAction(i) ==
    /\ pc[i] = "refetch"
    /\ IF i \in stored
          THEN Goto(i, "read") /\ UNCHANGED <<dbVars, brokerVars>>
          ELSE Complete(i) /\ Goto(i, "idle") /\ UNCHANGED <<kind, blank, state, errored>>
    /\ UNCHANGED <<waitVars, loginVars, otrVars, streamVars, sendVars, faultVars>>

\* otrInitatiateTimeout: the timer knows the buddy, not the message it was
\* started for, so it fails whatever waits for that buddy.
OTRTimeoutRepeats(i) ==
    /\ timers' = [timers EXCEPT ![i] = @ - 1]
    /\ PopBuddy(QueueOf[i])
    /\ LET j == outstandingBuddies[QueueOf[i]] IN
       IF j = None
          THEN UNCHANGED <<dbVars, brokerVars, strayed>>
          ELSE /\ SaveError(j) /\ Complete(j)
               /\ strayed' = IF j = i THEN strayed ELSE strayed \cup {j}
               /\ UNCHANGED <<kind, blank, state>>
    /\ UNCHANGED <<pc, loginVars, otr, otrNotes, streamVars, sendVars, dropped,
                   unanswered, lost>>

OTRTimeout(i) ==
    /\ timers[i] > 0
    /\ timers' = [timers EXCEPT ![i] = @ - 1]
    /\ PopBuddy(QueueOf[i])
    /\ LET j == outstandingBuddies[QueueOf[i]] IN
       IF j = None
          THEN UNCHANGED <<dbVars, brokerVars, strayed>>
          ELSE /\ SaveError(j) /\ Complete(j)
               /\ strayed' = IF j = i THEN strayed ELSE strayed \cup {j}
               /\ UNCHANGED <<kind, blank, state>>
    /\ UNCHANGED <<pc, loginVars, otr, otrNotes, streamVars, sendVars, dropped,
                   unanswered, lost>>

\* otrKit:encodedMessage: with a text: the copy made when encoding began is
\* saved again, then the encoded text is sent, unless the message went with its
\* buddy.  A session switched off in the meantime lets the text through as it is.
OTREncoded(i) ==
    /\ i \in preparing /\ kind[i] \in {"plaintextWithOTR", "OTR"}
    /\ otr[QueueOf[i]] # "finished"
    /\ preparing' = preparing \ {i}
    /\ \/ submitted' = submitted \cup {i} /\ UNCHANGED unanswered
       \/ ~Present(i) /\ unanswered' = unanswered \cup {i} /\ UNCHANGED submitted
    /\ state' = IF Present(i) THEN state ELSE [state EXCEPT ![i] = "unsent"]
    /\ lost' = IF Present(i) THEN lost ELSE lost \cup {i}
    /\ clear' = IF kind[i] = "OTR" /\ otr[QueueOf[i]] # "encrypted"
                   THEN clear \cup {i} ELSE clear
    /\ UNCHANGED <<kind, blank, stored, errored, brokerVars, pc, waitVars, loginVars, otrVars,
                   rooms, reported, errorDue, pendingDue, sends, accepted,
                   dropped, strayed>>

\* otrKit:encodedMessage: with an error, or with nothing to send: an error is
\* saved and the action removed, but the waiting block is not called.
OTREncodeFails(i) ==
    /\ i \in preparing /\ kind[i] \in {"plaintextWithOTR", "OTR"}
    /\ preparing' = preparing \ {i}
    /\ unanswered' = unanswered \cup {i}
    /\ \/ /\ Present(i)
          /\ errored' = errored \cup {i} /\ stored' = stored \ {i}
       \/ UNCHANGED <<errored, stored>>
    /\ UNCHANGED <<kind, blank, state, brokerVars, pc, waitVars, loginVars, otrVars, rooms,
                   submitted, reported, errorDue, pendingDue, sendVars,
                   dropped, strayed, lost>>

-----------------------------------------------------------------------------
(* OMEMO: what encryptAndSendMessage may do with a message                  *)

OMEMOEncrypted(i) ==
    /\ i \in preparing /\ kind[i] = "OMEMO"
    /\ preparing' = preparing \ {i}
    /\ submitted' = submitted \cup {i}
    /\ UNCHANGED <<dbVars, brokerVars, pc, waitVars, loginVars, otrVars, rooms, reported,
                   errorDue, pendingDue, sendVars, faultVars>>

\* completion(false, error)
OMEMOFails(i) ==
    /\ i \in preparing /\ kind[i] = "OMEMO"
    /\ preparing' = preparing \ {i}
    /\ SaveError(i) /\ PopMessage(i) /\ Complete(i)
    /\ UNCHANGED <<kind, blank, state, pc, loginVars, otrVars, rooms, submitted, reported,
                   errorDue, pendingDue, sendVars, faultVars>>

\* Nothing will answer: a return without the completion, since a key, an IV or
\* the payload is missing; completion(true) without a stanza, since the own
\* bundle is missing; or a preparation that never ends (stranded, in OMEMOSend).
OMEMOAborts(i) ==
    /\ i \in preparing /\ kind[i] = "OMEMO"
    /\ preparing' = preparing \ {i}
    /\ unanswered' = unanswered \cup {i}
    /\ UNCHANGED <<dbVars, brokerVars, pc, waitVars, loginVars, otrVars, rooms, submitted,
                   reported, errorDue, pendingDue, sendVars, dropped, strayed,
                   lost>>

-----------------------------------------------------------------------------
(* The stream and its delegates                                             *)

\* sendMessage of OTRXMPPManager finds no text in the message.
Textless(i) == i \in blank /\ kind[i] = "plaintext" /\ ~Group(i)

SendMessageReturnsOffline(i) ==
    /\ i \in submitted /\ ~Group(i) /\ kind[i] # "OMEMO"
    /\ Textless(i) \/ ~Present(i) \/ login[Acc(i)] = "disconnected"
    /\ submitted' = submitted \ {i}
    /\ unanswered' = unanswered \cup {i}
    /\ UNCHANGED <<dbVars, brokerVars, pc, waitVars, loginVars, otrVars, preparing, rooms,
                   reported, errorDue, pendingDue, sendVars, dropped, strayed, lost>>

\* It then returns without a stanza, and also when the buddy is gone, with its
\* messages; nobody is told.
SendMessageReturns(i) ==
    /\ i \in submitted /\ ~Group(i) /\ kind[i] # "OMEMO"
    /\ Textless(i) \/ ~Present(i)
    /\ submitted' = submitted \ {i}
    /\ unanswered' = unanswered \cup {i}
    /\ UNCHANGED <<dbVars, brokerVars, pc, waitVars, loginVars, otrVars, preparing, rooms,
                   reported, errorDue, pendingDue, sendVars, dropped, strayed, lost>>

\* xmppStream sendElement: tells its delegates that the stanza was written
\* to the socket, or that it could not be.
SendElement(i) ==
    /\ i \in submitted /\ ~Textless(i)
    /\ submitted' = submitted \ {i}
    /\ IF login[Acc(i)] = "authenticated"
          THEN /\ reported' = [reported EXCEPT ![i] = "sent"]
               /\ sends' = [sends EXCEPT ![i] = @ + 1]
               /\ accepted' = accepted \cup {i}
               /\ UNCHANGED errorDue
          ELSE /\ reported' = [reported EXCEPT ![i] = "failed"]
               /\ errorDue' = errorDue \cup {i}
               /\ UNCHANGED <<sends, accepted>>
    /\ UNCHANGED <<dbVars, brokerVars, pc, waitVars, loginVars, otrVars, preparing, rooms,
                   pendingDue, clear, faultVars>>

\* The status module looks the message up by its XMPP id and tells the handler;
\* for a deleted message it tells nobody.
StatusModuleIgnoresFailure(i) ==
    /\ reported[i] # "none"
    /\ reported' = [reported EXCEPT ![i] = "none"]
    /\ IF Present(i) /\ i \in outstandingMessages
          THEN /\ PopMessage(i) /\ Complete(i)
               /\ state' = [state EXCEPT ![i] = "sent"]
               /\ UNCHANGED <<kind, blank, errored, unanswered>>
          ELSE /\ unanswered' = unanswered \cup ({i} \cap outstandingMessages)
               /\ UNCHANGED <<dbVars, brokerVars, waitVars>>
    /\ UNCHANGED <<pc, loginVars, otrVars, preparing, rooms, submitted, errorDue,
                   pendingDue, sendVars, dropped, strayed, lost>>

StatusModule(i) ==
    /\ reported[i] # "none"
    /\ reported' = [reported EXCEPT ![i] = "none"]
    /\ IF Present(i) /\ i \in outstandingMessages
          THEN /\ PopMessage(i) /\ Complete(i)
               /\ state' = IF reported[i] = "sent" THEN [state EXCEPT ![i] = "sent"] ELSE state
               /\ lost' = IF reported[i] = "failed" /\ Group(i) THEN lost \cup {i} ELSE lost
               /\ UNCHANGED <<kind, blank, errored, unanswered>>
          ELSE /\ unanswered' = unanswered \cup ({i} \cap outstandingMessages)
               /\ UNCHANGED <<dbVars, brokerVars, waitVars, lost>>
    /\ UNCHANGED <<pc, loginVars, otrVars, preparing, rooms, submitted, errorDue,
                   pendingDue, sendVars, dropped, strayed>>

\* OTRXMPPManager's own didFailToSendMessage writes the error, of messages
\* to buddies only.
SaveSendError(i) ==
    /\ i \in errorDue
    /\ errorDue' = errorDue \ {i}
    /\ IF Group(i) THEN UNCHANGED errored ELSE SaveError(i)
    /\ UNCHANGED <<kind, blank, stored, state, brokerVars, pc, waitVars, loginVars, otrVars,
                   preparing, rooms, submitted, reported, pendingDue, sendVars,
                   faultVars>>

\* The app is killed and launched again: the database is all that is left.
Restart ==
    /\ busy' = [q \in Queue |-> None] /\ paused' = {}
    /\ pc' = [i \in Item |-> "idle"]
    /\ outstandingMessages' = {}
    /\ outstandingBuddies' = [q \in Queue |-> None]
    /\ outstandingAccounts' = [a \in Account |-> {}]
    /\ login' = [a \in Account |-> "disconnected"]
    /\ notices' = [a \in Account |-> 0]
    /\ otr' = [q \in Queue |-> "plaintext"] /\ otrNotes' = {}
    /\ timers' = [i \in Item |-> 0]
    /\ preparing' = {} /\ rooms' = {} /\ submitted' = {}
    /\ reported' = [i \in Item |-> "none"]
    /\ errorDue' = {} /\ pendingDue' = {}
    /\ sends' = [i \in Item |-> 0]
    /\ dropped' = {} /\ unanswered' = {} /\ strayed' = {} /\ clear' = {}
    /\ lost' = lost \cup errorDue
    /\ UNCHANGED <<dbVars, accepted>>

-----------------------------------------------------------------------------
HandlerStep(i) ==
    \/ ReadAction(i) \/ WaitForAccount(i) \/ UpdateRoster(i)
    \/ SendPlaintext(i) \/ SendOTR(i) \/ SendOMEMO(i) \/ SendGroupMessage(i)
    \/ MarkPendingSent(i) \/ StartOTR(i) \/ RefetchAction(i) \/ OTRTimeout(i)

LibraryStep(i) ==
    \/ OTREncoded(i) \/ OTREncodeFails(i)
    \/ OMEMOEncrypted(i) \/ OMEMOFails(i) \/ OMEMOAborts(i)
    \/ SendMessageReturns(i) \/ SendElement(i) \/ StatusModule(i) \/ SaveSendError(i)

Next ==
    \/ \E i \in Item : Enqueue(i) \/ DeleteMessage(i) \/ HandlerStep(i) \/ LibraryStep(i)
    \/ \E q \in Queue : \/ HandleNextItem(q) \/ RetryTimeout(q) \/ JoinRoom(q)
                        \/ SessionOpens(q) \/ SessionEnds(q) \/ DidEncrypt(q)
    \/ \E a \in Account : \/ Reconnect(a) \/ DidAuthenticate(a) \/ DidDisconnect(a)
                          \/ DidConnectAccount(a)
    \/ Restart

Spec == Init /\ [][Next]_vars

\* Blocks on dispatch and operation queues run, timers fire, the broker picks
\* the next action, and the libraries answer.  Nothing is assumed of the user,
\* of logging in, of OTR sessions or of rooms.
Fairness ==
    /\ \A i \in Item :
          /\ WF_vars(ReadAction(i)) /\ WF_vars(WaitForAccount(i))
          /\ WF_vars(UpdateRoster(i)) /\ WF_vars(SendPlaintext(i)) /\ WF_vars(SendOTR(i))
          /\ WF_vars(SendOMEMO(i)) /\ WF_vars(SendGroupMessage(i))
          /\ WF_vars(StartOTR(i)) /\ WF_vars(RefetchAction(i)) /\ WF_vars(OTRTimeout(i))
          /\ WF_vars(OTREncoded(i) \/ OTREncodeFails(i))
          /\ WF_vars(OMEMOEncrypted(i) \/ OMEMOFails(i) \/ OMEMOAborts(i))
          /\ WF_vars(SendMessageReturns(i) \/ SendElement(i)) /\ WF_vars(StatusModule(i))
    /\ \A q \in Queue : WF_vars(HandleNextItem(q)) /\ WF_vars(RetryTimeout(q)) /\ WF_vars(DidEncrypt(q))
    /\ \A a \in Account : WF_vars(DidConnectAccount(a))

LiveSpec == Spec /\ Fairness

-----------------------------------------------------------------------------
(* Properties                                                               *)

\* The places that hold item i's completion block.
Running(i)      == pc[i] # "idle"
ForMessage(i)   == i \in outstandingMessages
ForBuddy(i)     == outstandingBuddies[QueueOf[i]] = i
ForAccount(i)   == i \in outstandingAccounts[Acc(i)]
Held(i) == Running(i) \/ ForMessage(i) \/ ForBuddy(i) \/ ForAccount(i)

\* A completion block is kept in one place only, and only while its queue is
\* blocked on that item: no callback, timer or login can call it twice or call
\* it for an item the broker has already left behind.
OneHolder ==
    \A i \in Item :
        /\ Held(i) => busy[QueueOf[i]] = i
        /\ Running(i) => ~ForMessage(i) /\ ~ForBuddy(i) /\ ~ForAccount(i)
        /\ ForMessage(i) => ~ForBuddy(i) /\ ~ForAccount(i)
        /\ ForBuddy(i) => ~ForAccount(i)

\* The only completion blocks that vanish while their queue waits for them are
\* those didConnectAccount throws away.
NoneForgotten ==
    \A q \in Queue : busy[q] # None => Held(busy[q]) \/ busy[q] \in dropped

\* "Call completion once finished with the action item" (line 527): an item the
\* broker waits for is always held by something that can still complete it.
EveryCompletionHeld == \A q \in Queue : busy[q] # None => Held(busy[q])

\* A message that waits for the stream's answer is being encoded, encrypted,
\* written or reported on, unless nothing will answer it any more; for a
\* plaintext message that is so only if it has no text or was deleted meanwhile.
AnswerComing ==
    /\ \A i \in outstandingMessages :
          i \in preparing \cup submitted \cup unanswered \/ reported[i] # "none"
    /\ \A i \in unanswered : kind[i] = "plaintext" => Textless(i) \/ ~Present(i)

\* A message that waits for an OTR session has a timer running: the session
\* that never comes cannot block the buddy's queue for ever.
OTRWaitHasTimer ==
    \A i \in Item : ForBuddy(i) => timers[i] > 0

\* Within one launch of the app a message reaches the stream at most once,
\* however login, OTR, timers and failures interleave.
SentOncePerLaunch == \A i \in Item : sends[i] <= 1

\* A message that has left the queue unsent and undeleted carries an error, or
\* will: it disappears without a trace only when it has no text, into a room
\* that was not joined yet, when a group message could not be sent, when OTR
\* revived it after its deletion, or when the app dies before the error is
\* written.
Unsettled(i) == /\ kind[i] # "roster" /\ Present(i) /\ i \notin stored
                /\ i \notin accepted
NoSilentLoss ==
    \A i \in Item : Unsettled(i) => i \in errored \cup errorDue \cup lost

\* A message marked sent was taken by the stream.
SentWasAccepted == \A i \in Item : state[i] = "sent" => i \in accepted

\* Unless the user switches OTR off, a message that requires OTR never leaves
\* OTRKit in the clear, whatever happens to the session while it waits.
OTRNeverClear == LocalDisable \/ clear = {}

\* "Cancle outsanding timer" (line 450): a message fails for want of an OTR
\* session only when its own timer runs out.
OwnTimerOnly == strayed = {}

\* The queue keeps the promise of Outbox: one action at a time per thread, and
\* nothing sent twice in a launch or tried again once sent.
Promise == INSTANCE Outbox
    WITH written <- {i \in Item : state[i] # "new"},
         queued  <- stored,
         working <- busy,
         taken   <- {i \in Item : sends[i] > 0}
KeepsPromise == Promise!Spec

-----------------------------------------------------------------------------
(* What makes these invariants inductive                                    *)

\* Each table is keyed as its reader expects.
KeyedByOwner ==
    /\ \A q \in Queue : busy[q] # None => QueueOf[busy[q]] = q
    /\ \A q \in Queue : outstandingBuddies[q] # None => QueueOf[outstandingBuddies[q]] = q
    /\ \A a \in Account : \A i \in outstandingAccounts[a] : Acc(i) = a

\* A message is encoded, written or reported on, one at a time, and its
\* completion block waits meanwhile.
OneStage ==
    \A i \in Item :
        /\ i \in preparing => i \notin submitted /\ reported[i] = "none"
        /\ i \in submitted => reported[i] = "none"
        /\ i \in preparing \cup submitted \/ reported[i] # "none" => ForMessage(i)

\* Nothing has happened to a message that was not written yet.
NewUntouched ==
    \A i \in Item : state[i] = "new" =>
        i \notin stored \cup unanswered /\ ~Held(i) /\ sends[i] = 0

\* A message the stream took cannot be sent again: if its action is still
\* there, its completion block waits for the status module.
SentIsOver ==
    \A i \in Item :
        sends[i] > 0 => /\ ~Running(i) /\ ~ForBuddy(i) /\ ~ForAccount(i)
                        /\ i \notin preparing \cup submitted
                        /\ i \in stored => ForMessage(i)

Custody == /\ KeyedByOwner /\ OneHolder /\ OneStage /\ NewUntouched /\ SentIsOver
           /\ SentOncePerLaunch /\ NoneForgotten /\ AnswerComing /\ OTRWaitHasTimer
IInv == TypeOK /\ Custody

\* A verdict not handled yet has left its trace already.
VerdictTraced ==
    \A i \in Item :
        /\ reported[i] = "sent" => i \in accepted
        /\ reported[i] = "failed" => i \in errorDue \cup errored \/ Group(i) \/ ~Present(i)

\* OTRKit is only asked to encode an OTR message while there is or was a session.
OTRReady ==
    LocalDisable \/ \A i \in preparing : kind[i] = "OTR" => otr[QueueOf[i]] # "plaintext"

\* A room never holds an OTR message, and a group message that was not sent has
\* already left its trace without the error that is never written for it.
RoomsTraced ==
    \A i \in Item :
        /\ kind[i] \in Kinds[i]
        /\ Group(i) /\ Unsettled(i) => i \in errored \cup lost

TraceInv == RoomsTraced /\ VerdictTraced /\ NoSilentLoss /\ SentWasAccepted /\ OTRReady /\ OTRNeverClear

-----------------------------------------------------------------------------
(* Liveness                                                                 *)

\* What is in hand comes to rest: an item the handler is working on, or whose
\* answer it waits for, is completed, or waits for a login or an OTR session,
\* unless its answer will never come.
InHand(i) == Running(i) \/ ForMessage(i)
InHandSettles ==
    \A i \in Item :
        InHand(i) ~> \/ busy[QueueOf[i]] # i
                     \/ ForAccount(i) \/ ForBuddy(i)
                     \/ i \in unanswered

\* A wait for an OTR session ends, with the session or with the timeout.
OTRWaitEnds == \A i \in Item : ForBuddy(i) ~> ~ForBuddy(i)

\* An item that waits for its account while the account is offline is taken up
\* again, or its queue is free of it, if the account logs in after that: the
\* login may come and go at any point between the two, and only an item that
\* didConnectAccount dropped is left.
NextLoginWakes ==
    \A i \in Item :
        [](ForAccount(i) /\ login[Acc(i)] # "authenticated"
              /\ <>(login[Acc(i)] = "authenticated")
           => <>(Running(i) \/ busy[QueueOf[i]] # i \/ i \in dropped))

\* Once an account stays logged in, and a buddy's OTR session stays open or
\* closed, every action of the queue leaves the database, by way of retries if
\* need be.  What may stay behind is an item
\* parked after the login had been handled (it needs another login), one that
\* didConnectAccount dropped, one nothing will answer, each with the queue
\* behind it, and a queue with a removal that has no address.
ParkedTooLate(i) == ForAccount(i) /\ login[Acc(i)] = "authenticated" /\ notices[Acc(i)] = 0
Stuck(q) ==
    \/ busy[q] # None /\ (ParkedTooLate(busy[q]) \/ busy[q] \in dropped \cup unanswered)
    \/ \E j \in Ready(q) \cap blank : kind[j] = "roster"
StableLoginDelivers ==
    \A i \in Item, session \in BOOLEAN :
        <>[](/\ login[Acc(i)] = "authenticated"
             /\ (otr[QueueOf[i]] = "encrypted") = session)
            => [](i \in stored => <>(i \notin stored \/ Stuck(QueueOf[i])))
=============================================================================
