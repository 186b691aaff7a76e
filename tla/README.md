# A formal model of TribuChat's message pipeline

TribuChat is an iOS XMPP client (a fork of ChatSecure): it keeps accounts, buddies, rooms and
messages in a YapDatabase, and sends and receives through XMPPFramework with OTR or OMEMO on top.
What makes it hard is not any one function. It is that a message crosses half a dozen dispatch
queues, an operation queue, a task-queue broker, timers, two encryption libraries and a socket
between "Send" and "sent", with nothing but callbacks and three in-memory tables to remember
where it is. The way in is as long: a message comes live, as a carbon or from the server's archive,
crosses three more queues, and must be in the database before the date of the last fetch says so.
Under both lie the things they take for granted: an account that is online, a device list that
names every device, a session with each of them. This directory models the two ways and what they
rest on, checks them with TLC on small instances, and proves the main properties with TLAPS for
instances of any size.

Paths below are relative to `src/ChatSecure/Classes/`.

## 1. Inventory

| Component | State it keeps | Operations | Correct when |
|---|---|---|---|
| Message queue handler `Controllers/MessageQueueHandler.swift` | `outstandingMessages`, `outstandingBuddies`, `outstandingAccounts` (isolation queue); OTR timers | `handleNextItem`, `sendMessage`, send by plaintext / OTR / OMEMO / room, `didConnectAccount`, `handleMessageStateDidChangeNotification`, `otrInitatiateTimeout`, `didSendMessage`, `didFailToSendMessage` | every completion block is called once; no queue waits for ever; nothing is sent twice; nothing disappears without an error; OTR messages stay private |
| Status module `Controllers/OTRXMPPMessageStatusModule.swift` | none | maps the stream's `didSend` / `didFail` to the message of that id | each verdict reaches the handler |
| Queued actions `Model/Yap Storage/OTRYapMessageSendAction.*`, `YapActions/` | actions in the database | create, order within a queue, delete with the message | one queue per thread, in date order |
| Account login `Controllers/XMPP/OTRXMPPManager.m` | `loginStatus`, reconnect, certificate and registration flags | connect, authenticate, disconnect, notify | a notification per login; status follows the stream; a lost connection comes back |
| Protocol manager `Controllers/OTRProtocolManager.m`, and the app's delegate | the account-to-manager table, the background task | connect / disconnect all before the app sleeps | the wait for the accounts ends when they are offline, and its dispatch group balances |
| OTR `Controllers/OTREncryptionManager.m` | OTRKit's sessions | encode, decode, session changes | text never leaves in the clear when it must not |
| OMEMO coordinator `Controllers/OTROMEMOSignalCoordinator.swift` | outstanding bundle and device-list callbacks (work queue) | prepare sessions, encrypt, receive device lists and bundles, remove devices | every preparation completes; only trusted devices get a key; this device is on the account's list |
| OMEMO storage `Controllers/OTROMEMOStorageManager.swift`, `OTRSignalStorageManager.swift` | devices, trust and identity keys in the database | store a device list, save an identity | what the user distrusts stays distrusted |
| Rooms `Controllers/XMPP/OTRXMPPRoomManager.m` | joined rooms | join after login, send, archive catch-up | a room known before its messages are sent |
| Incoming messages `Controllers/XMPP/Storage/MessageStorage.swift`, `RoomStorage.swift` | `mamCatchupInProgress`, `lastHistoryFetchDate` | store live, carbon and archived messages; receipts | nothing missed below the fetch date, nothing stored twice, no queue waiting for itself |
| Stream management, file transfer, push, presence cache, roster and vCard storage, server checks, message timers, pincode, certificate pinning, account migration, Tor, database set-up, user interface | see `PROJECT.json` | | section 5 |

How they meet. The user interface saves an `OTROutgoingMessage` and its action in one transaction.
The broker (YapTaskQueue, a pod) sees the action, takes the first of each idle queue and calls
`handleNextItem` with a completion block. The handler asks the account's `XMPPManager` whether it
is logged in; if not, the block is parked until `kOTRProtocolLoginSuccess`. It asks OTRKit for a
session, or the OMEMO coordinator for encrypted keys, or the room manager for the room; the stanza
goes to `XMPPStream`, which answers its delegates: `OTRXMPPManager`, which writes errors, and the
status module, which tells the handler, which calls the block. Everything in memory is lost when
the app dies; the database is all that a relaunch finds.

The login is asked for by the app's delegate, by the user and by the message queue, and runs on a
global queue; the stream answers on the account's work queue; certificate pinning answers on a
queue of its own; and when the app is about to sleep the main thread takes the protocol manager's lock,
enters a dispatch group and waits for the accounts to go offline. All four set `loginStatus`, whose
observers run on the thread that sets it. The OMEMO coordinator works on its own queue and asks the
module of XMPPFramework, which has another, for device lists and bundles; answers, timeouts and
lists that the server pushes come in on the module's.

The hazards, each at its line, are in `PROJECT.json`. Those that the code guards against are paired with the
properties that would be violated if it did not. Those that do bite are findings, or named exceptions of a
property: the hazard's note says which, and the property shows that nothing else goes wrong in the same way. The
worst are checks acted on later on another queue (login status, OTR state), blocks that can be dropped or called
twice while they move between tables, timers that nobody cancels, messages deleted in flight, and writes that
arrive after the app is gone.

## 2. Modules

| Module | What it is |
|---|---|
| `Outbox.tla` | abstract: what the queue promises |
| `MessageQueue.tla` | the handler, the status module, the actions, and their environment |
| `ArchiveCatchup.tla` | incoming messages: what is stored, decrypted and fetched, and the fetch date |
| `StorageQueues.tla` | the queues that do it, and which of them waits for which |
| `DeviceRecords.tla` | how a device list and an identity key change the records of devices (operators) |
| `SendGroup.tla` | abstract: what the coordinator promises of an OMEMO message |
| `OMEMOSend.tla` | how an OMEMO message gets its sessions and is sent; extends `DeviceRecords`, implements `SendGroup` |
| `DeviceList.tla` | the account's device list, its clients and the trust screen; extends `DeviceRecords` |
| `Login.tla` | how an account goes online and offline, with the app that comes and goes |
| `MCMessageQueue.tla` + 6 cfgs, `MCArchiveCatchup`, `MCStorageQueues`, `MCDeviceList`, `MCLogin` + 1 each, `MCOMEMOSend` + 2 | TLC instances |
| `MessageQueueProofs`, `ArchiveCatchupProofs`, `StorageQueuesProofs`, `OMEMOSendProofs`, `DeviceListProofs`, `LoginProofs` | TLAPS proofs, one module for each specification |
| `QueueLemmas.tla` | facts about sequences that the proofs share |

The halves meet in the database and in the account's login only, so they are not composed into one
specification. What one takes of another is an assumption that the other answers for:
`MessageQueue` lets OMEMO end in three ways (`OMEMOEncrypted`, `OMEMOFails`, `OMEMOAborts`) at any
later time, and `OMEMOSend` implements `SendGroup`, in which these are the ends and one is reached once; a stranded
message looks to the queue like the third, since no completion ever comes;
`MessageQueue` and `ArchiveCatchup` let a login come and go, and `Login` says how; `OMEMOSend` finds this
device on its list or gets a list without it, and `DeviceList` says how it gets back on.
`ArchiveCatchup` and `StorageQueues` look at the same code from two sides: the first lets every
queue run and asks what ends up stored, the second forgets the contents and asks whether the queues run.

### How `MessageQueue` corresponds to the code

*State.* `stored`, `state`, `errored` and `kind` are database rows; `blank` are the messages without a text and
the roster removals without an address, as they were written. `busy` and `paused` belong to
the broker: the action each queue is blocked on, and the queues that wait out
`accountRetryTimeout`. The three `outstanding...` variables are the handler's dictionaries; a
completion block is identified with its item, so membership means "this table holds the block".
`pc` says where a block is while running code, and no table, holds it: `read` (about to look at
`loginStatus`), `park` (decided to wait for a login, not yet in the table), `send` (decided to
send), `otrMain` (on its way to the main queue), `refetch` (popped after a session opened).
`timers` counts the OTR timers an item has running. `preparing`, `submitted`, `reported`,
`errorDue` and `pendingDue` are the stages of a stanza after the handler let go of it, one per
queue the code hops to. `sends`, `accepted`, `clear`, `dropped`, `unanswered`, `strayed` and `lost`
are history: no guard reads them, and they only let properties speak of the past.

*Actions.* One per function or asynchronous block; a block that the code dispatches to another
queue is a step of its own, which is where the interleavings come from:

| Action | Code |
|---|---|
| `Enqueue`, `DeleteMessage` | saving and deleting a message; the action is deleted with it by its relationship edge |
| `HandleNextItem`, `RetryTimeout` | the broker |
| `ReadAction`, `WaitForAccount` | `sendMessage(_:completion:)`, `addBuddyToRoster`, `removeBuddyFromRoster` |
| `UpdateRoster`, `SendPlaintext`, `SendOTR`, `SendOMEMO`, `SendGroupMessage`, `MarkPendingSent` | the branches behind the login check |
| `StartOTR`, `DidEncrypt`, `RefetchAction`, `OTRTimeout` | waiting for an OTR session |
| `DidConnectAccount` | the login notification |
| `Reconnect`, `DidAuthenticate`, `DidDisconnect`, `JoinRoom` | `OTRXMPPManager` and the room manager as the queue sees them |
| `SessionOpens`, `SessionEnds`, `OTREncoded`, `OTREncodeFails` | OTRKit and `OTREncryptionManager`'s delegate method |
| `OMEMOEncrypted`, `OMEMOFails`, `OMEMOAborts` | the ways `encryptAndSendMessage` ends |
| `SendMessageReturns` | `OTRXMPPManager`'s `sendMessage:`, its returns without a stanza |
| `SendElement`, `StatusModule`, `SaveSendError` | the stream and its two delegates |
| `Restart` | the app is killed and launched again |

*Abstractions.* Texts, ids and dates of messages are not modelled except the action's date, which
orders a queue. A missing thread or account completes the action at once, like a missing message,
and is folded into it. A text that is missing is not: each way treats it differently. `sendOTRMessage` completes
at once if it is nil, and has it encoded if it is empty; `sendOMEMOMessage` completes at once in both cases;
the plaintext way registers the completion block first (line 215), and then `sendMessage:` (`OTRXMPPManager.m`,
line 1200) returns, so that the block waits in `outstandingMessages` until the next launch and the queue with
it. The same happens when the buddy is gone, but then the message is, too. A roster removal without an address
(line 394) is parked or retried as if its account were offline. A queue that holds both messages and roster changes has
no order (`sort:` returns "same" for the mixed pair), so the broker may take either. A group OMEMO
message is registered in `outstandingMessages` twice, the second time under the collection of
direct messages, which nothing ever looks up: only the first entry is modelled. Every account has
an OMEMO coordinator once its stream is set up. `autologin` does not change while the app runs, and
a room once joined stays in the manager's table (leaving a room while a message to it is
in flight is left out). What is asked of the
libraries is what the code shows: the broker calls one action per queue and removes it on
`completion(true)`; `XMPPStream` reports every stanza as sent or failed; OTRKit answers an
encoding request once.

*Bounds.* `Blanks` are the items that may be blank: the direct message in `mix` and `live`, message and removal in
`retry`, none in the others; blank group messages are in the model and in the proofs only. `MaxNotices` caps login
notifications waiting on the operation queue and `MaxTimers` the OTR timers of one item. Both are guards, so a
behaviour with more is cut, not distorted. With 1 the interesting races are all there: a notification that
overtakes a parking item, a timer left over from a first session request. The proofs need neither: the theorems
hold for any value.

*Items.* A queue's behaviour depends on other items only through its own queue (one at a time),
its account's waiting set and its buddy's OTR entry, so two items on one queue, or on two queues
of one account, meet in every way a larger set would pairwise.

### How `ArchiveCatchup` corresponds to the code

*State.* `lastHistoryFetchDate` and `stored` are in the database, and `ratchet` is the set of OMEMO
messages whose key the session record no longer has. `mamCatchupInProgress` is the module's flag,
`jobs` the transactions asked of the one connection that `MessageStorage`, the room manager and the
room storage share, `encrypted` the OMEMO module's delegate queue, and `fetchedRooms` the rooms
with `hasFetchedHistory`. `wire` and `queries` are the stream and the server. Messages are numbered
in archive order and a time is a count of them: `Date()` is one more than what has been archived,
and a query's `since` is inclusive, as in XEP-0313. `twice`, `covered`, `ignored` and `broken` are
history.

*Actions.* A delegate method that asks for a transaction is one step and the transaction another.

| Action | Code |
|---|---|
| `Authenticate`, `AskArchive` | `xmppStreamDidAuthenticate` and its transaction; `AskArchive` is also a room's `fetchHistoryFor:` |
| `FetchRoomHistory` | `fetchAllListsForRoom:` |
| `ReceiveMessage` | `didReceive message`, `didReceive carbon`, `didReceiveMAMMessage` |
| `SaveMessage` | the transactions of `handleDirectMessage` and `handleForwardedMessage`, with `IsDuplicate` and `UpdateLastFetch` |
| `DidFinish`, `FinishFetch` | `didFinishReceivingMessages` and its transaction |
| `ProcessKeyData`, `Decrypt` | `processKeyData` and the transaction that advances the session |
| `ServerArchives`, `ServerAnswers`, `Disconnect`, `Relaunch` | the environment |

*Abstractions.* Pages of one query are one answer. A query that fails, or times out after 60
seconds, has delivered any part of its results. An undecryptable message and a message from an
unknown contact are not stored and are left out, as are receipts, chat states, error replies, OTR
text and the user deleting messages. What a room's archive contains goes to the room storage; here
only its end matters, because it ends in the same delegate method. A login either resumes what was
on the wire and the queries, or loses both.

*Bounds.* `N` messages and `MaxLogins` logins. Two messages are one in the clear and one OMEMO,
each of which can come live and from two fetches; two logins are one fetch of everything and one
from the date the first left, overlapping it. The ways to fail need no more: a copy needs two
deliveries, a gap needs one fetch to be counted and one message not stored.

### How `StorageQueues` corresponds to the code

`queue` holds what is waiting on the module queue of `MessageStorage`, on that of the room manager
and on the shared connection; `phase` says whether the first task of a queue is at its start, has
asked another queue for a block with `performBlock` (`dispatch_sync`) or a synchronous transaction
and waits, or has its answer. `RequestTransaction`, `LookUpRoom` and `InsertIncoming` are what
`MessageStorage` does on its queue, `RoomTransaction` and `RoomDone` what the room manager does,
`TouchCatchupFlag` and `TransactionDone` the transactions. A task makes one such call here; in the
code some make several one after the other (a login joins all rooms), which only repeats the same
wait. Five stanzas are one of each kind and a second archived group message, so that a queue
can be waited for by one while another arrives.

### How `OMEMOSend` corresponds to the code

*State.* `level` and `keyed` are the records of devices, `session` the Signal sessions, all in the
database. A message makes one *preparation* (`prepareSession`) per buddy and one for the account,
numbered in the order in which `encryptAndSendMessage` begins them; a buddy who is in a room under two names
gets two. `devices` and `known`
are what a preparation has read of its devices and their keys: both are read at the same time and used later, when the
block runs on the work queue. `stage` says how far a preparation's closures are and `waiting` which bundles its dispatch
group is still entered for. `callbacks` is `deviceIdFetchCallbacks`, where a block is filed under the
party, not the message. `workQ` and `work` are the coordinator's queue and what its running block has
left to do, `module` the same for the OMEMO module's queue, `listIQs` and `bundleIQs` what was asked of
the server. `refused` and `stranded` are history; `crashed` is a dispatch group left once too often.

| Action | Code |
|---|---|
| `EncryptAndSendMessage`, `Encrypt` | `encryptAndSendMessage`, its first and its last part |
| `PrepareSession`, `DevicesFetched` | `prepareSession`'s block and the notification of its device fetch |
| `FetchDeviceIds`, `DeviceIdsAnswered`, `DeviceListPushed` | `fetchDeviceIds` in the module, the answer or timeout, a list by PEP |
| `FailedToFetchDeviceIds`, `WorkRemovesListBlock` | `failedToFetchDeviceIdsFor` with `callAndRemoveOutstandingDeviceIdFetch` |
| `StoreList` and `ModuleCallsListBlock`, `ModuleRemovesListBlock` | `storeDeviceIds`, which does the same on the other queue |
| `BundleArrives`, `BundleComesLate`, `BundleAnswered` | `fetchedBundle`, `failedToFetchBundle` |
| `LeaveGroup` | a preparation's completion on the callback queue |
| `MessageOpensSession`, `DeleteSession` | an incoming message begins a session, or cannot be decrypted and ends one |

Calling the block that waits for a list and taking it out of the table are two steps, because the two queues
that do it are not excluded from each other there; everything else on a queue is one. A block that
asks the module for something waits until the module is idle, as `performBlock` is synchronous.

*Abstractions.* Keys, ciphertexts and prekeys are left out, so whether a bundle is of use and whether
the cipher works is a free choice. A database read and what depends on it are one step unless a queue
lies between them. Media messages, which take the same way with another payload, are left out.
A device that was not seen for long loses its trust by time alone; that is left out too.

*Bounds.* Two messages to one buddy with one device, an account that another client has taken off its
list, and one stanza that nothing asked for (`MaxPushes`): a pushed list, a late bundle or a message that opens a
session. Two preparations for one party are what an overlap needs, and one push meets each stage of
them. That is 400 thousand states; a second device or a second push is out of reach for a run of
minutes. Buddies in a room under two names are in the model and in the proofs, not in the instance.

### How `DeviceList` corresponds to the code

Every client of an account runs the same protocol, so `list` on the server, `up` and `down` on each
client's connection, and `todo`, the list a client is about to add itself to, are indexed by device. For one of
them, `Mine`, the module also has what TribuChat keeps: the records (`level`), and the screen
(`view`) on which the user trusts, distrusts and removes devices, and which works on copies.
`Authenticate`, `DeviceIdsArrive`, `FetchTimesOut` and `PublishDeviceIds` are `OMEMOModule.m`'s
`xmppStreamDidAuthenticate`, `handleMessage` and `processIncomingDeviceIds`, the last of which stores a list and
then, for a client that is not on it, stores and publishes another, in two steps. `RemoveDevice`
and `RemoveFromList` are `removeDevice`, `OpenKeys`, `Save` and `CloseKeys` the view controller, `KeyLearned` is
`saveIdentity`. `ServerAnswers` and `ServerRefuses` are the server: it keeps the last list published and
pushes it to everybody. `denied`, `seen`, `unlisted` and `distrusted` are history.

A list is published to put oneself on it (`"publish"`), or to take another device off (`"removal"`); the
two look the same to the server, but only a client whose own list was refused has been left out by it, so only that
puts it in `denied`. So does `fetchMyBundle` when it has no bundle, not even after its fifty tries
(`OMEMOModule.m`, line 426): the client then stays off the list. Logging in or publishing again ends it.

Lists are sets, not sequences of numbers. Other clients do not look at their records. There
are two devices and `MaxEvents` is 2: a lost connection, a timeout, a refusal, a removal and the opening of
the screen each count as one, and all pairs of them occur (1.2 million states). Two clients
are enough to overwrite each other; with a third only the number of rounds grows.

Three things follow from the code and show in the model. An own list that times out counts as empty, so
all records are deleted and the others' entries overwritten, until they put themselves back. A device that
was off the list and is back keeps the level "removed" (`OTROMEMOStorageManager.swift`, line 101),
so that it gets no key until the user trusts it. And `removeDevice` keeps its completion for the answer to its
request (line 470), but only a failed one is handed to it; nothing waits for it but a screen.

### How `Login` corresponds to the code

*State.* One account. `status` is `loginStatus`; `telling` is, for each of the four threads that
may set it, the observers that thread has still to tell before it goes on, since key-value observing runs on it.
`main` is where the main thread is in `disconnectAllAccountsSocketOnly`: not `"free"` means that it
has the manager's lock, too. `group` is the dispatch group's count, `observing` whether its observer is in
place. `workQ` is the account's queue, with the stream's callbacks in order, `mainQ` the main queue's blocks, and
`login` where `connectUserInitiated` is on its global queue. `stream`, `authenticated` and `closing` are
XMPPStream's state, `reconnect` and `timer` XMPPReconnect's. The stream's own queue and XMPPReconnect's run at
once.

| Action | Code |
|---|---|
| `LoginChecks` to `LoginCalls` | `connectUserInitiated`, `startConnection`, read by read |
| `SocketDidConnect`, `DidConnect`, `DidAuthenticate`, `DidNotAuthenticate`, `DidDisconnect` | the stream's delegate methods |
| `SendPresence`, `FinishDisconnectingIfNeeded` | a presence that is sent, or fails to be |
| `GoOnline`, `TellDate` | blocks of the main queue: `goOnline`, and the date of the last interaction that `goAway` asks for |
| `BecomeActive`, `EnterBackground`, `PerformFetch`, `AskLogin`, `Logout` | the app's delegate, the message queue and the user |
| `BeginDisconnect`, `Observe`, `DisconnectSocketOnly`, `WaitEnds` | `disconnectAllAccountsSocketOnly`, on main |
| `ProtocolDidChange`, `LeaveIfDisconnected` | the two observers of `loginStatus` |
| `SocketConnects` to `Reconnects`, `NewTrust`, `TrustRefused` | the stream, XMPPReconnect and the certificate pinning |

*Abstractions.* Connected, securing and secured are one status. Registration, several accounts, the
teardown of an account, the reachability of the network, the suspension of the app, its moments of
inactivity, and a `connectToHost` that fails at once are left out. The observer leaves the group on the status it
reads, by then perhaps another thread's; a group left twice ends the app, and with it the behaviour
(`group = -1`).

*Bounds.* `MaxDrops` caps what the network and the server do unasked and `MaxSwitches` what the user
and the system do to the app; with 2 of each an app goes to sleep, wakes and loses its connection on the way (950
thousand states). The run has no Tor; the proofs cover both values.

What the code does here is surprising enough to be written down. The expiration handler and the fetch
timer run on main. `goAway` sends its presence only after main has told the date of the last
interaction, so while main waits for the account to go offline, the presence that would take it offline cannot be
sent: the wait always uses up its time, and the connection ends after it. An app that comes back in between has
its connection ended by the first presence it sends, and XMPPReconnect stopped with it. Over Tor `goAway` sends
nothing at all, and the status stays "disconnecting" until some presence is sent. And `startConnection` may
find the stream connected before another login has authenticated it, and authenticate it again.

## 3. Properties and runs

| Run | Instance | Checks |
|---|---|---|
| `otr` | 2 OTR messages, one buddy | `TypeOK OneHolder NoneForgotten OTRWaitHasTimer SentOncePerLaunch OTRNeverClear KeepsPromise` |
| `mix` | a direct message or roster change of any kind but OTR, and a group message; one account; the direct message may be blank | `AnswerComing NoSilentLoss SentWasAccepted` |
| `retry` | message and roster change on one queue, either may be blank, no autologin | `StableLoginDelivers` |
| `live` | one item of any kind, blank or not; OTR may be switched off | `InHandSettles OTRWaitEnds NextLoginWakes StableLoginDelivers` |
| `drop`, `timer` | as `mix`, as `otr` | a violation each, see findings |
| `catchup` | 2 messages, one OMEMO, one room, 2 logins | `TypeOK StoredOnce FetchedIsStored NoneDropped DueIsStored` |
| `queues` | a login, a direct message, two archived group messages, a subject | `TypeOK OnlyThisCircle HandledUnlessCircle` |
| `omemo` | 2 overlapping messages to one buddy, one unasked stanza | `TypeOK OnlyOverlapStrands PreparedMeansSession KeepsGroups EverySendEnds` |
| `twice` | as `omemo` | a violation, see findings |
| `devices` | 2 clients of one account, 2 events | `TypeOK OffListComesBack BehindCatchesUp DistrustKept OffListUntrusted AllListed ListFollowed` |
| `login` | one account without Tor, 2 drops, 2 switches | `TypeOK StatusSettles EarlyEndIsOffline NoneLeftDisconnecting LossesAreMended` |

`otr` and `mix` are separate because their product is too large for TLC and the two share nothing
but the account; the proofs cover them together. Deadlock is not checked: a queue with nothing to
do is a correct end, a crashed app has stopped, and the runs about progress say what must not stop.

*What the safety properties say.* `OneHolder`: a block is in one place, and only while its queue waits for it, so
no pair of callbacks can call it twice or advance the queue for another item. `NoneForgotten`: a blocked queue's
block exists somewhere, except for those `didConnectAccount` drops. `AnswerComing`: a message that waits for the
stream is being encoded, written or reported on, or is in `unanswered`: it was deleted in flight, it is a plaintext
message without a text, OTRKit failed, or OMEMO returned without its completion or never ended. For plaintext the
first two are the only ones, which is the property's second half. `NoSilentLoss`: an unsent message that left the
queue has or will have an error, except for five named cases collected in `lost`: it had no text, its room was not
joined yet, it was a group message that failed, OTR saved it again after it was deleted, or the app died before the
error was written. `SentOncePerLaunch` and the refinement `KeepsPromise`, which are checked in `otr` and proved for
items of every kind, exclude duplicates within a launch; across a relaunch a duplicate is possible, since the
action is removed only after the stanza was written. `SentWasAccepted`: what is marked sent was taken by the
stream; a group message counts as sent (`isMessageSent` includes `pendingSent`) before that, which is why the
property is about `sent` alone. `OTRNeverClear`: a message of kind OTR whose session ends between check and
encoding is stuck, not sent in the clear (OTRKit refuses in the state "finished"); the exception is the user
switching OTR off for the buddy meanwhile.

For incoming messages, `StoredOnce`: a message with a stanza-id or origin-id is saved once, however
many of its copies are under way. `FetchedIsStored`: when the end of an account's fetch is
written down, what the fetch covered is in the database. It holds because results and end go
through one queue and one connection in order; OMEMO messages take a detour and are excepted. The end of a room's
fetch passes through the same method: it clears `mamCatchupInProgress` and sets the account's fetch date
(`MessageStorage.swift`, line 432), so realtime messages move the date while the account's own fetch is
unanswered. If that fetch then fails, what it had not
delivered is below the date and not asked for again. `FetchedIsStored` is therefore about fetches that were counted as
done, and `DueIsStored`, which says that each message asked for or sent live is saved in the end, about a
connection that lasts and a fetch that does not fail. `NoneDropped` is the part of it that a single step could break: on
the way from an answer to the wire, the OMEMO queue, a transaction and the database, each step that takes a message
from one place has put it in the next; only a fetch that fails and a connection that ends leave one behind, and what
is ignored or found broken has been recorded as such. The one exception it names is an OMEMO message
whose session was advanced (`OTROMEMOSignalCoordinator.swift`, line 541) in a launch that died before
its text was saved: the archive's copy is then taken for a benign duplicate.

For the queues that store them, `OnlyThisCircle`: a transaction waits for
`MessageStorage`'s queue (line 83), that queue for the room manager's (line 174), and that for a
transaction (`OTRXMPPRoomManager.m`, line 268). If every queue with work waits, all three do, each at one of the
calls named for it (`Calls`), so breaking the circle at one of them would remove the deadlock; `HandledUnlessCircle`
adds that all else is handled.

For OMEMO, `OnlyOverlapStrands`: a preparation under way always has a turn in the queue, a request, or a block in
the table with an answer coming that will call it, unless it is `stranded`, which happens in one way: its block was
replaced or dropped uncalled, as the table has one place per buddy. A message that is stranded keeps its queue
blocked until the next launch. The second half says the same of messages: one that is preparing has a preparation
that is not over, or its turn to be encrypted. `PreparedMeansSession`: when a preparation is over, every device it
read has a session, or its bundle did not come or was of no use, or it had a session that was deleted. What is
deleted or stored between then and the encryption is not its business. `KeepsGroups`: the coordinator implements
`SendGroup`. A message enters its group once for every preparation, all at the same time; they leave it one by one
and do not come back, whichever queue leaves on their behalf; and it is answered for once, after the last has left.

For device lists, `OffListComesBack`: a connected client that the list lacks has something under way that will put
it back, whoever overwrote it, unless the server refused its own list or it had no bundle (`denied`).
`BehindCatchesUp`: as long as the list that TribuChat has stored is not the server's, a list that it will store, a
request that will bring one, or its own turn to publish is under way, unless the client is in `denied`.
`DistrustKept`: no list, timeout, removal by another client, or key makes a device trusted that the user
distrusted, as long as its record lasts (an empty list deletes the record, and the opinion with it).
`OffListUntrusted`: what the last list lacks is not trusted, but for the two cases in `unlisted`: a screen opened
before that list and saved after it, and a key that came before any record.

For logins, `StatusSettles`: with all callbacks handled, the status agrees with the stream, whichever of the four
threads wrote last. `EarlyEndIsOffline`: from the moment an observer has left the group, which ends main's wait
before its time, until main goes on, the account is offline: the stream is neither connected nor authenticating,
and no status says connected or authenticated. A login may have begun meanwhile, so the status may be connecting
and the socket opening, but it gets no further, since the queue that would handle its callbacks is held. A group
that two threads leave (`group = -1`) ends the app: it is reachable, and not excluded by any property.
`NoneLeftDisconnecting`: an account that is to go offline is not left online for want of the presence that ends the
connection.

*Fairness.* In `MessageQueue`, `LiveSpec` adds weak fairness of steps that run once enabled: blocks on dispatch and
operation queues, timers, the broker, and answers of OTRKit, the OMEMO coordinator and the stream. Nothing is
assumed of the user, of logins, of sessions or of rooms. `StableLoginDelivers` has as its premise a login that
lasts and a session that stays open or stays closed, since sessions that open and end for ever could starve a
message with no code at fault. It names the situations in which the code really does leave a queue stuck (`Stuck`):
the item it is blocked on was parked after the login had been handled (`ParkedTooLate`), was dropped, or is
unanswered, or a removal without an address is in the queue. `live` checks it with autologin and every kind,
`retry` without autologin. `NextLoginWakes` is what is left for an item that waits for a login: the next one takes
it up, however logins and losses come and go before the notification is handled, unless `didConnectAccount` dropped
it. In `ArchiveCatchup` the app's three queues run what is on them and the server answers or fails; logins,
disconnections, crashes and new messages are free, and `DueIsStored` ends its promise when the connection does. In
`StorageQueues` each queue has a thread, and may take any step that does not wait. In `OMEMOSend` the work queue
and the module's queue run what is on them, the callback queue runs completions, and every request is answered or
times out, which the module's tracker sees to after 30 seconds; pushes and users are free. In `DeviceList` what is
on a connection arrives and a client publishes what it has stored; logins, losses and refusals are free. In `Login`
the app's threads go on, the socket and the server answer what they are asked, and XMPPReconnect's timer fires
while the account is down; a network that fails, users and the system owe nothing.

*Findings.* `drop`: `didConnectAccount` (line 426) resumes one of the actions that wait for a login and
drops the completion blocks of the rest: their queues are blocked until the next launch.
`timer`: `waitingForBuddy` (line 129) stores `nil` for the timer, so it is never cancelled and fails the next
message that waits for the same buddy. `twice`: the table of blocks that wait for device lists is emptied
on two queues (`OTROMEMOSignalCoordinator.swift`, lines 663 and 772), though a comment asks for one (line
89): a fetch that fails while a list is pushed calls its block twice and leaves a dispatch group that nobody is
in, which ends the app.

*Mutants.* Each property is paired in `PROJECT.json` with a plausible bug in a modelled definition
(`PopBuddyPeeks`, `StartOTRWithoutTimer`, `DidFinishAtOnce`, `StoreDevicesAfresh`, `ProtocolDidChangeUnlocked`, ...)
under which TLC finds the property violated. The mutated operators stand in the modules before the originals.

## 4. Proofs

`MessageQueueProofs.tla` proves, for any items, queues, accounts and bounds that satisfy the
assumptions `ConstantTypes` and `RoomKinds` of `MessageQueue`:

* `TypeCorrect`: `Spec => []TypeOK`.
* `CompletionHeldOnce`, `NoCompletionForgotten`, `AnswersComing`, `OTRWaitsAreTimed`,
  `SentAtMostOnce`, all from one inductive invariant, `IInv` = `TypeOK` and `Custody`. None of them is
  inductive alone: that a popped entry belongs to the popping queue needs `KeyedByOwner`; that the
  stream's verdict finds the block where it should needs `OneStage`; that a retried item was never
  sent needs `SentIsOver`; and an item not yet written must be nowhere (`NewUntouched`).
* `NothingLostSilently`, `SentIsTrue`, `OTRStaysPrivate`, from `TraceInv`, inductive relative to
  `IInv`: a verdict not handled yet has left its trace already, and OTRKit is only asked to encode
  where there is or was a session.
* `ImplementsOutbox`: `Spec => KeepsPromise`. Every action is a step of `Outbox` or a stutter;
  `CompleteFinishes` and `PickTakes` carry the steps that are not.

`ArchiveCatchupProofs.tla` proves, for any number of messages and logins, any rooms, and any choice of
OMEMO messages and ids (assumption `Parameters`):

* `CatchupTypeCorrect`: `TypeOK` with `OMEMOQueue`, without which the session record could hold keys
  of messages in the clear.
* `NeverStoredTwice`: `StoredOnce`, inductive as it stands, for look-up and save are one transaction.
* `FetchedMessagesAreStored`: `FetchedIsStored`. It is not inductive: the end of a fetch crosses the wire
  and the transaction queue behind its results. `ResultsLead` says that whatever an end on the wire
  covers is saved, asked to be saved, or ahead of it; `SavesLead` says the same of the transactions.
  The lemmas about the two (`JobAsked`, `JobRun`, `AnswerSent`, `StanzaReceived`, ...) speak of any
  queues, so a step that does two things to a queue composes two of them.
* `NothingIsDropped`: the action property `NoneDropped`, step by step from the types. `Places` splits where a
  message may be, `PlacesKept` covers steps that only add to a place, and `StepsKeepTrack` has a case for
  each step that takes something away.

`StorageQueuesProofs.tla` proves, for any stanzas of any kinds (assumption `KindsGiven`):

* `QueuesTypeCorrect`: `TypeOK`, with `QueuedArrived`.
* `NoOtherDeadlock`: `OnlyThisCircle`, from `WaitsInLine`: a waiting queue has its block on the queue it
  calls. As each queue calls one other, following the blocks from a queue that waits leads round the
  circle. `WaitsAtWork` adds at which call each of them waits.
* `OnlyArchivesStop`: among stanzas without an archived group message (`roomResult`) the three never wait for each
  other, whatever else arrives: the look-up of its room (line 174) is the one call by which the
  queue of `MessageStorage` waits at all.

`OMEMOSendProofs.tla` proves, for any messages, members of rooms, devices and lists (assumption
`SendConstants`):

* `OMEMOSendTypeCorrect`: `TypeOK` with `Owned`: a preparation reads, and asks for, devices of its own party only.
* `PreparationsAreComplete`, from `Flow`: the stage of a preparation agrees with its message, with the bundles it
  waits for, and with the queue, where each preparation and message has its turn once (`Once`).
* `ImplementsSendGroup`: `Spec => KeepsGroups`, also from `Flow`. The refinement mapping (`Group`) has in a message's group
  the preparations that have not left. `StageSteps` says which stages a step can take a preparation between, so a
  step of the detailed specification is an `Enter`, a `Leave`, an `Answer` or leaves the mapping alone. Without `Once` a
  second turn in the queue could answer a message twice.
* `OnlyAnOverlapStrands`: `OnlyOverlapStrands`, from `UnderWay`, which gives every stage the thing that will
  end it, and `Placed`, which says that what either queue is about to call or remove is where it thinks. The lemmas
  speak of one preparation: `WayKept` has a step that leaves its stage alone leave it its mover, and
  `WayCalled`, `WayRemoved`, `WayFetches` are for the steps that move one preparation and pass by the others.
  `Going` is the half about messages: the last to leave a group puts the message in the queue, where only its own turn
  takes it out (`EncryptsStay`).

`DeviceListProofs.tla` proves, for any number of clients and events (assumption `ListConstants`):

* `DeviceListTypeCorrect`: `TypeOK`, which includes that a connection that is down carries nothing.
* `TrustIsTheUsers`, `OffListIsUntrusted`: `DistrustKept`, which says nothing of a device whose record was deleted, and
  `OffListUntrusted`; both inductive once the types are known; `StoreIsSafe` says what
  `StoreDevices` does to a record for any list.
* `NoneIsLeftOff`: `OffListComesBack`. Per client, a step that leaves its part of the state alone or
  adds to it keeps what will bring it back (`StillBack`), so only the steps that take something off a
  connection need a case of their own.
* `NoneStaysBehind`: `BehindCatchesUp`. It is not inductive: that some list is under way does not say that the last
  one is the right one. `UpToDate` reads a connection in order: the last list on it is the server's, or lacks
  this device, which then answers with one of its own; with no list on it, the stored one is the server's. `Follows`
  is that, or a request or turn to publish that will bring a list. The lemmas `ListSent`, `OtherSent` and `FirstHandled`
  say what the two ends of a connection do to `UpToDate`.

`LoginProofs.tla` proves, with Tor and without, for any bounds (assumption `LoginAssumption`):

* `LoginTypeCorrect`: `TypeOK` with `GroupKept`: the group is main's, entered once and nobody's while main is free.
* `EarlyEndsAreOffline`: `EarlyEndIsOffline`, from `EarlyInv`, which adds to `SettleInv` that a status set down
  while main has the lock (`SettledDown`), and a group let go (`GroupLetGo`), find the stream not up (`NotUp`)
  and a thread held. The thread that put the account down while main waits has to tell the observer that needs
  main's lock, so it is held there (`Held`) until main is done, and nothing after it on its queue runs. The
  pinning check is the exception, for its thread is not the one on which the account comes up; what is then left
  on the account's queue brings nothing up, because the callbacks of one connection come in order
  (`CallbacksInOrder`).
* `StatusesSettle`: `StatusSettles`, from `SettleInv`. With the stream down, either the account's queue ends with the
  callback that says so, or the status is down too but for a login about to call the stream (`DownSettles`). With it
  up, the queue holds nothing of its socket or of an older connection any more (`UpUndisturbed`). With it online, so is
  the status, or a callback or a login that sets it is on its way (`OnlineSettles`). Two connections may
  overlap on the queue, so all three rest on `CallbacksInOrder`.
* `NoneIsLeftDisconnecting`: `NoneLeftDisconnecting`, from `LeavingGoesOn`, which follows the presence of `goAway` through
  main's queue and the account's to the end of the connection.
* `LossesKeepTheirTimer`: a stream that is down and is to be connected again has XMPPReconnect's timer set, whoever
  stopped it while the stream was up. This is the safety half of `LossesAreMended`.

Only model-checked: the liveness properties (`StableLoginDelivers`, `InHandSettles`, `OTRWaitEnds`, `NextLoginWakes`,
`DueIsStored`, `HandledUnlessCircle`, `EverySendEnds`, `AllListed`, `ListFollowed`, `LossesAreMended`), since fairness
and ENABLED are beyond the prover, and the violations. Every safety property and both refinements that a run checks
are proved. For most of the liveness properties the proofs have the safety half, that what will bring the
good thing about is there: `AnswersComing` and `NoCompletionForgotten` for `InHandSettles`, `OTRWaitsAreTimed` for
`OTRWaitEnds`, `NothingIsDropped` for
`DueIsStored`, `NoOtherDeadlock` for `HandledUnlessCircle`, `OnlyAnOverlapStrands` for `EverySendEnds`, `NoneIsLeftOff`
for `AllListed`, `NoneStaysBehind` for `ListFollowed`, `LossesKeepTheirTimer` for `LossesAreMended`. What is
left to TLC is that fair steps then happen.

## 5. Not modelled

The program is Swift and Objective-C; its headers declare interfaces, and the few that carry
something modelled (such as the trust levels and the login statuses) are mapped where they are.

* *Stream management.* The storage class in the database is never created (`OTRXMPPManager.m`, line 245): the
  library keeps unacknowledged stanzas in memory. The app's own part stamps `dateAcked` in one transaction.
* *Receipts, chat states, error replies and OTR text* on the way in; a receipt that comes before its message is
  forgotten, as a TODO in the code says.
* *Rooms:* occupants, bookmarks, invitations, and the duplicates that the room storage looks for itself.
* *File transfer:* I/O; the message it ends in is an item like any other. Its callbacks save copies of the message
  taken when the transfer began, see the plan.
* *Roster, vCards, presence cache, server checks, message timers, pincode, account migration, push, database
  set-up:* updates of a table from one queue or screen, or calls to a service, on which nothing above depends.
  The roster's own hazards (a second request that replaces the first, an IQ that is never repeated) are listed
  in `PROJECT.json` without a property.
* *Registration, several accounts, Tor's start and stop* in `Login`; the publication of bundles, prekeys and the
  ratchet in OMEMO; what libraries do inside.

## 6. Plan

1. Receipts in `ArchiveCatchup` (`handleDeliveryResponse`, `sendDeliveryReceipt`) and the room storage's
   own duplicates (`existingMessage`).
2. `Transfer` (`FileTransferManager.swift`, lines 366-529): uploads whose callbacks save old copies of a message
   that the queue and the user change meanwhile.
3. `Roster`: add and remove requests that share an action key, against the server's pushes.
4. Proofs: an abstract specification of an account's status, implemented by `Login`; that the answers of
   `SendGroup` are what `MessageQueue` lets OMEMO do, as one refinement rather than an assumption each answers for.
