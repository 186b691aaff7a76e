----------------------------- MODULE OMEMOSend -----------------------------
(***************************************************************************)
(* How OTROMEMOSignalCoordinator.swift gets a message ready: for each buddy *)
(* and for the account itself it makes sure that a device list and a        *)
(* session with every device are there, asking the server for what is       *)
(* missing, and when all have answered it encrypts and sends.               *)
(*                                                                          *)
(* Three threads meet here.  The coordinator's work queue runs blocks one   *)
(* by one; the OMEMO module's queue receives answers, timeouts and device   *)
(* lists that the server pushes; the callback queue empties the groups.     *)
(* Both of the first two call and remove the blocks that wait for a device  *)
(* list, in two steps, although only the work queue is meant to.  A block   *)
(* of the work queue that asks the module for something waits until that    *)
(* queue is idle (performBlock is synchronous).                             *)
(***************************************************************************)
EXTENDS DeviceRecords, Naturals, Sequences, Functions

CONSTANTS
    Send,       \* messages
    Party,      \* bare JIDs: buddies and the account's own
    Me,         \* the account
    Device,     \* all their devices
    Mine,       \* this device, one of the account's
    PartyOf,    \* [Device -> Party]
    BuddyKeys,  \* [Send -> sequence of buddies]: the members a message is for; one
                \* that is in the room under two names comes twice
    Lists,      \* [Party -> set of device lists the server may hold]
    MaxPushes,  \* bound: stanzas that nothing waits for any more
    None

ASSUME SendConstants ==
    /\ Me \in Party /\ Mine \in Device
    /\ PartyOf \in [Device -> Party] /\ PartyOf[Mine] = Me
    /\ BuddyKeys \in [Send -> Seq(Party \ {Me})]
    /\ Lists \in [Party -> SUBSET SUBSET Device]
    /\ \A p \in Party : \A L \in Lists[p] : \A d \in L : PartyOf[d] = p
    /\ MaxPushes \in Nat
    /\ None \notin Send \X Nat \cup [do : {"ask", "remove"}, prep : Send \X Nat]
    /\ None \notin [do : {"call", "remove"}, party : Party, list : SUBSET Device]

DevicesOf(p) == {d \in Device : PartyOf[d] = p}

\* The preparations of a message, one for each of its buddies and the last one
\* for the account.
Preps(s) == {s} \X (1 .. Len(BuddyKeys[s]) + 1)
Prep     == UNION {Preps(s) : s \in Send}
PartyFor(c) == IF c[2] <= Len(BuddyKeys[c[1]]) THEN BuddyKeys[c[1]][c[2]] ELSE Me

VARIABLES
    level,      \* [Device -> Level]: the records
    keyed,      \* recorded devices whose identity key is known
    session,    \* [Device -> "none" | "open" | "deleted"]: Signal sessions
    result,     \* each message: "new" | "preparing" | "sent" | "failed" | "dropped"
    stage,      \* how far each preparation is
    devices,    \* the devices a preparation has read
    known,      \* those it has read with an identity key, until it has used that
    waiting,    \* devices whose bundle a preparation waits for
    callbacks,  \* deviceIdFetchCallbacks: per party, the preparation whose block waits
    listIQs,    \* device lists asked for
    bundleIQs,  \* bundles asked for
    workQ,      \* the coordinator's work queue
    work,       \* what its running block has still to do
    module,     \* what the module's queue is doing with a device list
    pushes,     \* lists, late answers and messages that came unasked
    crashed,    \* a group was left once too often
    \* ---- history
    refused,    \* per preparation, devices whose bundle did not come or was no use
    stranded    \* preparations whose waiting block is in no table any more

vars == <<level, keyed, session, result, stage, devices, known, waiting, callbacks,
          listIQs, bundleIQs, workQ, work, module, pushes, crashed, refused, stranded>>

Stages == {"none", "queued", "listing", "listed", "fetching", "ready", "left"}
Items ==
    [op : {"prepare", "listed"}, prep : Prep] \cup [op : {"listFailed"}, party : Party]
    \cup [op : {"bundle"}, prep : Prep, device : Device, ok : BOOLEAN]
    \cup [op : {"encrypt"}, send : Send]

TypeOK ==
    /\ level \in [Device -> Level] /\ keyed \subseteq Recorded(level)
    /\ session \in [Device -> {"none", "open", "deleted"}]
    /\ result \in [Send -> {"new", "preparing", "sent", "failed", "dropped"}]
    /\ stage \in [Prep -> Stages]
    /\ devices \in [Prep -> SUBSET Device] /\ known \in [Prep -> SUBSET Device]
    /\ waiting \in [Prep -> SUBSET Device]
    /\ callbacks \in [Party -> Prep \cup {None}]
    /\ listIQs \subseteq Prep /\ bundleIQs \subseteq Prep \X Device
    /\ workQ \in Seq(Items)
    /\ work \in {None} \cup [do : {"ask", "remove"}, prep : Prep]
    /\ module \in {None} \cup [do : {"call", "remove"}, party : Party, list : SUBSET Device]
    /\ pushes \in 0..MaxPushes /\ crashed \in BOOLEAN
    /\ refused \in [Prep -> SUBSET Device] /\ stranded \subseteq Prep

\* A launch finds what earlier ones stored.  The account's own list has this
\* device once it has logged in.
Init ==
    /\ level \in [Device -> {"none", "tofu"}]
    /\ level[Mine] = "tofu"
    /\ session \in [Device -> {"none", "open"}] /\ session[Mine] = "none"
    /\ keyed = {d \in Device : level[d] # "none" /\ session[d] = "open"}
    /\ result = [s \in Send |-> "new"]
    /\ stage = [c \in Prep |-> "none"]
    /\ devices = [c \in Prep |-> {}] /\ known = [c \in Prep |-> {}]
    /\ waiting = [c \in Prep |-> {}]
    /\ callbacks = [p \in Party |-> None]
    /\ listIQs = {} /\ bundleIQs = {}
    /\ workQ = <<>> /\ work = None /\ module = None
    /\ pushes = 0 /\ crashed = FALSE
    /\ refused = [c \in Prep |-> {}] /\ stranded = {}

-----------------------------------------------------------------------------
\* The records after the identity key of device d of party p was saved.
SaveRecord(p, d) ==
    LET saved == SaveIdentity([e \in DevicesOf(p) |-> level[e]], d) IN
    [e \in Device |-> IF PartyOf[e] = p THEN saved[e] ELSE level[e]]

Stored(p) == {d \in DevicesOf(p) : level[d] # "none"}

\* encryptAndSendMessage, on the caller's queue: a preparation for each buddy
\* and one for the account.  Each reads the devices now, with what is known of
\* their keys, and runs later.
EncryptAndSendMessage(s) ==
    /\ result[s] = "new" /\ ~crashed
    /\ IF BuddyKeys[s] = <<>>
       THEN /\ result' = [result EXCEPT ![s] = "failed"]
            /\ UNCHANGED <<stage, devices, known, workQ>>
       ELSE /\ result' = [result EXCEPT ![s] = "preparing"]
            /\ stage' = [c \in Prep |-> IF c[1] = s THEN "queued" ELSE stage[c]]
            /\ devices' = [c \in Prep |-> IF c[1] = s THEN Stored(PartyFor(c))
                                          ELSE devices[c]]
            /\ known' = [c \in Prep |-> IF c[1] = s THEN Stored(PartyFor(c)) \cap keyed
                                        ELSE known[c]]
            /\ workQ' = workQ \o [k \in 1 .. Len(BuddyKeys[s]) + 1 |->
                                    [op |-> "prepare", prep |-> <<s, k>>]]
    /\ UNCHANGED <<level, keyed, session, waiting, callbacks, listIQs, bundleIQs,
                   work, module, pushes, crashed, refused, stranded>>

\* Faulty: a bundle is asked for only if its device is trusted.
NeededIfTrusted(ds, ks) ==
    {d \in ds \ {Mine} : level[d] \in TrustedLevel /\ (session[d] # "open" \/ d \notin ks)}

\* The devices whose bundle has to be fetched, of those read: the sessions are
\* looked up now, while the keys ks are those that were read.
Needed(ds, ks) == {d \in ds \ {Mine} : session[d] # "open" \/ d \notin ks}

\* bundleFetch, in a preparation that has read the devices ds, and the keys of ks:
\* asks for each bundle and leaves nothing to do if there is none to ask for.
BundleFetch(c, ds, ks) ==
    LET need == Needed(ds, ks) IN
    /\ need # {} => module = None
    /\ devices' = [devices EXCEPT ![c] = ds]
    /\ waiting' = [waiting EXCEPT ![c] = need]
    /\ bundleIQs' = bundleIQs \cup ({c} \X need)
    /\ stage' = [stage EXCEPT ![c] = IF need = {} THEN "ready" ELSE "fetching"]

\* The preparation whose block is in the table for party p and was not called.
Waiting(p) == {c \in Prep : callbacks[p] = c /\ stage[c] = "listing"}

\* The first half of deviceFetch: the block goes into the table, over any that
\* waits there for the same party.
DeviceFetch(c) ==
    /\ callbacks' = [callbacks EXCEPT ![PartyFor(c)] = c]
    /\ stranded' = stranded \cup Waiting(PartyFor(c))
    /\ stage' = [stage EXCEPT ![c] = "listing"]
    /\ work' = [do |-> "ask", prep |-> c]
    /\ UNCHANGED <<devices, waiting, bundleIQs>>

\* The block that waits for a device list leaves its group, whose notification
\* goes to the work queue behind the items q.  Leaving it again is a crash.
CallListBlock(c, q) ==
    /\ crashed' = (stage[c] # "listing")
    /\ stage' = IF stage[c] = "listing" THEN [stage EXCEPT ![c] = "listed"] ELSE stage
    /\ workQ' = IF stage[c] = "listing" THEN Append(q, [op |-> "listed", prep |-> c])
                ELSE q

\* The second half of callAndRemove: whatever block is in the table is dropped.
RemoveListBlock(p) ==
    /\ callbacks' = [callbacks EXCEPT ![p] = None]
    /\ stranded' = stranded \cup Waiting(p)

-----------------------------------------------------------------------------
\* The work queue runs its first block, unless it is still in the last one.
WorkQueueFree == workQ # <<>> /\ work = None /\ ~crashed

\* prepareSession's block: with no device read before, the list is fetched.
PrepareSession ==
    /\ WorkQueueFree /\ Head(workQ).op = "prepare"
    /\ LET c == Head(workQ).prep IN
          IF devices[c] = {} THEN DeviceFetch(c)
          ELSE BundleFetch(c, devices[c], known[c]) /\ UNCHANGED <<callbacks, stranded, work>>
    /\ known' = [known EXCEPT ![Head(workQ).prep] = {}]
    /\ workQ' = Tail(workQ)
    /\ UNCHANGED <<level, keyed, session, result, listIQs, module, pushes, crashed, refused>>

\* The second half of deviceFetch waits for the module's queue.
FetchDeviceIds ==
    /\ ~crashed /\ work # None /\ work.do = "ask" /\ module = None
    /\ listIQs' = listIQs \cup {work.prep}
    /\ work' = None
    /\ UNCHANGED <<level, keyed, session, result, stage, devices, known, waiting, callbacks,
                   bundleIQs, workQ, module, pushes, crashed, refused, stranded>>

\* The group of a device fetch has emptied: the devices are read again.
DevicesFetched ==
    /\ WorkQueueFree /\ Head(workQ).op = "listed"
    /\ LET c == Head(workQ).prep IN BundleFetch(c, Stored(PartyFor(c)), keyed)
    /\ workQ' = Tail(workQ)
    /\ UNCHANGED <<level, keyed, session, result, known, callbacks, listIQs, work, module,
                   pushes, crashed, refused, stranded>>

\* Faulty: nobody is told that a device list did not come.
FailedToFetchDeviceIdsInVain ==
    /\ WorkQueueFree /\ Head(workQ).op = "listFailed"
    /\ workQ' = Tail(workQ)
    /\ UNCHANGED <<level, keyed, session, result, stage, devices, known, waiting, callbacks,
                   listIQs, bundleIQs, work, module, pushes, crashed, refused, stranded>>

\* failedToFetchDeviceIdsFor, on the work queue.
FailedToFetchDeviceIds ==
    /\ WorkQueueFree /\ Head(workQ).op = "listFailed"
    /\ LET p == Head(workQ).party IN
          IF callbacks[p] = None
          THEN workQ' = Tail(workQ) /\ UNCHANGED <<stage, work, crashed>>
          ELSE /\ CallListBlock(callbacks[p], Tail(workQ))
               /\ work' = [do |-> "remove", prep |-> callbacks[p]]
    /\ UNCHANGED <<level, keyed, session, result, devices, known, waiting, callbacks, listIQs,
                   bundleIQs, module, pushes, refused, stranded>>

WorkRemovesListBlock ==
    /\ ~crashed /\ work # None /\ work.do = "remove"
    /\ RemoveListBlock(PartyFor(work.prep))
    /\ work' = None
    /\ UNCHANGED <<level, keyed, session, result, stage, devices, known, waiting, listIQs,
                   bundleIQs, workQ, module, pushes, crashed, refused>>

\* fetchedBundle and failedToFetchBundle, on the work queue: a bundle that is
\* of use starts a session; then the block of its request is called.
BundleAnswered ==
    /\ WorkQueueFree /\ Head(workQ).op = "bundle"
    /\ LET c == Head(workQ).prep   d == Head(workQ).device IN
       /\ IF Head(workQ).ok
          THEN /\ session' = [session EXCEPT ![d] = "open"]
               /\ level' = SaveRecord(PartyFor(c), d) /\ keyed' = keyed \cup {d}
               /\ UNCHANGED refused
          ELSE /\ refused' = [refused EXCEPT ![c] = @ \cup {d}]
               /\ UNCHANGED <<session, level, keyed>>
       /\ waiting' = [waiting EXCEPT ![c] = @ \ {d}]
       /\ stage' = IF waiting[c] = {d} THEN [stage EXCEPT ![c] = "ready"] ELSE stage
    /\ workQ' = Tail(workQ)
    /\ UNCHANGED <<result, devices, known, callbacks, listIQs, bundleIQs, work, module, pushes,
                   crashed, stranded>>

\* Faulty: the account's own devices are not in the message's group.
LeaveGroupOfBuddies(c) ==
    /\ stage[c] = "ready" /\ ~crashed
    /\ stage' = [stage EXCEPT ![c] = "left"]
    /\ workQ' = IF \A o \in Preps(c[1]) \ {c} : PartyFor(o) # Me => stage[o] = "left"
                THEN Append(workQ, [op |-> "encrypt", send |-> c[1]]) ELSE workQ
    /\ UNCHANGED <<level, keyed, session, result, devices, known, waiting, callbacks, listIQs,
                   bundleIQs, work, module, pushes, crashed, refused, stranded>>

\* The callback queue runs a preparation's completion, which leaves the
\* message's group; the last one to leave has the message encrypted.
LeaveGroup(c) ==
    /\ stage[c] = "ready" /\ ~crashed
    /\ stage' = [stage EXCEPT ![c] = "left"]
    /\ workQ' = IF \A o \in Preps(c[1]) \ {c} : stage[o] = "left"
                THEN Append(workQ, [op |-> "encrypt", send |-> c[1]]) ELSE workQ
    /\ UNCHANGED <<level, keyed, session, result, devices, known, waiting, callbacks, listIQs,
                   bundleIQs, work, module, pushes, crashed, refused, stranded>>

\* The devices of party p that a key can be encrypted for.
Recipients(p) ==
    {d \in DevicesOf(p) \ {Mine} : level[d] \in TrustedLevel /\ session[d] = "open"}

\* The block that encrypts and sends.  It fails if no key could be encrypted for
\* any buddy, or with an error of the cipher, and gives up without a word if the
\* text, a key or the cipher's result is missing.  It counts as sent also if the
\* module had no bundle of this device to send the keys with.
Encrypt ==
    /\ WorkQueueFree /\ Head(workQ).op = "encrypt"
    /\ LET s == Head(workQ).send IN
       \/ result' = [result EXCEPT ![s] = "failed"]
       \/ /\ \E p \in Range(BuddyKeys[s]) : Recipients(p) # {}
          /\ module = None
          /\ result' = [result EXCEPT ![s] = "sent"]
       \/ result' = [result EXCEPT ![s] = "dropped"]
    /\ workQ' = Tail(workQ)
    /\ UNCHANGED <<level, keyed, session, stage, devices, known, waiting, callbacks, listIQs,
                   bundleIQs, work, module, pushes, crashed, refused, stranded>>

-----------------------------------------------------------------------------
ModuleIdle == module = None /\ ~crashed

\* The module's queue begins to process a device list: storeDeviceIds has the
\* records changed, then turns to the block that waits for the list.
StoreList(p, list) ==
    /\ LET stored == StoreDevices([d \in DevicesOf(p) |-> level[d]], list) IN
          /\ level' = [d \in Device |-> IF PartyOf[d] = p THEN stored[d] ELSE level[d]]
          /\ keyed' = {d \in keyed : PartyOf[d] = p => stored[d] # "none"}
    /\ module' = [do |-> "call", party |-> p, list |-> list]

\* An answer to a device list request, or a timeout.  For the account itself an
\* error counts as an empty list.
DeviceIdsAnswered(c) ==
    /\ ModuleIdle /\ c \in listIQs
    /\ listIQs' = listIQs \ {c}
    /\ \/ /\ \E L \in Lists[PartyFor(c)] \cup {{}} : StoreList(PartyFor(c), L)
          /\ UNCHANGED workQ
       \/ /\ PartyFor(c) # Me
          /\ workQ' = Append(workQ, [op |-> "listFailed", party |-> PartyFor(c)])
          /\ UNCHANGED <<level, keyed, module>>
    /\ UNCHANGED <<session, result, stage, devices, known, waiting, callbacks, bundleIQs, work,
                   pushes, crashed, refused, stranded>>

\* A device list that nothing asked for: the server pushes it, or it answers a
\* request that has timed out, which the tracker has not forgotten.
DeviceListPushed(p) ==
    /\ ModuleIdle /\ pushes < MaxPushes
    /\ pushes' = pushes + 1
    /\ \E L \in Lists[p] \cup {{}} : StoreList(p, L)
    /\ UNCHANGED <<session, result, stage, devices, known, waiting, callbacks, listIQs,
                   bundleIQs, workQ, work, crashed, refused, stranded>>

\* After the list L of party p, the account's own is stored once more if this
\* device is not on it.
NextList(p, L) ==
    IF p = Me /\ Mine \notin L THEN StoreList(p, L \cup {Mine})
    ELSE module' = None /\ UNCHANGED <<level, keyed>>

\* storeDeviceIds calls the block that waits for this list, off the work queue.
ModuleCallsListBlock ==
    /\ ~crashed /\ module # None /\ module.do = "call"
    /\ LET p == module.party IN
       IF callbacks[p] = None
       THEN NextList(p, module.list) /\ UNCHANGED <<stage, workQ, crashed>>
       ELSE /\ CallListBlock(callbacks[p], workQ)
            /\ module' = [module EXCEPT !.do = "remove"]
            /\ UNCHANGED <<level, keyed>>
    /\ UNCHANGED <<session, result, devices, known, waiting, callbacks, listIQs, bundleIQs, work,
                   pushes, refused, stranded>>

ModuleRemovesListBlock ==
    /\ ~crashed /\ module # None /\ module.do = "remove"
    /\ RemoveListBlock(module.party)
    /\ NextList(module.party, module.list)
    /\ UNCHANGED <<session, result, stage, devices, known, waiting, listIQs, bundleIQs, workQ,
                   work, pushes, crashed, refused>>

\* A bundle, an error or a timeout.
BundleArrives(b) ==
    /\ ModuleIdle /\ b \in bundleIQs
    /\ bundleIQs' = bundleIQs \ {b}
    /\ \E ok \in BOOLEAN :
          workQ' = Append(workQ, [op |-> "bundle", prep |-> b[1], device |-> b[2], ok |-> ok])
    /\ UNCHANGED <<level, keyed, session, result, stage, devices, known, waiting, callbacks,
                   listIQs, work, module, pushes, crashed, refused, stranded>>

\* A bundle that comes after its request has timed out is handled all the same.
BundleComesLate(c, d) ==
    /\ ModuleIdle /\ pushes < MaxPushes
    /\ d \in devices[c] /\ d \notin waiting[c] /\ d \in refused[c]
    /\ pushes' = pushes + 1
    /\ workQ' = Append(workQ, [op |-> "bundle", prep |-> c, device |-> d, ok |-> TRUE])
    /\ UNCHANGED <<level, keyed, session, result, stage, devices, known, waiting, callbacks,
                   listIQs, bundleIQs, work, module, crashed, refused, stranded>>

\* A message from a device that has no session begins one.
MessageOpensSession(d) ==
    /\ ModuleIdle /\ pushes < MaxPushes
    /\ session[d] # "open" /\ d # Mine
    /\ pushes' = pushes + 1
    /\ session' = [session EXCEPT ![d] = "open"]
    /\ level' = SaveRecord(PartyOf[d], d) /\ keyed' = keyed \cup {d}
    /\ UNCHANGED <<result, stage, devices, known, waiting, callbacks, listIQs, bundleIQs, workQ,
                   work, module, crashed, refused, stranded>>

\* A message that cannot be decrypted has the session it used deleted.
DeleteSession(d) ==
    /\ ModuleIdle /\ session[d] = "open"
    /\ session' = [session EXCEPT ![d] = "deleted"]
    /\ UNCHANGED <<level, keyed, result, stage, devices, known, waiting, callbacks, listIQs,
                   bundleIQs, workQ, work, module, pushes, crashed, refused, stranded>>

-----------------------------------------------------------------------------
WorkQueueStep ==
    \/ PrepareSession \/ FetchDeviceIds \/ DevicesFetched \/ FailedToFetchDeviceIds
    \/ WorkRemovesListBlock \/ BundleAnswered \/ Encrypt
ModuleStep ==
    \/ ModuleCallsListBlock \/ ModuleRemovesListBlock
    \/ \E c \in Prep : DeviceIdsAnswered(c)
    \/ \E b \in Prep \X Device : BundleArrives(b)

\* Nothing runs once the app has crashed.
Next ==
    \/ \E s \in Send : EncryptAndSendMessage(s)
    \/ WorkQueueStep \/ ModuleStep
    \/ \E c \in Prep : LeaveGroup(c)
    \/ \E p \in Party : DeviceListPushed(p)
    \/ \E c \in Prep, d \in Device : BundleComesLate(c, d)
    \/ \E d \in Device : MessageOpensSession(d) \/ DeleteSession(d)

Spec == Init /\ [][Next]_vars

\* The queues run what is queued, and every request is answered or times out:
\* the module's tracker gives up after 30 seconds.
LiveSpec ==
    /\ Spec
    /\ WF_vars(WorkQueueStep) /\ WF_vars(ModuleStep)
    /\ WF_vars(\E c \in Prep : LeaveGroup(c))

-----------------------------------------------------------------------------
(* Safety *)

\* What will move a preparation that is under way.
Moves(c) ==
    \/ \E k \in DOMAIN workQ : workQ[k] \in [op : {"prepare", "listed"}, prep : {c}]
    \/ work = [do |-> "ask", prep |-> c]
    \/ stage[c] = "listing" /\ callbacks[PartyFor(c)] = c
         /\ \/ c \in listIQs
            \/ \E k \in DOMAIN workQ : workQ[k] = [op |-> "listFailed", party |-> PartyFor(c)]
            \/ module # None /\ module.do = "call" /\ module.party = PartyFor(c)
    \/ /\ waiting[c] # {}
       /\ \A d \in waiting[c] :
             \/ <<c, d>> \in bundleIQs
             \/ \E k \in DOMAIN workQ : \E ok \in BOOLEAN :
                   workQ[k] = [op |-> "bundle", prep |-> c, device |-> d, ok |-> ok]

\* A preparation that is not over has something under way that will move it,
\* unless its block was lost because another message's overlapped with it for
\* the same party; and a message whose preparations are all over has its turn to
\* be encrypted in the work queue (lines 80-96, 133-205, 299-300, 652-728 and
\* 756-773).
OnlyOverlapStrands ==
    /\ \A c \in Prep :
        stage[c] \in {"queued", "listing", "listed", "fetching"} =>
            crashed \/ c \in stranded \/ Moves(c)
    /\ \A s \in Send : result[s] = "preparing" =>
        \/ \E c \in Preps(s) : stage[c] \notin {"none", "left"}
        \/ \E k \in DOMAIN workQ : workQ[k] = [op |-> "encrypt", send |-> s]

\* A preparation that is over has seen to every device it has read: there is a
\* session, or its bundle did not come or was no use, or there was a session that
\* was deleted because a message could not be decrypted (lines 133-168).
PreparedMeansSession ==
    \A c \in Prep : stage[c] \in {"ready", "left"} =>
        \A d \in devices[c] \ {Mine} : session[d] # "none" \/ d \in refused[c]

\* A message is answered for once, when the last of its preparations has left
\* its group, and each leaves once: the coordinator keeps the promise of
\* SendGroup (lines 260-411).
Promise == INSTANCE SendGroup
    WITH state <- result,
         group <- [s \in Send |->
                    {c \in Preps(s) : result[s] = "preparing" /\ stage[c] # "left"}],
         Parts <- [s \in Send |-> Preps(s)]
KeepsGroups == Promise!Spec

(* Liveness *)

Over(s) == result[s] \in {"sent", "failed", "dropped"}

\* Whatever the server answers, and if it answers at all, a message comes to an
\* end, but for one that a lost block keeps waiting (lines 260-411).
EverySendEnds ==
    \A s \in Send : result[s] = "preparing" ~>
        Over(s) \/ crashed \/ \E c \in Preps(s) : c \in stranded

\* A block that waits for a device list is called once: the table belongs to the
\* work queue (comment at line 89).
ListBlockCalledOnce == ~crashed
=============================================================================
