----------------------------- MODULE DeviceList -----------------------------
(***************************************************************************)
(* The OMEMO device list of one account.  Each of the account's devices     *)
(* runs OMEMOModule.m: it fetches the list when it has logged in, stores    *)
(* every list it sees, and publishes a list of its own when it is not on    *)
(* it.  The server keeps the last list published and pushes it to all who   *)
(* are connected.  Nobody's turn is awaited: whoever publishes overwrites   *)
(* what others have published since it last saw the list.                   *)
(*                                                                          *)
(* Of one device, Mine, the module also has the records that are kept of    *)
(* the others (OTROMEMOStorageManager.swift) and the screen on which the    *)
(* user trusts, distrusts and removes them (KeyManagementViewController).   *)
(***************************************************************************)
EXTENDS DeviceRecords, Naturals, Sequences, Functions

CONSTANTS
    Device,     \* the account's devices
    Mine,       \* the one whose records are looked at
    MaxEvents,  \* bound: connections lost, timeouts, errors, removals and screens
    None

ASSUME ListConstants ==
    /\ Mine \in Device /\ MaxEvents \in Nat
    /\ \A S \in SUBSET Device : S # None
    /\ \A f \in [Device -> Level] : f # None

VARIABLES
    list,       \* the list on the server
    online,     \* devices that are connected and authenticated
    logins,     \* logins so far
    asked,      \* per device, logins whose fetch has neither an answer nor a timeout
    up,         \* per device, requests on their way to the server
    down,       \* per device, answers and pushed lists on their way back
    todo,       \* per device, the list it is about to add itself to
    events,     \* what has happened so far of what MaxEvents bounds
    level,      \* the records of Mine
    view,       \* what the screen of Mine shows, if it is open
    \* ---- history
    denied,     \* devices whose last own list the server refused, or that had no
                \* bundle to put themselves on a list with
    seen,       \* the last list that Mine has stored
    unlisted,   \* devices trusted while no list named them: by a screen that had shown
                \* an older state, or with their key before there was any record
    distrusted  \* devices the user has distrusted, while their record lasts

records == <<level, seen, unlisted, distrusted>>
vars == <<list, online, logins, asked, up, down, todo, events, records, view, denied>>

Requests ==
    [op : {"fetch"}, login : Nat] \cup [op : {"take"}, device : Device]
    \cup [op : {"publish", "removal"}, list : SUBSET Device]
Answers  ==
    [op : {"answer"}, login : Nat, list : SUBSET Device]
    \cup [op : {"taken"}, device : Device, list : SUBSET Device]
    \cup [op : {"push"}, list : SUBSET Device]

TypeOK ==
    /\ list \subseteq Device /\ online \subseteq Device
    /\ logins \in [Device -> Nat]
    /\ asked \in [Device -> SUBSET Nat] /\ \A c \in Device : asked[c] \subseteq 1..logins[c]
    /\ up \in [Device -> Seq(Requests)] /\ down \in [Device -> Seq(Answers)]
    /\ \A c \in Device \ online : up[c] = <<>> /\ down[c] = <<>>
    /\ todo \in [Device -> {None} \cup SUBSET Device]
    /\ \A c \in Device : todo[c] # None => c \notin todo[c]
    /\ events \in 0..MaxEvents
    /\ level \in [Device -> Level] /\ view \in {None} \cup [Device -> Level]
    /\ denied \subseteq Device /\ seen \subseteq Device /\ unlisted \subseteq Device
    /\ distrusted \subseteq Recorded(level)

\* The account is new on this device; other clients may have published a list.
Init ==
    /\ list \in SUBSET (Device \ {Mine}) /\ online = {}
    /\ logins = [c \in Device |-> 0] /\ asked = [c \in Device |-> {}]
    /\ up = [c \in Device |-> <<>>] /\ down = [c \in Device |-> <<>>]
    /\ todo = [c \in Device |-> None]
    /\ events = 0
    /\ level = [d \in Device |-> "none"] /\ view = None
    /\ denied = {} /\ seen = {} /\ unlisted = {} /\ distrusted = {}

-----------------------------------------------------------------------------
\* Faulty: requests are kept until there is a connection.
AskLater(c, request) == up' = [up EXCEPT ![c] = Append(@, request)]

\* A request of device c; the stream drops it if there is no connection.
Ask(c, request) ==
    up' = IF c \in online THEN [up EXCEPT ![c] = Append(@, request)] ELSE up

\* The records become lev: a record that is gone takes the user's opinion along.
NewRecords(lev) ==
    /\ level' = lev
    /\ distrusted' = distrusted \cap Recorded(lev)

\* storeDeviceIds on device c.
StoreDeviceIds(c, L) ==
    IF c = Mine THEN /\ NewRecords(StoreDevices(level, L))
                     /\ seen' = L /\ unlisted' = unlisted \cap L
                ELSE UNCHANGED records

\* Faulty: an empty own list is taken for an error and left alone.
ProcessIncomingUnlessEmpty(c, L) ==
    /\ StoreDeviceIds(c, L)
    /\ todo' = [todo EXCEPT ![c] = IF c \in L \/ L = {} THEN None ELSE L]
    /\ UNCHANGED denied

\* Faulty: a list that has this device is not stored.
ProcessIncomingIfMissing(c, L) ==
    /\ IF c \in L THEN UNCHANGED records ELSE StoreDeviceIds(c, L)
    /\ todo' = [todo EXCEPT ![c] = IF c \in L THEN None ELSE L]
    /\ UNCHANGED denied

\* processIncomingDeviceIds: the list is stored; a device that is not on it goes
\* on to add itself, unless fetchMyBundle has nothing, not even after fifty tries
\* to make a bundle.
ProcessIncomingDeviceIds(c, L) ==
    /\ StoreDeviceIds(c, L)
    /\ \/ /\ todo' = [todo EXCEPT ![c] = IF c \in L THEN None ELSE L]
          /\ UNCHANGED denied
       \/ /\ c \notin L /\ denied' = denied \cup {c}
          /\ UNCHANGED todo

\* xmppStreamDidAuthenticate: the own list is fetched.
Authenticate(c) ==
    /\ c \notin online /\ todo[c] = None
    /\ online' = online \cup {c}
    /\ logins' = [logins EXCEPT ![c] = @ + 1]
    /\ asked' = [asked EXCEPT ![c] = @ \cup {logins[c] + 1}]
    /\ up' = [up EXCEPT ![c] = <<[op |-> "fetch", login |-> logins[c] + 1]>>]
    /\ denied' = denied \ {c}
    /\ UNCHANGED <<list, down, todo, events, records, view>>

\* The connection is lost, with all that is under way on it; the tracker's timers
\* go on.
Disconnect(c) ==
    /\ c \in online /\ events < MaxEvents
    /\ events' = events + 1
    /\ online' = online \ {c}
    /\ up' = [up EXCEPT ![c] = <<>>] /\ down' = [down EXCEPT ![c] = <<>>]
    /\ UNCHANGED <<list, logins, asked, todo, records, view, denied>>

\* A fetched or pushed list.  The answer to a fetch that has timed out counts
\* like any other: the tracker has not forgotten the request.
DeviceIdsArrive(c) ==
    /\ down[c] # <<>> /\ Head(down[c]).op \in {"answer", "push"} /\ todo[c] = None
    /\ ProcessIncomingDeviceIds(c, Head(down[c]).list)
    /\ asked' = IF Head(down[c]).op = "push" THEN asked
                ELSE [asked EXCEPT ![c] = @ \ {Head(down[c]).login}]
    /\ down' = [down EXCEPT ![c] = Tail(@)]
    /\ UNCHANGED <<list, online, logins, up, events, view>>

\* An own list that does not come, or comes as an error, counts as empty.
FetchTimesOut(c) ==
    /\ asked[c] # {} /\ todo[c] = None /\ events < MaxEvents
    /\ events' = events + 1
    /\ \E n \in asked[c] : asked' = [asked EXCEPT ![c] = @ \ {n}]
    /\ ProcessIncomingDeviceIds(c, {})
    /\ UNCHANGED <<list, online, logins, up, down, view>>

\* Faulty: the other devices are not published again.
PublishOwnDeviceId(c) ==
    /\ todo[c] # None
    /\ StoreDeviceIds(c, {c})
    /\ Ask(c, [op |-> "publish", list |-> {c}])
    /\ todo' = [todo EXCEPT ![c] = None]
    /\ denied' = denied \ {c}
    /\ UNCHANGED <<list, online, logins, asked, down, events, view>>

\* The second half of processIncomingDeviceIds: the list with this device on it
\* is stored and published.
PublishDeviceIds(c) ==
    /\ todo[c] # None
    /\ StoreDeviceIds(c, todo[c] \cup {c})
    /\ Ask(c, [op |-> "publish", list |-> todo[c] \cup {c}])
    /\ todo' = [todo EXCEPT ![c] = None]
    /\ denied' = denied \ {c}
    /\ UNCHANGED <<list, online, logins, asked, down, events, view>>

-----------------------------------------------------------------------------
\* removeDevice on device c: its record and session go at once, and the list is
\* fetched in order to take it off.  A device cannot remove itself.  (What others
\* do while they are not connected does not show here.)
RemoveDevice(c, d) ==
    /\ c # d /\ events < MaxEvents
    /\ IF c = Mine THEN view # None /\ view[d] # "none" ELSE c \in online
    /\ events' = events + 1
    /\ Ask(c, [op |-> "take", device |-> d])
    /\ IF c = Mine THEN /\ NewRecords([level EXCEPT ![d] = "none"])
                        /\ view' = [view EXCEPT ![d] = "none"]
                        /\ unlisted' = unlisted \ {d}
                   ELSE UNCHANGED <<level, distrusted, view, unlisted>>
    /\ UNCHANGED <<list, online, logins, asked, down, todo, seen, denied>>

\* The list for a removal has come: it is published without the device, and is
\* not stored.
RemoveFromList(c) ==
    /\ down[c] # <<>> /\ Head(down[c]).op = "taken" /\ todo[c] = None
    /\ Ask(c, [op |-> "removal", list |-> Head(down[c]).list \ {Head(down[c]).device}])
    /\ down' = [down EXCEPT ![c] = Tail(@)]
    /\ UNCHANGED <<list, online, logins, asked, todo, events, records, view, denied>>

\* The screen is opened on copies of the records whose key is known.  This
\* device is shown as trusted, whatever its record says.
OpenKeys ==
    /\ view = None /\ events < MaxEvents
    /\ events' = events + 1
    /\ \E shown \in SUBSET (Recorded(level) \ {Mine}) :
          view' = [d \in Device |-> IF d = Mine THEN "user"
                                    ELSE IF d \in shown THEN level[d] ELSE "none"]
    /\ UNCHANGED <<list, online, logins, asked, up, down, todo, records, denied>>

\* What the screen may show when the user has used the switches on it.
Switched(shown) ==
    {v \in [Device -> Level] : \A d \in Device : v[d] # shown[d] =>
        d # Mine /\ shown[d] # "none" /\ v[d] \in {"user", "untrusted"}}

\* saveButtonPressed: every device that is shown and has a record yet gets the
\* level that is shown.
Save ==
    /\ view # None
    /\ \E shown \in Switched(view) :
       LET saved == {d \in Recorded(level) : shown[d] # "none"} IN
       /\ level' = [d \in Device |-> IF d \in saved THEN shown[d] ELSE level[d]]
       /\ distrusted' = (distrusted \ {d \in saved : shown[d] \in TrustedLevel})
                            \cup {d \in saved : shown[d] = "untrusted"}
       /\ unlisted' = unlisted \cup {d \in saved \ seen : shown[d] \in TrustedLevel}
    /\ view' = None
    /\ UNCHANGED <<list, online, logins, asked, up, down, todo, events, seen, denied>>

CloseKeys ==
    /\ view # None /\ view' = None
    /\ UNCHANGED <<list, online, logins, asked, up, down, todo, events, records, denied>>

\* A session with a device that no list has named yet makes its key known.
KeyLearned(d) ==
    /\ level[d] = "none" /\ d # Mine
    /\ NewRecords(SaveIdentity(level, d))
    /\ unlisted' = IF Recorded(level) = {} THEN unlisted \cup ({d} \ seen) ELSE unlisted
    /\ UNCHANGED <<list, online, logins, asked, up, down, todo, events, view, denied, seen>>

-----------------------------------------------------------------------------
\* The server handles the next request of device c.  A published list replaces
\* the one it has and is pushed to everybody.
ServerAnswers(c) ==
    /\ up[c] # <<>>
    /\ up' = [up EXCEPT ![c] = Tail(@)]
    /\ LET r == Head(up[c]) IN
       \/ /\ r.op = "fetch"
          /\ down' = [down EXCEPT ![c] =
                        Append(@, [op |-> "answer", login |-> r.login, list |-> list])]
          /\ UNCHANGED list
       \/ /\ r.op = "take"
          /\ down' = [down EXCEPT ![c] =
                        Append(@, [op |-> "taken", device |-> r.device, list |-> list])]
          /\ UNCHANGED list
       \/ /\ r.op \in {"publish", "removal"}
          /\ list' = r.list
          /\ down' = [d \in Device |-> IF d \in online
                        THEN Append(down[d], [op |-> "push", list |-> r.list]) ELSE down[d]]
    /\ UNCHANGED <<online, logins, asked, todo, events, records, view, denied>>

\* It may answer with an error, which the client only logs; but an error counts
\* as an empty list if it was the own list that was fetched.
ServerRefuses(c) ==
    /\ up[c] # <<>> /\ events < MaxEvents
    /\ events' = events + 1
    /\ up' = [up EXCEPT ![c] = Tail(@)]
    /\ LET r == Head(up[c]) IN
       /\ down' = IF r.op = "fetch"
                  THEN [down EXCEPT ![c] =
                          Append(@, [op |-> "answer", login |-> r.login, list |-> {}])]
                  ELSE down
       /\ denied' = IF r.op = "publish" THEN denied \cup {c} ELSE denied
    /\ UNCHANGED <<list, online, logins, asked, todo, records, view>>

-----------------------------------------------------------------------------
Next ==
    \/ \E c \in Device :
          \/ Authenticate(c) \/ Disconnect(c)
          \/ DeviceIdsArrive(c) \/ FetchTimesOut(c) \/ PublishDeviceIds(c) \/ RemoveFromList(c)
          \/ ServerAnswers(c) \/ ServerRefuses(c)
    \/ \E c, d \in Device : RemoveDevice(c, d)
    \/ OpenKeys \/ Save \/ CloseKeys
    \/ \E d \in Device : KeyLearned(d)

Spec == Init /\ [][Next]_vars

\* What is on a connection arrives, and a queue runs what it has to.  Logins,
\* losses, timeouts and users owe nobody anything.
LiveSpec ==
    /\ Spec
    /\ \A c \in Device :
          /\ WF_vars(ServerAnswers(c)) /\ WF_vars(PublishDeviceIds(c))
          /\ WF_vars(DeviceIdsArrive(c) \/ RemoveFromList(c))

-----------------------------------------------------------------------------
(* Safety *)

\* What will have a device learn that it is off the list, or put it back.
ComesBack(c) ==
    \/ todo[c] # None
    \/ \E r \in Range(up[c]) : r.op = "fetch" \/ (r.op = "publish" /\ c \in r.list)
    \/ \E a \in Range(down[c]) : a.op \in {"answer", "push"} /\ c \notin a.list

\* A connected device that is off the list, whoever took it off, has something
\* under way that will put it back, unless the server refused its own list or it
\* had no bundle (processIncomingDeviceIds and xmppStreamDidAuthenticate).
OffListComesBack == \A c \in online : c \in list \/ c \in denied \/ ComesBack(c)

\* A connected device whose stored list is not the server's has something under
\* way that brings it one to store, unless the server refused its own or it had no
\* bundle: its turn to publish, a fetch or a publication of its own, or a list that
\* was answered or pushed (processIncomingDeviceIds and xmppStreamDidAuthenticate).
BehindCatchesUp ==
    Mine \in online =>
        \/ seen = list \/ Mine \in denied
        \/ todo[Mine] # None
        \/ \E r \in Range(up[Mine]) : r.op \in {"fetch", "publish"}
        \/ \E a \in Range(down[Mine]) : a.op \in {"answer", "push"}

\* What the user distrusted is not trusted again by any list, fetch, timeout or
\* message as long as its record lasts (storeDevices, saveIdentity).  A list that
\* is empty ends it: the record is deleted, and the opinion with it.
DistrustKept == \A d \in distrusted : level[d] \notin TrustedLevel

\* No key goes to a device that the last list lacks: lists, timeouts and logins
\* leave no trust behind.  There are two exceptions: a screen opened before that
\* list came and saved after it, and a device whose key came before any record
\* (storeDevices, saveIdentity and saveButtonPressed).
OffListUntrusted ==
    \A d \in Device \ seen : level[d] \in TrustedLevel => d \in unlisted

(* Liveness *)

\* Devices that stay connected end up on the list, however their publications
\* have overwritten each other (processIncomingDeviceIds).
AllListed == \A c \in Device : <>[](c \in online => c \in list \/ c \in denied)

\* What a connected device has stored in the end is the list the server has.
ListFollowed == <>[](Mine \in online => seen = list \/ Mine \in denied)

=============================================================================
