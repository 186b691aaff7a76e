------------------------------- MODULE Login -------------------------------
(* How an account goes online and offline (OTRXMPPManager.m,                 *)
(* OTRProtocolManager.m, OTRAppDelegate.m, XMPPReconnect.m): one account and *)
(* its stream, the app that comes and goes, and the threads they run on.     *)
(*                                                                           *)
(*   main    the app's delegate and the blocks of the main queue             *)
(*   work    the account's workQueue, on which the stream calls its delegate *)
(*   login   the global queue, on which the app logs its accounts in         *)
(*   trust   the queue on which the certificate pinning is asked             *)
(*                                                                           *)
(* A thread that sets loginStatus tells its observers before it goes on, and *)
(* one of them, protocolDidChange, needs the lock that main holds as long as *)
(* it waits for the accounts to disconnect.  The stream's own queue runs at  *)
(* once, and so does that of XMPPReconnect.                                  *)
EXTENDS Naturals, Integers, Sequences, SequencesExt

CONSTANTS
    Tor,          \* whether the account is used over Tor
    MaxDrops,     \* bound on what the network and the server do unasked
    MaxSwitches   \* bound on what the user and the system do to the app

ASSUME LoginAssumption ==
    /\ Tor \in BOOLEAN
    /\ MaxDrops \in Nat
    /\ MaxSwitches \in Nat

VARIABLES
    app,        \* applicationState
    task,       \* backgroundTask is under way
    fetch,      \* fetchTimer is set
    main,       \* where main is in disconnectAllAccountsSocketOnly
    mainQ,      \* blocks of the main queue
    group,      \* the dispatch group main waits for: entered less left
    observing,  \* the group's own observer of loginStatus is in place
    workQ,      \* callbacks and blocks of workQueue
    telling,    \* per thread, the observers of loginStatus it still has to tell
    status,     \* loginStatus
    wanted,     \* a login has been asked for
    login,      \* where connectUserInitiated is
    stream,     \* the stream's state
    authenticated,  \* its flag isAuthenticated
    closing,    \* its socket has been told to disconnect
    reconnect,  \* XMPPReconnect: shouldReconnect
    timer,      \* XMPPReconnect: its timer is set
    drops,
    switches

appVars == <<app, task, fetch>>
waitVars == <<main, group, observing>>
streamVars == <<stream, authenticated, closing, reconnect, timer>>
loginVars == <<wanted, login>>
bounds == <<drops, switches>>
vars == <<appVars, waitVars, mainQ, workQ, telling, status, loginVars,
          streamVars, bounds>>

Thread == {"main", "work", "login", "trust"}

\* "connected" stands for the statuses Connected, Securing and Secured.
LoginStatus == {"disconnected", "disconnecting", "connecting", "connected",
                "authenticating", "authenticated"}

\* "opened" is a socket without a stream yet, "distrusted" one whose
\* certificate has been refused, and "auth" lasts until a resource is bound.
StreamState == {"down", "connecting", "opened", "distrusted", "connected", "auth"}

Callback == {"socketDidConnect", "didConnect", "didDisconnect", "didAuthenticate",
             "didNotAuthenticate", "presence"}

IsDisconnected == stream = "down"
IsOnline == stream = "connected" /\ authenticated

TypeOK ==
    /\ app \in {"active", "background"}
    /\ task \in BOOLEAN /\ fetch \in BOOLEAN /\ observing \in BOOLEAN /\ wanted \in BOOLEAN
    /\ authenticated \in BOOLEAN /\ closing \in BOOLEAN
    /\ reconnect \in BOOLEAN /\ timer \in BOOLEAN
    /\ main \in {"free", "entered", "disconnecting", "waiting"}
    /\ mainQ \in Seq({"online", "date"})
    /\ group \in -1 .. 1
    /\ workQ \in Seq(Callback \cup {"send"})
    /\ telling \in [Thread -> SUBSET {"list", "wait"}]
    /\ status \in LoginStatus
    /\ login \in {"idle", "checked", "set", "authenticates", "connects"}
    /\ stream \in StreamState
    /\ drops \in 0 .. MaxDrops
    /\ switches \in 0 .. MaxSwitches

Init ==
    /\ app = "background"
    /\ task = FALSE /\ fetch = FALSE
    /\ main = "free" /\ mainQ = <<>> /\ group = 0 /\ observing = FALSE
    /\ workQ = <<>>
    /\ telling = [t \in Thread |-> {}]
    /\ status = "disconnected"
    /\ wanted = FALSE /\ login = "idle"
    /\ stream = "down" /\ authenticated = FALSE /\ closing = FALSE
    /\ reconnect = FALSE /\ timer = FALSE
    /\ drops = 0 /\ switches = 0
----------------------------------------------------------------------------
(* The status and its observers.                                             *)

\* setLoginStatus on the thread: the observers are told in any order.
SetStatus(thread, new) ==
    /\ status' = new
    /\ telling' = [telling EXCEPT ![thread] =
                       {"list"} \cup IF observing THEN {"wait"} ELSE {}]

\* Faulty: the accounts are counted without the lock.
ProtocolDidChangeUnlocked(thread) ==
    /\ "list" \in telling[thread]
    /\ telling' = [telling EXCEPT ![thread] = @ \ {"list"}]
    /\ UNCHANGED <<appVars, waitVars, mainQ, workQ, status, loginVars, streamVars, bounds>>

\* protocolDidChange counts the accounts with the manager's lock, which is
\* main's own while it waits.
ProtocolDidChange(thread) ==
    /\ "list" \in telling[thread]
    /\ thread = "main" \/ main = "free"
    /\ telling' = [telling EXCEPT ![thread] = @ \ {"list"}]
    /\ UNCHANGED <<appVars, waitVars, mainQ, workQ, status, loginVars, streamVars, bounds>>

\* The observer of disconnectAllAccountsSocketOnly leaves the group when the
\* status it reads, by now perhaps another thread's, is disconnected.
LeaveIfDisconnected(thread) ==
    /\ "wait" \in telling[thread]
    /\ group' = IF status = "disconnected" THEN group - 1 ELSE group
    /\ telling' = [telling EXCEPT ![thread] = @ \ {"wait"}]
    /\ UNCHANGED <<appVars, main, observing, mainQ, workQ, status, loginVars,
                   streamVars, bounds>>

\* A thread goes on when everyone has been told.
Told(thread) == telling[thread] = {}
----------------------------------------------------------------------------
(* The stream.                                                               *)

\* disconnect and disconnectAfterSending: XMPPReconnect, told of it, stops, and
\* the socket closes later.
Disconnect ==
    IF IsDisconnected THEN UNCHANGED streamVars
    ELSE /\ closing' = TRUE /\ reconnect' = FALSE /\ timer' = FALSE
         /\ UNCHANGED <<stream, authenticated>>

\* authenticateWithPassword, which only looks whether the stream is connected.
Authenticate ==
    /\ stream' = IF stream = "connected" THEN "auth" ELSE stream
    /\ UNCHANGED <<authenticated, closing, reconnect, timer>>

Connect ==
    /\ stream' = IF IsDisconnected THEN "connecting" ELSE stream
    /\ UNCHANGED <<authenticated, closing, reconnect, timer>>

\* A presence is sent, or fails to be: either way the delegate hears of it.
AfterPresence(queue) == Append(queue, "presence")

\* disconnect: the unavailable presence of goOffline waits for main, which is to
\* tell the date of the last interaction, and the stream does not.
GoOffline ==
    /\ mainQ' = Append(mainQ, "date")
    /\ Disconnect

\* goAway, on main's queue, and without effect over Tor.
GoAway(queue) == IF Tor THEN queue ELSE Append(queue, "date")

Unasked == drops < MaxDrops /\ drops' = drops + 1

SocketConnects ==
    /\ stream = "connecting" /\ ~closing
    /\ stream' = "opened"
    /\ workQ' = Append(workQ, "socketDidConnect")
    /\ UNCHANGED <<appVars, waitVars, mainQ, telling, status, loginVars, authenticated,
                   closing, reconnect, timer, bounds>>

\* The stream is secured, which needs the delegate's settings, and opened.
\* XMPPReconnect stops its timer but keeps shouldReconnect.
StreamConnects ==
    /\ stream = "opened" /\ ~closing
    /\ ~Contains(workQ, "socketDidConnect")
    /\ stream' = "connected" /\ timer' = FALSE
    /\ workQ' = Append(workQ, "didConnect")
    /\ UNCHANGED <<appVars, waitVars, mainQ, telling, status, loginVars, authenticated,
                   closing, reconnect, bounds>>

\* newTrust: a certificate that is not pinned puts the status down at once;
\* only then the socket is told.
NewTrust ==
    /\ stream = "opened" /\ ~closing
    /\ ~Contains(workQ, "socketDidConnect")
    /\ Told("trust") /\ Unasked
    /\ stream' = "distrusted"
    /\ SetStatus("trust", "disconnected")
    /\ UNCHANGED <<appVars, waitVars, mainQ, workQ, loginVars, authenticated, closing,
                   reconnect, timer, switches>>

TrustRefused ==
    /\ stream = "distrusted" /\ ~closing /\ Told("trust")
    /\ closing' = TRUE
    /\ UNCHANGED <<appVars, waitVars, mainQ, workQ, telling, status, loginVars, stream,
                   authenticated, reconnect, timer, bounds>>

Authenticates ==
    /\ stream = "auth" /\ ~closing
    /\ stream' = "connected" /\ authenticated' = TRUE
    /\ reconnect' = TRUE
    /\ workQ' = Append(workQ, "didAuthenticate")
    /\ UNCHANGED <<appVars, waitVars, mainQ, telling, status, loginVars, closing, timer,
                   bounds>>

AuthenticationFails ==
    /\ stream = "auth" /\ ~closing /\ Unasked
    /\ stream' = "connected"
    /\ workQ' = Append(workQ, "didNotAuthenticate")
    /\ UNCHANGED <<appVars, waitVars, mainQ, telling, status, loginVars, authenticated,
                   closing, reconnect, timer, switches>>

\* Faulty: only a connection that had got to be authenticated is made again.
SocketDisconnectsOnceOnline ==
    /\ ~IsDisconnected
    /\ \/ closing /\ UNCHANGED <<reconnect, drops>>
       \/ ~closing /\ Unasked /\ reconnect' \in {reconnect, FALSE}
    /\ stream' = "down" /\ authenticated' = FALSE /\ closing' = FALSE
    /\ timer' = (timer \/ (reconnect' /\ authenticated))
    /\ workQ' = Append(workQ, "didDisconnect")
    /\ UNCHANGED <<appVars, waitVars, mainQ, telling, status, loginVars, switches>>

\* socketDidDisconnect, after a call of disconnect or on the network's account;
\* a server that replaces the connection says so before.
SocketDisconnects ==
    /\ ~IsDisconnected
    /\ \/ closing /\ UNCHANGED <<reconnect, drops>>
       \/ ~closing /\ Unasked /\ reconnect' \in {reconnect, FALSE}
    /\ stream' = "down" /\ authenticated' = FALSE /\ closing' = FALSE
    /\ timer' = (timer \/ reconnect')
    /\ workQ' = Append(workQ, "didDisconnect")
    /\ UNCHANGED <<appVars, waitVars, mainQ, telling, status, loginVars, switches>>

\* XMPPReconnect's timer: it connects again, without a word to the account, or
\* aborts an attempt that takes longer than the timer.
Reconnects ==
    /\ timer /\ reconnect
    /\ \/ IsDisconnected /\ Connect /\ UNCHANGED drops
       \/ /\ stream \in {"connecting", "opened", "distrusted"} /\ ~closing /\ Unasked
          /\ closing' = TRUE
          /\ UNCHANGED <<stream, authenticated, reconnect, timer>>
    /\ UNCHANGED <<appVars, waitVars, mainQ, workQ, telling, status, loginVars, switches>>
----------------------------------------------------------------------------
(* The account's workQueue.                                                  *)

Callbacks(kind) ==
    /\ Told("work") /\ workQ # <<>> /\ Head(workQ) = kind

SocketDidConnect ==
    /\ Callbacks("socketDidConnect")
    /\ workQ' = Tail(workQ)
    /\ SetStatus("work", "connected")
    /\ UNCHANGED <<appVars, waitVars, mainQ, loginVars, streamVars, bounds>>

DidConnect ==
    /\ Callbacks("didConnect")
    /\ workQ' = Tail(workQ)
    /\ Authenticate
    /\ SetStatus("work", "authenticating")
    /\ UNCHANGED <<appVars, waitVars, mainQ, loginVars, bounds>>

DidAuthenticate ==
    /\ Callbacks("didAuthenticate")
    /\ workQ' = Tail(workQ)
    /\ SetStatus("work", "authenticated")
    /\ mainQ' = Append(mainQ, "online")
    /\ UNCHANGED <<appVars, waitVars, loginVars, streamVars, bounds>>

\* Faulty: the error is shown, and the connection kept.
DidNotAuthenticateStays ==
    /\ Callbacks("didNotAuthenticate")
    /\ workQ' = Tail(workQ)
    /\ UNCHANGED <<appVars, waitVars, mainQ, telling, status, loginVars, streamVars, bounds>>

DidNotAuthenticate ==
    /\ Callbacks("didNotAuthenticate")
    /\ workQ' = Tail(workQ)
    /\ GoOffline
    /\ UNCHANGED <<appVars, waitVars, telling, status, loginVars, bounds>>

DidDisconnect ==
    /\ Callbacks("didDisconnect")
    /\ workQ' = Tail(workQ)
    /\ SetStatus("work", "disconnected")
    /\ UNCHANGED <<appVars, waitVars, mainQ, loginVars, streamVars, bounds>>

\* The presence of goAway and goOffline, when main has told the date.
SendPresence ==
    /\ Callbacks("send")
    /\ workQ' = AfterPresence(Tail(workQ))
    /\ UNCHANGED <<appVars, waitVars, mainQ, telling, status, loginVars, streamVars, bounds>>

\* Faulty: the app that is back keeps its connection, and its status.
FinishDisconnectingInBackground ==
    /\ Callbacks("presence")
    /\ workQ' = Tail(workQ)
    /\ IF status = "disconnecting" /\ app = "background" THEN Disconnect
       ELSE UNCHANGED streamVars
    /\ UNCHANGED <<appVars, waitVars, mainQ, telling, status, loginVars, bounds>>

\* finishDisconnectingIfNeeded: any presence ends a connection that is to end.
FinishDisconnectingIfNeeded ==
    /\ Callbacks("presence")
    /\ workQ' = Tail(workQ)
    /\ IF status = "disconnecting" THEN Disconnect ELSE UNCHANGED streamVars
    /\ UNCHANGED <<appVars, waitVars, mainQ, telling, status, loginVars, bounds>>

Work ==
    \/ SocketDidConnect \/ DidConnect \/ DidAuthenticate \/ DidNotAuthenticate
    \/ DidDisconnect \/ SendPresence \/ FinishDisconnectingIfNeeded
----------------------------------------------------------------------------
(* connectUserInitiated on the global queue.                                 *)

\* A stream that is connected and authenticated only sends its presence again.
LoginChecks ==
    /\ wanted /\ login = "idle"
    /\ wanted' = FALSE
    /\ IF IsOnline THEN mainQ' = Append(mainQ, "online") /\ UNCHANGED login
       ELSE login' = "checked" /\ UNCHANGED mainQ
    /\ UNCHANGED <<appVars, waitVars, workQ, telling, status, streamVars, bounds>>

\* startConnection.  The stream's domain is the account's: an account that is
\* edited gets another manager.
LoginSetsConnecting ==
    /\ login = "checked"
    /\ login' = "set"
    /\ SetStatus("login", "connecting")
    /\ UNCHANGED <<appVars, waitVars, mainQ, workQ, wanted, streamVars, bounds>>

LoginLooks ==
    /\ login = "set" /\ Told("login")
    /\ login' = IF IsDisconnected THEN "connects" ELSE "authenticates"
    /\ UNCHANGED <<appVars, waitVars, mainQ, workQ, telling, status, wanted, streamVars,
                   bounds>>

LoginCalls ==
    /\ \/ login = "authenticates" /\ Authenticate
       \/ login = "connects" /\ Connect
    /\ login' = "idle"
    /\ UNCHANGED <<appVars, waitVars, mainQ, workQ, telling, status, wanted, bounds>>

LoginThread == LoginChecks \/ LoginSetsConnecting \/ LoginLooks \/ LoginCalls
----------------------------------------------------------------------------
(* main: the blocks of its queue, and the app's delegate.                    *)

\* goOnline: goActive sends its presence at once, goAway asks main for the date
\* first, and not over Tor.
GoOnline ==
    /\ main = "free" /\ mainQ # <<>> /\ Head(mainQ) = "online"
    /\ IF app = "active"
          THEN mainQ' = Tail(mainQ) /\ workQ' = AfterPresence(workQ)
          ELSE mainQ' = GoAway(Tail(mainQ)) /\ UNCHANGED workQ
    /\ UNCHANGED <<appVars, waitVars, telling, status, loginVars, streamVars, bounds>>

TellDate ==
    /\ main = "free" /\ mainQ # <<>> /\ Head(mainQ) = "date"
    /\ mainQ' = Tail(mainQ)
    /\ workQ' = Append(workQ, "send")
    /\ UNCHANGED <<appVars, waitVars, telling, status, loginVars, streamVars, bounds>>

Asked == main = "free" /\ switches < MaxSwitches /\ switches' = switches + 1

\* applicationDidBecomeActive.  Being inactive for a moment, in between, changes
\* nothing for the account and is left out.
BecomeActive ==
    /\ app = "background" /\ Asked
    /\ app' = "active" /\ task' = FALSE /\ fetch' = FALSE
    /\ wanted' = TRUE
    /\ UNCHANGED <<waitVars, mainQ, workQ, telling, status, login, streamVars, drops>>

EnterBackground ==
    /\ app = "active" /\ Asked
    /\ app' = "background" /\ task' = TRUE
    /\ mainQ' = GoAway(mainQ)
    /\ UNCHANGED <<fetch, waitVars, workQ, telling, status, loginVars, streamVars, drops>>

\* performFetch: the system wakes the app when its background task is over.
PerformFetch ==
    /\ app = "background" /\ ~task /\ Asked
    /\ fetch' = TRUE /\ wanted' = TRUE
    /\ UNCHANGED <<app, task, waitVars, mainQ, workQ, telling, status, login, streamVars,
                   drops>>

\* The message queue asks for a login when it has a message to send, and so does
\* the user's button; the button of an account that is online, or on its way, ends
\* the connection.
AskLogin ==
    /\ Asked /\ ~wanted
    /\ status # "authenticated"
    /\ wanted' = TRUE
    /\ UNCHANGED <<appVars, waitVars, mainQ, workQ, telling, status, login, streamVars,
                   drops>>

Logout ==
    /\ app = "active" /\ Asked
    /\ status \notin {"disconnected", "disconnecting"}
    /\ GoOffline
    /\ UNCHANGED <<appVars, waitVars, workQ, telling, status, loginVars, drops>>
----------------------------------------------------------------------------
(* disconnectAllAccountsSocketOnly on main, when the background task expires *)
(* or the fetch has had its time: main has the lock until it is done.        *)

BeginDisconnect ==
    /\ main = "free"
    /\ \/ task /\ task' = FALSE /\ UNCHANGED fetch
       \/ fetch /\ fetch' = FALSE /\ UNCHANGED task
    /\ main' = IF status = "disconnected" THEN "free" ELSE "entered"
    /\ UNCHANGED <<app, mainQ, group, observing, workQ, telling, status, loginVars,
                   streamVars, bounds>>

\* A status other than authenticated is waited for, but nothing is done about it.
Observe ==
    /\ main = "entered"
    /\ group' = group + 1 /\ observing' = TRUE
    /\ main' = IF status = "authenticated" THEN "disconnecting" ELSE "waiting"
    /\ UNCHANGED <<appVars, mainQ, workQ, telling, status, loginVars, streamVars, bounds>>

\* goAway needs main for the date, so its presence is not sent before main is
\* done waiting.
DisconnectSocketOnly ==
    /\ main = "disconnecting"
    /\ SetStatus("main", "disconnecting")
    /\ mainQ' = GoAway(mainQ)
    /\ main' = "waiting"
    /\ UNCHANGED <<appVars, group, observing, workQ, loginVars, streamVars, bounds>>

\* Faulty: one group serves for all waits.
WaitEndsKeepsGroup ==
    /\ main = "waiting" /\ Told("main")
    /\ main' = "free" /\ observing' = FALSE
    /\ telling' = [t \in Thread |-> telling[t] \ {"wait"}]
    /\ UNCHANGED <<appVars, group, mainQ, workQ, status, loginVars, streamVars, bounds>>

\* The wait ends with the group or with the time, which may be none at all.
WaitEnds ==
    /\ main = "waiting" /\ Told("main")
    /\ main' = "free" /\ group' = 0 /\ observing' = FALSE
    /\ telling' = [t \in Thread |-> telling[t] \ {"wait"}]
    /\ UNCHANGED <<appVars, mainQ, workQ, status, loginVars, streamVars, bounds>>

DisconnectAll == BeginDisconnect \/ Observe \/ DisconnectSocketOnly \/ WaitEnds
----------------------------------------------------------------------------
Observers == \E t \in Thread : ProtocolDidChange(t) \/ LeaveIfDisconnected(t)

Network ==
    \/ SocketConnects \/ StreamConnects \/ NewTrust \/ TrustRefused \/ Authenticates
    \/ AuthenticationFails \/ SocketDisconnects \/ Reconnects

AppDelegate ==
    \/ BecomeActive \/ EnterBackground \/ PerformFetch \/ AskLogin \/ Logout

\* Leaving a group that nobody is in ends the app.
Next ==
    /\ group >= 0
    /\ \/ Observers \/ Network \/ Work \/ LoginThread \/ GoOnline \/ TellDate
       \/ AppDelegate \/ DisconnectAll

Spec == Init /\ [][Next]_vars

\* What the app does by itself, what the server and the socket owe it, and the
\* timer.  The user, the system and a network that fails owe nothing.
App == Observers \/ Work \/ LoginThread \/ GoOnline \/ TellDate \/ DisconnectAll

Answers ==
    \/ SocketConnects \/ StreamConnects \/ TrustRefused \/ Authenticates
    \/ closing /\ SocketDisconnects

LiveSpec ==
    /\ Spec
    /\ WF_vars(App) /\ WF_vars(Answers) /\ WF_vars(IsDisconnected /\ Reconnects)
----------------------------------------------------------------------------
(* Properties.                                                               *)

Quiet ==
    /\ workQ = <<>> /\ \A t \in Thread : Told(t)
    /\ login = "idle" /\ main = "free"

\* Once every callback has been handled, the status the app shows agrees with
\* the stream, although three threads set it; the one that stays out of step is
\* disconnecting, set by main over a status it had read before.
StatusSettles ==
    Quiet =>
        /\ IsOnline /\ ~closing => status \in {"authenticated", "disconnecting"}
        /\ IsDisconnected => status \in {"disconnected", "disconnecting"}

\* From the moment an observer has left the group, which ends main's wait before
\* its time, until main goes on, the account is offline: neither a status nor the
\* stream says otherwise.  What took it down holds the account's queue, or waits
\* in it, so that a login may have begun meanwhile (connecting) but gets no
\* further than the socket.  (disconnecting is main's own, set over disconnected.)
EarlyEndIsOffline ==
    main \in {"disconnecting", "waiting"} /\ group = 0 =>
        /\ stream \notin {"connected", "auth"}
        /\ status \in {"disconnected", "connecting", "disconnecting"}

\* A connection lost by accident is made again, unless it has been told to end
\* or the server has replaced it (XMPPReconnect).
LossesAreMended == (IsDisconnected /\ reconnect) ~> (IsOnline \/ ~reconnect)

\* An account that is to go offline is not left online when there is nothing
\* more to do: the presence that ends its connection is sent in the end, although
\* main does not send it while it waits for that.  Over Tor it never is.
NoneLeftDisconnecting ==
    Quiet /\ mainQ = <<>> /\ status = "disconnecting" /\ ~Tor =>
        ~IsOnline \/ closing
=============================================================================
