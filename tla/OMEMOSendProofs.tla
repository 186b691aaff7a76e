--------------------------- MODULE OMEMOSendProofs ---------------------------
(***************************************************************************)
(* Proofs about OMEMOSend, for any messages, members, devices and lists.    *)
(*                                                                          *)
(* Types come first, with the fact that devices are read and bundles asked  *)
(* for their own party only (Owned).  Flow ties the stage of every           *)
(* preparation to its message, to the bundles it waits for and to what is    *)
(* in the work queue, where each has its turn once.  UnderWay gives every    *)
(* preparation that is not over the queue, the request or the block that     *)
(* will move it.  The lemmas about UnderWay speak of one preparation: a step *)
(* that leaves its stage alone has to leave it its mover (WayKept).          *)
(***************************************************************************)
EXTENDS OMEMOSend, QueueLemmas

-----------------------------------------------------------------------------
(* Preparations and their parties                                           *)

LEMMA PrepFacts ==
    /\ \A s \in Send : Preps(s) \subseteq Prep
    /\ \A s \in Send : \A c \in Preps(s) : c[1] = s
    /\ \A c \in Prep : c[1] \in Send /\ c \in Preps(c[1]) /\ PartyFor(c) \in Party
    /\ \A s \in Send : \A k \in 1 .. Len(BuddyKeys[s]) + 1 : <<s, k>> \in Preps(s)
    /\ \A c \in Prep : c # None /\ \A do \in {"ask", "remove"} : None # [do |-> do, prep |-> c]
<1>1. \A s \in Send : BuddyKeys[s] \in Seq(Party) /\ Len(BuddyKeys[s]) \in Nat
  BY SendConstants
<1>2. \A s \in Send : Preps(s) \subseteq Prep
  BY DEF Prep
<1>3. \A s \in Send : \A c \in Preps(s) : c[1] = s
  BY DEF Preps
<1>4. ASSUME NEW c \in Prep
      PROVE  c[1] \in Send /\ c \in Preps(c[1]) /\ PartyFor(c) \in Party /\ c # None
             /\ \A do \in {"ask", "remove"} : None # [do |-> do, prep |-> c]
  <2>1. PICK s \in Send : c \in {s} \X (1 .. Len(BuddyKeys[s]) + 1)
    BY DEF Prep, Preps
  <2>2. c[1] = s /\ c[2] \in 1 .. Len(BuddyKeys[s]) + 1 /\ c = <<c[1], c[2]>>
    BY <2>1
  <2>3. c \in Preps(c[1])
    BY <2>1, <2>2 DEF Preps
  <2>4. PartyFor(c) \in Party
    <3>1. CASE c[2] <= Len(BuddyKeys[c[1]])
      BY <1>1, <2>2, <3>1 DEF PartyFor
    <3>2. CASE ~ (c[2] <= Len(BuddyKeys[c[1]]))
      BY <3>2, SendConstants DEF PartyFor
    <3> QED BY <3>1, <3>2
  <2>5. c \in Send \X Nat
    BY <1>1, <2>2
  <2>6. \A do \in {"ask", "remove"} : None # [do |-> do, prep |-> c]
    BY <2>5, SendConstants
  <2> QED BY <2>6, <2>2, <2>3, <2>4, <2>5, SendConstants
<1>5. \A s \in Send : \A k \in 1 .. Len(BuddyKeys[s]) + 1 : <<s, k>> \in Preps(s)
  BY DEF Preps
<1> QED BY <1>2, <1>3, <1>4, <1>5

-----------------------------------------------------------------------------
(* Types                                                                    *)

Keys ==
    /\ level \in [Device -> Level] /\ keyed \subseteq Recorded(level)
    /\ session \in [Device -> {"none", "open", "deleted"}]
Progress ==
    /\ result \in [Send -> {"new", "preparing", "sent", "failed", "dropped"}]
    /\ stage \in [Prep -> Stages]
    /\ devices \in [Prep -> SUBSET Device] /\ known \in [Prep -> SUBSET Device]
    /\ waiting \in [Prep -> SUBSET Device]
    /\ pushes \in 0..MaxPushes /\ crashed \in BOOLEAN
    /\ refused \in [Prep -> SUBSET Device] /\ stranded \subseteq Prep
Tables ==
    /\ callbacks \in [Party -> Prep \cup {None}]
    /\ listIQs \subseteq Prep /\ bundleIQs \subseteq Prep \X Device
    /\ work \in {None} \cup [do : {"ask", "remove"}, prep : Prep]
    /\ module \in {None} \cup [do : {"call", "remove"}, party : Party, list : SUBSET Device]
Queued == workQ \in Seq(Items)

\* Devices are read for their party, and bundles asked for them, only.
Owned ==
    /\ \A c \in Prep : devices[c] \subseteq DevicesOf(PartyFor(c))
    /\ \A b \in bundleIQs : b[2] \in DevicesOf(PartyFor(b[1]))
    /\ \A x \in Range(workQ) : x.op = "bundle" => x.device \in DevicesOf(PartyFor(x.prep))

TypeInv == Keys /\ Progress /\ Tables /\ Queued /\ Owned

LEMMA Parts == TypeInv <=> TypeOK /\ Owned
BY DEF TypeInv, TypeOK, Keys, Progress, Tables, Queued

LEMMA PushBound == MaxPushes \in Nat
BY SendConstants

LEMMA TypeInit == Init => TypeInv
<1> SUFFICES ASSUME Init PROVE TypeInv
  OBVIOUS
<1>1. Keys
  BY DEF Init, Keys, Level, Recorded
<1>2. Progress
  <2>1. /\ result \in [Send -> {"new", "preparing", "sent", "failed", "dropped"}]
        /\ stage \in [Prep -> Stages]
    BY DEF Init, Stages
  <2>2. [c \in Prep |-> {}] \in [Prep -> SUBSET Device]
    OBVIOUS
  <2>3. 0 \in 0 .. MaxPushes
    BY PushBound
  <2>4. pushes \in 0 .. MaxPushes
    BY <2>3 DEF Init
  <2>5. crashed \in BOOLEAN
    BY DEF Init
  <2> QED BY <2>1, <2>2, <2>4, <2>5 DEF Init, Progress
<1>3. Tables
  BY DEF Init, Tables
<1>4. Queued /\ Owned
  BY DEF Init, Queued, Owned, Range
<1> QED BY <1>1, <1>2, <1>3, <1>4 DEF TypeInv

\* The key of a device is saved: every record stays, and the device has one.
LEMMA RecordSaved ==
    ASSUME Keys, NEW p \in Party, NEW d \in DevicesOf(p), level' = SaveRecord(p, d),
           keyed' = keyed \cup {d}, session' = [session EXCEPT ![d] = "open"]
    PROVE  Keys'
<1> DEFINE lev == [e \in DevicesOf(p) |-> level[e]]
<1>1. lev \in [DevicesOf(p) -> Level] /\ DevicesOf(p) \subseteq Device
  BY DEF Keys, DevicesOf
<1> DEFINE saved == SaveIdentity(lev, d)
<1>2. /\ saved \in [DevicesOf(p) -> Level] /\ saved[d] # "none"
      /\ \A e \in DevicesOf(p) : lev[e] # "none" => saved[e] # "none"
  <2>1. CASE lev[d] # "none"
    BY <1>1, <2>1 DEF SaveIdentity
  <2>2. CASE lev[d] = "none"
    <3>1. PICK new \in {"tofu", "new"} : saved = [lev EXCEPT ![d] = new]
      BY <2>2 DEF SaveIdentity
    <3> HIDE DEF saved, lev
    <3> QED BY <1>1, <3>1 DEF Level
  <2> QED BY <2>1, <2>2
<1>3. level' = [e \in Device |-> IF PartyOf[e] = p THEN saved[e] ELSE level[e]]
  BY DEF SaveRecord
<1>4. \A e \in DevicesOf(p) : lev[e] = level[e]
  OBVIOUS
<1> HIDE DEF saved, lev
<1>5. level' \in [Device -> Level] /\ level'[d] # "none"
      /\ \A e \in Device : level[e] # "none" => level'[e] # "none"
  BY <1>2, <1>3, <1>4 DEF Keys, DevicesOf
<1>6. keyed' \subseteq Recorded(level')
  BY <1>1, <1>5 DEF Keys, Recorded
<1> QED BY <1>1, <1>5, <1>6 DEF Keys

\* A device list is stored: a device that loses its record loses its key.
LEMMA ListStored ==
    ASSUME Keys, Tables, NEW p \in Party, NEW L \in SUBSET Device, StoreList(p, L),
           session' = session
    PROVE  Keys' /\ module' = [do |-> "call", party |-> p, list |-> L]
<1> DEFINE lev == [d \in DevicesOf(p) |-> level[d]]
           stored == StoreDevices(lev, L)
<1>1. lev \in [DevicesOf(p) -> Level] /\ DevicesOf(p) \subseteq Device
  BY DEF Keys, DevicesOf
<1>2. stored \in [DevicesOf(p) -> Level]
  BY <1>1 DEF StoreDevices, Level
<1>3. level' = [d \in Device |-> IF PartyOf[d] = p THEN stored[d] ELSE level[d]]
      /\ keyed' = {d \in keyed : PartyOf[d] = p => stored[d] # "none"}
      /\ module' = [do |-> "call", party |-> p, list |-> L]
  BY DEF StoreList
<1> HIDE DEF stored
<1>4. level' \in [Device -> Level] /\ keyed' \subseteq Recorded(level')
  BY <1>2, <1>3 DEF Keys, Recorded, DevicesOf
<1> QED BY <1>3, <1>4 DEF Keys

LEMMA NextListKeeps ==
    ASSUME Keys, Tables, NEW p \in Party, NEW L \in SUBSET Device, NextList(p, L),
           session' = session
    PROVE  /\ Keys'
           /\ module' \in {None} \cup [do : {"call"}, party : {p}, list : SUBSET Device]
<1>1. CASE p = Me /\ Mine \notin L
  <2>1. L \cup {Mine} \in SUBSET Device
    BY SendConstants
  <2> QED BY <1>1, <2>1, ListStored DEF NextList
<1>2. CASE ~ (p = Me /\ Mine \notin L)
  BY <1>2 DEF NextList, Keys
<1> QED BY <1>1, <1>2

-----------------------------------------------------------------------------
(* The work queue                                                           *)

\* A preparation comes up once, first as "prepare" and then perhaps as "listed";
\* so does a message that is to be encrypted.
Turn(x)  == x.op \in {"prepare", "listed", "encrypt"}
Once(q)  == \A i, j \in DOMAIN q : Turn(q[i]) /\ q[i] = q[j] => i = j

LEMMA OnceAppended ==
    ASSUME NEW q \in Seq(Items), NEW x \in Items, Once(q),
           Turn(x) => \A k \in DOMAIN q : q[k] # x
    PROVE  Once(Append(q, x))
<1> DEFINE r == Append(q, x)
<1>1. /\ DOMAIN r = DOMAIN q \cup {Len(q) + 1}
      /\ r[Len(q) + 1] = x /\ \A k \in DOMAIN q : r[k] = q[k]
  BY Appended
<1> HIDE DEF r
<1>2. Once(r)
  BY <1>1 DEF Once
<1> QED BY <1>2 DEF r

LEMMA OnceTaken ==
    ASSUME NEW q \in Seq(Items), q # <<>>, Once(q)
    PROVE  /\ Once(Tail(q))
           /\ Turn(Head(q)) => \A k \in DOMAIN Tail(q) : Tail(q)[k] # Head(q)
<1>1. /\ 1 \in DOMAIN q /\ Head(q) = q[1]
      /\ \A k \in DOMAIN Tail(q) : k + 1 \in DOMAIN q /\ Tail(q)[k] = q[k + 1]
      /\ DOMAIN Tail(q) \subseteq Nat \ {0}
  BY HeadTaken
<1>2. Once(Tail(q))
  <2> SUFFICES ASSUME NEW i \in DOMAIN Tail(q), NEW j \in DOMAIN Tail(q),
                      Turn(Tail(q)[i]), Tail(q)[i] = Tail(q)[j]
               PROVE  i = j
    BY DEF Once
  <2>1. i + 1 = j + 1
    BY <1>1 DEF Once
  <2> QED BY <1>1, <2>1
<1>3. ASSUME Turn(Head(q)), NEW k \in DOMAIN Tail(q) PROVE Tail(q)[k] # Head(q)
  <2>1. k + 1 # 1
    BY <1>1
  <2> QED BY <1>1, <1>3, <2>1 DEF Once
<1> QED BY <1>2, <1>3

LEMMA OnceSent ==
    ASSUME NEW q \in Seq(Items), NEW t \in Seq(Items), Once(q), Once(t),
           \A i \in DOMAIN q, j \in DOMAIN t : Turn(q[i]) => q[i] # t[j]
    PROVE  Once(q \o t)
<1>1. /\ \A k \in DOMAIN q : (q \o t)[k] = q[k]
      /\ \A k \in DOMAIN (q \o t) : k \in DOMAIN q \/
             (k - Len(q) \in DOMAIN t /\ (q \o t)[k] = t[k - Len(q)])
      /\ DOMAIN (q \o t) \subseteq Nat /\ Len(q) \in Nat
  OBVIOUS
<1> SUFFICES ASSUME NEW i \in DOMAIN (q \o t), NEW j \in DOMAIN (q \o t),
                    Turn((q \o t)[i]), (q \o t)[i] = (q \o t)[j]
             PROVE  i = j
  BY DEF Once
<1>2. CASE i \in DOMAIN q /\ j \in DOMAIN q
  BY <1>1, <1>2 DEF Once
<1>3. CASE i \in DOMAIN q /\ j \notin DOMAIN q
  BY <1>1, <1>3
<1>4. CASE i \notin DOMAIN q /\ j \in DOMAIN q
  BY <1>1, <1>4
<1>5. CASE i \notin DOMAIN q /\ j \notin DOMAIN q
  <2>1. i - Len(q) = j - Len(q)
    BY <1>1, <1>5 DEF Once
  <2> QED BY <1>1, <2>1
<1> QED BY <1>2, <1>3, <1>4, <1>5
LEMMA ItemFacts ==
    \A x \in Items :
       /\ x.op \in {"prepare", "listed"} => x.prep \in Prep /\ x = [op |-> x.op, prep |-> x.prep]
       /\ x.op = "listFailed" => x.party \in Party
       /\ x.op = "bundle" => x.prep \in Prep /\ x.device \in Device /\ x.ok \in BOOLEAN
       /\ x.op = "encrypt" => x.send \in Send /\ x = [op |-> "encrypt", send |-> x.send]
BY DEF Items

\* The block that the work queue runs, and what it leaves behind.
LEMMA BlockTaken ==
    ASSUME Queued, workQ # <<>>
    PROVE  /\ Head(workQ) \in Items /\ Tail(workQ) \in Seq(Items)
           /\ Range(workQ) = {Head(workQ)} \cup Range(Tail(workQ))
BY HeadTaken, RangeTaken DEF Queued

\* The preparations that a message sends to the work queue.
Prepares(s) == [k \in 1 .. Len(BuddyKeys[s]) + 1 |-> [op |-> "prepare", prep |-> <<s, k>>]]

LEMMA PreparesSent ==
    ASSUME NEW s \in Send
    PROVE  /\ Prepares(s) \in Seq(Items) /\ Once(Prepares(s))
           /\ \A x \in Range(Prepares(s)) :
                 x.op = "prepare" /\ x.prep \in Prep /\ x.prep[1] = s
<1> DEFINE n == Len(BuddyKeys[s]) + 1
           t == Prepares(s)
<1>1. n \in Nat
  BY SendConstants
<1>2. \A k \in 1 .. n : <<s, k>> \in Prep
  BY PrepFacts
<1>3. /\ DOMAIN t = 1 .. n
      /\ \A k \in 1 .. n : t[k] = [op |-> "prepare", prep |-> <<s, k>>]
  BY DEF Prepares
<1>4. \A k \in 1 .. n : /\ t[k] \in Items /\ t[k].op = "prepare"
                        /\ t[k].prep \in Prep /\ t[k].prep[1] = s /\ t[k].prep[2] = k
  <2> HIDE DEF n, t
  <2>1. \A k \in 1 .. n : t[k].op = "prepare" /\ t[k].prep = <<s, k>>
    BY <1>3
  <2>2. \A k \in 1 .. n : [op |-> "prepare", prep |-> <<s, k>>] \in Items
    BY <1>2 DEF Items
  <2> QED BY <1>2, <1>3, <2>1, <2>2
<1>5. t \in [1 .. n -> Items]
  <2>1. \A k \in 1 .. n : [op |-> "prepare", prep |-> <<s, k>>] \in Items
    BY <1>2 DEF Items
  <2> HIDE DEF n
  <2>2. t = [k \in 1 .. n |-> [op |-> "prepare", prep |-> <<s, k>>]]
    BY DEF Prepares, n
  <2> HIDE DEF t
  <2> QED BY <2>1, <2>2
<1> HIDE DEF n, t
<1>6. t \in Seq(Items)
  BY <1>1, <1>4, <1>5
<1>7. Once(t)
  BY <1>3, <1>4 DEF Once
<1>8. \A x \in Range(t) : x.op = "prepare" /\ x.prep \in Prep /\ x.prep[1] = s
  BY <1>3, <1>4 DEF Range
<1> QED BY <1>6, <1>7, <1>8 DEF t

-----------------------------------------------------------------------------
(* Type correctness                                                         *)

\* The helpers of several handlers.
LEMMA BundleFetchKeeps ==
    ASSUME Progress, Tables, Owned, NEW c \in Prep, NEW ds \in SUBSET DevicesOf(PartyFor(c)),
           NEW ks, BundleFetch(c, ds, ks), known' \in [Prep -> SUBSET Device],
           UNCHANGED <<result, pushes, crashed, refused>>, stranded' = stranded,
           UNCHANGED <<callbacks, listIQs, work, module>>, Range(workQ') \subseteq Range(workQ)
    PROVE  Progress' /\ Tables' /\ Owned'
<1>1. Needed(ds, ks) \subseteq ds /\ ds \subseteq Device
  BY DEF Needed, DevicesOf
<1>2. /\ devices' = [devices EXCEPT ![c] = ds]
      /\ waiting' = [waiting EXCEPT ![c] = Needed(ds, ks)]
      /\ bundleIQs' = bundleIQs \cup ({c} \X Needed(ds, ks))
      /\ stage' = [stage EXCEPT ![c] = IF Needed(ds, ks) = {} THEN "ready" ELSE "fetching"]
  BY DEF BundleFetch
<1>3. Progress'
  BY <1>1, <1>2 DEF Progress, Stages
<1>4. Tables'
  BY <1>1, <1>2 DEF Tables
<1>5. Owned'
  BY <1>1, <1>2 DEF Owned, Progress
<1> QED BY <1>3, <1>4, <1>5

LEMMA CallKeeps ==
    ASSUME Progress, Queued, NEW c \in Prep, NEW q \in Seq(Items), CallListBlock(c, q)
    PROVE  /\ stage' \in [Prep -> Stages] /\ crashed' \in BOOLEAN
           /\ workQ' \in Seq(Items)
           /\ \A x \in Range(workQ') : x \in Range(q) \/ x = [op |-> "listed", prep |-> c]
<1>1. [op |-> "listed", prep |-> c] \in Items
  BY DEF Items
<1>2. /\ Append(q, [op |-> "listed", prep |-> c]) \in Seq(Items)
      /\ Range(Append(q, [op |-> "listed", prep |-> c]))
            = Range(q) \cup {[op |-> "listed", prep |-> c]}
  BY <1>1, Appended, RangeAppended
<1>3. CASE stage[c] = "listing"
  BY <1>2, <1>3 DEF CallListBlock, Progress, Stages
<1>4. CASE stage[c] # "listing"
  BY <1>4 DEF CallListBlock, Progress
<1> QED BY <1>3, <1>4
LEMMA TypeNext == ASSUME TypeInv, [Next]_vars PROVE TypeInv'
<1>0. Keys /\ Progress /\ Tables /\ Queued /\ Owned
  BY DEF TypeInv
<1> SUFFICES Keys' /\ Progress' /\ Tables' /\ Queued' /\ Owned'
  BY DEF TypeInv
<1>1. ASSUME NEW s \in Send, EncryptAndSendMessage(s)
      PROVE  Keys' /\ Progress' /\ Tables' /\ Queued' /\ Owned'
  <2>1. Keys' /\ Tables'
    BY <1>0, <1>1 DEF EncryptAndSendMessage, Keys, Tables
  <2>2. CASE BuddyKeys[s] = <<>>
    BY <1>0, <1>1, <2>1, <2>2 DEF EncryptAndSendMessage, Progress, Queued, Owned
  <2>3. CASE BuddyKeys[s] # <<>>
    <3> DEFINE t == Prepares(s)
    <3>2. t \in Seq(Items) /\ \A x \in Range(t) : x.op = "prepare"
      BY PreparesSent DEF Prepares
    <3>3. /\ workQ' = workQ \o t
          /\ devices' = [c \in Prep |-> IF c[1] = s THEN Stored(PartyFor(c)) ELSE devices[c]]
          /\ stage' = [c \in Prep |-> IF c[1] = s THEN "queued" ELSE stage[c]]
          /\ result' = [result EXCEPT ![s] = "preparing"]
      BY <1>1, <2>3 DEF EncryptAndSendMessage, Prepares
    <3> HIDE DEF t
    <3>4. Queued' /\ \A x \in Range(workQ') : x \in Range(workQ) \/ x.op = "prepare"
      BY <1>0, <3>2, <3>3, SentAfter, RangeSent DEF Queued
    <3>5. \A c \in Prep : Stored(PartyFor(c)) \subseteq DevicesOf(PartyFor(c))
      BY DEF Stored
    <3>6. Owned'
      BY <1>0, <1>1, <3>3, <3>4, <3>5 DEF EncryptAndSendMessage, Owned
    <3>7. Progress'
      BY <1>0, <1>1, <3>3, <3>5 DEF EncryptAndSendMessage, Progress, Stages, DevicesOf
    <3> QED BY <2>1, <3>4, <3>6, <3>7
  <2> QED BY <2>2, <2>3
<1>2. ASSUME PrepareSession PROVE Keys' /\ Progress' /\ Tables' /\ Queued' /\ Owned'
  <2> DEFINE c == Head(workQ).prep
  <2>1. /\ c \in Prep /\ workQ' \in Seq(Items) /\ Range(workQ') \subseteq Range(workQ)
    BY <1>0, <1>2, BlockTaken, ItemFacts DEF PrepareSession, WorkQueueFree
  <2>2. Keys' /\ Queued'
    BY <1>0, <1>2, <2>1 DEF PrepareSession, Keys, Queued
  <2>3. known' \in [Prep -> SUBSET Device]
    BY <1>0, <1>2 DEF PrepareSession, Progress
  <2>4. CASE devices[c] = {}
    <3>1. /\ callbacks' = [callbacks EXCEPT ![PartyFor(c)] = c]
          /\ stranded' = stranded \cup Waiting(PartyFor(c))
          /\ stage' = [stage EXCEPT ![c] = "listing"]
          /\ work' = [do |-> "ask", prep |-> c]
          /\ UNCHANGED <<devices, waiting, bundleIQs, result, listIQs, module, pushes,
                         crashed, refused>>
      BY <1>2, <2>4 DEF PrepareSession, DeviceFetch
    <3>2. Progress'
      BY <1>0, <2>1, <2>3, <3>1 DEF Progress, Stages, Waiting
    <3>3. Tables'
      BY <1>0, <2>1, <3>1 DEF Tables
    <3>4. Owned'
      BY <1>0, <2>1, <3>1 DEF Owned
    <3> QED BY <2>2, <3>2, <3>3, <3>4
  <2>5. CASE devices[c] # {}
    <3>1. devices[c] \in SUBSET DevicesOf(PartyFor(c))
      BY <1>0, <2>1 DEF Owned
    <3>2. /\ BundleFetch(c, devices[c], known[c])
          /\ UNCHANGED <<result, pushes, crashed, refused, stranded, callbacks, listIQs,
                         work, module>>
      BY <1>2, <2>5 DEF PrepareSession
    <3> HIDE DEF c
    <3> QED BY <1>0, <2>1, <2>2, <2>3, <3>1, <3>2, BundleFetchKeeps
  <2> QED BY <2>4, <2>5
<1>3. ASSUME FetchDeviceIds PROVE Keys' /\ Progress' /\ Tables' /\ Queued' /\ Owned'
  BY <1>0, <1>3 DEF FetchDeviceIds, Keys, Progress, Tables, Queued, Owned
<1>4. ASSUME DevicesFetched PROVE Keys' /\ Progress' /\ Tables' /\ Queued' /\ Owned'
  <2> DEFINE c == Head(workQ).prep
  <2>1. /\ c \in Prep /\ workQ' \in Seq(Items) /\ Range(workQ') \subseteq Range(workQ)
    BY <1>0, <1>4, BlockTaken, ItemFacts DEF DevicesFetched, WorkQueueFree
  <2>2. Keys' /\ Queued'
    BY <1>0, <1>4, <2>1 DEF DevicesFetched, Keys, Queued
  <2>3. Stored(PartyFor(c)) \in SUBSET DevicesOf(PartyFor(c))
    BY DEF Stored
  <2>4. /\ BundleFetch(c, Stored(PartyFor(c)), keyed)
        /\ UNCHANGED <<result, pushes, crashed, refused, stranded, callbacks, listIQs,
                       work, module>>
        /\ known' \in [Prep -> SUBSET Device]
    BY <1>0, <1>4 DEF DevicesFetched, Progress
  <2> HIDE DEF c
  <2> QED BY <1>0, <2>1, <2>2, <2>3, <2>4, BundleFetchKeeps
<1>5. ASSUME FailedToFetchDeviceIds PROVE Keys' /\ Progress' /\ Tables' /\ Queued' /\ Owned'
  <2> DEFINE p == Head(workQ).party
             c == callbacks[p]
  <2>1. /\ p \in Party /\ Tail(workQ) \in Seq(Items) /\ Range(Tail(workQ)) \subseteq Range(workQ)
        /\ UNCHANGED <<level, keyed, session, result, devices, known, waiting, callbacks, listIQs,
                       bundleIQs, module, pushes, refused, stranded>>
    BY <1>0, <1>5, BlockTaken, ItemFacts DEF FailedToFetchDeviceIds, WorkQueueFree
  <2>2. CASE c = None
    <3>1. workQ' = Tail(workQ) /\ UNCHANGED <<stage, work, crashed>>
      BY <1>5, <2>2 DEF FailedToFetchDeviceIds
    <3> QED BY <1>0, <2>1, <3>1 DEF Keys, Progress, Tables, Queued, Owned
  <2>3. CASE c # None
    <3>1. CallListBlock(c, Tail(workQ)) /\ work' = [do |-> "remove", prep |-> c]
      BY <1>5, <2>3 DEF FailedToFetchDeviceIds
    <3>2. c \in Prep
      BY <1>0, <2>1, <2>3 DEF Tables
    <3> HIDE DEF c
    <3>3. /\ stage' \in [Prep -> Stages] /\ crashed' \in BOOLEAN /\ workQ' \in Seq(Items)
          /\ \A x \in Range(workQ') : x \in Range(workQ) \/ x = [op |-> "listed", prep |-> c]
      BY <1>0, <2>1, <3>1, <3>2, CallKeeps
    <3>4. Keys' /\ Tables' /\ Queued'
      BY <1>0, <2>1, <3>1, <3>2, <3>3 DEF Keys, Tables, Queued
    <3>5. Progress'
      BY <1>0, <2>1, <3>3 DEF Progress
    <3>6. Owned'
      BY <1>0, <2>1, <3>3 DEF Owned
    <3> QED BY <3>4, <3>5, <3>6
  <2> QED BY <2>2, <2>3
<1>6. ASSUME WorkRemovesListBlock PROVE Keys' /\ Progress' /\ Tables' /\ Queued' /\ Owned'
  BY <1>0, <1>6, PrepFacts
  DEF WorkRemovesListBlock, RemoveListBlock, Waiting, Keys, Progress, Tables, Queued, Owned
<1>7. ASSUME BundleAnswered PROVE Keys' /\ Progress' /\ Tables' /\ Queued' /\ Owned'
  <2> DEFINE c == Head(workQ).prep
             d == Head(workQ).device
  <2>1. /\ c \in Prep /\ d \in DevicesOf(PartyFor(c)) /\ d \in Device /\ PartyFor(c) \in Party
        /\ workQ' \in Seq(Items) /\ Range(workQ') \subseteq Range(workQ)
    BY <1>0, <1>7, BlockTaken, ItemFacts, PrepFacts DEF BundleAnswered, WorkQueueFree, Owned
  <2>2. /\ \/ /\ session' = [session EXCEPT ![d] = "open"]
              /\ level' = SaveRecord(PartyFor(c), d) /\ keyed' = keyed \cup {d}
              /\ UNCHANGED refused
           \/ /\ refused' = [refused EXCEPT ![c] = @ \cup {d}]
              /\ UNCHANGED <<session, level, keyed>>
        /\ waiting' = [waiting EXCEPT ![c] = @ \ {d}]
        /\ stage' = IF waiting[c] = {d} THEN [stage EXCEPT ![c] = "ready"] ELSE stage
        /\ UNCHANGED <<result, devices, known, callbacks, listIQs, bundleIQs, work, module, pushes,
                       crashed, stranded>>
    BY <1>7 DEF BundleAnswered
  <2> HIDE DEF c, d
  <2>3. Keys'
    BY <1>0, <2>1, <2>2, RecordSaved DEF Keys
  <2>4. Progress'
    BY <1>0, <2>1, <2>2 DEF Progress, Stages
  <2>5. Tables' /\ Queued' /\ Owned'
    BY <1>0, <2>1, <2>2 DEF Tables, Queued, Owned
  <2> QED BY <2>3, <2>4, <2>5
<1>8. ASSUME Encrypt PROVE Keys' /\ Progress' /\ Tables' /\ Queued' /\ Owned'
  <2>1. /\ Head(workQ).send \in Send
        /\ workQ' \in Seq(Items) /\ Range(workQ') \subseteq Range(workQ)
    BY <1>0, <1>8, BlockTaken, ItemFacts DEF Encrypt, WorkQueueFree
  <2>2. PICK r \in {"sent", "failed", "dropped"} :
           result' = [result EXCEPT ![Head(workQ).send] = r]
    BY <1>8 DEF Encrypt
  <2>3. Progress'
    BY <1>0, <1>8, <2>1, <2>2 DEF Encrypt, Progress
  <2> QED BY <1>0, <1>8, <2>1, <2>3 DEF Encrypt, Keys, Tables, Queued, Owned
<1>9. ASSUME NEW c \in Prep, LeaveGroup(c)
      PROVE  Keys' /\ Progress' /\ Tables' /\ Queued' /\ Owned'
  <2> DEFINE e == [op |-> "encrypt", send |-> c[1]]
  <2>1. e \in Items /\ e.op # "bundle"
    BY PrepFacts DEF Items
  <2>2. workQ' \in {workQ, Append(workQ, e)}
    BY <1>9 DEF LeaveGroup
  <2> HIDE DEF e
  <2>3. Queued' /\ Range(workQ') \subseteq Range(workQ) \cup {e}
    <3>1. Append(workQ, e) \in Seq(Items) /\ Range(Append(workQ, e)) = Range(workQ) \cup {e}
      BY <1>0, <2>1, Appended, RangeAppended DEF Queued
    <3> QED BY <1>0, <2>2, <3>1 DEF Queued
  <2>4. Owned'
    BY <1>0, <1>9, <2>1, <2>3 DEF LeaveGroup, Owned
  <2> QED BY <1>0, <1>9, <2>3, <2>4 DEF LeaveGroup, Keys, Progress, Tables, Stages
<1>10. ASSUME NEW c \in Prep, DeviceIdsAnswered(c)
       PROVE  Keys' /\ Progress' /\ Tables' /\ Queued' /\ Owned'
  <2>1. /\ PartyFor(c) \in Party /\ listIQs' = listIQs \ {c}
        /\ UNCHANGED <<session, result, stage, devices, known, waiting, callbacks, bundleIQs, work,
                       pushes, crashed, refused, stranded>>
    BY <1>10, PrepFacts DEF DeviceIdsAnswered
  <2>2. Progress'
    BY <1>0, <2>1 DEF Progress
  <2>3. CASE /\ \E L \in Lists[PartyFor(c)] \cup {{}} : StoreList(PartyFor(c), L)
             /\ UNCHANGED workQ
    <3>0. Lists[PartyFor(c)] \cup {{}} \subseteq SUBSET Device
      BY <2>1, SendConstants
    <3>1. PICK L \in SUBSET Device : StoreList(PartyFor(c), L)
      BY <2>3, <3>0
    <3>2. Keys' /\ module' = [do |-> "call", party |-> PartyFor(c), list |-> L]
      BY <1>0, <2>1, <3>1, ListStored
    <3>3. Tables'
      BY <1>0, <2>1, <3>2 DEF Tables
    <3> QED BY <1>0, <2>1, <2>2, <2>3, <3>2, <3>3 DEF Queued, Owned
  <2>4. CASE /\ workQ' = Append(workQ, [op |-> "listFailed", party |-> PartyFor(c)])
             /\ UNCHANGED <<level, keyed, module>>
    <3>1. [op |-> "listFailed", party |-> PartyFor(c)] \in Items
      BY <2>1 DEF Items
    <3>2. Queued' /\ Range(workQ') = Range(workQ) \cup {[op |-> "listFailed", party |-> PartyFor(c)]}
      BY <1>0, <2>4, <3>1, Appended, RangeAppended DEF Queued
    <3>3. Owned'
      BY <1>0, <2>1, <3>2 DEF Owned
    <3>4. Keys' /\ Tables'
      BY <1>0, <2>1, <2>4 DEF Keys, Tables
    <3> QED BY <2>2, <3>2, <3>3, <3>4
  <2> QED BY <1>10, <2>3, <2>4 DEF DeviceIdsAnswered
<1>11. ASSUME NEW p \in Party, DeviceListPushed(p)
       PROVE  Keys' /\ Progress' /\ Tables' /\ Queued' /\ Owned'
  <2>1. PICK L \in SUBSET Device : StoreList(p, L)
    BY <1>11, SendConstants DEF DeviceListPushed
  <2>2. UNCHANGED <<session, result, stage, devices, known, waiting, callbacks, listIQs,
                    bundleIQs, workQ, work, crashed, refused, stranded>>
    BY <1>11 DEF DeviceListPushed
  <2>3. Keys' /\ module' = [do |-> "call", party |-> p, list |-> L]
    BY <1>0, <2>1, <2>2, ListStored
  <2>4. pushes' \in 0 .. MaxPushes
    BY <1>0, <1>11, PushBound DEF DeviceListPushed, Progress
  <2>5. Progress'
    BY <1>0, <2>2, <2>4 DEF Progress
  <2>6. Tables'
    BY <1>0, <2>2, <2>3 DEF Tables
  <2> QED BY <1>0, <2>2, <2>3, <2>5, <2>6 DEF Queued, Owned
<1>12. ASSUME ModuleCallsListBlock PROVE Keys' /\ Progress' /\ Tables' /\ Queued' /\ Owned'
  <2> DEFINE p == module.party
             c == callbacks[p]
  <2>1. /\ p \in Party /\ module.list \in SUBSET Device
        /\ UNCHANGED <<session, result, devices, known, waiting, callbacks, listIQs, bundleIQs, work,
                       pushes, refused, stranded>>
    BY <1>0, <1>12 DEF ModuleCallsListBlock, Tables
  <2>2. CASE c = None
    <3>1. NextList(p, module.list) /\ UNCHANGED <<stage, workQ, crashed>>
      BY <1>12, <2>2 DEF ModuleCallsListBlock
    <3>2. Keys' /\ module' \in {None} \cup [do : {"call"}, party : {p}, list : SUBSET Device]
      BY <1>0, <2>1, <3>1, NextListKeeps
    <3>3. Tables'
      BY <1>0, <2>1, <3>2 DEF Tables
    <3> QED BY <1>0, <2>1, <3>1, <3>2, <3>3 DEF Progress, Queued, Owned
  <2>3. CASE c # None
    <3>1. /\ CallListBlock(c, workQ) /\ UNCHANGED <<level, keyed>>
          /\ module' = [module EXCEPT !.do = "remove"]
      BY <1>12, <2>3 DEF ModuleCallsListBlock
    <3>2. c \in Prep
      BY <1>0, <2>1, <2>3 DEF Tables
    <3> HIDE DEF c
    <3>3. /\ stage' \in [Prep -> Stages] /\ crashed' \in BOOLEAN /\ workQ' \in Seq(Items)
          /\ \A x \in Range(workQ') : x \in Range(workQ) \/ x = [op |-> "listed", prep |-> c]
      BY <1>0, <3>1, <3>2, CallKeeps DEF Queued
    <3>4. module' \in [do : {"call", "remove"}, party : Party, list : SUBSET Device]
      BY <1>0, <1>12, <3>1 DEF ModuleCallsListBlock, Tables
    <3>5. Keys' /\ Tables' /\ Queued'
      BY <1>0, <2>1, <3>1, <3>3, <3>4 DEF Keys, Tables, Queued
    <3>6. Progress'
      BY <1>0, <2>1, <3>3 DEF Progress
    <3>7. Owned'
      BY <1>0, <2>1, <3>3 DEF Owned
    <3> QED BY <3>5, <3>6, <3>7
  <2> QED BY <2>2, <2>3
<1>13. ASSUME ModuleRemovesListBlock PROVE Keys' /\ Progress' /\ Tables' /\ Queued' /\ Owned'
  <2> DEFINE p == module.party
  <2>1. /\ p \in Party /\ module.list \in SUBSET Device
        /\ UNCHANGED <<session, result, stage, devices, known, waiting, listIQs, bundleIQs, workQ,
                       work, pushes, crashed, refused>>
        /\ NextList(p, module.list)
        /\ callbacks' = [callbacks EXCEPT ![p] = None] /\ stranded' = stranded \cup Waiting(p)
    BY <1>0, <1>13 DEF ModuleRemovesListBlock, RemoveListBlock, Tables
  <2>2. Keys' /\ module' \in {None} \cup [do : {"call"}, party : {p}, list : SUBSET Device]
    BY <1>0, <2>1, NextListKeeps
  <2>3. Tables'
    BY <1>0, <2>1, <2>2 DEF Tables
  <2>4. Progress'
    BY <1>0, <2>1 DEF Progress, Waiting
  <2> QED BY <1>0, <2>1, <2>2, <2>3, <2>4 DEF Queued, Owned
<1>14. ASSUME NEW b \in Prep \X Device, BundleArrives(b)
       PROVE  Keys' /\ Progress' /\ Tables' /\ Queued' /\ Owned'
  <2>1. PICK ok \in BOOLEAN :
           workQ' = Append(workQ, [op |-> "bundle", prep |-> b[1], device |-> b[2], ok |-> ok])
    BY <1>14 DEF BundleArrives
  <2> DEFINE x == [op |-> "bundle", prep |-> b[1], device |-> b[2], ok |-> ok]
  <2>2. x \in Items /\ x.device \in DevicesOf(PartyFor(x.prep))
    BY <1>0, <1>14 DEF BundleArrives, Items, Owned
  <2>3. Queued' /\ Range(workQ') = Range(workQ) \cup {x}
    BY <1>0, <2>1, <2>2, Appended, RangeAppended DEF Queued
  <2> HIDE DEF x
  <2>4. Owned'
    BY <1>0, <1>14, <2>2, <2>3 DEF BundleArrives, Owned
  <2> QED BY <1>0, <1>14, <2>3, <2>4 DEF BundleArrives, Keys, Progress, Tables
<1>15. ASSUME NEW c \in Prep, NEW d \in Device, BundleComesLate(c, d)
       PROVE  Keys' /\ Progress' /\ Tables' /\ Queued' /\ Owned'
  <2> DEFINE x == [op |-> "bundle", prep |-> c, device |-> d, ok |-> TRUE]
  <2>1. x \in Items /\ x.device \in DevicesOf(PartyFor(x.prep)) /\ workQ' = Append(workQ, x)
    BY <1>0, <1>15 DEF BundleComesLate, Items, Owned
  <2> HIDE DEF x
  <2>2. Queued' /\ Range(workQ') = Range(workQ) \cup {x}
    BY <1>0, <2>1, Appended, RangeAppended DEF Queued
  <2>3. Owned'
    BY <1>0, <1>15, <2>1, <2>2 DEF BundleComesLate, Owned
  <2>4. pushes' \in 0 .. MaxPushes
    BY <1>0, <1>15, PushBound DEF BundleComesLate, Progress
  <2>5. Progress'
    BY <1>0, <1>15, <2>4 DEF BundleComesLate, Progress
  <2> QED BY <1>0, <1>15, <2>2, <2>3, <2>5 DEF BundleComesLate, Keys, Tables
<1>16. ASSUME NEW d \in Device, MessageOpensSession(d)
       PROVE  Keys' /\ Progress' /\ Tables' /\ Queued' /\ Owned'
  <2>1. /\ PartyOf[d] \in Party /\ d \in DevicesOf(PartyOf[d])
    BY SendConstants DEF DevicesOf
  <2>2. Keys'
    BY <1>0, <1>16, <2>1, RecordSaved DEF MessageOpensSession
  <2>3. pushes' \in 0 .. MaxPushes
    BY <1>0, <1>16, PushBound DEF MessageOpensSession, Progress
  <2>4. Progress'
    BY <1>0, <1>16, <2>3 DEF MessageOpensSession, Progress
  <2> QED BY <1>0, <1>16, <2>2, <2>4 DEF MessageOpensSession, Tables, Queued, Owned
<1>17. ASSUME NEW d \in Device, DeleteSession(d)
       PROVE  Keys' /\ Progress' /\ Tables' /\ Queued' /\ Owned'
  BY <1>0, <1>17 DEF DeleteSession, Keys, Progress, Tables, Queued, Owned
<1>18. CASE UNCHANGED vars
  BY <1>0, <1>18 DEF vars, Keys, Progress, Tables, Queued, Owned
<1> QED
  BY <1>1, <1>2, <1>3, <1>4, <1>5, <1>6, <1>7, <1>8, <1>9, <1>10, <1>11, <1>12, <1>13,
     <1>14, <1>15, <1>16, <1>17, <1>18
  DEF Next, WorkQueueStep, ModuleStep

\* Every variable of OMEMOSend keeps its type.
THEOREM OMEMOSendTypeCorrect == Spec => []TypeOK
<1>1. Spec => []TypeInv
  BY TypeInit, TypeNext, PTL DEF Spec
<1> QED BY <1>1, Parts, PTL
-----------------------------------------------------------------------------
(* How far the preparations are                                             *)

\* A device that a preparation has read, and what has become of it.
Cover(c) == \A d \in devices[c] \ {Mine} :
               session[d] # "none" \/ d \in refused[c] \/ d \in waiting[c]

PrepInv ==
    \A c \in Prep :
       /\ stage[c] \in {"queued", "listing", "listed", "fetching", "ready"} =>
             result[c[1]] = "preparing"
       /\ stage[c] = "left" => result[c[1]] # "new"
       /\ waiting[c] # {} <=> stage[c] = "fetching"
       /\ stage[c] \in {"fetching", "ready", "left"} => Cover(c)

\* Whose turn it is: what is in the work queue is where the preparations are.
TurnInv ==
    \A x \in Range(workQ) :
       /\ x.op = "prepare" => stage[x.prep] = "queued"
       /\ x.op = "listed" => stage[x.prep] = "listed"
       /\ x.op = "encrypt" =>
             result[x.send] = "preparing" /\ \A c \in Preps(x.send) : stage[c] = "left"

Flow == PrepInv /\ TurnInv /\ Once(workQ)

LEMMA FlowInit == Init => Flow
<1> SUFFICES ASSUME Init PROVE PrepInv /\ TurnInv /\ Once(workQ)
  BY DEF Flow
<1>1. \A c \in Prep : stage[c] = "none" /\ waiting[c] = {}
  BY DEF Init
<1>2. workQ = <<>>
  BY DEF Init
<1>3. PrepInv
  BY <1>1 DEF PrepInv
<1> QED BY <1>2, <1>3 DEF TurnInv, Once, Range

\* What changes no preparation and adds nothing whose turn it could be.
LEMMA Aside ==
    ASSUME TypeInv, Flow, UNCHANGED <<result, stage, devices, known, waiting, refused>>,
           \A d \in Device : session[d] # "none" => session'[d] # "none",
           \/ workQ' = workQ
           \/ \E x \in Items : ~Turn(x) /\ workQ' = Append(workQ, x)
           \/ workQ # <<>> /\ workQ' = Tail(workQ) /\ ~Turn(Head(workQ))
    PROVE  Flow'
<1>1. Queued /\ \A c \in Prep : devices[c] \subseteq Device
  BY DEF TypeInv, Progress
<1>2. PrepInv'
  BY <1>1 DEF Flow, PrepInv, Cover
<1>3. Once(workQ') /\ \A y \in Range(workQ') : y \in Range(workQ) \/ ~Turn(y)
  <2>1. CASE workQ' = workQ
    BY <2>1 DEF Flow
  <2>2. ASSUME NEW x \in Items, ~Turn(x), workQ' = Append(workQ, x)
        PROVE  Once(workQ') /\ \A y \in Range(workQ') : y \in Range(workQ) \/ ~Turn(y)
    BY <1>1, <2>2, OnceAppended, RangeAppended DEF Flow, Queued
  <2>3. CASE workQ # <<>> /\ workQ' = Tail(workQ)
    BY <1>1, <2>3, OnceTaken, RangeTaken DEF Flow, Queued
  <2> QED BY <2>1, <2>2, <2>3
<1>4. TurnInv'
  BY <1>3 DEF Flow, TurnInv, Turn
<1> QED BY <1>2, <1>3, <1>4 DEF Flow

\* When a preparation comes up, nothing else of it is in the queue.
LEMMA TurnTaken ==
    ASSUME TypeInv, Flow, workQ # <<>>, Head(workQ).op \in {"prepare", "listed"}
    PROVE  /\ Head(workQ).prep \in Prep /\ stage[Head(workQ).prep] \in {"queued", "listed"}
           /\ Once(Tail(workQ)) /\ Tail(workQ) \in Seq(Items)
           /\ \A y \in Range(Tail(workQ)) :
                 /\ y \in Range(workQ)
                 /\ y.op \in {"prepare", "listed"} => y.prep # Head(workQ).prep
                 /\ y.op = "encrypt" => Head(workQ).prep \notin Preps(y.send)
<1> DEFINE x == Head(workQ)
<1>1. /\ x \in Items /\ Tail(workQ) \in Seq(Items)
      /\ Range(workQ) = {x} \cup Range(Tail(workQ))
  BY BlockTaken DEF TypeInv
<1>2. x.prep \in Prep /\ x = [op |-> x.op, prep |-> x.prep]
  BY <1>1, ItemFacts
<1>3. Once(Tail(workQ)) /\ \A k \in DOMAIN Tail(workQ) : Tail(workQ)[k] # x
  BY OnceTaken DEF TypeInv, Queued, Flow, Turn
<1>4. \A y \in Range(Tail(workQ)) : y # x /\ y \in Items
  BY <1>1, <1>3 DEF Range
<1>5. \A y \in Range(workQ) :
         /\ y.op = "prepare" => stage[y.prep] = "queued"
         /\ y.op = "listed" => stage[y.prep] = "listed"
         /\ y.op = "encrypt" => \A c \in Preps(y.send) : stage[c] = "left"
  BY DEF Flow, TurnInv
<1> HIDE DEF x
<1>6. stage[x.prep] \in {"queued", "listed"}
  BY <1>1, <1>5 DEF x
<1>7. ASSUME NEW y \in Range(Tail(workQ))
      PROVE  /\ y.op \in {"prepare", "listed"} => y.prep # x.prep
             /\ y.op = "encrypt" => x.prep \notin Preps(y.send)
  <2>1. y \in Range(workQ) /\ y # x /\ y \in Items
    BY <1>1, <1>4
  <2>2. y.op \in {"prepare", "listed"} => y = [op |-> y.op, prep |-> y.prep]
    BY <2>1, ItemFacts
  <2>3. x \in Range(workQ) /\ x.op \in {"prepare", "listed"}
    BY <1>1 DEF x
  <2>4. ASSUME y.op \in {"prepare", "listed"}, y.prep = x.prep PROVE FALSE
    <3>1. y.op = x.op
      BY <1>5, <2>1, <2>3, <2>4
    <3> QED BY <1>2, <2>1, <2>2, <2>4, <3>1
  <2>5. ASSUME y.op = "encrypt", x.prep \in Preps(y.send) PROVE FALSE
    BY <1>5, <1>6, <2>1, <2>5
  <2> QED BY <2>4, <2>5
<1> QED BY <1>1, <1>2, <1>3, <1>6, <1>7 DEF x

\* The block that waits for a list is called.
LEMMA ListCalled ==
    ASSUME TypeInv, Flow, NEW c \in Prep, NEW q \in Seq(Items),
           Range(q) \subseteq Range(workQ), Once(q), CallListBlock(c, q),
           UNCHANGED <<result, devices, known, waiting, refused, session>>
    PROVE  Flow'
<1> DEFINE x == [op |-> "listed", prep |-> c]
<1>1. CASE stage[c] = "listing"
  <2>1. stage' = [stage EXCEPT ![c] = "listed"] /\ workQ' = Append(q, x) /\ x \in Items
    BY <1>1 DEF CallListBlock, Items
  <2>2. stage \in [Prep -> Stages]
    BY DEF TypeInv, Progress
  <2>3. PrepInv'
    BY <1>1, <2>1, <2>2 DEF Flow, PrepInv, Cover
  <2>4. \A y \in Range(q) : /\ y \in Range(workQ)
                            /\ y.op \in {"prepare", "listed"} => y.prep # c
                            /\ y.op = "encrypt" => c \notin Preps(y.send)
    BY <1>1 DEF Flow, TurnInv
  <2>5. Once(workQ') /\ Range(workQ') = Range(q) \cup {x}
    <3>1. \A k \in DOMAIN q : q[k] # x
      BY <2>4 DEF Range
    <3> QED BY <2>1, <3>1, OnceAppended, RangeAppended
  <2>6. TurnInv'
    <3> SUFFICES ASSUME NEW y \in Range(workQ')
                 PROVE  /\ y.op = "prepare" => stage'[y.prep] = "queued"
                        /\ y.op = "listed" => stage'[y.prep] = "listed"
                        /\ y.op = "encrypt" => /\ result[y.send] = "preparing"
                                               /\ \A o \in Preps(y.send) : stage'[o] = "left"
      BY DEF TurnInv
    <3>1. CASE y = x
      BY <2>1, <2>2, <3>1
    <3>2. CASE y \in Range(q)
      BY <2>1, <2>2, <2>4, <3>2 DEF Flow, TurnInv
    <3> QED BY <2>5, <3>1, <3>2
  <2> QED BY <2>3, <2>5, <2>6 DEF Flow
<1>2. CASE stage[c] # "listing"
  <2>1. stage' = stage /\ workQ' = q
    BY <1>2 DEF CallListBlock
  <2> QED BY <2>1 DEF Flow, PrepInv, Cover, TurnInv
<1> QED BY <1>1, <1>2

\* The first block of the queue was a preparation's, whose stage is now st, one
\* with nothing to come up for; the others are where they were.
LEMMA MovedOn ==
    ASSUME TypeInv, Flow, workQ # <<>>, Head(workQ).op \in {"prepare", "listed"},
           NEW st \in Stages, stage' = [stage EXCEPT ![Head(workQ).prep] = st],
           workQ' = Tail(workQ), result' = result
    PROVE  TurnInv' /\ Once(workQ')
<1> DEFINE c == Head(workQ).prep
<1>1. /\ Once(Tail(workQ)) /\ c \in Prep
      /\ \A y \in Range(Tail(workQ)) : /\ y \in Range(workQ)
                                       /\ y.op \in {"prepare", "listed"} => y.prep # c
                                       /\ y.op = "encrypt" => c \notin Preps(y.send)
  BY TurnTaken
<1>2. stage' = [stage EXCEPT ![c] = st] /\ DOMAIN stage = Prep
  BY DEF TypeInv, Progress
<1>3. \A o \in Prep : o # c => stage'[o] = stage[o]
  BY <1>2
<1>4. \A y \in Range(Tail(workQ)) :
         /\ y.op \in {"prepare", "listed"} => y.prep \in Prep
         /\ y.op = "encrypt" => Preps(y.send) \subseteq Prep
  <2>1. Range(Tail(workQ)) \subseteq Items
    BY BlockTaken DEF TypeInv, Range
  <2> QED BY <2>1, ItemFacts, PrepFacts
<1> HIDE DEF c
<1>5. TurnInv'
  BY <1>1, <1>3, <1>4 DEF Flow, TurnInv
<1> QED BY <1>1, <1>5
\* A preparation that comes up reads its devices, and asks for their bundles.
LEMMA Fetches ==
    ASSUME TypeInv, Flow, workQ # <<>>, Head(workQ).op \in {"prepare", "listed"},
           workQ' = Tail(workQ), NEW ds \in SUBSET Device,
           NEW ks, BundleFetch(Head(workQ).prep, ds, ks), UNCHANGED <<result, session, refused>>
    PROVE  Flow'
<1> DEFINE c == Head(workQ).prep
           st == IF Needed(ds, ks) = {} THEN "ready" ELSE "fetching"
<1>1. c \in Prep /\ stage[c] \in {"queued", "listed"}
  BY TurnTaken
<1>2. /\ devices' = [devices EXCEPT ![c] = ds]
      /\ waiting' = [waiting EXCEPT ![c] = Needed(ds, ks)]
      /\ stage' = [stage EXCEPT ![c] = st]
  BY DEF BundleFetch
<1>3. \A d \in ds \ {Mine} : session[d] # "none" \/ d \in Needed(ds, ks)
  BY DEF Needed
<1>4. st \in Stages /\ (st = "fetching" <=> Needed(ds, ks) # {}) /\ st \in {"ready", "fetching"}
  BY DEF Stages
<1> HIDE DEF c, st
<1>5. TurnInv' /\ Once(workQ')
  BY <1>2, <1>4, MovedOn DEF c
<1>6. PrepInv'
  <2>1. \A o \in Prep : o # c => /\ stage'[o] = stage[o] /\ waiting'[o] = waiting[o]
                                 /\ devices'[o] = devices[o]
    BY <1>2 DEF TypeInv, Progress
  <2>2. stage'[c] = st /\ waiting'[c] = Needed(ds, ks) /\ devices'[c] = ds
    BY <1>1, <1>2 DEF TypeInv, Progress
  <2> SUFFICES ASSUME NEW o \in Prep
               PROVE  /\ stage'[o] \in {"queued", "listing", "listed", "fetching", "ready"} =>
                            result[o[1]] = "preparing"
                      /\ stage'[o] = "left" => result[o[1]] # "new"
                      /\ waiting'[o] # {} <=> stage'[o] = "fetching"
                      /\ stage'[o] \in {"fetching", "ready", "left"} => Cover(o)'
    BY DEF PrepInv
  <2>3. CASE o = c
    BY <1>1, <1>3, <1>4, <2>2, <2>3 DEF Flow, PrepInv, Cover
  <2>4. CASE o # c
    BY <2>1, <2>4 DEF Flow, PrepInv, Cover
  <2> QED BY <2>3, <2>4
<1> QED BY <1>5, <1>6 DEF Flow

LEMMA FlowSend == ASSUME TypeInv, Flow, NEW s \in Send, EncryptAndSendMessage(s) PROVE Flow'
<1>1. /\ result[s] = "new" /\ result \in [Send -> {"new", "preparing", "sent", "failed", "dropped"}]
      /\ stage \in [Prep -> Stages] /\ waiting \in [Prep -> SUBSET Device] /\ Queued
      /\ devices \in [Prep -> SUBSET Device]
      /\ UNCHANGED <<session, waiting, refused>>
  BY DEF EncryptAndSendMessage, TypeInv, Progress
<1>2. \A c \in Prep : c[1] = s => stage[c] \notin (Stages \ {"none"}) /\ waiting[c] = {}
  BY <1>1 DEF Flow, PrepInv, Stages
<1>3. \A x \in Range(workQ) : /\ x \in Items
                              /\ x.op \in {"prepare", "listed"} => x.prep \in Prep /\ x.prep[1] # s
                              /\ x.op = "encrypt" => x.send \in Send /\ x.send # s
  <2>1. Range(workQ) \subseteq Items
    BY <1>1 DEF Queued, Range
  <2> QED BY <1>1, <1>2, <2>1, ItemFacts DEF Flow, TurnInv, Stages
<1>4. CASE BuddyKeys[s] = <<>>
  <2>1. result' = [result EXCEPT ![s] = "failed"] /\ UNCHANGED <<stage, devices, known, workQ>>
    BY <1>4 DEF EncryptAndSendMessage
  <2>2. PrepInv'
    <3>1. \A c \in Prep : c[1] # s => result'[c[1]] = result[c[1]]
      BY <1>1, <2>1, PrepFacts
    <3>2. result'[s] = "failed"
      BY <1>1, <2>1
    <3>3. \A c \in Prep : Cover(c)' <=> Cover(c)
      BY <1>1, <2>1 DEF Cover
    <3> QED BY <1>1, <1>2, <2>1, <3>1, <3>2, <3>3 DEF Flow, PrepInv, Stages
  <2>3. TurnInv'
    BY <1>1, <1>3, <2>1 DEF Flow, TurnInv
  <2> QED BY <2>1, <2>2, <2>3 DEF Flow
<1>5. CASE BuddyKeys[s] # <<>>
  <2>1. /\ result' = [result EXCEPT ![s] = "preparing"]
        /\ stage' = [c \in Prep |-> IF c[1] = s THEN "queued" ELSE stage[c]]
        /\ devices' = [c \in Prep |-> IF c[1] = s THEN Stored(PartyFor(c)) ELSE devices[c]]
        /\ workQ' = workQ \o Prepares(s)
    BY <1>5 DEF EncryptAndSendMessage, Prepares
  <2>2. /\ \A c \in Prep : c[1] = s => stage'[c] = "queued" /\ result'[c[1]] = "preparing"
        /\ \A c \in Prep : c[1] # s => /\ stage'[c] = stage[c] /\ devices'[c] = devices[c]
                                       /\ result'[c[1]] = result[c[1]]
    BY <1>1, <2>1, PrepFacts
  <2>3. PrepInv'
    <3>1. \A c \in Prep : c[1] # s => (Cover(c)' <=> Cover(c))
      BY <1>1, <2>2 DEF Cover
    <3> SUFFICES ASSUME NEW o \in Prep
                 PROVE  /\ stage'[o] \in {"queued", "listing", "listed", "fetching", "ready"} =>
                              result'[o[1]] = "preparing"
                        /\ stage'[o] = "left" => result'[o[1]] # "new"
                        /\ waiting'[o] # {} <=> stage'[o] = "fetching"
                        /\ stage'[o] \in {"fetching", "ready", "left"} => Cover(o)'
      BY DEF PrepInv
    <3>2. CASE o[1] = s
      BY <1>1, <1>2, <2>2, <3>2
    <3>3. CASE o[1] # s
      BY <1>1, <2>2, <3>1, <3>3 DEF Flow, PrepInv
    <3> QED BY <3>2, <3>3
  <2>4. /\ Prepares(s) \in Seq(Items) /\ Once(Prepares(s))
        /\ \A x \in Range(Prepares(s)) : x.op = "prepare" /\ x.prep \in Prep /\ x.prep[1] = s
    BY PreparesSent
  <2>5. Once(workQ')
    <3>1. \A i \in DOMAIN workQ, j \in DOMAIN Prepares(s) : workQ[i] # Prepares(s)[j]
      BY <1>3, <2>4 DEF Range
    <3> QED BY <1>1, <2>1, <2>4, <3>1, OnceSent DEF Flow, Queued
  <2>6. Range(workQ') = Range(workQ) \cup Range(Prepares(s))
    BY <1>1, <2>1, <2>4, RangeSent DEF Queued
  <2>7. TurnInv'
    <3> SUFFICES ASSUME NEW x \in Range(workQ')
                 PROVE  /\ x.op = "prepare" => stage'[x.prep] = "queued"
                        /\ x.op = "listed" => stage'[x.prep] = "listed"
                        /\ x.op = "encrypt" => /\ result'[x.send] = "preparing"
                                               /\ \A c \in Preps(x.send) : stage'[c] = "left"
      BY DEF TurnInv
    <3>1. CASE x \in Range(Prepares(s))
      BY <2>2, <2>4, <3>1
    <3>2. CASE x \in Range(workQ)
      <4>1. x.op \in {"prepare", "listed"} => stage'[x.prep] = stage[x.prep]
        BY <1>3, <2>2, <3>2
      <4>2. x.op = "encrypt" => /\ result'[x.send] = result[x.send]
                                /\ \A c \in Preps(x.send) : stage'[c] = stage[c]
        BY <1>1, <1>3, <2>1, <2>2, <3>2, PrepFacts
      <4> QED BY <3>2, <4>1, <4>2 DEF Flow, TurnInv
    <3> QED BY <2>6, <3>1, <3>2
  <2> QED BY <2>3, <2>5, <2>7 DEF Flow
<1> QED BY <1>4, <1>5

LEMMA FlowPrepare == ASSUME TypeInv, Flow, PrepareSession PROVE Flow'
<1> DEFINE c == Head(workQ).prep
<1>1. /\ workQ # <<>> /\ Head(workQ).op = "prepare" /\ workQ' = Tail(workQ)
      /\ UNCHANGED <<result, session, refused>>
  BY DEF PrepareSession, WorkQueueFree
<1>2. c \in Prep /\ stage[c] \in {"queued", "listed"}
  BY <1>1, TurnTaken
<1>3. CASE devices[c] # {}
  <2>1. BundleFetch(c, devices[c], known[c]) /\ devices[c] \in SUBSET Device
    BY <1>2, <1>3 DEF PrepareSession, TypeInv, Progress
  <2> QED BY <1>1, <2>1, Fetches
<1>4. CASE devices[c] = {}
  <2>1. stage' = [stage EXCEPT ![c] = "listing"] /\ UNCHANGED <<devices, waiting>>
    BY <1>4 DEF PrepareSession, DeviceFetch
  <2>2. TurnInv' /\ Once(workQ')
    BY <1>1, <2>1, MovedOn DEF Stages
  <2> HIDE DEF c
  <2>3. stage'[c] = "listing" /\ \A o \in Prep : o # c => stage'[o] = stage[o]
    BY <1>2, <2>1 DEF TypeInv, Progress
  <2>4. \A o \in Prep : Cover(o)' <=> Cover(o)
    BY <1>1, <2>1 DEF Cover
  <2>5. PrepInv'
    BY <1>1, <1>2, <2>1, <2>3, <2>4 DEF Flow, PrepInv
  <2> QED BY <2>2, <2>5 DEF Flow
<1> QED BY <1>3, <1>4

LEMMA FlowBundle == ASSUME TypeInv, Flow, BundleAnswered PROVE Flow'
<1> DEFINE c == Head(workQ).prep
           d == Head(workQ).device
<1>1. /\ workQ # <<>> /\ Head(workQ).op = "bundle" /\ workQ' = Tail(workQ)
      /\ UNCHANGED <<result, devices, known>>
      /\ \/ session' = [session EXCEPT ![d] = "open"] /\ refused' = refused
         \/ refused' = [refused EXCEPT ![c] = @ \cup {d}] /\ session' = session
      /\ waiting' = [waiting EXCEPT ![c] = @ \ {d}]
      /\ stage' = IF waiting[c] = {d} THEN [stage EXCEPT ![c] = "ready"] ELSE stage
  BY DEF BundleAnswered, WorkQueueFree
<1>2. /\ c \in Prep /\ d \in Device /\ Range(workQ') \subseteq Range(workQ)
      /\ Once(workQ')
  BY <1>1, BlockTaken, ItemFacts, OnceTaken DEF TypeInv, Queued, Flow
<1> HIDE DEF c, d
<1>3. /\ session \in [Device -> {"none", "open", "deleted"}] /\ stage \in [Prep -> Stages]
      /\ waiting \in [Prep -> SUBSET Device] /\ refused \in [Prep -> SUBSET Device]
      /\ devices \in [Prep -> SUBSET Device]
  BY DEF TypeInv, Keys, Progress
<1>4. \A o \in Prep : Cover(o) => Cover(o)'
  <2> SUFFICES ASSUME NEW o \in Prep, Cover(o), NEW e \in devices[o] \ {Mine}
               PROVE  session'[e] # "none" \/ e \in refused'[o] \/ e \in waiting'[o]
    BY <1>1 DEF Cover
  <2>1. e \in Device /\ (session[e] # "none" \/ e \in refused[o] \/ e \in waiting[o])
    BY <1>3 DEF Cover
  <2>2. session[e] # "none" => session'[e] # "none"
    BY <1>1, <1>2, <1>3, <2>1
  <2>3. e \in refused[o] => e \in refused'[o]
    BY <1>1, <1>2, <1>3
  <2>4. e \in waiting[o] => e \in waiting'[o] \/ (o = c /\ e = d)
    BY <1>1, <1>2, <1>3
  <2>5. session'[d] # "none" \/ d \in refused'[c]
    BY <1>1, <1>2, <1>3
  <2> QED BY <2>1, <2>2, <2>3, <2>4, <2>5
<1>5. /\ \A o \in Prep : o # c => stage'[o] = stage[o] /\ waiting'[o] = waiting[o]
      /\ waiting'[c] = waiting[c] \ {d}
      /\ stage'[c] = IF waiting[c] = {d} THEN "ready" ELSE stage[c]
      /\ stage[c] # "fetching" => stage'[c] = stage[c]
      /\ stage'[c] = stage[c] \/ (stage'[c] = "ready" /\ stage[c] = "fetching")
  <2>1. waiting[c] = {d} => stage[c] = "fetching"
    BY <1>2 DEF Flow, PrepInv
  <2> QED BY <1>1, <1>2, <1>3, <2>1
<1>6. PrepInv'
  <2> SUFFICES ASSUME NEW o \in Prep
               PROVE  /\ stage'[o] \in {"queued", "listing", "listed", "fetching", "ready"} =>
                            result[o[1]] = "preparing"
                      /\ stage'[o] = "left" => result[o[1]] # "new"
                      /\ waiting'[o] # {} <=> stage'[o] = "fetching"
                      /\ stage'[o] \in {"fetching", "ready", "left"} => Cover(o)'
    BY <1>1 DEF PrepInv
  <2>1. CASE o = c
    BY <1>4, <1>5, <2>1 DEF Flow, PrepInv
  <2>2. CASE o # c
    BY <1>4, <1>5, <2>2 DEF Flow, PrepInv
  <2> QED BY <2>1, <2>2
<1>7. \A o \in Prep : stage[o] # "fetching" => stage'[o] = stage[o]
  BY <1>5
<1>8. TurnInv'
  <2>1. \A x \in Range(workQ') :
           /\ x \in Range(workQ) /\ (x.op \in {"prepare", "listed"} => x.prep \in Prep)
           /\ x.op = "encrypt" => Preps(x.send) \subseteq Prep
    <3>1. Range(workQ) \subseteq Items
      BY DEF TypeInv, Queued, Range
    <3> QED BY <1>2, <3>1, ItemFacts, PrepFacts
  <2> QED BY <1>1, <1>7, <2>1 DEF Flow, TurnInv
<1> QED BY <1>2, <1>6, <1>8 DEF Flow
LEMMA FlowLeave == ASSUME TypeInv, Flow, NEW c \in Prep, LeaveGroup(c) PROVE Flow'
<1> DEFINE x == [op |-> "encrypt", send |-> c[1]]
<1>1. /\ stage[c] = "ready" /\ stage' = [stage EXCEPT ![c] = "left"]
      /\ workQ' = IF \A o \in Preps(c[1]) \ {c} : stage[o] = "left"
                  THEN Append(workQ, x) ELSE workQ
      /\ UNCHANGED <<result, session, devices, known, waiting, refused>>
  BY DEF LeaveGroup
<1>2. /\ stage' \in [Prep -> Stages] /\ stage'[c] = "left" /\ result[c[1]] = "preparing"
      /\ \A o \in Prep : o # c => stage'[o] = stage[o]
  BY <1>1 DEF TypeInv, Progress, Flow, PrepInv, Stages
<1>3. c[1] \in Send /\ c \in Preps(c[1]) /\ Preps(c[1]) \subseteq Prep /\ x \in Items
  BY PrepFacts DEF Items
<1>4. PrepInv'
  <2>1. \A o \in Prep : Cover(o)' <=> Cover(o)
    BY <1>1 DEF Cover
  <2> QED BY <1>1, <1>2, <2>1 DEF Flow, PrepInv
<1>5. \A y \in Range(workQ) :
         /\ y.op \in {"prepare", "listed"} => y.prep \in Prep /\ y.prep # c
         /\ y.op = "encrypt" => Preps(y.send) \subseteq Prep /\ c \notin Preps(y.send)
  <2>1. Range(workQ) \subseteq Items
    BY DEF TypeInv, Queued, Range
  <2> QED BY <1>1, <2>1, ItemFacts, PrepFacts DEF Flow, TurnInv
<1>6. \A y \in Range(workQ) :
         /\ y.op = "prepare" => stage'[y.prep] = "queued"
         /\ y.op = "listed" => stage'[y.prep] = "listed"
         /\ y.op = "encrypt" => /\ result'[y.send] = "preparing"
                                /\ \A o \in Preps(y.send) : stage'[o] = "left"
  BY <1>1, <1>2, <1>5 DEF Flow, TurnInv
<1>7. CASE \A o \in Preps(c[1]) \ {c} : stage[o] = "left"
  <2>1. workQ' = Append(workQ, x) /\ x.op = "encrypt" /\ x.send = c[1]
    BY <1>1, <1>7
  <2>2. \A o \in Preps(c[1]) : stage'[o] = "left"
    BY <1>2, <1>3, <1>7
  <2>3. \A k \in DOMAIN workQ : workQ[k] # x
    BY <1>3, <1>5, <2>1 DEF Range
  <2> HIDE DEF x
  <2>4. Once(workQ') /\ Range(workQ') = Range(workQ) \cup {x}
    BY <1>3, <2>1, <2>3, OnceAppended, RangeAppended DEF TypeInv, Queued, Flow
  <2>5. TurnInv'
    BY <1>1, <1>2, <1>6, <2>1, <2>2, <2>4 DEF TurnInv
  <2> QED BY <1>4, <2>4, <2>5 DEF Flow
<1>8. CASE ~ \A o \in Preps(c[1]) \ {c} : stage[o] = "left"
  <2>1. workQ' = workQ
    BY <1>1, <1>8
  <2> QED BY <1>4, <1>6, <2>1 DEF Flow, TurnInv
<1> QED BY <1>7, <1>8

\* The message that is encrypted had its preparations over, and is not in the
\* queue any more.
LEMMA EncryptTaken ==
    ASSUME TypeInv, Flow, Encrypt
    PROVE  LET s == Head(workQ).send IN
           /\ s \in Send /\ result[s] = "preparing" /\ \A c \in Preps(s) : stage[c] = "left"
           /\ \E r \in {"sent", "failed", "dropped"} : result' = [result EXCEPT ![s] = r]
           /\ workQ' = Tail(workQ) /\ Once(workQ')
           /\ \A y \in Range(workQ') : y \in Range(workQ) /\ (y.op = "encrypt" => y.send # s)
<1> DEFINE x == Head(workQ)
<1>1. workQ # <<>> /\ x.op = "encrypt" /\ workQ' = Tail(workQ)
  BY DEF Encrypt, WorkQueueFree
<1>2. /\ x \in Items /\ Range(workQ) = {x} \cup Range(Tail(workQ)) /\ Range(workQ) \subseteq Items
  BY <1>1, BlockTaken DEF TypeInv, Queued, Range
<1>3. Once(workQ') /\ \A k \in DOMAIN workQ' : workQ'[k] # x
  BY <1>1, OnceTaken DEF TypeInv, Queued, Flow, Turn
<1>4. \A y \in Range(workQ') : y \in Range(workQ) /\ y # x
  BY <1>1, <1>2, <1>3 DEF Range
<1>5. \E r \in {"sent", "failed", "dropped"} : result' = [result EXCEPT ![x.send] = r]
  BY DEF Encrypt
<1> HIDE DEF x
<1>6. \A y \in Range(workQ') : y.op = "encrypt" => y.send # x.send
  BY <1>1, <1>2, <1>4, ItemFacts
<1>7. /\ x.send \in Send /\ result[x.send] = "preparing"
      /\ \A c \in Preps(x.send) : stage[c] = "left"
  BY <1>1, <1>2, ItemFacts DEF Flow, TurnInv
<1> QED BY <1>1, <1>3, <1>4, <1>5, <1>6, <1>7 DEF x

LEMMA FlowEncrypt == ASSUME TypeInv, Flow, Encrypt PROVE Flow'
<1> DEFINE s == Head(workQ).send
<1>1. /\ s \in Send /\ result[s] = "preparing" /\ \A c \in Preps(s) : stage[c] = "left"
      /\ Once(workQ')
      /\ \A y \in Range(workQ') : y \in Range(workQ) /\ (y.op = "encrypt" => y.send # s)
  BY EncryptTaken
<1>2. UNCHANGED <<session, stage, devices, known, waiting, refused>>
  BY DEF Encrypt
<1>3. PICK r \in {"sent", "failed", "dropped"} : result' = [result EXCEPT ![s] = r]
  BY EncryptTaken
<1> HIDE DEF s
<1>4. /\ result'[s] # "new"
      /\ \A t \in Send : t # s => result'[t] = result[t]
  BY <1>1, <1>3 DEF TypeInv, Progress
<1>5. PrepInv'
  <2> SUFFICES ASSUME NEW o \in Prep
               PROVE  /\ stage[o] \in {"queued", "listing", "listed", "fetching", "ready"} =>
                            result'[o[1]] = "preparing"
                      /\ stage[o] = "left" => result'[o[1]] # "new"
                      /\ waiting[o] # {} <=> stage[o] = "fetching"
                      /\ stage[o] \in {"fetching", "ready", "left"} => Cover(o)'
    BY <1>2 DEF PrepInv
  <2>1. Cover(o)' <=> Cover(o)
    BY <1>2 DEF Cover
  <2>2. CASE o[1] = s
    BY <1>1, <1>4, <2>1, <2>2, PrepFacts DEF Flow, PrepInv
  <2>3. CASE o[1] # s
    BY <1>4, <2>1, <2>3, PrepFacts DEF Flow, PrepInv
  <2> QED BY <2>2, <2>3
<1>6. TurnInv'
  <2>1. Range(workQ) \subseteq Items
    BY DEF TypeInv, Queued, Range
  <2> QED BY <1>1, <1>2, <1>4, <2>1, ItemFacts DEF Flow, TurnInv
<1> QED BY <1>1, <1>5, <1>6 DEF Flow

LEMMA FlowNext == ASSUME TypeInv, Flow, [Next]_vars PROVE Flow'
<1> USE DEF Turn
<1>0. session \in [Device -> {"none", "open", "deleted"}] /\ Queued /\ Tables
  BY DEF TypeInv, Keys
<1>1. CASE FetchDeviceIds \/ WorkRemovesListBlock \/ ModuleRemovesListBlock \/ UNCHANGED vars
  BY <1>1, Aside DEF FetchDeviceIds, WorkRemovesListBlock, ModuleRemovesListBlock, vars
<1>2. CASE DevicesFetched
  <2>1. /\ workQ # <<>> /\ Head(workQ).op = "listed" /\ workQ' = Tail(workQ)
        /\ BundleFetch(Head(workQ).prep, Stored(PartyFor(Head(workQ).prep)), keyed)
        /\ UNCHANGED <<result, session, refused>>
    BY <1>2 DEF DevicesFetched, WorkQueueFree
  <2>2. Stored(PartyFor(Head(workQ).prep)) \in SUBSET Device
    BY DEF Stored, DevicesOf
  <2> QED BY <2>1, <2>2, Fetches
<1>3. CASE FailedToFetchDeviceIds
  <2> DEFINE c == callbacks[Head(workQ).party]
  <2>1. /\ workQ # <<>> /\ Head(workQ).op = "listFailed"
        /\ UNCHANGED <<result, devices, known, waiting, refused, session>>
    BY <1>3 DEF FailedToFetchDeviceIds, WorkQueueFree
  <2>2. CASE c = None
    BY <1>3, <2>1, <2>2, Aside DEF FailedToFetchDeviceIds
  <2>3. CASE c # None
    <3>1. CallListBlock(c, Tail(workQ))
      BY <1>3, <2>3 DEF FailedToFetchDeviceIds
    <3>2. c \in Prep
      BY <1>0, <2>1, <2>3, BlockTaken, ItemFacts DEF Tables
    <3>3. /\ Tail(workQ) \in Seq(Items) /\ Range(Tail(workQ)) \subseteq Range(workQ)
          /\ Once(Tail(workQ))
      BY <1>0, <2>1, BlockTaken, OnceTaken DEF Queued, Flow
    <3> HIDE DEF c
    <3> QED BY <2>1, <3>1, <3>2, <3>3, ListCalled
  <2> QED BY <2>2, <2>3
<1>4. ASSUME NEW c \in Prep, DeviceIdsAnswered(c) PROVE Flow'
  <2>1. [op |-> "listFailed", party |-> PartyFor(c)] \in Items
    BY PrepFacts DEF Items
  <2> QED BY <1>4, <2>1, Aside DEF DeviceIdsAnswered
<1>5. ASSUME NEW p \in Party, DeviceListPushed(p) PROVE Flow'
  BY <1>5, Aside DEF DeviceListPushed
<1>6. CASE ModuleCallsListBlock
  <2> DEFINE c == callbacks[module.party]
  <2>1. UNCHANGED <<result, devices, known, waiting, refused, session>>
    BY <1>6 DEF ModuleCallsListBlock
  <2>2. CASE c = None
    BY <1>6, <2>1, <2>2, Aside DEF ModuleCallsListBlock
  <2>3. CASE c # None
    <3>1. CallListBlock(c, workQ) /\ c \in Prep
      BY <1>0, <1>6, <2>3 DEF ModuleCallsListBlock, Tables
    <3> HIDE DEF c
    <3> QED BY <1>0, <2>1, <3>1, ListCalled DEF Queued, Flow
  <2> QED BY <2>2, <2>3
<1>7. ASSUME NEW b \in Prep \X Device, BundleArrives(b) PROVE Flow'
  <2>1. \A ok \in BOOLEAN : [op |-> "bundle", prep |-> b[1], device |-> b[2], ok |-> ok] \in Items
    BY DEF Items
  <2> QED BY <1>7, <2>1, Aside DEF BundleArrives
<1>8. ASSUME NEW c \in Prep, NEW d \in Device, BundleComesLate(c, d) PROVE Flow'
  <2>1. [op |-> "bundle", prep |-> c, device |-> d, ok |-> TRUE] \in Items
    BY DEF Items
  <2> QED BY <1>8, <2>1, Aside DEF BundleComesLate
<1>9. ASSUME NEW d \in Device, MessageOpensSession(d) \/ DeleteSession(d) PROVE Flow'
  <2>1. \A e \in Device : session[e] # "none" => session'[e] # "none"
    BY <1>0, <1>9 DEF MessageOpensSession, DeleteSession
  <2> QED BY <1>9, <2>1, Aside DEF MessageOpensSession, DeleteSession
<1> QED
  BY <1>1, <1>2, <1>3, <1>4, <1>5, <1>6, <1>7, <1>8, <1>9,
     FlowSend, FlowPrepare, FlowBundle, FlowEncrypt, FlowLeave
  DEF Next, WorkQueueStep, ModuleStep

SendInv == TypeInv /\ Flow

LEMMA SendInvariant == Spec => []SendInv
<1>1. Init => SendInv
  BY TypeInit, FlowInit DEF SendInv
<1>2. SendInv /\ [Next]_vars => SendInv'
  BY TypeNext, FlowNext DEF SendInv
<1> QED BY <1>1, <1>2, PTL DEF Spec

\* A preparation that is over has seen to every device it has read.
THEOREM PreparationsAreComplete == Spec => []PreparedMeansSession
<1>1. SendInv => PreparedMeansSession
  BY DEF SendInv, Flow, PrepInv, Cover, PreparedMeansSession
<1> QED BY <1>1, SendInvariant, PTL

\* A preparation on its way: it is neither to come nor over.
Busy == {"queued", "listing", "listed", "fetching", "ready"}

\* A block called off the table moves its preparation on, and no other.
LEMMA CallMoves ==
    ASSUME SendInv, NEW c \in Prep, NEW q \in Seq(Items), CallListBlock(c, q)
    PROVE  /\ \A o \in Prep : stage'[o] = stage[o] \/ {stage[o], stage'[o]} \subseteq Busy
           /\ Range(q) \subseteq Range(workQ')
<1>1. [op |-> "listed", prep |-> c] \in Items
  BY DEF Items
<1>2. Range(Append(q, [op |-> "listed", prep |-> c])) = Range(q) \cup {[op |-> "listed", prep |-> c]}
  BY <1>1, RangeAppended
<1> QED BY <1>2 DEF CallListBlock, SendInv, TypeInv, Progress, Busy

\* Only EncryptAndSendMessage begins preparations and only LeaveGroup ends one:
\* what else moves them keeps them on their way.
LEMMA StageSteps ==
    ASSUME SendInv, [Next]_vars,
           ~ \E s \in Send : EncryptAndSendMessage(s), ~ \E c \in Prep : LeaveGroup(c)
    PROVE  \A o \in Prep : stage'[o] = stage[o] \/ {stage[o], stage'[o]} \subseteq Busy
<1>0. TypeInv /\ Flow /\ Queued /\ Tables /\ stage \in [Prep -> Stages]
  BY DEF SendInv, TypeInv, Progress
<1> DEFINE Kept == \A o \in Prep : stage'[o] = stage[o] \/ {stage[o], stage'[o]} \subseteq Busy
<1>1. ASSUME NEW c \in Prep, stage[c] \in Busy, NEW st \in Busy, stage' = [stage EXCEPT ![c] = st]
      PROVE  Kept
  BY <1>0, <1>1
<1>2. CASE PrepareSession \/ DevicesFetched
  <2>1. workQ # <<>> /\ Head(workQ).op \in {"prepare", "listed"}
    BY <1>2 DEF PrepareSession, DevicesFetched, WorkQueueFree
  <2> DEFINE c == Head(workQ).prep
  <2>2. c \in Prep /\ stage[c] \in Busy
    BY <1>0, <2>1, TurnTaken DEF Busy
  <2>3. \E st \in Busy : stage' = [stage EXCEPT ![c] = st]
    BY <1>2 DEF PrepareSession, DevicesFetched, DeviceFetch, BundleFetch, Busy
  <2> QED BY <1>1, <2>2, <2>3
<1>3. CASE FailedToFetchDeviceIds
  <2> DEFINE c == callbacks[Head(workQ).party]
  <2>1. workQ # <<>> /\ Head(workQ).op = "listFailed"
    BY <1>3 DEF FailedToFetchDeviceIds, WorkQueueFree
  <2>2. c \in Prep \cup {None} /\ Tail(workQ) \in Seq(Items)
    BY <1>0, <2>1, BlockTaken, ItemFacts DEF Tables
  <2>3. stage' = stage \/ (c # None /\ CallListBlock(c, Tail(workQ)))
    BY <1>3 DEF FailedToFetchDeviceIds
  <2> HIDE DEF c
  <2> QED BY <2>2, <2>3, CallMoves
<1>4. CASE BundleAnswered
  <2>1. workQ # <<>> /\ Head(workQ).op = "bundle"
    BY <1>4 DEF BundleAnswered, WorkQueueFree
  <2> DEFINE c == Head(workQ).prep
  <2>2. c \in Prep
    BY <1>0, <2>1, BlockTaken, ItemFacts
  <2>3. stage' = stage \/ (waiting[c] # {} /\ stage' = [stage EXCEPT ![c] = "ready"])
    BY <1>4 DEF BundleAnswered
  <2> HIDE DEF c
  <2>4. waiting[c] # {} => stage[c] \in Busy
    BY <1>0, <2>2 DEF Flow, PrepInv, Busy
  <2> QED BY <1>1, <2>2, <2>3, <2>4 DEF Busy
<1>5. CASE ModuleCallsListBlock
  <2>1. callbacks[module.party] \in Prep \cup {None}
    BY <1>0, <1>5 DEF ModuleCallsListBlock, Tables
  <2>2. stage' = stage \/ (callbacks[module.party] # None
                           /\ CallListBlock(callbacks[module.party], workQ))
    BY <1>5 DEF ModuleCallsListBlock
  <2> QED BY <1>0, <2>1, <2>2, CallMoves DEF Queued
<1>6. CASE stage' = stage
  BY <1>6
<1> QED
  BY <1>2, <1>3, <1>4, <1>5, <1>6
  DEF Next, vars, WorkQueueStep, ModuleStep, FetchDeviceIds, WorkRemovesListBlock, Encrypt,
      ModuleRemovesListBlock, DeviceIdsAnswered, BundleArrives, DeviceListPushed,
      BundleComesLate, MessageOpensSession, DeleteSession

-----------------------------------------------------------------------------
(* OMEMOSend implements SendGroup                                           *)

\* The preparations of a message that have not left its group.
Group(s) == {c \in Preps(s) : result[s] = "preparing" /\ stage[c] # "left"}

LEMMA InitEnters == Init => Promise!Init
<1> SUFFICES ASSUME Init PROVE Promise!Init
  OBVIOUS
<1>1. \A s \in Send : result[s] = "new"
  BY DEF Init
<1> QED BY <1>1 DEF Init, Promise!Init

\* Every step maps to a step of SendGroup or to a stutter.
LEMMA StepKeepsGroups ==
    ASSUME SendInv, [Next]_vars
    PROVE  [Promise!Next]_(Promise!vars)
<1> USE DEF Group
<1> DEFINE groups == [s \in Send |-> Group(s)]
<1>0. /\ result \in [Send -> {"new", "preparing", "sent", "failed", "dropped"}]
      /\ stage \in [Prep -> Stages]
  BY DEF SendInv, TypeInv, Progress
<1>1. ASSUME NEW s \in Send, EncryptAndSendMessage(s)
      PROVE  Promise!Enter(s) \/ Promise!Refuse(s)
  <2>1. result[s] = "new" /\ Group(s) = {}
    BY <1>1 DEF EncryptAndSendMessage
  <2>2. CASE BuddyKeys[s] = <<>>
    <3>1. result' = [result EXCEPT ![s] = "failed"] /\ stage' = stage
      BY <1>1, <2>2 DEF EncryptAndSendMessage
    <3>2. \A t \in Send : Group(t)' = Group(t)
      BY <1>0, <2>1, <3>1
    <3>3. groups' = groups
      BY <3>2
    <3> QED BY <2>1, <3>1, <3>3 DEF Promise!Refuse
  <2>3. CASE BuddyKeys[s] # <<>>
    <3>1. /\ result' = [result EXCEPT ![s] = "preparing"]
          /\ stage' = [c \in Prep |-> IF c[1] = s THEN "queued" ELSE stage[c]]
      BY <1>1, <2>3 DEF EncryptAndSendMessage
    <3>2. \A t \in Send \ {s} : Group(t)' = Group(t)
      BY <1>0, <3>1, PrepFacts
    <3>3. Group(s)' = Preps(s)
      BY <1>0, <3>1, PrepFacts
    <3>4. groups' = [groups EXCEPT ![s] = Preps(s)]
      BY <3>2, <3>3
    <3>5. [t \in Send |-> Preps(t)][s] = Preps(s)
      OBVIOUS
    <3> QED BY <2>1, <3>1, <3>4, <3>5 DEF Promise!Enter
  <2> QED BY <2>2, <2>3
<1>2. ASSUME NEW c \in Prep, LeaveGroup(c) PROVE Promise!Leave(c[1])
  <2>1. /\ stage[c] = "ready" /\ stage' = [stage EXCEPT ![c] = "left"] /\ result' = result
        /\ c[1] \in Send /\ c \in Preps(c[1])
    BY <1>2, PrepFacts DEF LeaveGroup
  <2>2. result[c[1]] = "preparing"
    BY <2>1 DEF SendInv, Flow, PrepInv
  <2>3. \A t \in Send \ {c[1]} : Group(t)' = Group(t)
    BY <1>0, <2>1, PrepFacts
  <2>4. Group(c[1])' = Group(c[1]) \ {c} /\ c \in Group(c[1])
    BY <1>0, <2>1, <2>2, PrepFacts
  <2>5. groups' = [groups EXCEPT ![c[1]] = @ \ {c}]
    BY <2>1, <2>3, <2>4
  <2>6. c \in groups[c[1]]
    BY <2>1, <2>4
  <2> QED BY <2>1, <2>2, <2>5, <2>6 DEF Promise!Leave
<1>3. CASE Encrypt
  <2> DEFINE s == Head(workQ).send
  <2>1. /\ s \in Send /\ result[s] = "preparing" /\ \A c \in Preps(s) : stage[c] = "left"
        /\ \E r \in {"sent", "failed", "dropped"} : result' = [result EXCEPT ![s] = r]
    BY <1>3, EncryptTaken DEF SendInv
  <2>2. stage' = stage
    BY <1>3 DEF Encrypt
  <2> HIDE DEF s
  <2>3. \A t \in Send : Group(t)' = Group(t)
    BY <1>0, <2>1, <2>2
  <2>4. groups' = groups /\ groups[s] = {}
    BY <2>1, <2>3
  <2>5. Promise!Answer(s)
    BY <2>1, <2>4 DEF Promise!Answer, Promise!Answers
  <2> QED BY <2>1, <2>5 DEF Promise!Next
<1>4. CASE /\ ~ \E s \in Send : EncryptAndSendMessage(s)
           /\ ~ \E c \in Prep : LeaveGroup(c)
           /\ ~ Encrypt
  <2>1. \A c \in Prep : stage'[c] = "left" <=> stage[c] = "left"
    BY <1>4, StageSteps DEF Busy
  <2>2. result' = result
    BY <1>4 DEF Next, vars, WorkQueueStep, ModuleStep, PrepareSession, FetchDeviceIds,
                DevicesFetched, FailedToFetchDeviceIds, WorkRemovesListBlock, BundleAnswered,
                ModuleCallsListBlock, ModuleRemovesListBlock, DeviceIdsAnswered, BundleArrives,
                DeviceListPushed, BundleComesLate, MessageOpensSession, DeleteSession
  <2>3. \A s \in Send : Group(s)' = Group(s)
    BY <2>1, <2>2, PrepFacts
  <2>4. groups' = groups
    BY <2>3
  <2> QED BY <2>2, <2>4 DEF Promise!vars
<1> QED
  <2>1. \A c \in Prep : c[1] \in Send
    BY PrepFacts
  <2> QED BY <1>1, <1>2, <1>3, <1>4, <2>1 DEF Promise!Next

\* A message is answered for once, when the last of its preparations has left its
\* group, and each leaves once.
THEOREM ImplementsSendGroup == Spec => KeepsGroups
<1>1. SendInv /\ [Next]_vars => [Promise!Next]_(Promise!vars)
  BY StepKeepsGroups
<1> QED BY <1>1, InitEnters, SendInvariant, PTL DEF Spec, KeepsGroups, Promise!Spec

-----------------------------------------------------------------------------
(* What moves the preparations                                              *)

ItsPrepare(c) == [op |-> "prepare", prep |-> c]
ItsListed(c)  == [op |-> "listed", prep |-> c]
ItsFailure(c) == [op |-> "listFailed", party |-> PartyFor(c)]
ItsBundle(c, d, ok) == [op |-> "bundle", prep |-> c, device |-> d, ok |-> ok]

\* Something is under way for the party's list, and the preparation's block waits
\* in the table.
ListComing(c) ==
    \/ work # None /\ work = [do |-> "ask", prep |-> c]
    \/ c \in listIQs
    \/ ItsFailure(c) \in Range(workQ)
    \/ module # None /\ module.do = "call" /\ module.party = PartyFor(c)
Awaited(c) == callbacks[PartyFor(c)] = c /\ ListComing(c)

BundleComing(c, d) ==
    <<c, d>> \in bundleIQs \/ \E ok \in BOOLEAN : ItsBundle(c, d, ok) \in Range(workQ)
BundlesComing(c) == \A d \in waiting[c] : BundleComing(c, d)

Way(c) ==
    /\ stage[c] = "queued" => ItsPrepare(c) \in Range(workQ)
    /\ stage[c] = "listed" => ItsListed(c) \in Range(workQ)
    /\ stage[c] = "listing" => crashed \/ c \in stranded \/ Awaited(c)
    /\ stage[c] = "fetching" => BundlesComing(c)
UnderWay == \A c \in Prep : Way(c)

LEMMA WayInit == Init => UnderWay
BY DEF Init, UnderWay, Way

\* A step that leaves a preparation's stage alone has to leave it its mover.
LEMMA WayKept ==
    ASSUME NEW c \in Prep, Way(c), stage'[c] = stage[c],
           \A x \in Range(workQ) : x.op \in {"prepare", "listed"} /\ x.prep = c
                                    => x \in Range(workQ'),
           stage[c] = "fetching" /\ BundlesComing(c) => BundlesComing(c)',
           stage[c] = "listing" /\ Awaited(c) => crashed' \/ c \in stranded' \/ Awaited(c)',
           stranded \subseteq stranded', crashed => crashed'
    PROVE  Way(c)'
<1>1. /\ ItsPrepare(c) \in Range(workQ) => ItsPrepare(c) \in Range(workQ')
      /\ ItsListed(c) \in Range(workQ) => ItsListed(c) \in Range(workQ')
  BY DEF ItsPrepare, ItsListed
<1>2. ItsPrepare(c)' = ItsPrepare(c) /\ ItsListed(c)' = ItsListed(c)
  BY DEF ItsPrepare, ItsListed
<1> QED BY <1>1, <1>2 DEF Way

\* Items that are neither taken nor lost keep what they stand for coming.
LEMMA BundlesKept ==
    ASSUME NEW c \in Prep, BundlesComing(c), waiting'[c] \subseteq waiting[c],
           bundleIQs \subseteq bundleIQs',
           \A x \in Range(workQ) : x.op = "bundle" /\ x.prep = c /\ x.device \in waiting'[c]
                                    => x \in Range(workQ')
    PROVE  BundlesComing(c)'
<1> SUFFICES ASSUME NEW d \in waiting'[c]
             PROVE  <<c, d>> \in bundleIQs' \/
                    \E ok \in BOOLEAN : ItsBundle(c, d, ok) \in Range(workQ')
  BY DEF BundlesComing, BundleComing, ItsBundle
<1>1. CASE <<c, d>> \in bundleIQs
  BY <1>1
<1>2. ASSUME NEW ok \in BOOLEAN, ItsBundle(c, d, ok) \in Range(workQ)
      PROVE  ItsBundle(c, d, ok) \in Range(workQ')
  BY <1>2 DEF ItsBundle
<1> QED BY <1>1, <1>2 DEF BundlesComing, BundleComing

LEMMA AwaitedKept ==
    ASSUME NEW c \in Prep, Awaited(c), callbacks'[PartyFor(c)] = callbacks[PartyFor(c)],
           work # None /\ work.do = "ask" => work' = work,
           c \in listIQs => c \in listIQs', module # None => module' = module,
           \A x \in Range(workQ) : x.op = "listFailed" /\ x.party = PartyFor(c)
                                    => x \in Range(workQ')
    PROVE  Awaited(c)'
<1>1. ItsFailure(c) \in Range(workQ) => ItsFailure(c) \in Range(workQ')
  BY DEF ItsFailure
<1>2. work # None /\ work = [do |-> "ask", prep |-> c] =>
         work' # None /\ work' = [do |-> "ask", prep |-> c]
  OBVIOUS
<1> QED BY <1>1, <1>2 DEF Awaited, ListComing, ItsFailure

\* A step that leaves the preparations and their tables alone, and takes nothing
\* from the work queue but an item that is not about lists or bundles.
LEMMA WayAside ==
    ASSUME UnderWay, UNCHANGED <<stage, waiting, callbacks, stranded, crashed, work>>,
           bundleIQs \subseteq bundleIQs', listIQs \subseteq listIQs',
           module # None => module' = module,
           \A x \in Range(workQ) : x.op # "encrypt" => x \in Range(workQ')
    PROVE  UnderWay'
<1> SUFFICES ASSUME NEW c \in Prep PROVE Way(c)'
  BY DEF UnderWay
<1>1. BundlesComing(c) => BundlesComing(c)'
  BY BundlesKept
<1>2. Awaited(c) => Awaited(c)'
  BY AwaitedKept
<1>3. Way(c)
  BY DEF UnderWay
<1> QED BY <1>1, <1>2, <1>3, WayKept

\* A preparation whose block the table loses is stranded, and no other is.
LEMMA WayRemoved ==
    ASSUME TypeInv, UnderWay, NEW p \in Party, RemoveListBlock(p),
           UNCHANGED <<stage, waiting, bundleIQs, listIQs, workQ, crashed>>,
           \/ work' = work
           \/ work.do = "remove" /\ module' = module,
           module # None => module' = module \/ module.party = p
    PROVE  UnderWay'
<1> SUFFICES ASSUME NEW c \in Prep PROVE Way(c)'
  BY DEF UnderWay
<1>1. BundlesComing(c) => BundlesComing(c)'
  BY BundlesKept
<1>2. /\ callbacks' = [callbacks EXCEPT ![p] = None]
      /\ stranded' = stranded \cup {o \in Prep : callbacks[p] = o /\ stage[o] = "listing"}
  BY DEF RemoveListBlock, Waiting
<1>3. ASSUME stage[c] = "listing", Awaited(c) PROVE c \in stranded' \/ Awaited(c)'
  <2>1. CASE PartyFor(c) = p
    BY <1>2, <1>3, <2>1 DEF Awaited
  <2>2. CASE PartyFor(c) # p
    <3>1. callbacks'[PartyFor(c)] = callbacks[PartyFor(c)]
      BY <1>2, <2>2 DEF TypeInv, Tables
    <3>2. work # None /\ work = [do |-> "ask", prep |-> c] =>
             work' # None /\ work' = [do |-> "ask", prep |-> c]
      OBVIOUS
    <3>3. module # None /\ module.do = "call" /\ module.party = PartyFor(c) => module' = module
      BY <2>2
    <3> QED BY <1>3, <3>1, <3>2, <3>3 DEF Awaited, ListComing, ItsFailure
  <2> QED BY <2>1, <2>2
<1>4. Way(c)
  BY DEF UnderWay
<1> QED BY <1>1, <1>2, <1>3, <1>4, WayKept

\* The preparation whose block is called is put into the work queue.
LEMMA WayCalled ==
    ASSUME TypeInv, UnderWay, NEW o \in Prep, NEW q \in Seq(Items), CallListBlock(o, q),
           callbacks[PartyFor(o)] = o,
           UNCHANGED <<waiting, callbacks, bundleIQs, listIQs, stranded>>, ~crashed,
           work # None /\ work.do = "ask" => work' = work,
           module # None => module' = module \/ module.party = PartyFor(o),
           \A x \in Range(workQ) : x.op # "listFailed" \/ x.party # PartyFor(o) => x \in Range(q)
    PROVE  UnderWay'
<1> SUFFICES ASSUME NEW c \in Prep PROVE Way(c)'
  BY DEF UnderWay
<1>0. ItsListed(o) \in Items
  BY DEF ItsListed, Items
<1>1. Range(q) \subseteq Range(workQ')
      /\ (stage[o] = "listing" => ItsListed(o) \in Range(workQ'))
  BY <1>0, RangeAppended DEF CallListBlock, ItsListed
<1>2. BundlesComing(c) => BundlesComing(c)'
  BY <1>1, BundlesKept
<1>3. Way(c)
  BY DEF UnderWay
<1>4. CASE c = o /\ stage[o] = "listing"
  <2>1. stage'[c] = "listed"
    BY <1>4 DEF CallListBlock, TypeInv, Progress
  <2> QED BY <1>1, <1>4, <2>1 DEF Way, ItsListed
<1>5. CASE c = o /\ stage[o] # "listing"
  <2>1. stage'[c] = stage[c] /\ crashed'
    BY <1>5 DEF CallListBlock
  <2> QED BY <1>1, <1>2, <1>3, <1>5, <2>1, WayKept
<1>6. CASE c # o
  <2>1. stage'[c] = stage[c]
    BY <1>6 DEF CallListBlock, TypeInv, Progress
  <2>2. ASSUME Awaited(c) PROVE Awaited(c)'
    <3>1. PartyFor(c) # PartyFor(o)
      BY <1>6, <2>2 DEF Awaited
    <3>2. module # None /\ module.do = "call" /\ module.party = PartyFor(c) => module' = module
      BY <3>1
    <3>3. ItsFailure(c) \in Range(workQ) => ItsFailure(c) \in Range(workQ')
      BY <1>1, <3>1 DEF ItsFailure
    <3> QED BY <2>2, <3>2, <3>3 DEF Awaited, ListComing, ItsFailure
  <2> QED BY <1>1, <1>2, <1>3, <2>1, <2>2, WayKept
<1> QED BY <1>4, <1>5, <1>6

\* A preparation that asks for bundles has all of them coming.
LEMMA WayFetches ==
    ASSUME TypeInv, UnderWay, NEW o \in Prep, NEW ds, NEW ks, BundleFetch(o, ds, ks), workQ # <<>>,
           workQ' = Tail(workQ), Head(workQ).op \in {"prepare", "listed"}, Head(workQ).prep = o,
           UNCHANGED <<callbacks, listIQs, stranded, work, module, crashed>>
    PROVE  UnderWay'
<1> SUFFICES ASSUME NEW c \in Prep PROVE Way(c)'
  BY DEF UnderWay
<1>1. Range(workQ) = {Head(workQ)} \cup Range(workQ')
  BY BlockTaken DEF TypeInv
<1>2. Way(c) /\ stage \in [Prep -> Stages] /\ waiting \in [Prep -> SUBSET Device]
  BY DEF UnderWay, TypeInv, Progress
<1>3. /\ bundleIQs' = bundleIQs \cup ({o} \X Needed(ds, ks))
      /\ waiting' = [waiting EXCEPT ![o] = Needed(ds, ks)]
      /\ stage' = [stage EXCEPT ![o] = IF Needed(ds, ks) = {} THEN "ready" ELSE "fetching"]
  BY DEF BundleFetch
<1>4. CASE c = o
  <2>1. waiting'[c] = Needed(ds, ks) /\ stage'[c] \in {"ready", "fetching"}
    BY <1>2, <1>3, <1>4
  <2>2. BundlesComing(c)'
    BY <1>3, <1>4, <2>1 DEF BundlesComing, BundleComing
  <2> QED BY <2>1, <2>2 DEF Way
<1>5. CASE c # o
  <2>1. stage'[c] = stage[c] /\ waiting'[c] = waiting[c] /\ bundleIQs \subseteq bundleIQs'
    BY <1>2, <1>3, <1>5
  <2>2. BundlesComing(c) => BundlesComing(c)'
    BY <1>1, <2>1, BundlesKept
  <2>3. Awaited(c) => Awaited(c)'
    BY <1>1, AwaitedKept
  <2> QED BY <1>1, <1>2, <1>5, <2>1, <2>2, <2>3, WayKept
<1> QED BY <1>4, <1>5

LEMMA WaySent == ASSUME TypeInv, UnderWay, NEW s \in Send, EncryptAndSendMessage(s) PROVE UnderWay'
<1>1. CASE BuddyKeys[s] = <<>>
  BY <1>1, WayAside DEF EncryptAndSendMessage
<1>2. CASE BuddyKeys[s] # <<>>
  <2>1. /\ workQ' = workQ \o Prepares(s)
        /\ stage' = [c \in Prep |-> IF c[1] = s THEN "queued" ELSE stage[c]]
        /\ UNCHANGED <<waiting, callbacks, listIQs, bundleIQs, work, module, crashed, stranded>>
    BY <1>2 DEF EncryptAndSendMessage, Prepares
  <2>2. Range(workQ') = Range(workQ) \cup Range(Prepares(s))
    BY <2>1, PreparesSent, RangeSent DEF TypeInv, Queued
  <2> SUFFICES ASSUME NEW c \in Prep PROVE Way(c)'
    BY DEF UnderWay
  <2>3. CASE c[1] = s
    <3>1. PICK k \in 1 .. Len(BuddyKeys[s]) + 1 : c = <<s, k>>
      BY <2>3, PrepFacts DEF Preps
    <3>2. k \in DOMAIN Prepares(s) /\ Prepares(s)[k] = ItsPrepare(c)
      BY <3>1 DEF Prepares, ItsPrepare
    <3>3. ItsPrepare(c) \in Range(workQ')
      BY <2>2, <3>2 DEF Range
    <3>4. stage'[c] = "queued"
      BY <2>1, <2>3
    <3> QED BY <3>3, <3>4 DEF Way, ItsPrepare
  <2>4. CASE c[1] # s
    <3>1. stage'[c] = stage[c]
      BY <2>1, <2>4
    <3>2. BundlesComing(c) => BundlesComing(c)'
      BY <2>1, <2>2, BundlesKept
    <3>3. Awaited(c) => Awaited(c)'
      BY <2>1, <2>2, AwaitedKept
    <3> QED BY <2>1, <2>2, <3>1, <3>2, <3>3, WayKept DEF UnderWay
  <2> QED BY <2>3, <2>4
<1> QED BY <1>1, <1>2

LEMMA WayPrepared == ASSUME TypeInv, UnderWay, PrepareSession PROVE UnderWay'
<1> DEFINE o == Head(workQ).prep
<1>1. /\ workQ # <<>> /\ work = None /\ ~crashed /\ Head(workQ).op = "prepare"
      /\ workQ' = Tail(workQ)
      /\ UNCHANGED <<listIQs, module, crashed>>
  BY DEF PrepareSession, WorkQueueFree
<1>2. o \in Prep /\ Range(workQ) = {Head(workQ)} \cup Range(workQ')
  BY <1>1, BlockTaken, ItemFacts DEF TypeInv
<1>3. CASE devices[o] # {}
  BY <1>1, <1>2, <1>3, WayFetches DEF PrepareSession
<1>4. CASE devices[o] = {}
  <2>1. DeviceFetch(o)
    BY <1>4 DEF PrepareSession
  <2> HIDE DEF o
  <2>2. /\ callbacks' = [callbacks EXCEPT ![PartyFor(o)] = o]
        /\ stranded' = stranded \cup
              {c \in Prep : callbacks[PartyFor(o)] = c /\ stage[c] = "listing"}
        /\ stage' = [stage EXCEPT ![o] = "listing"]
        /\ work' = [do |-> "ask", prep |-> o] /\ work' # None
        /\ UNCHANGED <<devices, waiting, bundleIQs>>
    BY <1>2, <2>1, PrepFacts DEF DeviceFetch, Waiting
  <2> SUFFICES ASSUME NEW c \in Prep PROVE Way(c)'
    BY DEF UnderWay
  <2>3. /\ stage \in [Prep -> Stages] /\ callbacks \in [Party -> Prep \cup {None}]
        /\ PartyFor(o) \in Party /\ PartyFor(c) \in Party /\ Way(c)
    BY <1>2, PrepFacts DEF TypeInv, Progress, Tables, UnderWay
  <2>4. CASE c = o
    <3>1. stage'[c] = "listing" /\ callbacks'[PartyFor(c)] = c
      BY <1>2, <2>2, <2>3, <2>4
    <3>2. Awaited(c)'
      BY <2>2, <2>4, <3>1 DEF Awaited, ListComing, PartyFor
    <3> QED BY <3>1, <3>2 DEF Way
  <2>5. CASE c # o
    <3>1. stage'[c] = stage[c]
      BY <2>2, <2>3, <2>5
    <3>2. BundlesComing(c) => BundlesComing(c)'
      BY <1>1, <1>2, <2>2, BundlesKept
    <3>3. ASSUME stage[c] = "listing", Awaited(c) PROVE c \in stranded' \/ Awaited(c)'
      <4>1. CASE PartyFor(c) = PartyFor(o)
        BY <2>2, <3>3, <4>1 DEF Awaited
      <4>2. CASE PartyFor(c) # PartyFor(o)
        <5>1. callbacks'[PartyFor(c)] = callbacks[PartyFor(c)]
          BY <2>2, <2>3, <4>2
        <5> QED BY <1>1, <1>2, <3>3, <5>1, AwaitedKept
      <4> QED BY <4>1, <4>2
    <3>4. \A x \in Range(workQ) : x.op \in {"prepare", "listed"} /\ x.prep = c
                                  => x \in Range(workQ')
      BY <1>2, <2>5 DEF o
    <3> QED BY <1>1, <2>2, <2>3, <3>1, <3>2, <3>3, <3>4, WayKept
  <2> QED BY <2>4, <2>5
<1> QED BY <1>3, <1>4

LEMMA WayBundle == ASSUME TypeInv, UnderWay, BundleAnswered PROVE UnderWay'
<1> DEFINE o == Head(workQ).prep
           d == Head(workQ).device
<1>1. /\ workQ # <<>> /\ Head(workQ).op = "bundle" /\ workQ' = Tail(workQ)
      /\ waiting' = [waiting EXCEPT ![o] = @ \ {d}]
      /\ stage' = IF waiting[o] = {d} THEN [stage EXCEPT ![o] = "ready"] ELSE stage
      /\ UNCHANGED <<callbacks, listIQs, bundleIQs, work, module, crashed, stranded>>
  BY DEF BundleAnswered, WorkQueueFree
<1>2. o \in Prep /\ Range(workQ) = {Head(workQ)} \cup Range(workQ')
  BY <1>1, BlockTaken, ItemFacts DEF TypeInv
<1> SUFFICES ASSUME NEW c \in Prep PROVE Way(c)'
  BY DEF UnderWay
<1>3. /\ stage \in [Prep -> Stages] /\ waiting \in [Prep -> SUBSET Device] /\ Way(c)
  BY DEF TypeInv, Progress, UnderWay
<1>4. CASE stage'[c] = "ready"
  BY <1>4 DEF Way
<1>5. CASE stage'[c] # "ready"
  <2>1. stage'[c] = stage[c]
    BY <1>1, <1>2, <1>3, <1>5
  <2>2. waiting'[c] \subseteq waiting[c] /\ (c = o => d \notin waiting'[c])
    BY <1>1, <1>2, <1>3
  <2>3. \A x \in Range(workQ) : x.op = "bundle" /\ x.prep = c /\ x.device \in waiting'[c]
                                => x \in Range(workQ')
    BY <1>2, <2>2
  <2>4. BundlesComing(c) => BundlesComing(c)'
    BY <1>1, <2>2, <2>3, BundlesKept
  <2>5. Awaited(c) => Awaited(c)'
    BY <1>1, <1>2, AwaitedKept
  <2> QED BY <1>1, <1>2, <1>3, <2>1, <2>4, <2>5, WayKept
<1> QED BY <1>4, <1>5

LEMMA WayLeft == ASSUME TypeInv, UnderWay, NEW o \in Prep, LeaveGroup(o) PROVE UnderWay'
<1> DEFINE e == [op |-> "encrypt", send |-> o[1]]
<1>1. /\ workQ' \in {workQ, Append(workQ, e)}
      /\ stage' = [stage EXCEPT ![o] = "left"]
      /\ UNCHANGED <<waiting, callbacks, listIQs, bundleIQs, work, module, crashed, stranded>>
  BY DEF LeaveGroup
<1>2. e \in Items
  BY PrepFacts DEF Items
<1> HIDE DEF e
<1>3. Range(workQ) \subseteq Range(workQ')
  <2>1. Range(Append(workQ, e)) = Range(workQ) \cup {e}
    BY <1>2, RangeAppended DEF TypeInv, Queued
  <2> QED BY <1>1, <2>1
<1> SUFFICES ASSUME NEW c \in Prep PROVE Way(c)'
  BY DEF UnderWay
<1>4. stage \in [Prep -> Stages] /\ Way(c)
  BY DEF TypeInv, Progress, UnderWay
<1>5. CASE c = o
  <2>1. stage'[c] = "left"
    BY <1>1, <1>4, <1>5
  <2> QED BY <2>1 DEF Way
<1>6. CASE c # o
  <2>1. stage'[c] = stage[c]
    BY <1>1, <1>4, <1>6
  <2>2. BundlesComing(c) => BundlesComing(c)'
    BY <1>1, <1>3, BundlesKept
  <2>3. Awaited(c) => Awaited(c)'
    BY <1>1, <1>3, AwaitedKept
  <2> QED BY <1>1, <1>3, <1>4, <2>1, <2>2, <2>3, WayKept
<1> QED BY <1>5, <1>6

LEMMA WayBundleComes ==
    ASSUME TypeInv, UnderWay, NEW b \in Prep \X Device, BundleArrives(b) PROVE UnderWay'
<1>1. PICK ok \in BOOLEAN : workQ' = Append(workQ, ItsBundle(b[1], b[2], ok))
  BY DEF BundleArrives, ItsBundle
<1> DEFINE x == ItsBundle(b[1], b[2], ok)
<1>2. x \in Items
  BY DEF Items, ItsBundle
<1> HIDE DEF x
<1>3. Range(workQ') = Range(workQ) \cup {x}
  BY <1>1, <1>2, RangeAppended DEF TypeInv, Queued, x
<1>4. /\ bundleIQs' = bundleIQs \ {b}
      /\ UNCHANGED <<stage, waiting, callbacks, listIQs, work, module, crashed, stranded>>
  BY DEF BundleArrives
<1> SUFFICES ASSUME NEW c \in Prep PROVE Way(c)'
  BY DEF UnderWay
<1>5. ASSUME BundlesComing(c), NEW e \in waiting'[c]
      PROVE  <<c, e>> \in bundleIQs' \/
                \E k \in BOOLEAN : ItsBundle(c, e, k) \in Range(workQ')
  <2>1. CASE <<c, e>> = b
    <3>1. b[1] = c /\ b[2] = e
      BY <2>1
    <3> QED BY <1>3, <3>1 DEF x
  <2>2. CASE <<c, e>> # b
    BY <1>3, <1>4, <1>5, <2>2 DEF BundlesComing, BundleComing
  <2> QED BY <2>1, <2>2
<1>6. BundlesComing(c) => BundlesComing(c)'
  BY <1>5 DEF BundlesComing, BundleComing, ItsBundle
<1>7. Awaited(c) => Awaited(c)'
  BY <1>3, <1>4, AwaitedKept
<1> QED BY <1>3, <1>4, <1>6, <1>7, WayKept DEF UnderWay

LEMMA WayAnswered ==
    ASSUME TypeInv, UnderWay, NEW o \in Prep, DeviceIdsAnswered(o) PROVE UnderWay'
<1>1. /\ module = None /\ listIQs' = listIQs \ {o}
      /\ UNCHANGED <<stage, waiting, callbacks, bundleIQs, work, crashed, stranded>>
  BY DEF DeviceIdsAnswered, ModuleIdle
<1>2. ItsFailure(o) \in Items /\ PartyFor(o) \in Party
  BY PrepFacts DEF ItsFailure, Items
<1>3. /\ Range(workQ) \subseteq Range(workQ')
      /\ \/ module' # None /\ module'.do = "call" /\ module'.party = PartyFor(o)
         \/ ItsFailure(o) \in Range(workQ')
  <2>1. CASE UNCHANGED workQ /\ \E L \in Lists[PartyFor(o)] \cup {{}} : StoreList(PartyFor(o), L)
    <3>1. PICK L \in SUBSET Device : StoreList(PartyFor(o), L)
      BY <1>2, <2>1, SendConstants
    <3>2. module' = [do |-> "call", party |-> PartyFor(o), list |-> L]
      BY <3>1 DEF StoreList
    <3>3. module' # None
      BY <1>2, <3>2, SendConstants
    <3> QED BY <2>1, <3>2, <3>3
  <2>2. CASE workQ' = Append(workQ, ItsFailure(o))
    BY <1>2, <2>2, RangeAppended DEF TypeInv, Queued
  <2> QED BY <2>1, <2>2 DEF DeviceIdsAnswered, ItsFailure
<1> SUFFICES ASSUME NEW c \in Prep PROVE Way(c)'
  BY DEF UnderWay
<1>4. BundlesComing(c) => BundlesComing(c)'
  BY <1>1, <1>3, BundlesKept
<1>5. ASSUME Awaited(c) PROVE Awaited(c)'
  <2>1. CASE c = o
    BY <1>1, <1>3, <1>5, <2>1 DEF Awaited, ListComing, ItsFailure
  <2>2. CASE c # o
    BY <1>1, <1>3, <1>5, <2>2, AwaitedKept
  <2> QED BY <2>1, <2>2
<1> QED BY <1>1, <1>3, <1>4, <1>5, WayKept DEF UnderWay

\* A block waits in the table under the party of its preparation.
Placed == \A p \in Party : callbacks[p] # None => PartyFor(callbacks[p]) = p

LEMMA PlacedNext == ASSUME TypeInv, Placed, [Next]_vars PROVE Placed'
<1>0. callbacks \in [Party -> Prep \cup {None}] /\ Queued
  BY DEF TypeInv, Tables
<1> DEFINE At(c) == PartyFor(c)
<1>4. (\A p \in Party : callbacks'[p] # None => At(callbacks'[p]) = p) => Placed'
  BY DEF Placed, PartyFor
<1>5. \A p \in Party : callbacks[p] # None => At(callbacks[p]) = p
  BY DEF Placed
<1> HIDE DEF At
<1>1. ASSUME PrepareSession PROVE Placed'
  <2>1. Head(workQ).prep \in Prep
    BY <1>0, <1>1, BlockTaken, ItemFacts DEF PrepareSession, WorkQueueFree
  <2>2. \/ callbacks' = callbacks
        \/ callbacks' = [callbacks EXCEPT ![At(Head(workQ).prep)] = Head(workQ).prep]
    BY <1>1 DEF PrepareSession, DeviceFetch, At
  <2> QED BY <1>0, <1>4, <1>5, <2>1, <2>2
<1>2. ASSUME WorkRemovesListBlock \/ ModuleRemovesListBlock PROVE Placed'
  <2>1. PICK p : callbacks' = [callbacks EXCEPT ![p] = None]
    BY <1>2 DEF WorkRemovesListBlock, ModuleRemovesListBlock, RemoveListBlock
  <2> QED BY <1>0, <1>4, <1>5, <2>1
<1>3. ASSUME callbacks' = callbacks PROVE Placed'
  BY <1>3, <1>4, <1>5
<1> QED
  BY <1>1, <1>2, <1>3 DEF Next, vars, WorkQueueStep, ModuleStep, EncryptAndSendMessage,
     FetchDeviceIds, DevicesFetched, FailedToFetchDeviceIds, BundleAnswered, Encrypt,
     ModuleCallsListBlock, DeviceIdsAnswered, BundleArrives, LeaveGroup, DeviceListPushed,
     BundleComesLate, MessageOpensSession, DeleteSession

LEMMA WayListFailed ==
    ASSUME TypeInv, Placed, UnderWay, FailedToFetchDeviceIds PROVE UnderWay'
<1> DEFINE p == Head(workQ).party
           o == callbacks[p]
<1>1. /\ workQ # <<>> /\ work = None /\ ~crashed /\ Head(workQ).op = "listFailed"
      /\ UNCHANGED <<waiting, callbacks, listIQs, bundleIQs, module, stranded>>
  BY DEF FailedToFetchDeviceIds, WorkQueueFree
<1>2. /\ Range(workQ) = {Head(workQ)} \cup Range(Tail(workQ)) /\ Tail(workQ) \in Seq(Items)
      /\ p \in Party /\ callbacks \in [Party -> Prep \cup {None}]
  BY <1>1, BlockTaken, ItemFacts DEF TypeInv, Tables
<1>3. CASE o = None
  <2>1. workQ' = Tail(workQ) /\ UNCHANGED <<stage, work, crashed>>
    BY <1>3 DEF FailedToFetchDeviceIds
  <2> SUFFICES ASSUME NEW c \in Prep PROVE Way(c)'
    BY DEF UnderWay
  <2>2. BundlesComing(c) => BundlesComing(c)'
    BY <1>1, <1>2, <2>1, BundlesKept
  <2>3. ASSUME Awaited(c) PROVE Awaited(c)'
    <3>1. PartyFor(c) # p
      BY <1>3, <2>3, PrepFacts DEF Awaited
    <3> QED BY <1>1, <1>2, <2>1, <2>3, <3>1, AwaitedKept
  <2> QED BY <1>1, <1>2, <2>1, <2>2, <2>3, WayKept DEF UnderWay
<1>4. CASE o # None
  <2>1. CallListBlock(o, Tail(workQ)) /\ o \in Prep /\ PartyFor(o) = p
    BY <1>2, <1>4 DEF FailedToFetchDeviceIds, Placed
  <2>2. \A x \in Range(workQ) : x.op # "listFailed" \/ x.party # PartyFor(o)
                                => x \in Range(Tail(workQ))
    BY <1>1, <1>2, <2>1
  <2> HIDE DEF o
  <2>3. callbacks[PartyFor(o)] = o
    BY <2>1 DEF o
  <2> QED BY <1>1, <1>2, <2>1, <2>2, <2>3, WayCalled
<1> QED BY <1>3, <1>4

LEMMA WayModuleCalls ==
    ASSUME TypeInv, Placed, UnderWay, ModuleCallsListBlock PROVE UnderWay'
<1> DEFINE p == module.party
           o == callbacks[p]
<1>1. /\ ~crashed /\ module # None /\ module.do = "call"
      /\ UNCHANGED <<waiting, callbacks, listIQs, bundleIQs, work, stranded>>
  BY DEF ModuleCallsListBlock
<1>2. p \in Party /\ callbacks \in [Party -> Prep \cup {None}]
  BY <1>1 DEF TypeInv, Tables
<1>3. CASE o = None
  <2>1. UNCHANGED <<stage, workQ, crashed>>
    BY <1>3 DEF ModuleCallsListBlock
  <2> SUFFICES ASSUME NEW c \in Prep PROVE Way(c)'
    BY DEF UnderWay
  <2>2. BundlesComing(c) => BundlesComing(c)'
    BY <1>1, <2>1, BundlesKept
  <2>3. ASSUME Awaited(c) PROVE Awaited(c)'
    <3>1. PartyFor(c) # p
      BY <1>3, <2>3, PrepFacts DEF Awaited
    <3> QED BY <1>1, <2>1, <2>3, <3>1 DEF Awaited, ListComing, ItsFailure
  <2> QED BY <1>1, <2>1, <2>2, <2>3, WayKept DEF UnderWay
<1>4. CASE o # None
  <2>1. CallListBlock(o, workQ) /\ o \in Prep /\ PartyFor(o) = p
    BY <1>2, <1>4 DEF ModuleCallsListBlock, Placed
  <2> HIDE DEF o
  <2>2. callbacks[PartyFor(o)] = o
    BY <2>1 DEF o
  <2>3. workQ \in Seq(Items)
    BY DEF TypeInv, Queued
  <2> QED BY <1>1, <2>1, <2>2, <2>3, WayCalled
<1> QED BY <1>3, <1>4

LEMMA WayNext == ASSUME TypeInv, Placed, UnderWay, [Next]_vars PROVE UnderWay'
<1>0. Queued /\ Tables
  BY DEF TypeInv
<1>1. CASE FetchDeviceIds
  <2>1. /\ work # None /\ work.do = "ask" /\ listIQs' = listIQs \cup {work.prep}
        /\ UNCHANGED <<stage, waiting, callbacks, bundleIQs, workQ, module, crashed, stranded>>
    BY <1>1 DEF FetchDeviceIds
  <2> SUFFICES ASSUME NEW c \in Prep PROVE Way(c)'
    BY DEF UnderWay
  <2>2. BundlesComing(c) => BundlesComing(c)'
    BY <2>1, BundlesKept
  <2>3. Awaited(c) => Awaited(c)'
    BY <2>1 DEF Awaited, ListComing, ItsFailure
  <2> QED BY <2>1, <2>2, <2>3, WayKept DEF UnderWay
<1>2. CASE DevicesFetched
  <2>1. /\ workQ # <<>> /\ Head(workQ).op = "listed" /\ workQ' = Tail(workQ)
        /\ BundleFetch(Head(workQ).prep, Stored(PartyFor(Head(workQ).prep)), keyed)
        /\ UNCHANGED <<callbacks, listIQs, stranded, work, module, crashed>>
    BY <1>2 DEF DevicesFetched, WorkQueueFree
  <2>2. Head(workQ).prep \in Prep
    BY <1>0, <2>1, BlockTaken, ItemFacts
  <2> QED BY <2>1, <2>2, WayFetches
<1>3. CASE WorkRemovesListBlock
  <2>1. /\ work # None /\ work.do = "remove" /\ RemoveListBlock(PartyFor(work.prep))
        /\ UNCHANGED <<stage, waiting, listIQs, bundleIQs, workQ, module, crashed>>
    BY <1>3 DEF WorkRemovesListBlock
  <2>2. PartyFor(work.prep) \in Party
    BY <1>0, <2>1, PrepFacts DEF Tables
  <2> QED BY <2>1, <2>2, WayRemoved
<1>4. CASE Encrypt
  <2>1. workQ # <<>> /\ Head(workQ).op = "encrypt" /\ workQ' = Tail(workQ)
    BY <1>4 DEF Encrypt, WorkQueueFree
  <2>2. \A x \in Range(workQ) : x.op # "encrypt" => x \in Range(workQ')
    BY <1>0, <2>1, BlockTaken
  <2> QED BY <1>4, <2>2, WayAside DEF Encrypt
<1>5. CASE ModuleRemovesListBlock
  <2>1. /\ module # None /\ module.do = "remove" /\ RemoveListBlock(module.party)
        /\ UNCHANGED <<stage, waiting, listIQs, bundleIQs, workQ, work, crashed>>
    BY <1>5 DEF ModuleRemovesListBlock
  <2>2. module.party \in Party
    BY <1>0, <2>1 DEF Tables
  <2> QED BY <2>1, <2>2, WayRemoved
<1>6. ASSUME NEW p \in Party, DeviceListPushed(p) PROVE UnderWay'
  BY <1>6, WayAside DEF DeviceListPushed, ModuleIdle
<1>7. ASSUME NEW c \in Prep, NEW d \in Device, BundleComesLate(c, d) PROVE UnderWay'
  <2>1. ItsBundle(c, d, TRUE) \in Items
    BY DEF Items, ItsBundle
  <2>2. Range(workQ) \subseteq Range(workQ')
    BY <1>0, <1>7, <2>1, RangeAppended DEF BundleComesLate, ItsBundle, Queued
  <2> QED BY <1>7, <2>2, WayAside DEF BundleComesLate
<1>8. ASSUME NEW d \in Device, MessageOpensSession(d) \/ DeleteSession(d) PROVE UnderWay'
  BY <1>8, WayAside DEF MessageOpensSession, DeleteSession
<1>9. CASE UNCHANGED vars
  BY <1>9, WayAside DEF vars
<1> QED
  BY <1>1, <1>2, <1>3, <1>4, <1>5, <1>6, <1>7, <1>8, <1>9, WaySent, WayPrepared, WayBundle,
     WayLeft, WayBundleComes, WayAnswered, WayListFailed, WayModuleCalls
  DEF Next, WorkQueueStep, ModuleStep

-----------------------------------------------------------------------------
(* A message that is being prepared goes on                                 *)

ItsEncrypt(s) == [op |-> "encrypt", send |-> s]

\* The message has all its preparations; one of them is on its way, or the turn to
\* encrypt is in the work queue.
InHand(s) ==
    /\ \A c \in Preps(s) : stage[c] # "none"
    /\ \/ \E c \in Preps(s) : stage[c] \in Busy
       \/ ItsEncrypt(s) \in Range(workQ)
Going == \A s \in Send : result[s] = "preparing" => InHand(s)

LEMMA GoingSent ==
    ASSUME SendInv, Going, NEW s \in Send, EncryptAndSendMessage(s) PROVE Going'
<1>0. /\ result \in [Send -> {"new", "preparing", "sent", "failed", "dropped"}]
      /\ stage \in [Prep -> Stages] /\ Queued
  BY DEF SendInv, TypeInv, Progress
<1>1. CASE BuddyKeys[s] = <<>>
  <2>1. result' = [result EXCEPT ![s] = "failed"] /\ UNCHANGED <<stage, workQ>>
    BY <1>1 DEF EncryptAndSendMessage
  <2> QED BY <1>0, <2>1 DEF Going, InHand, ItsEncrypt
<1>2. CASE BuddyKeys[s] # <<>>
  <2>1. /\ result' = [result EXCEPT ![s] = "preparing"]
        /\ stage' = [c \in Prep |-> IF c[1] = s THEN "queued" ELSE stage[c]]
        /\ workQ' = workQ \o Prepares(s)
    BY <1>2 DEF EncryptAndSendMessage, Prepares
  <2>2. Range(workQ) \subseteq Range(workQ')
    BY <1>0, <2>1, PreparesSent, RangeSent DEF Queued
  <2>3. /\ \A c \in Preps(s) : stage'[c] = "queued"
        /\ <<s, 1>> \in Preps(s)
    <3>1. 1 \in 1 .. Len(BuddyKeys[s]) + 1
      BY SendConstants
    <3> QED BY <2>1, <3>1, PrepFacts
  <2>4. InHand(s)'
    BY <2>3 DEF InHand, Busy
  <2>5. ASSUME NEW t \in Send, t # s, result'[t] = "preparing" PROVE InHand(t)'
    <3>1. InHand(t) /\ \A c \in Preps(t) : stage'[c] = stage[c]
      BY <1>0, <2>1, <2>5, PrepFacts DEF Going
    <3> QED BY <2>2, <3>1 DEF InHand, ItsEncrypt
  <2> QED BY <2>4, <2>5 DEF Going
<1> QED BY <1>1, <1>2

LEMMA GoingLeft == ASSUME SendInv, Going, NEW c \in Prep, LeaveGroup(c) PROVE Going'
<1> DEFINE s == c[1]
<1>1. /\ stage[c] = "ready" /\ stage' = [stage EXCEPT ![c] = "left"] /\ result' = result
      /\ s \in Send /\ c \in Preps(s) /\ stage \in [Prep -> Stages] /\ Queued
      /\ workQ' = IF \A o \in Preps(s) \ {c} : stage[o] = "left"
                  THEN Append(workQ, ItsEncrypt(s)) ELSE workQ
  BY PrepFacts DEF LeaveGroup, ItsEncrypt, SendInv, TypeInv, Progress
<1>2. ItsEncrypt(s) \in Items
  BY <1>1 DEF Items, ItsEncrypt
<1>3. Range(Append(workQ, ItsEncrypt(s))) = Range(workQ) \cup {ItsEncrypt(s)}
  BY <1>1, <1>2, RangeAppended DEF Queued
<1>4. Range(workQ) \subseteq Range(workQ')
  BY <1>1, <1>3
<1>5. ASSUME NEW t \in Send, t # s, result'[t] = "preparing" PROVE InHand(t)'
  <2>1. InHand(t) /\ \A o \in Preps(t) : stage'[o] = stage[o]
    BY <1>1, <1>5, PrepFacts DEF Going
  <2> QED BY <1>4, <2>1 DEF InHand, ItsEncrypt
<1>6. ASSUME result'[s] = "preparing" PROVE InHand(s)'
  <2>1. InHand(s) /\ stage'[c] = "left" /\ \A o \in Preps(s) \ {c} : stage'[o] = stage[o]
    BY <1>1, <1>6, PrepFacts DEF Going
  <2>2. CASE \A o \in Preps(s) \ {c} : stage[o] = "left"
    BY <1>1, <1>3, <2>1, <2>2 DEF InHand, ItsEncrypt
  <2>3. CASE ~ \A o \in Preps(s) \ {c} : stage[o] = "left"
    <3>1. PICK o \in Preps(s) \ {c} : stage[o] # "left"
      BY <2>3
    <3>2. stage[o] \in Busy
      BY <1>1, <2>1, <3>1, PrepFacts DEF InHand, Stages, Busy
    <3> QED BY <2>1, <3>2 DEF InHand
  <2> QED BY <2>2, <2>3
<1> QED BY <1>1, <1>5, <1>6 DEF Going

LEMMA GoingEncrypts == ASSUME SendInv, Going, Encrypt PROVE Going'
<1> DEFINE s == Head(workQ).send
<1>1. /\ s \in Send
      /\ \E r \in {"sent", "failed", "dropped"} : result' = [result EXCEPT ![s] = r]
      /\ workQ' = Tail(workQ)
  BY EncryptTaken DEF SendInv
<1>2. /\ stage' = stage /\ result \in [Send -> {"new", "preparing", "sent", "failed", "dropped"}]
      /\ workQ # <<>> /\ Queued
  BY DEF Encrypt, WorkQueueFree, SendInv, TypeInv, Progress
<1>3. Range(workQ) = {Head(workQ)} \cup Range(workQ')
  BY <1>1, <1>2, BlockTaken
<1>4. ASSUME NEW t \in Send, result'[t] = "preparing" PROVE InHand(t)'
  <2>1. t # s /\ InHand(t)
    BY <1>1, <1>2, <1>4 DEF Going
  <2>2. ItsEncrypt(t) # Head(workQ)
    BY <2>1 DEF ItsEncrypt
  <2> QED BY <1>2, <1>3, <2>1, <2>2 DEF InHand, ItsEncrypt
<1> QED BY <1>4 DEF Going

\* The other blocks that the work queue runs are no turns to encrypt.
LEMMA EncryptsStay ==
    ASSUME SendInv, [Next]_vars,
           ~ \E s \in Send : EncryptAndSendMessage(s), ~ \E c \in Prep : LeaveGroup(c), ~ Encrypt
    PROVE  /\ result' = result
           /\ \A x \in Range(workQ) : x.op = "encrypt" => x \in Range(workQ')
<1> DEFINE Stay == \A x \in Range(workQ) : x.op = "encrypt" => x \in Range(workQ')
<1>0. SendInv /\ Queued /\ Tables
  BY DEF SendInv, TypeInv
<1>1. ASSUME workQ # <<>>, Head(workQ).op # "encrypt", Range(Tail(workQ)) \subseteq Range(workQ')
      PROVE  Stay
  BY <1>0, <1>1, BlockTaken
<1>2. ASSUME NEW x \in Items, workQ' = Append(workQ, x) PROVE Stay
  BY <1>0, <1>2, RangeAppended DEF Queued
<1>3. ASSUME PrepareSession \/ DevicesFetched \/ BundleAnswered PROVE Stay
  BY <1>1, <1>3 DEF PrepareSession, DevicesFetched, BundleAnswered, WorkQueueFree
<1>4. ASSUME FailedToFetchDeviceIds PROVE Stay
  <2> DEFINE c == callbacks[Head(workQ).party]
  <2>1. workQ # <<>> /\ Head(workQ).op = "listFailed"
    BY <1>4 DEF FailedToFetchDeviceIds, WorkQueueFree
  <2>2. c \in Prep \cup {None} /\ Tail(workQ) \in Seq(Items)
    BY <1>0, <2>1, BlockTaken, ItemFacts DEF Tables
  <2>3. workQ' = Tail(workQ) \/ (c # None /\ CallListBlock(c, Tail(workQ)))
    BY <1>4 DEF FailedToFetchDeviceIds
  <2> HIDE DEF c
  <2>4. Range(Tail(workQ)) \subseteq Range(workQ')
    BY <1>0, <2>2, <2>3, CallMoves
  <2> QED BY <1>1, <2>1, <2>4
<1>5. ASSUME NEW c \in Prep, DeviceIdsAnswered(c) PROVE Stay
  <2>1. [op |-> "listFailed", party |-> PartyFor(c)] \in Items
    BY PrepFacts DEF Items
  <2> QED BY <1>2, <1>5, <2>1 DEF DeviceIdsAnswered
<1>6. ASSUME ModuleCallsListBlock PROVE Stay
  <2>1. callbacks[module.party] \in Prep \cup {None}
    BY <1>0, <1>6 DEF ModuleCallsListBlock, Tables
  <2>2. workQ' = workQ \/ (callbacks[module.party] # None
                           /\ CallListBlock(callbacks[module.party], workQ))
    BY <1>6 DEF ModuleCallsListBlock
  <2> QED BY <1>0, <2>1, <2>2, CallMoves DEF Queued
<1>7. ASSUME NEW b \in Prep \X Device, BundleArrives(b) PROVE Stay
  <2>1. \A ok \in BOOLEAN : [op |-> "bundle", prep |-> b[1], device |-> b[2], ok |-> ok] \in Items
    BY DEF Items
  <2> QED BY <1>2, <1>7, <2>1 DEF BundleArrives
<1>8. ASSUME NEW c \in Prep, NEW d \in Device, BundleComesLate(c, d) PROVE Stay
  <2>1. [op |-> "bundle", prep |-> c, device |-> d, ok |-> TRUE] \in Items
    BY DEF Items
  <2> QED BY <1>2, <1>8, <2>1 DEF BundleComesLate
<1>9. ASSUME workQ' = workQ PROVE Stay
  BY <1>9
<1>10. Stay
  BY <1>3, <1>4, <1>5, <1>6, <1>7, <1>8, <1>9
  DEF Next, vars, WorkQueueStep, ModuleStep, FetchDeviceIds, WorkRemovesListBlock,
      ModuleRemovesListBlock, DeviceListPushed, MessageOpensSession, DeleteSession
<1>11. result' = result
  BY DEF Next, vars, WorkQueueStep, ModuleStep, PrepareSession, FetchDeviceIds,
         DevicesFetched, FailedToFetchDeviceIds, WorkRemovesListBlock, BundleAnswered,
         ModuleCallsListBlock, ModuleRemovesListBlock, DeviceIdsAnswered, BundleArrives,
         DeviceListPushed, BundleComesLate, MessageOpensSession, DeleteSession
<1> QED BY <1>10, <1>11

LEMMA GoingNext == ASSUME SendInv, Going, [Next]_vars PROVE Going'
<1>1. CASE /\ ~ \E s \in Send : EncryptAndSendMessage(s)
           /\ ~ \E c \in Prep : LeaveGroup(c)
           /\ ~ Encrypt
  <2>1. \A o \in Prep : stage'[o] = stage[o] \/ {stage[o], stage'[o]} \subseteq Busy
    BY <1>1, StageSteps
  <2>2. /\ result' = result
        /\ \A x \in Range(workQ) : x.op = "encrypt" => x \in Range(workQ')
    BY <1>1, EncryptsStay
  <2>3. ASSUME NEW s \in Send, InHand(s) PROVE InHand(s)'
    <3>1. \A c \in Preps(s) : /\ stage'[c] # "none"
                              /\ stage[c] \in Busy => stage'[c] \in Busy
      BY <2>1, <2>3, PrepFacts DEF InHand, Busy
    <3>2. ItsEncrypt(s) \in Range(workQ) => ItsEncrypt(s) \in Range(workQ')
      BY <2>2 DEF ItsEncrypt
    <3> QED BY <2>3, <3>1, <3>2 DEF InHand, ItsEncrypt
  <2> QED BY <2>2, <2>3 DEF Going
<1> QED BY <1>1, GoingSent, GoingLeft, GoingEncrypts

\* A preparation that is under way has something that will move it, unless another
\* message's took its place in the table; a message whose preparations are all over
\* has its turn to be encrypted in the work queue.
THEOREM OnlyAnOverlapStrands == Spec => []OnlyOverlapStrands
<1>1. Init => Placed /\ UnderWay /\ Going
  BY WayInit DEF Init, Placed, Going
<1>2. SendInv /\ Placed /\ UnderWay /\ Going /\ [Next]_vars => Placed' /\ UnderWay' /\ Going'
  BY PlacedNext, WayNext, GoingNext DEF SendInv
<1>3. ASSUME SendInv, Going, NEW s \in Send, result[s] = "preparing"
      PROVE  \/ \E c \in Preps(s) : stage[c] \notin {"none", "left"}
             \/ \E k \in DOMAIN workQ : workQ[k] = [op |-> "encrypt", send |-> s]
  BY <1>3 DEF Going, InHand, ItsEncrypt, Busy, Range
<1>4. ASSUME SendInv, UnderWay, NEW c \in Prep,
             stage[c] \in {"queued", "listing", "listed", "fetching"}
      PROVE  crashed \/ c \in stranded \/ Moves(c)
  <2>1. Way(c) /\ (stage[c] = "fetching" => waiting[c] # {})
    BY <1>4 DEF UnderWay, SendInv, Flow, PrepInv
  <2>2. \A x \in Range(workQ) : \E k \in DOMAIN workQ : workQ[k] = x
    BY DEF Range
  <2>3. ItsPrepare(c) \in [op : {"prepare", "listed"}, prep : {c}]
        /\ ItsListed(c) \in [op : {"prepare", "listed"}, prep : {c}]
    BY DEF ItsPrepare, ItsListed
  <2>4. CASE stage[c] \in {"queued", "listed"}
    BY <2>1, <2>2, <2>3, <2>4 DEF Way, Moves
  <2>5. CASE stage[c] = "listing"
    BY <2>1, <2>2, <2>5 DEF Way, Awaited, ListComing, ItsFailure, Moves
  <2>6. CASE stage[c] = "fetching"
    <3>1. \A d \in waiting[c] : \/ <<c, d>> \in bundleIQs
             \/ \E k \in DOMAIN workQ : \E ok \in BOOLEAN : workQ[k] = ItsBundle(c, d, ok)
      BY <2>1, <2>2, <2>6 DEF Way, BundlesComing, BundleComing
    <3> QED BY <2>1, <2>6, <3>1 DEF Moves, ItsBundle
  <2> QED BY <1>4, <2>4, <2>5, <2>6
<1>5. SendInv /\ UnderWay /\ Going => OnlyOverlapStrands
  BY <1>3, <1>4 DEF OnlyOverlapStrands
<1> QED BY <1>1, <1>2, <1>5, SendInvariant, PTL DEF Spec
==============================================================================
