----------------------------- MODULE ClientsProofs -----------------------------
(***************************************************************************)
(* Proofs about Clients, for every set of devices, however many programs,  *)
(* sessions, recordings and tests there are.                               *)
(***************************************************************************)
EXTENDS Clients, SequenceTheorems, TLAPS

\* The values of the variables that pointers are kept in.
DeviceRecords == [key : Keys, ready : BOOLEAN, live : BOOLEAN]
SessionRecords == [parent : {"device", "collector"}, device : Nat, live : BOOLEAN]
JobRecords ==
  [kind : JobKinds, timer : {"none", "start", "end"}, reply : {"none", "open", "closing"},
   session : Nat \cup {NULL}, file : BOOLEAN, live : BOOLEAN]

PresenceTyped ==
  /\ devices \in Seq(DeviceRecords) /\ widget \in DOMAIN devices \cup {NULL}
  /\ known \in [Keys -> Nat \cup {NULL}]
  /\ \A k \in Keys : known[k] # NULL => known[k] \in DOMAIN devices
  /\ tabs \in Seq(Nat) /\ \A i \in DOMAIN tabs : tabs[i] \in DOMAIN devices
  /\ current \in DOMAIN tabs \cup {0} /\ (tabs # <<>> => current \in DOMAIN tabs)
  /\ connected \in BOOLEAN

\* There is no widget before the main window follows the selection.
PresenceInv == PresenceTyped /\ TabsAreShown /\ (widget # NULL => connected)

OwnersTyped ==
  /\ sessions \in Seq(SessionRecords) /\ listed \subseteq DOMAIN sessions
  /\ jobs \in Seq(JobRecords) /\ rows \subseteq DOMAIN jobs
  /\ collector \in [session : Nat \cup {NULL}, current : Nat \cup {NULL}, index : Nat,
                    timerID : Timers \cup {NULL}]
  /\ collector.session # NULL => collector.session \in DOMAIN sessions
  /\ armed \subseteq Timers /\ checked \in BOOLEAN /\ overlap \in BOOLEAN

\* What belongs to the widget is there only with it.
WidgetOwns == widget = NULL => armed = {} /\ collector.session = NULL /\ \A j \in DOMAIN jobs : ~jobs[j].live

\* Without an overlap there is one timer at most, the one the collector knows.
OneTimer ==
  /\ ~overlap => armed \subseteq {collector.timerID}
  /\ collector.current = NULL => collector.session = NULL /\ collector.timerID = NULL
  /\ IF collector.timerID = NULL THEN collector.session = NULL ELSE collector.timerID \in armed

\* The collector's session is its own, and that of the device.
OwnSession ==
  collector.session # NULL =>
    /\ sessions[collector.session].parent = "collector"
    /\ DeviceLive => /\ sessions[collector.session].live /\ collector.session \in listed
                     /\ sessions[collector.session].device = widget

\* So is that of a recording or test. Only the recording of an event waits for its start.
JobSession(j) == jobs[j].live /\ jobs[j].session # NULL
JobSessions ==
  /\ \A j \in DOMAIN jobs : JobSession(j) =>
       /\ jobs[j].session \in DOMAIN sessions
       /\ sessions[jobs[j].session].parent = "device" /\ sessions[jobs[j].session].device = widget
  /\ \A j \in DOMAIN jobs : jobs[j].timer = "start" => jobs[j].kind = "event"
  /\ \A i, j \in DOMAIN jobs : JobSession(i) /\ JobSession(j) /\ jobs[i].session = jobs[j].session => i = j

\* Unless one of the five things has happened, every pointer is good.
GoodPointers ==
  astray = {} =>
    /\ widget # NULL => devices[widget].live
    /\ \A s \in listed : sessions[s].live
    /\ \A j \in rows : jobs[j].live
    /\ \A j \in DOMAIN jobs : JobSession(j) => sessions[jobs[j].session].live
    /\ ~touched

OwnersInv == OwnersTyped /\ WidgetOwns /\ OneTimer /\ OwnSession /\ JobSessions /\ GoodPointers

----------------------------------------------------------------------------
(* Sequences that objects are appended to and removed from.                *)

LEMMA Appending ==
  ASSUME NEW S, NEW s \in Seq(S), NEW e \in S
  PROVE  /\ Append(s, e) \in Seq(S) /\ DOMAIN Append(s, e) = DOMAIN s \cup {Len(s) + 1}
         /\ Len(s) + 1 \notin DOMAIN s /\ Len(s) + 1 \in Nat /\ DOMAIN s \subseteq Nat
         /\ \A i \in DOMAIN s : Append(s, e)[i] = s[i]
         /\ Append(s, e)[Len(s) + 1] = e
<1>1. /\ Append(s, e) \in Seq(S) /\ Len(s) \in Nat /\ DOMAIN s = 1..Len(s)
      /\ DOMAIN Append(s, e) = 1..(Len(s) + 1)
      /\ \A i \in 1..Len(s) : Append(s, e)[i] = s[i]
      /\ Append(s, e)[Len(s) + 1] = e
  OBVIOUS
<1> QED
  BY <1>1

LEMMA Removing ==
  ASSUME NEW S, NEW s \in Seq(S), NEW i \in DOMAIN s
  PROVE  /\ RemoveAt(s, i) \in Seq(S) /\ Len(s) \in Nat \ {0} /\ DOMAIN s = 1..Len(s)
         /\ Len(RemoveAt(s, i)) = Len(s) - 1 /\ DOMAIN RemoveAt(s, i) = 1..(Len(s) - 1)
         /\ \A j \in 1..(Len(s) - 1) :
              RemoveAt(s, i)[j] = IF j < i THEN s[j] ELSE s[j + 1]
<1> DEFINE l == SubSeq(s, 1, i - 1)
<1> DEFINE r == SubSeq(s, i + 1, Len(s))
<1>1. /\ Len(s) \in Nat \ {0} /\ DOMAIN s = 1..Len(s) /\ i \in 1..Len(s)
      /\ \A j \in 1..Len(s) : s[j] \in S
  OBVIOUS
<1>2. /\ l \in Seq(S) /\ Len(l) = i - 1 /\ \A j \in 1..(i - 1) : l[j] = s[j]
  <2>1. 1 \in Int /\ i - 1 \in Int /\ \A j \in 1..(i - 1) : s[j] \in S
    BY <1>1
  <2> QED
    BY <1>1, <2>1, SubSeqProperties
<1>3. /\ r \in Seq(S) /\ Len(r) = Len(s) - i /\ \A j \in 1..(Len(s) - i) : r[j] = s[i + j]
  <2>1. i + 1 \in Int /\ Len(s) \in Int /\ \A j \in (i + 1)..Len(s) : s[j] \in S
    BY <1>1
  <2> QED
    BY <1>1, <2>1, SubSeqProperties
<1> HIDE DEF l, r
<1>4. /\ l \o r \in Seq(S) /\ Len(l \o r) = Len(l) + Len(r)
      /\ \A j \in 1..(Len(l) + Len(r)) : (l \o r)[j] = IF j <= Len(l) THEN l[j] ELSE r[j - Len(l)]
  BY <1>2, <1>3, ConcatProperties
<1>5. RemoveAt(s, i) = l \o r
  BY DEF RemoveAt, l, r
<1>6. Len(l) + Len(r) = Len(s) - 1
  BY <1>1, <1>2, <1>3
<1>7. ASSUME NEW j \in 1..(Len(s) - 1)
      PROVE  (l \o r)[j] = IF j < i THEN s[j] ELSE s[j + 1]
  <2>1. CASE j < i
    BY <1>1, <1>2, <1>4, <1>6, <2>1
  <2>2. CASE ~(j < i)
    <3>1. j - Len(l) \in 1..(Len(s) - i) /\ i + (j - Len(l)) = j + 1 /\ ~(j <= Len(l))
      BY <1>1, <1>2, <2>2
    <3> QED
      BY <1>3, <1>4, <1>6, <2>2, <3>1
  <2> QED
    BY <2>1, <2>2
<1>8. DOMAIN (l \o r) = 1..(Len(s) - 1)
  BY <1>4, <1>6
<1> QED
  BY <1>1, <1>4, <1>5, <1>6, <1>7, <1>8, Zenon

\* What is left of a sequence are other elements of it, from different positions.
LEMMA LeftOver ==
  ASSUME NEW S, NEW s \in Seq(S), NEW i \in DOMAIN s
  PROVE  \A p, q \in DOMAIN RemoveAt(s, i) :
           \E a, b \in DOMAIN s : /\ RemoveAt(s, i)[p] = s[a] /\ RemoveAt(s, i)[q] = s[b]
                                  /\ a # i /\ b # i /\ (p # q => a # b)
<1> SUFFICES ASSUME NEW p \in DOMAIN RemoveAt(s, i), NEW q \in DOMAIN RemoveAt(s, i)
             PROVE  \E a, b \in DOMAIN s : /\ RemoveAt(s, i)[p] = s[a] /\ RemoveAt(s, i)[q] = s[b]
                                           /\ a # i /\ b # i /\ (p # q => a # b)
  OBVIOUS
<1> DEFINE at(n) == IF n < i THEN n ELSE n + 1
<1>1. /\ Len(s) \in Nat /\ DOMAIN s = 1..Len(s) /\ DOMAIN RemoveAt(s, i) = 1..(Len(s) - 1)
      /\ \A j \in 1..(Len(s) - 1) : RemoveAt(s, i)[j] = IF j < i THEN s[j] ELSE s[j + 1]
  BY Removing
<1>2. i \in 1..Len(s) /\ p \in 1..(Len(s) - 1) /\ q \in 1..(Len(s) - 1)
  BY <1>1
<1>3. /\ at(p) \in 1..Len(s) /\ at(q) \in 1..Len(s) /\ at(p) # i /\ at(q) # i
      /\ p # q => at(p) # at(q)
  BY <1>1, <1>2
<1>4. RemoveAt(s, i)[p] = s[at(p)] /\ RemoveAt(s, i)[q] = s[at(q)]
  BY <1>1, <1>2
<1> HIDE DEF at
<1> QED
  BY <1>1, <1>3, <1>4

LEMMA Mapping ==
  ASSUME NEW S, NEW s \in Seq(S), NEW T, NEW t \in [DOMAIN s -> T]
  PROVE  t \in Seq(T) /\ DOMAIN t = DOMAIN s
<1>1. Len(s) \in Nat /\ DOMAIN s = 1..Len(s)
  OBVIOUS
<1>2. t \in [1..Len(s) -> T]
  BY <1>1
<1> QED
  BY <1>1, <1>2

----------------------------------------------------------------------------
(* The tabs.                                                               *)

LEMMA OpensPresence == Init => PresenceInv
<1> SUFFICES ASSUME Init PROVE PresenceInv
  OBVIOUS
<1>1. devices = <<>> /\ tabs = <<>> /\ widget = NULL /\ current = 0 /\ connected = FALSE
      /\ known = [k \in Keys |-> NULL]
  BY DEF Init
<1>2. DOMAIN tabs = {} /\ devices \in Seq(DeviceRecords) /\ tabs \in Seq(Nat)
  BY <1>1
<1> QED
  BY <1>1, <1>2 DEF PresenceInv, PresenceTyped, TabsAreShown

LEMMA AliveShows ==
  ASSUME PresenceInv, NEW k \in Keys, Alive(k)
  PROVE  PresenceInv'
<1> DEFINE d == [key |-> k, ready |-> FALSE, live |-> TRUE]
<1> DEFINE n == Len(devices) + 1
<1>1. d \in DeviceRecords
  BY DEF DeviceRecords
<1>2. /\ devices' = Append(devices, d) /\ known' = [known EXCEPT ![k] = n]
      /\ UNCHANGED <<widget, tabs, current, connected>>
  BY DEF Alive
<1>3. devices \in Seq(DeviceRecords)
  BY DEF PresenceInv, PresenceTyped
<1>4. /\ devices' \in Seq(DeviceRecords) /\ DOMAIN devices' = DOMAIN devices \cup {n}
      /\ n \in Nat /\ \A i \in DOMAIN devices : devices'[i] = devices[i]
      /\ devices'[n].live /\ devices'[n].key = k
  <2>1. d.live /\ d.key = k
    OBVIOUS
  <2> HIDE DEF d
  <2> QED
    BY <1>1, <1>2, <1>3, <2>1, Appending
<1> HIDE DEF d, n
<1>5. PresenceTyped'
  BY <1>2, <1>4 DEF PresenceInv, PresenceTyped
<1>6. TabsAreShown'
  <2>1. tabs' = tabs /\ \A i \in DOMAIN tabs : devices'[tabs[i]] = devices[tabs[i]]
    BY <1>2, <1>4 DEF PresenceInv, PresenceTyped
  <2>2. \A x \in Keys : known'[x] = NULL \/ (devices'[known'[x]].live /\ devices'[known'[x]].key = x)
    BY <1>2, <1>4 DEF PresenceInv, PresenceTyped, TabsAreShown
  <2>3. /\ \A i \in DOMAIN tabs' : devices'[tabs'[i]].live /\ devices'[tabs'[i]].ready
        /\ \A i, j \in DOMAIN tabs' : i # j => devices'[tabs'[i]].key[1] # devices'[tabs'[j]].key[1]
    BY <2>1 DEF PresenceInv, TabsAreShown, Server
  <2>4. (widget' # NULL /\ tabs' # <<>>) => widget' = tabs'[current']
    BY <1>2 DEF PresenceInv, TabsAreShown
  <2> QED
    BY <2>2, <2>3, <2>4 DEF TabsAreShown, Server
<1> QED
  BY <1>2, <1>5, <1>6 DEF PresenceInv

LEMMA TabShows ==
  ASSUME PresenceInv, NEW d \in DOMAIN devices, descriptionReplyFinished(d)
  PROVE  PresenceInv'
<1>1. /\ devices[d].live /\ devices' = [devices EXCEPT ![d].ready = TRUE]
      /\ UNCHANGED <<known, connected>>
  BY DEF descriptionReplyFinished
<1>2. /\ devices \in Seq(DeviceRecords) /\ tabs \in Seq(Nat) /\ d \in Nat
      /\ \A i \in DOMAIN tabs : tabs[i] \in DOMAIN devices
  BY DEF PresenceInv, PresenceTyped
<1>3. /\ devices' \in Seq(DeviceRecords) /\ DOMAIN devices' = DOMAIN devices
      /\ \A i \in DOMAIN devices : /\ devices'[i].key = devices[i].key
                                   /\ devices'[i].live = devices[i].live
                                   /\ devices[i].ready => devices'[i].ready
      /\ devices'[d].ready
  <2>1. /\ DOMAIN devices' = DOMAIN devices /\ devices'[d] = [devices[d] EXCEPT !.ready = TRUE]
        /\ \A i \in DOMAIN devices : i # d => devices'[i] = devices[i]
    BY <1>1, <1>2
  <2>2. \A i \in DOMAIN devices : devices[i] \in DeviceRecords
    BY <1>2
  <2>3. /\ devices'[d] \in DeviceRecords /\ devices'[d].key = devices[d].key
        /\ devices'[d].live = devices[d].live /\ devices'[d].ready
    BY <2>1, <2>2 DEF DeviceRecords
  <2>4. devices' \in [DOMAIN devices -> DeviceRecords]
    BY <1>1, <2>1, <2>2, <2>3
  <2>5. devices' \in Seq(DeviceRecords)
    BY <1>2, <2>4, Mapping
  <2> QED
    BY <2>1, <2>3, <2>5
<1>4. \A i \in DOMAIN devices : Server(i)' = Server(i)
  BY <1>3 DEF Server
<1>5. \A k \in Keys : known'[k] = NULL \/ (devices'[known'[k]].live /\ devices'[known'[k]].key = k)
  BY <1>1, <1>3 DEF PresenceInv, PresenceTyped, TabsAreShown
<1>6. /\ \A k \in Keys : known'[k] # NULL => known'[k] \in DOMAIN devices'
      /\ known' \in [Keys -> Nat \cup {NULL}] /\ connected' \in BOOLEAN
  BY <1>1, <1>3 DEF PresenceInv, PresenceTyped
<1>7. CASE HasTab(d)
  <2>1. UNCHANGED <<tabs, current, widget>>
    BY <1>7 DEF descriptionReplyFinished, Stays
  <2>2. PresenceTyped'
    BY <1>3, <1>6, <2>1 DEF PresenceInv, PresenceTyped
  <2>3. TabsAreShown'
    BY <1>2, <1>3, <1>4, <1>5, <2>1 DEF PresenceInv, TabsAreShown
  <2> QED
    BY <1>1, <2>1, <2>2, <2>3 DEF PresenceInv
<1>8. CASE ~HasTab(d)
  <2> DEFINE n == Len(tabs) + 1
  <2>1. /\ tabs' = Append(tabs, d) /\ current' = IF tabs = <<>> THEN 1 ELSE current
        /\ widget' = IF tabs = <<>> /\ connected THEN d ELSE widget
    BY <1>8 DEF descriptionReplyFinished, Stays, Shows, currentDeviceChanged
  <2>2. /\ tabs' \in Seq(Nat) /\ DOMAIN tabs' = DOMAIN tabs \cup {n} /\ n \notin DOMAIN tabs
        /\ \A i \in DOMAIN tabs : tabs'[i] = tabs[i]
        /\ tabs'[n] = d
    BY <1>2, <2>1, Appending
  <2>3. tabs = <<>> => n = 1
    OBVIOUS
  <2> HIDE DEF n
  <2>4. /\ current' \in DOMAIN tabs' /\ (tabs # <<>> => current' = current /\ current \in DOMAIN tabs)
        /\ tabs = <<>> => current' = n
    BY <2>1, <2>2, <2>3 DEF PresenceInv, PresenceTyped
  <2>5. PresenceTyped'
    <3>1. \A i \in DOMAIN tabs' : tabs'[i] \in DOMAIN devices'
      BY <1>2, <1>3, <2>2
    <3>2. widget' \in DOMAIN devices' \cup {NULL}
      BY <1>3, <2>1 DEF PresenceInv, PresenceTyped
    <3> QED
      BY <1>3, <1>6, <2>2, <2>4, <3>1, <3>2 DEF PresenceTyped
  <2>6. \A i \in DOMAIN tabs' : devices'[tabs'[i]].live /\ devices'[tabs'[i]].ready
    <3>1. \A i \in DOMAIN tabs : devices'[tabs[i]].live /\ devices'[tabs[i]].ready
      BY <1>2, <1>3 DEF PresenceInv, TabsAreShown
    <3> QED
      BY <1>1, <1>3, <2>2, <3>1
  <2>7. \A i, j \in DOMAIN tabs' : i # j => devices'[tabs'[i]].key[1] # devices'[tabs'[j]].key[1]
    <3>1. \A i \in DOMAIN tabs : Server(tabs[i]) # Server(d)
      BY <1>8 DEF HasTab
    <3>2. \A i \in DOMAIN tabs : devices'[tabs'[i]].key[1] = Server(tabs[i])
      BY <1>2, <1>3, <2>2 DEF Server
    <3>3. devices'[tabs'[n]].key[1] = Server(d)
      BY <1>3, <2>2 DEF Server
    <3>4. \A i, j \in DOMAIN tabs : i # j => Server(tabs[i]) # Server(tabs[j])
      BY DEF PresenceInv, TabsAreShown
    <3> QED
      BY <2>2, <3>1, <3>2, <3>3, <3>4
  <2>8. widget' # NULL /\ tabs' # <<>> => widget' = tabs'[current']
    BY <2>1, <2>2, <2>4 DEF PresenceInv, TabsAreShown
  <2>9. TabsAreShown'
    BY <1>5, <2>6, <2>7, <2>8 DEF TabsAreShown, Server
  <2> QED
    BY <1>1, <2>1, <2>5, <2>9 DEF PresenceInv
<1> QED
  BY <1>7, <1>8

LEMMA SelectionShows ==
  ASSUME PresenceInv, checkForDevices \/ \E i \in DOMAIN tabs : SelectTab(i)
  PROVE  PresenceInv'
<1>1. UNCHANGED <<devices, known, tabs>>
  BY DEF checkForDevices, SelectTab
<1>2. /\ connected \in BOOLEAN /\ connected' \in BOOLEAN
      /\ \/ \E i \in DOMAIN tabs : current' = i /\ widget' = tabs[i] /\ connected'
         \/ \E i \in DOMAIN tabs : current' = i /\ widget' = widget /\ ~connected /\ ~connected'
         \/ UNCHANGED <<current, widget>> /\ ~connected /\ connected'
  <2>1. connected \in BOOLEAN
    BY DEF PresenceInv, PresenceTyped
  <2>2. CASE checkForDevices
    BY <2>1, <2>2 DEF checkForDevices, Shows, Stays, currentDeviceChanged
  <2>3. ASSUME NEW i \in DOMAIN tabs, SelectTab(i)
        PROVE  /\ connected' = connected /\ current' = i
               /\ IF connected THEN widget' = tabs[i] ELSE widget' = widget
    BY <2>3 DEF SelectTab, Shows, Stays, currentDeviceChanged
  <2> QED
    BY <2>1, <2>2, <2>3
<1>3. PresenceTyped'
  BY <1>1, <1>2 DEF PresenceInv, PresenceTyped
<1>4. /\ \A k \in Keys : known[k] = NULL \/ (devices[known[k]].live /\ devices[known[k]].key = k)
      /\ \A i \in DOMAIN tabs : devices[tabs[i]].live /\ devices[tabs[i]].ready
      /\ \A i, j \in DOMAIN tabs : i # j => Server(tabs[i]) # Server(tabs[j])
  BY DEF PresenceInv, TabsAreShown
<1>5. widget' # NULL => connected'
  BY <1>2 DEF PresenceInv
<1>6. (widget' # NULL /\ tabs # <<>>) => widget' = tabs[current']
  BY <1>2 DEF PresenceInv
<1> QED
  BY <1>1, <1>3, <1>4, <1>5, <1>6 DEF PresenceInv, TabsAreShown, Server

\* The tab of a device that leaves is the only one of its server.
LEMMA TabLeaves ==
  ASSUME PresenceInv, NEW k \in Keys, Byebye(k)
  PROVE  PresenceInv'
<1> DEFINE d == known[k]
<1> DEFINE i == IF d \in ToSet(tabs) THEN CHOOSE p \in DOMAIN tabs : tabs[p] = d ELSE 0
<1> DEFINE rest == IF i = 0 THEN tabs ELSE RemoveAt(tabs, i)
<1>1. /\ devices \in Seq(DeviceRecords) /\ tabs \in Seq(Nat)
      /\ \A p \in DOMAIN tabs : tabs[p] \in DOMAIN devices
      /\ Len(tabs) \in Nat /\ DOMAIN tabs = 1..Len(tabs)
  BY DEF PresenceInv, PresenceTyped
<1>2. /\ d # NULL /\ d \in DOMAIN devices /\ devices[d].key = k /\ known' = [known EXCEPT ![k] = NULL]
      /\ connected' = connected /\ tabs' = rest
  BY DEF Byebye, Taken, PresenceInv, PresenceTyped, TabsAreShown
<1>3. /\ devices' \in Seq(DeviceRecords) /\ DOMAIN devices' = DOMAIN devices
      /\ \A x \in DOMAIN devices : /\ devices'[x].key = devices[x].key
                                   /\ devices'[x].ready = devices[x].ready
                                   /\ x # d => devices'[x].live = devices[x].live
  <2>1. devices' = [devices EXCEPT ![d].live = FALSE]
    BY DEF Byebye, DeleteDevice
  <2>2. /\ DOMAIN devices' = DOMAIN devices /\ devices'[d] = [devices[d] EXCEPT !.live = FALSE]
        /\ \A x \in DOMAIN devices : x # d => devices'[x] = devices[x]
    BY <1>1, <1>2, <2>1
  <2>3. \A x \in DOMAIN devices : devices[x] \in DeviceRecords
    BY <1>1
  <2>4. /\ devices'[d] \in DeviceRecords /\ devices'[d].key = devices[d].key
        /\ devices'[d].ready = devices[d].ready
    BY <1>2, <2>2, <2>3 DEF DeviceRecords
  <2>5. devices' \in [DOMAIN devices -> DeviceRecords]
    BY <1>1, <2>1, <2>2, <2>3, <2>4
  <2>6. devices' \in Seq(DeviceRecords)
    BY <1>1, <2>5, Mapping
  <2> QED
    BY <2>2, <2>4, <2>6
<1>4. i = 0 \/ (i \in DOMAIN tabs /\ tabs[i] = d)
  BY DEF ToSet
<1>5. i = 0 => \A p \in DOMAIN tabs : tabs[p] # d
  <2>1. i = 0 => d \notin ToSet(tabs)
    <3>1. d \in ToSet(tabs) => i \in DOMAIN tabs
      BY DEF ToSet
    <3>2. 0 \notin DOMAIN tabs
      BY <1>1
    <3> QED
      BY <3>1, <3>2
  <2> QED
    BY <2>1 DEF ToSet
<1>6. current \in DOMAIN tabs \cup {0} /\ (tabs # <<>> => current \in DOMAIN tabs)
  BY DEF PresenceInv, PresenceTyped
<1>7. /\ current' = IF i = 0 THEN current ELSE CurrentAfter(i, rest)
      /\ IF i # 0 /\ Notified(i, rest) THEN widget' = rest[CurrentAfter(i, rest)] ELSE widget' = widget
  BY DEF Byebye, currentDeviceChanged
<1> HIDE DEF d, i, rest
\* The tabs that are left.
<1>8. /\ rest \in Seq(Nat) /\ \A p \in DOMAIN rest : rest[p] \in DOMAIN devices /\ rest[p] # d
      /\ \A p \in DOMAIN rest : \E q \in DOMAIN tabs : rest[p] = tabs[q]
      /\ \A p, q \in DOMAIN rest : p # q => Server(rest[p]) # Server(rest[q])
  <2>0. \A p, q \in DOMAIN tabs : p # q => Server(tabs[p]) # Server(tabs[q])
    BY DEF PresenceInv, TabsAreShown
  <2>1. CASE i = 0
    BY <1>1, <1>5, <2>0, <2>1 DEF rest
  <2>2. CASE i \in DOMAIN tabs /\ tabs[i] = d
    <3>1. rest = RemoveAt(tabs, i) /\ rest \in Seq(Nat)
      BY <1>1, <2>2, Removing DEF rest
    <3>2. \A p, q \in DOMAIN RemoveAt(tabs, i) :
            \E a, b \in DOMAIN tabs : /\ RemoveAt(tabs, i)[p] = tabs[a]
                                       /\ RemoveAt(tabs, i)[q] = tabs[b]
                                       /\ a # i /\ b # i /\ (p # q => a # b)
      <4>1. tabs \in Seq(Nat) /\ i \in DOMAIN tabs
        BY <1>1, <2>2
      <4> QED
        BY <4>1, LeftOver
    <3>3. \A p, q \in DOMAIN rest :
            \E a, b \in DOMAIN tabs : /\ rest[p] = tabs[a] /\ rest[q] = tabs[b]
                                       /\ a # i /\ b # i /\ (p # q => a # b)
      BY <3>1, <3>2
    <3> QED
      BY <1>1, <2>0, <2>2, <3>1, <3>3
  <2> QED
    BY <1>4, <2>1, <2>2
<1>9. /\ current' \in DOMAIN rest \cup {0} /\ (rest # <<>> => current' \in DOMAIN rest)
      /\ widget # NULL /\ rest # <<>> /\ ~(i # 0 /\ Notified(i, rest)) => rest[current'] = tabs[current]
  <2>1. CASE i = 0
    BY <1>6, <1>7, <2>1 DEF rest
  <2>2. CASE i \in DOMAIN tabs /\ tabs[i] = d
    <3>1. rest = RemoveAt(tabs, i) /\ i # 0
      BY <1>1, <2>2 DEF rest
    <3>2. /\ Len(tabs) \in Nat \ {0} /\ Len(rest) = Len(tabs) - 1 /\ DOMAIN rest = 1..(Len(tabs) - 1)
          /\ \A p \in 1..(Len(tabs) - 1) : rest[p] = IF p < i THEN tabs[p] ELSE tabs[p + 1]
      BY <1>1, <2>2, <3>1, Removing, Zenon
    <3>3. current \in 1..Len(tabs)
      BY <1>1, <1>6, <2>2
    <3>4. /\ CurrentAfter(i, rest) \in 0..Len(rest)
          /\ Len(rest) > 0 => CurrentAfter(i, rest) \in 1..Len(rest)
      <4>1. Len(tabs) \in Nat /\ i \in 1..Len(tabs) /\ current \in 1..Len(tabs)
        BY <1>1, <2>2, <3>3
      <4> QED
        BY <3>2, <4>1 DEF CurrentAfter
    <3>5. rest # <<>> => Len(rest) > 0
      BY <1>8, <3>2
    <3>6. ASSUME widget # NULL, rest # <<>>, ~Notified(i, rest)
          PROVE  rest[CurrentAfter(i, rest)] = tabs[current]
      <4>1. i > current
        BY <1>1, <2>2, <3>3, <3>6 DEF Notified, PresenceInv
      <4> QED
        BY <1>1, <2>2, <3>2, <3>3, <4>1 DEF CurrentAfter
    <3> QED
      BY <1>7, <3>1, <3>2, <3>4, <3>5, <3>6
  <2> QED
    BY <1>4, <2>1, <2>2
<1>10. /\ widget' \in DOMAIN devices \cup {NULL} /\ (widget' # NULL => connected)
       /\ widget' # NULL /\ rest # <<>> => widget' = rest[current']
  <2>1. CASE i # 0 /\ Notified(i, rest)
    <3>1. rest # <<>> /\ widget' = rest[current'] /\ connected
      BY <1>7, <2>1 DEF Notified
    <3> QED
      BY <1>8, <1>9, <3>1
  <2>2. CASE ~(i # 0 /\ Notified(i, rest))
    <3>1. widget' = widget
      BY <1>7, <2>2
    <3>2. rest # <<>> => tabs # <<>>
      BY <1>8
    <3> QED
      BY <1>9, <2>2, <3>1, <3>2 DEF PresenceInv, PresenceTyped, TabsAreShown
  <2> QED
    BY <2>1, <2>2
<1>11. \A x \in Keys : /\ known'[x] # NULL => known'[x] \in DOMAIN devices /\ x # k /\ known'[x] = known[x]
                       /\ known' \in [Keys -> Nat \cup {NULL}]
  BY <1>2 DEF PresenceInv, PresenceTyped
<1>12. \A x \in Keys : known'[x] = NULL \/ (devices'[known'[x]].live /\ devices'[known'[x]].key = x)
  BY <1>2, <1>3, <1>11 DEF PresenceInv, TabsAreShown
<1>13. \A p \in DOMAIN rest : devices'[rest[p]].live /\ devices'[rest[p]].ready
  BY <1>3, <1>8 DEF PresenceInv, TabsAreShown
<1>14. \A p, q \in DOMAIN rest : p # q => devices'[rest[p]].key[1] # devices'[rest[q]].key[1]
  BY <1>3, <1>8 DEF Server
<1>15. PresenceTyped'
  <2>1. connected' \in BOOLEAN /\ tabs' = rest /\ known' \in [Keys -> Nat \cup {NULL}]
    BY <1>2 DEF PresenceInv, PresenceTyped
  <2> QED
    BY <1>3, <1>8, <1>9, <1>10, <1>11, <2>1 DEF PresenceTyped
<1> QED
  BY <1>2, <1>10, <1>12, <1>13, <1>14, <1>15 DEF PresenceInv, TabsAreShown, Server

LEMMA PresenceKeeps == PresenceInv /\ [Next]_vars => PresenceInv'
<1> SUFFICES ASSUME PresenceInv, [Next]_vars PROVE PresenceInv'
  OBVIOUS
<1>1. CASE Presence
  BY <1>1, AliveShows, TabLeaves, TabShows, SelectionShows DEF Presence
<1>2. CASE UNCHANGED <<devices, widget, presence>>
  BY <1>2 DEF presence, PresenceInv, PresenceTyped, TabsAreShown, Server
<1> QED
  BY <1>1, <1>2 DEF Next, vars

\* What the user sees: the devices with a tab are live and ready, no server has two tabs, and the
\* widget is that of the current tab, for every order of announcements, descriptions, byebyes and
\* clicks, however many devices there are.
THEOREM TabsStayShown == Spec => []TabsAreShown
<1>1. PresenceInv => TabsAreShown
  BY DEF PresenceInv
<1> QED
  BY <1>1, OpensPresence, PresenceKeeps, PTL DEF Spec

----------------------------------------------------------------------------
(* Sessions, the collector, recordings and tests.                          *)

LEMMA Updating ==
  ASSUME NEW S, NEW s \in Seq(S), NEW i \in DOMAIN s, NEW e \in S
  PROVE  /\ [s EXCEPT ![i] = e] \in Seq(S) /\ DOMAIN [s EXCEPT ![i] = e] = DOMAIN s
         /\ [s EXCEPT ![i] = e][i] = e
         /\ \A j \in DOMAIN s : j # i => [s EXCEPT ![i] = e][j] = s[j]
<1>1. /\ s \in [DOMAIN s -> S]
  OBVIOUS
<1>2. [s EXCEPT ![i] = e] \in [DOMAIN s -> S]
  BY <1>1
<1>3. [s EXCEPT ![i] = e] \in Seq(S)
  BY <1>2, Mapping
<1> QED
  BY <1>1, <1>3

LEMMA Records ==
  ASSUME OwnersTyped
  PROVE  /\ \A s \in DOMAIN sessions : sessions[s] \in SessionRecords /\ s \in Nat /\ s # NULL
         /\ \A j \in DOMAIN jobs : jobs[j] \in JobRecords /\ j \in Nat
         /\ Len(sessions) \in Nat /\ DOMAIN sessions = 1..Len(sessions)
         /\ Len(jobs) \in Nat /\ DOMAIN jobs = 1..Len(jobs)
<1>1. sessions \in Seq(SessionRecords) /\ jobs \in Seq(JobRecords)
  BY DEF OwnersTyped
<1>2. \A s \in DOMAIN sessions : s \in Nat
  BY <1>1
<1> QED
  BY <1>1, <1>2, OwnersAssumption

\* One more session, in the list.
LEMMA Added ==
  ASSUME OwnersTyped, widget \in Nat, NEW parent \in {"device", "collector"}, addSession(parent)
  PROVE  /\ sessions' \in Seq(SessionRecords) /\ DOMAIN sessions' = DOMAIN sessions \cup {NewSession}
         /\ NewSession \notin DOMAIN sessions /\ NewSession \in Nat /\ NewSession # NULL
         /\ \A s \in DOMAIN sessions : sessions'[s] = sessions[s]
         /\ sessions'[NewSession].parent = parent /\ sessions'[NewSession].device = widget
         /\ sessions'[NewSession].live
         /\ listed' = listed \cup {NewSession} /\ listed' \subseteq DOMAIN sessions'
<1>1. Session(parent) \in SessionRecords
  BY DEF Session, SessionRecords
<1>2. /\ Session(parent).parent = parent /\ Session(parent).device = widget /\ Session(parent).live
  BY DEF Session
<1>3. sessions' = Append(sessions, Session(parent)) /\ listed' = listed \cup {NewSession}
  BY DEF addSession
<1>4. NewSession = Len(sessions) + 1
  BY DEF NewSession
<1>5. /\ sessions' \in Seq(SessionRecords) /\ DOMAIN sessions' = DOMAIN sessions \cup {NewSession}
      /\ NewSession \notin DOMAIN sessions /\ NewSession \in Nat
      /\ \A s \in DOMAIN sessions : sessions'[s] = sessions[s]
      /\ sessions'[NewSession] = Session(parent)
  BY <1>1, <1>3, <1>4, Appending DEF OwnersTyped
<1> QED
  BY <1>2, <1>3, <1>5, OwnersAssumption DEF OwnersTyped

LEMMA DeletedKeeps ==
  ASSUME OwnersTyped, NEW x
  PROVE  /\ Deleted(x) \in Seq(SessionRecords) /\ DOMAIN Deleted(x) = DOMAIN sessions
         /\ \A s \in DOMAIN sessions : /\ Deleted(x)[s].parent = sessions[s].parent
                                       /\ Deleted(x)[s].device = sessions[s].device
                                       /\ Deleted(x)[s].live = (sessions[s].live /\ s # x)
<1>1. \A s \in DOMAIN sessions : sessions[s] \in SessionRecords
  BY Records
<1>2. /\ DOMAIN Deleted(x) = DOMAIN sessions
      /\ \A s \in DOMAIN sessions : Deleted(x)[s] = [sessions[s] EXCEPT !.live = @ /\ s # x]
  BY DEF Deleted
<1>3. \A s \in DOMAIN sessions : /\ Deleted(x)[s] \in SessionRecords
                                 /\ Deleted(x)[s].parent = sessions[s].parent
                                 /\ Deleted(x)[s].device = sessions[s].device
                                 /\ Deleted(x)[s].live = (sessions[s].live /\ s # x)
  BY <1>1, <1>2 DEF SessionRecords
<1>4. Deleted(x) \in [DOMAIN sessions -> SessionRecords]
  BY <1>3 DEF Deleted
<1>5. Deleted(x) \in Seq(SessionRecords)
  BY <1>4, Mapping DEF OwnersTyped
<1> QED
  BY <1>2, <1>3, <1>5

\* A session of the device that is removed from the list; no other is.
LEMMA Removed ==
  ASSUME OwnersTyped, NEW x \in DOMAIN sessions, removeSession(x)
  PROVE  /\ sessions' \in Seq(SessionRecords) /\ DOMAIN sessions' = DOMAIN sessions
         /\ \A s \in DOMAIN sessions : /\ sessions'[s].parent = sessions[s].parent
                                       /\ sessions'[s].device = sessions[s].device
                                       /\ s # x => sessions'[s] = sessions[s]
         /\ listed' \subseteq listed /\ \A s \in listed : s # x => s \in listed'
         /\ x \in listed' => sessions'[x] = sessions[x]
         /\ sessions[x].parent # "device" => UNCHANGED list
<1>1. CASE UNCHANGED list
  BY <1>1 DEF list, OwnersTyped
<1>2. CASE /\ Removable(x) /\ listed' = listed \ {x}
           /\ sessions' = [sessions EXCEPT ![x].live = FALSE]
  <2>1. sessions[x] \in SessionRecords
    BY Records
  <2>2. sessions \in Seq(SessionRecords)
    BY DEF OwnersTyped
  <2> DEFINE e == [sessions[x] EXCEPT !.live = FALSE]
  <2>3. e \in SessionRecords /\ e.parent = sessions[x].parent /\ e.device = sessions[x].device
    BY <2>1 DEF SessionRecords
  <2>4. sessions' = [sessions EXCEPT ![x] = e]
    BY <1>2
  <2> HIDE DEF e
  <2>5. /\ sessions' \in Seq(SessionRecords) /\ DOMAIN sessions' = DOMAIN sessions
        /\ sessions'[x] = e /\ \A s \in DOMAIN sessions : s # x => sessions'[s] = sessions[s]
    BY <2>2, <2>3, <2>4, Updating
  <2> QED
    BY <1>2, <2>3, <2>5 DEF Removable
<1> QED
  BY <1>1, <1>2 DEF removeSession, Removable

LEMMA FreeTimerIs ==
  ASSUME NEW others \in SUBSET Timers, others # Timers
  PROVE  FreeTimer(others) \in Timers \ others
<1>1. Timers = {1, 2, 3}
  BY DEF Timers
<1>2. \E t \in Timers \ others : \A u \in Timers \ others : t <= u
  <2>1. CASE 1 \notin others
    BY <1>1, <2>1
  <2>2. CASE 1 \in others /\ 2 \notin others
    <3>1. \A u \in Timers \ others : u = 2 \/ u = 3
      BY <1>1, <2>2
    <3> QED
      BY <1>1, <2>2, <3>1
  <2>3. CASE 1 \in others /\ 2 \in others
    <3>1. Timers \ others = {3}
      BY <1>1, <2>3
    <3> QED
      BY <3>1
  <2> QED
    BY <2>1, <2>2, <2>3
<1> QED
  BY <1>2 DEF FreeTimer

\* A program that is visited has its timer.
LEMMA Visited ==
  ASSUME NEW at \in Nat, NEW session \in Nat \cup {NULL}, NEW others \in SUBSET Timers,
         others # Timers, Visits(at, session, others), ~overlap' => others = {}
  PROVE  /\ collector' \in [session : Nat \cup {NULL}, current : Nat \cup {NULL}, index : Nat,
                            timerID : Timers \cup {NULL}]
         /\ collector'.session = session /\ armed' \subseteq Timers /\ OneTimer'
<1>1. FreeTimer(others) \in Timers
  BY FreeTimerIs
<1>2. Index(at) \in Nat /\ Index(at) + 1 \in Nat /\ Index(at) # NULL
  BY OwnersAssumption DEF Index
<1> DEFINE t == FreeTimer(others)
<1> DEFINE i == Index(at)
<1>3. /\ collector' = [session |-> session, current |-> i, index |-> i + 1, timerID |-> t]
      /\ armed' = others \cup {t}
  BY DEF Visits
<1> HIDE DEF t, i
<1>4. i \in Nat /\ i + 1 \in Nat /\ i # NULL /\ t \in Timers /\ t # NULL
  BY <1>1, <1>2, OwnersAssumption DEF i, t, Timers
<1>5. collector' \in [session : Nat \cup {NULL}, current : Nat \cup {NULL}, index : Nat,
                      timerID : Timers \cup {NULL}]
  BY <1>3, <1>4
<1>6. /\ collector'.session = session /\ collector'.current = i /\ collector'.timerID = t
  BY <1>3
<1> QED
  BY <1>3, <1>4, <1>5, <1>6 DEF OneTimer

\* A pointer that is used although its object is gone: one of the five things has happened.
LEMMA Unused ==
  ASSUME OwnersInv, UNCHANGED <<devices, widget, owners>>, astray # {}
  PROVE  OwnersInv'
<1>1. UNCHANGED <<sessions, listed, collector, checked, armed, overlap, jobs, rows, astray>>
  BY DEF owners, list, collection, runs
<1> QED
  BY <1>1 DEF OwnersInv, OwnersTyped, WidgetOwns, OneTimer, OwnSession, JobSessions, JobSession,
              GoodPointers, DeviceLive

LEMMA OwnersUnchanged ==
  ASSUME OwnersInv, UNCHANGED <<devices, widget, owners, touched>>
  PROVE  OwnersInv'
<1>1. UNCHANGED <<sessions, listed, collector, checked, armed, overlap, jobs, rows, astray>>
  BY DEF owners, list, collection, runs
<1> QED
  BY <1>1 DEF OwnersInv, OwnersTyped, WidgetOwns, OneTimer, OwnSession, JobSessions, JobSession,
              GoodPointers, DeviceLive

LEMMA OpensOwners == Init => OwnersInv
<1> SUFFICES ASSUME Init PROVE OwnersInv
  OBVIOUS
<1>1. /\ sessions = <<>> /\ jobs = <<>> /\ listed = {} /\ rows = {} /\ armed = {} /\ ~checked /\ ~overlap
      /\ collector = Idle /\ widget = NULL /\ touched = FALSE /\ checked \in BOOLEAN /\ overlap \in BOOLEAN
  BY DEF Init
<1>2. sessions \in Seq(SessionRecords) /\ jobs \in Seq(JobRecords) /\ DOMAIN jobs = {}
  BY <1>1
<1>3. /\ collector.session = NULL /\ collector.timerID = NULL
      /\ collector \in [session : Nat \cup {NULL}, current : Nat \cup {NULL}, index : Nat,
                        timerID : Timers \cup {NULL}]
  BY <1>1 DEF Idle
<1> QED
  BY <1>1, <1>2, <1>3 DEF OwnersInv, OwnersTyped, WidgetOwns, OneTimer, OwnSession, JobSessions,
                          GoodPointers

\* The list of sessions, by the user.
LEMMA UserSessionsKeep ==
  ASSUME OwnersInv, PresenceInv, UNCHANGED <<devices, widget>>,
         OpenSession \/ \E s \in DOMAIN sessions : RemoveSession(s)
  PROVE  OwnersInv'
<1>0. /\ UNCHANGED <<collector, checked, armed, overlap, jobs, rows, touched, devices, widget>>
      /\ DeviceLive' = DeviceLive /\ \A j \in DOMAIN jobs : JobSession(j)' = JobSession(j)
  BY DEF OpenSession, RemoveSession, collection, runs, DeviceLive, JobSession
<1>1. CASE OpenSession
  <2>1. widget \in Nat
    BY <1>1 DEF OpenSession, DeviceLive, PresenceInv, PresenceTyped
  <2>2. addSession("device") /\ astray' = astray
    BY <1>1 DEF OpenSession
  <2>3. /\ sessions' \in Seq(SessionRecords) /\ DOMAIN sessions' = DOMAIN sessions \cup {NewSession}
        /\ \A s \in DOMAIN sessions : sessions'[s] = sessions[s]
        /\ sessions'[NewSession].live
        /\ listed' = listed \cup {NewSession} /\ listed' \subseteq DOMAIN sessions'
    BY <2>1, <2>2, Added DEF OwnersInv
  <2>4. OwnersTyped'
    BY <1>0, <2>3 DEF OwnersInv, OwnersTyped
  <2>5. OwnSession'
    BY <1>0, <2>3 DEF OwnersInv, OwnersTyped, OwnSession
  <2>6. JobSessions'
    BY <1>0, <2>3 DEF OwnersInv, JobSessions
  <2>7. GoodPointers'
    BY <1>0, <2>2, <2>3 DEF OwnersInv, OwnersTyped, GoodPointers, JobSessions
  <2> QED
    BY <1>0, <2>4, <2>5, <2>6, <2>7 DEF OwnersInv, WidgetOwns, OneTimer
<1>2. ASSUME NEW x \in DOMAIN sessions, RemoveSession(x)
      PROVE  OwnersInv'
  <2>1. /\ removeSession(x) /\ (astray' = {} => astray = {} /\ \A j \in DOMAIN jobs : jobs[j].live => jobs[j].session # x)
    BY <1>2 DEF RemoveSession
  <2>2. /\ sessions' \in Seq(SessionRecords) /\ DOMAIN sessions' = DOMAIN sessions
        /\ \A s \in DOMAIN sessions : /\ sessions'[s].parent = sessions[s].parent
                                      /\ sessions'[s].device = sessions[s].device
                                      /\ s # x => sessions'[s] = sessions[s]
        /\ listed' \subseteq listed /\ \A s \in listed : s # x => s \in listed'
        /\ x \in listed' => sessions'[x] = sessions[x]
        /\ sessions[x].parent # "device" => UNCHANGED list
    BY <2>1, Removed DEF OwnersInv
  <2>3. OwnersTyped'
    BY <1>0, <2>2 DEF OwnersInv, OwnersTyped
  <2>4. OwnSession'
    <3>1. CASE collector.session = x
      BY <1>0, <2>2, <3>1 DEF OwnersInv, OwnSession, list
    <3>2. CASE collector.session # x
      BY <1>0, <2>2, <3>2 DEF OwnersInv, OwnersTyped, OwnSession
    <3> QED
      BY <3>1, <3>2
  <2>5. JobSessions'
    BY <1>0, <2>2 DEF OwnersInv, JobSessions
  <2>6. GoodPointers'
    <3> SUFFICES ASSUME astray' = {}
                 PROVE  /\ widget # NULL => devices[widget].live
                        /\ \A s \in listed' : sessions'[s].live
                        /\ \A j \in rows : jobs[j].live
                        /\ \A j \in DOMAIN jobs : JobSession(j) => sessions'[jobs[j].session].live
                        /\ ~touched
      BY <1>0 DEF GoodPointers
    <3>1. /\ astray = {} /\ GoodPointers /\ OwnersTyped /\ JobSessions
      BY <2>1 DEF OwnersInv
    <3>2. \A s \in listed' : sessions'[s].live
      BY <2>2, <3>1 DEF GoodPointers, OwnersTyped
    <3>3. \A j \in DOMAIN jobs : JobSession(j) => sessions'[jobs[j].session].live
      BY <2>1, <2>2, <3>1 DEF GoodPointers, JobSessions, JobSession
    <3> QED
      BY <3>1, <3>2, <3>3 DEF GoodPointers
  <2> QED
    BY <1>0, <2>3, <2>4, <2>5, <2>6 DEF OwnersInv, WidgetOwns, OneTimer
<1> QED
  BY <1>1, <1>2

\* The collector visits a program, with the session it has or with a new one.
LEMMA StepKeeps ==
  ASSUME OwnersInv, UNCHANGED <<devices, widget, runs, astray, touched>>,
         widget \in Nat, checked' \in BOOLEAN, overlap' \in BOOLEAN,
         NEW at \in Nat, NEW others \in SUBSET Timers, others # Timers, ~overlap' => others = {},
         step(at, others)
  PROVE  OwnersInv'
<1>0. /\ UNCHANGED <<jobs, rows>> /\ DeviceLive' = DeviceLive
      /\ \A j \in DOMAIN jobs : JobSession(j)' = JobSession(j)
      /\ widget # NULL
  BY OwnersAssumption DEF runs, DeviceLive, JobSession
<1>1. CASE collector.session = NULL
  <2>1. addSession("collector") /\ Visits(at, NewSession, others)
    BY <1>1 DEF step
  <2>2. /\ sessions' \in Seq(SessionRecords) /\ DOMAIN sessions' = DOMAIN sessions \cup {NewSession}
        /\ NewSession \in Nat
        /\ \A s \in DOMAIN sessions : sessions'[s] = sessions[s]
        /\ sessions'[NewSession].parent = "collector" /\ sessions'[NewSession].device = widget
        /\ sessions'[NewSession].live
        /\ listed' = listed \cup {NewSession} /\ listed' \subseteq DOMAIN sessions'
    BY <2>1, Added DEF OwnersInv
  <2>3. /\ collector' \in [session : Nat \cup {NULL}, current : Nat \cup {NULL}, index : Nat,
                           timerID : Timers \cup {NULL}]
        /\ collector'.session = NewSession /\ armed' \subseteq Timers /\ OneTimer'
    BY <2>1, <2>2, Visited
  <2>4. OwnersTyped'
    BY <1>0, <2>2, <2>3 DEF OwnersInv, OwnersTyped
  <2>5. OwnSession'
    BY <2>2, <2>3 DEF OwnSession
  <2>6. JobSessions'
    BY <1>0, <2>2 DEF OwnersInv, JobSessions
  <2>7. GoodPointers'
    BY <1>0, <2>2 DEF OwnersInv, OwnersTyped, GoodPointers, JobSessions
  <2> QED
    BY <1>0, <2>3, <2>4, <2>5, <2>6, <2>7 DEF OwnersInv, WidgetOwns
<1>2. CASE collector.session # NULL
  <2>1. Visits(at, collector.session, others) /\ UNCHANGED list
    BY <1>2 DEF step
  <2>2. collector.session \in Nat \cup {NULL}
    BY DEF OwnersInv, OwnersTyped
  <2>3. /\ collector' \in [session : Nat \cup {NULL}, current : Nat \cup {NULL}, index : Nat,
                           timerID : Timers \cup {NULL}]
        /\ collector'.session = collector.session /\ armed' \subseteq Timers /\ OneTimer'
    BY <2>1, <2>2, Visited
  <2>4. UNCHANGED <<sessions, listed>>
    BY <2>1 DEF list
  <2>5. OwnersTyped'
    BY <1>0, <2>3, <2>4 DEF OwnersInv, OwnersTyped
  <2>6. OwnSession' /\ JobSessions' /\ GoodPointers'
    BY <1>0, <2>3, <2>4 DEF OwnersInv, OwnSession, JobSessions, GoodPointers
  <2> QED
    BY <1>0, <2>3, <2>5, <2>6 DEF OwnersInv, WidgetOwns
<1> QED
  BY <1>1, <1>2

LEMMA CollectorKeeps ==
  ASSUME OwnersInv, PresenceInv, UNCHANGED <<devices, widget>>,
         \/ StartCollector \/ StopCollector
         \/ \E p \in 1..Programs : ClickProgram(p)
         \/ \E t \in Timers : CollectorTimer(t)
         \/ \E e \in Events : newEventAvailable(e)
  PROVE  OwnersInv'
<1>0. /\ DeviceLive' = DeviceLive /\ (astray = {} /\ widget # NULL => DeviceLive)
      /\ widget # NULL => widget \in Nat
      /\ OwnersTyped /\ WidgetOwns /\ OneTimer /\ OwnSession /\ JobSessions /\ GoodPointers
      /\ DeviceLive => widget # NULL
  BY DEF DeviceLive, OwnersInv, GoodPointers, PresenceInv, PresenceTyped
<1>1. CASE StartCollector
  <2>1. widget # NULL /\ armed # Timers
    BY <1>1 DEF StartCollector
  <2>2. CASE DeviceLive
    <3>1. /\ checked' = TRUE /\ overlap' = (overlap \/ armed # {}) /\ step(1, armed)
          /\ UNCHANGED <<runs, astray, touched>>
      BY <1>1, <2>2 DEF StartCollector, Uses
    <3>2. armed \in SUBSET Timers /\ 1 \in Nat /\ overlap' \in BOOLEAN /\ checked' \in BOOLEAN
          /\ (~overlap' => armed = {})
      BY <1>0, <3>1 DEF OwnersTyped
    <3> QED
      BY <1>0, <2>1, <3>1, <3>2, StepKeeps
  <2>3. CASE ~DeviceLive
    <3>1. UNCHANGED owners
      BY <1>1, <2>3 DEF StartCollector, Uses
    <3> QED
      BY <1>0, <2>1, <2>3, <3>1, Unused
  <2> QED
    BY <2>2, <2>3
<1>2. CASE StopCollector
  <2>1. CASE ~(DeviceLive \/ collector.session = NULL)
    <3>1. UNCHANGED owners /\ widget # NULL
      BY <1>2, <2>1 DEF StopCollector, Uses
    <3> QED
      BY <1>0, <2>1, <3>1, Unused
  <2>2. CASE DeviceLive \/ collector.session = NULL
    <3>1. /\ checked' = FALSE
          /\ collector' = [collector EXCEPT !.session = NULL, !.current = NULL, !.timerID = NULL]
          /\ armed' = armed \ {collector.timerID}
          /\ sessions' = Deleted(collector.session)
          /\ listed' = listed \ {collector.session}
          /\ UNCHANGED <<overlap, jobs, rows, astray, touched>>
      BY <1>2, <2>2 DEF StopCollector, Uses, Unarmed, runs
    <3>2. /\ sessions' \in Seq(SessionRecords) /\ DOMAIN sessions' = DOMAIN sessions
          /\ \A s \in DOMAIN sessions : /\ sessions'[s].parent = sessions[s].parent
                                        /\ sessions'[s].device = sessions[s].device
                                        /\ sessions'[s].live = (sessions[s].live /\ s # collector.session)
      BY <1>0, <3>1, DeletedKeeps
    <3>3. /\ collector' \in [session : Nat \cup {NULL}, current : Nat \cup {NULL}, index : Nat,
                             timerID : Timers \cup {NULL}]
          /\ collector'.session = NULL /\ collector'.timerID = NULL
      BY <1>0, <3>1 DEF OwnersTyped
    <3>4. OwnersTyped'
      BY <1>0, <3>1, <3>2, <3>3 DEF OwnersTyped
    <3>5. OneTimer' /\ OwnSession'
      BY <1>0, <3>1, <3>3 DEF OneTimer, OwnSession
    <3>6. JobSessions'
      BY <1>0, <3>1, <3>2 DEF JobSessions, JobSession
    <3>7. GoodPointers'
      <4>1. \A j \in DOMAIN jobs : JobSession(j) => jobs[j].session # collector.session
        BY <1>0 DEF JobSessions, JobSession, OwnSession
      <4> SUFFICES ASSUME astray' = {}
                   PROVE  /\ widget # NULL => devices[widget].live
                          /\ \A s \in listed' : sessions'[s].live
                          /\ \A j \in rows : jobs[j].live
                          /\ \A j \in DOMAIN jobs : JobSession(j) => sessions'[jobs[j].session].live
                          /\ ~touched
        BY <3>1 DEF GoodPointers, JobSession
      <4>2. astray = {}
        BY <3>1
      <4>3. \A s \in listed' : sessions'[s].live
        BY <1>0, <3>1, <3>2, <4>2 DEF GoodPointers, OwnersTyped
      <4>4. ASSUME NEW j \in DOMAIN jobs, JobSession(j)
            PROVE  sessions'[jobs[j].session].live
        <5>1. jobs[j].session \in DOMAIN sessions /\ sessions[jobs[j].session].live
          BY <1>0, <4>2, <4>4 DEF GoodPointers, JobSessions
        <5> QED
          BY <3>2, <4>1, <4>4, <5>1
      <4> QED
        BY <1>0, <4>2, <4>3, <4>4 DEF GoodPointers
    <3> QED
      BY <1>0, <3>1, <3>3, <3>4, <3>5, <3>6, <3>7 DEF OwnersInv, WidgetOwns
  <2> QED
    BY <2>1, <2>2
<1>3. ASSUME NEW p \in 1..Programs, ClickProgram(p)
      PROVE  OwnersInv'
  <2>1. /\ DeviceLive /\ Unarmed # Timers /\ Visits(p, NewSession, Unarmed)
        /\ sessions' = Append(Deleted(collector.session), Session("collector"))
        /\ listed' = (listed \ {collector.session}) \cup {NewSession}
        /\ overlap' = (overlap \/ Unarmed # {})
        /\ UNCHANGED <<checked, jobs, rows, astray, touched>>
    BY <1>3 DEF ClickProgram, runs
  <2>2. widget \in Nat /\ p \in Nat /\ Unarmed \in SUBSET Timers /\ overlap' \in BOOLEAN
    BY <1>0, <2>1, OwnersAssumption DEF Unarmed, OwnersTyped
  <2> DEFINE left == Deleted(collector.session)
  <2> DEFINE new == Session("collector")
  <2>3. /\ left \in Seq(SessionRecords) /\ DOMAIN left = DOMAIN sessions
        /\ \A s \in DOMAIN sessions : /\ left[s].parent = sessions[s].parent
                                      /\ left[s].device = sessions[s].device
                                      /\ left[s].live = (sessions[s].live /\ s # collector.session)
    BY <1>0, DeletedKeeps
  <2>4. new \in SessionRecords /\ new.parent = "collector" /\ new.device = widget /\ new.live
    BY <2>2 DEF Session, SessionRecords
  <2> HIDE DEF left, new
  <2>5. Len(left) + 1 = NewSession
    <3>1. Len(left) = Len(sessions)
      BY <1>0, <2>3 DEF OwnersTyped
    <3> QED
      BY <3>1 DEF NewSession
  <2>6. /\ sessions' \in Seq(SessionRecords) /\ DOMAIN sessions' = DOMAIN sessions \cup {NewSession}
        /\ NewSession \notin DOMAIN sessions /\ NewSession \in Nat
        /\ \A s \in DOMAIN sessions : sessions'[s] = left[s]
        /\ sessions'[NewSession] = new
    <3>1. sessions' = Append(left, new)
      BY <2>1 DEF left, new
    <3> QED
      BY <2>3, <2>4, <2>5, <3>1, Appending
  <2>7. /\ collector' \in [session : Nat \cup {NULL}, current : Nat \cup {NULL}, index : Nat,
                           timerID : Timers \cup {NULL}]
        /\ collector'.session = NewSession /\ armed' \subseteq Timers /\ OneTimer'
    BY <2>1, <2>2, <2>6, Visited
  <2>8. OwnersTyped'
    BY <1>0, <2>1, <2>2, <2>6, <2>7 DEF OwnersTyped
  <2>9. OwnSession'
    BY <2>1, <2>4, <2>6, <2>7 DEF OwnSession
  <2>10. JobSessions'
    BY <1>0, <2>1, <2>3, <2>6 DEF JobSessions, JobSession
  <2>11. GoodPointers'
    <3>1. \A j \in DOMAIN jobs : JobSession(j) => jobs[j].session # collector.session
      BY <1>0 DEF JobSessions, JobSession, OwnSession
    <3> SUFFICES ASSUME astray' = {}
                 PROVE  /\ widget # NULL => devices[widget].live
                        /\ \A s \in listed' : sessions'[s].live
                        /\ \A j \in rows : jobs[j].live
                        /\ \A j \in DOMAIN jobs : JobSession(j) => sessions'[jobs[j].session].live
                        /\ ~touched
      BY <2>1 DEF GoodPointers, JobSession
    <3>2. astray = {}
      BY <2>1
    <3>3. \A s \in listed' : sessions'[s].live
      BY <1>0, <2>1, <2>3, <2>4, <2>6, <3>2 DEF GoodPointers, OwnersTyped
    <3>4. \A j \in DOMAIN jobs : JobSession(j) => sessions'[jobs[j].session].live
      BY <1>0, <2>3, <2>6, <3>1, <3>2 DEF GoodPointers, JobSessions
    <3> QED
      BY <1>0, <3>2, <3>3, <3>4 DEF GoodPointers
  <2>12. WidgetOwns'
    BY <1>0, <2>1 DEF WidgetOwns
  <2> QED
    BY <2>7, <2>8, <2>9, <2>10, <2>11, <2>12 DEF OwnersInv
<1>4. ASSUME NEW t \in Timers, CollectorTimer(t)
      PROVE  OwnersInv'
  <2>1. t \in armed /\ widget # NULL
    BY <1>0, <1>4 DEF CollectorTimer, WidgetOwns
  <2>2. CASE DeviceLive
    <3>1. /\ step(collector.index, armed \ {t})
          /\ UNCHANGED <<checked, overlap, runs, astray, touched>>
      BY <1>4, <2>2 DEF CollectorTimer, Uses
    <3>2. /\ armed \ {t} \in SUBSET Timers /\ armed \ {t} # Timers /\ collector.index \in Nat
          /\ ~overlap => armed \ {t} = {}
      BY <1>0, <2>1 DEF OwnersTyped, OneTimer
    <3>3. checked' \in BOOLEAN /\ overlap' \in BOOLEAN /\ (~overlap' => armed \ {t} = {})
      BY <1>0, <3>1, <3>2 DEF OwnersTyped
    <3> QED
      BY <1>0, <2>1, <3>1, <3>2, <3>3, StepKeeps
  <2>3. CASE ~DeviceLive
    <3>1. UNCHANGED owners
      BY <1>4, <2>3 DEF CollectorTimer, Uses
    <3> QED
      BY <1>0, <2>1, <2>3, <3>1, Unused
  <2> QED
    BY <2>2, <2>3
<1>5. ASSUME NEW e \in Events, newEventAvailable(e)
      PROVE  OwnersInv'
  <2>1. /\ collector.session # NULL /\ collector' = [collector EXCEPT !.timerID = FreeTimer(Unarmed)]
        /\ armed' = Unarmed \cup {FreeTimer(Unarmed)}
        /\ UNCHANGED <<sessions, listed, checked, overlap, jobs, rows, astray, touched>>
    BY <1>5 DEF newEventAvailable, list, runs
  <2>2. /\ collector.current # NULL /\ Unarmed \in SUBSET Timers /\ Unarmed # Timers
        /\ ~overlap => Unarmed = {}
    <3>1. collector.current # NULL
      BY <1>0, <2>1 DEF OneTimer
    <3>2. collector.timerID \in Timers \cup {NULL}
      BY <1>0 DEF OwnersTyped
    <3>3. collector.timerID \in Timers => Unarmed # Timers
      BY DEF Unarmed
    <3>4. collector.timerID # NULL
      BY <1>0, <2>1 DEF OneTimer
    <3> QED
      BY <1>0, <3>1, <3>2, <3>3, <3>4 DEF Unarmed, OneTimer, OwnersTyped
  <2> DEFINE u == FreeTimer(Unarmed)
  <2>3. u \in Timers /\ u # NULL
    <3>1. u \in Timers
      BY <2>2, FreeTimerIs
    <3> QED
      BY <3>1, OwnersAssumption DEF Timers
  <2>4. collector' = [collector EXCEPT !.timerID = u] /\ armed' = Unarmed \cup {u}
    BY <2>1
  <2> HIDE DEF u
  <2>5. /\ collector' \in [session : Nat \cup {NULL}, current : Nat \cup {NULL}, index : Nat,
                           timerID : Timers \cup {NULL}]
        /\ collector'.session = collector.session /\ collector'.timerID = u
        /\ collector'.current = collector.current
    BY <1>0, <2>3, <2>4 DEF OwnersTyped
  <2>6. OneTimer'
    BY <2>1, <2>2, <2>3, <2>4, <2>5 DEF OneTimer
  <2>7. OwnersTyped'
    BY <1>0, <2>1, <2>2, <2>3, <2>4, <2>5 DEF OwnersTyped
  <2>8. OwnSession' /\ JobSessions' /\ GoodPointers' /\ WidgetOwns'
    BY <1>0, <2>1, <2>5 DEF OwnSession, JobSessions, JobSession, GoodPointers, WidgetOwns
  <2> QED
    BY <2>6, <2>7, <2>8 DEF OwnersInv
<1> QED
  BY <1>1, <1>2, <1>3, <1>4, <1>5

\* A recording or test that is over.
LEMMA JobOver ==
  ASSUME OwnersTyped, NEW j \in DOMAIN jobs, jobs' = [jobs EXCEPT ![j] = Ended(j)]
  PROVE  /\ jobs' \in Seq(JobRecords) /\ DOMAIN jobs' = DOMAIN jobs /\ ~jobs'[j].live
         /\ \A i \in DOMAIN jobs : i # j => jobs'[i] = jobs[i]
<1>1. Ended(j) \in JobRecords /\ ~Ended(j).live
  BY Records DEF Ended, JobRecords
<1> QED
  BY <1>1, Updating DEF OwnersTyped

\* Jobs that end, or go on with what they have.
LEMMA JobsGoOn ==
  ASSUME OwnersInv, UNCHANGED <<devices, widget, list, collection>>,
         jobs' \in Seq(JobRecords), DOMAIN jobs' = DOMAIN jobs, rows' \subseteq rows,
         \A j \in DOMAIN jobs :
           /\ jobs'[j].live => jobs[j].live /\ jobs'[j].session \in {NULL, jobs[j].session}
           /\ jobs'[j].timer = "start" => jobs'[j] = jobs[j]
           /\ j \in rows' => (jobs'[j].live <=> jobs[j].live),
         astray \subseteq astray', astray' = {} => ~touched'
  PROVE  OwnersInv'
<1>1. /\ UNCHANGED <<sessions, listed, collector, checked, armed, overlap>> /\ DeviceLive' = DeviceLive
      /\ \A j \in DOMAIN jobs : JobSession(j)' => JobSession(j) /\ jobs'[j].session = jobs[j].session
  BY DEF list, collection, DeviceLive, JobSession
<1>2. OwnersTyped'
  BY <1>1 DEF OwnersInv, OwnersTyped
<1>3. WidgetOwns' /\ OneTimer' /\ OwnSession'
  BY <1>1 DEF OwnersInv, WidgetOwns, OneTimer, OwnSession
<1>4. JobSessions'
  BY <1>1 DEF OwnersInv, JobSessions
<1>5. GoodPointers'
  BY <1>1 DEF OwnersInv, OwnersTyped, GoodPointers
<1> QED
  BY <1>2, <1>3, <1>4, <1>5 DEF OwnersInv

LEMMA FinishedGoesOn ==
  ASSUME OwnersInv, UNCHANGED <<devices, widget, list, collection>>, NEW j \in DOMAIN jobs,
         finished(j), astray \subseteq astray', astray' = {} => ~touched'
  PROVE  OwnersInv'
<1>1. jobs' = [jobs EXCEPT ![j] = Ended(j)] /\ rows' = rows \ {j} /\ OwnersTyped
  BY DEF finished, OwnersInv
<1>2. /\ jobs' \in Seq(JobRecords) /\ DOMAIN jobs' = DOMAIN jobs /\ ~jobs'[j].live
      /\ \A i \in DOMAIN jobs : i # j => jobs'[i] = jobs[i]
  BY <1>1, JobOver
<1>3. jobs'[j].timer # "start"
  <2>1. jobs'[j] = Ended(j) /\ jobs[j] \in JobRecords
    BY <1>1, Records DEF OwnersTyped
  <2> QED
    BY <2>1 DEF Ended, JobRecords
<1> QED
  BY <1>1, <1>2, <1>3, JobsGoOn

LEMMA ReplyCloses ==
  ASSUME OwnersInv, UNCHANGED <<devices, widget, list, collection>>, NEW j \in DOMAIN jobs,
         NEW used \in BOOLEAN, ~touched, closeReply(j, used)
  PROVE  OwnersInv'
<1>1. CASE finished(j) /\ touched' = used /\ astray' = IF used THEN astray \cup {"closed"} ELSE astray
  <2>1. astray \subseteq astray' /\ (astray' = {} => ~used)
    BY <1>1
  <2>2. astray' = {} => ~touched'
    BY <1>1, <2>1
  <2> QED
    BY <1>1, <2>1, <2>2, FinishedGoesOn
<1>2. CASE /\ jobs' = [jobs EXCEPT ![j].reply = "closing", ![j].timer = "none"]
           /\ UNCHANGED <<rows, astray, touched>>
  <2> DEFINE e == [jobs[j] EXCEPT !.reply = "closing", !.timer = "none"]
  <2>1. jobs \in Seq(JobRecords) /\ jobs[j] \in JobRecords
    BY Records DEF OwnersInv, OwnersTyped
  <2>2. e \in JobRecords /\ e.live = jobs[j].live /\ e.session = jobs[j].session /\ e.timer = "none"
    BY <2>1 DEF JobRecords
  <2>3. jobs' = [jobs EXCEPT ![j] = e]
    BY <1>2, <2>1
  <2> HIDE DEF e
  <2>4. /\ jobs' \in Seq(JobRecords) /\ DOMAIN jobs' = DOMAIN jobs /\ jobs'[j] = e
        /\ \A i \in DOMAIN jobs : i # j => jobs'[i] = jobs[i]
    BY <2>1, <2>2, <2>3, Updating
  <2> QED
    BY <1>2, <2>2, <2>4, JobsGoOn
<1> QED
  BY <1>1, <1>2 DEF closeReply


LEMMA StartKeeps ==
  ASSUME OwnersInv, UNCHANGED <<devices, widget>>, ~touched, NEW j \in DOMAIN jobs, StartTimer(j)
  PROVE  OwnersInv'
<1>1. jobs[j].live /\ jobs[j].timer = "start" /\ jobs[j].kind = "event" /\ jobs[j] \in JobRecords
  BY Records DEF StartTimer, OwnersInv, JobSessions
<1>2. CASE DeviceLive
  <2>1. PICK job \in {Started(jobs[j]), NotOpened(jobs[j])} : jobs' = [jobs EXCEPT ![j] = job]
    BY <1>2 DEF StartTimer, Uses
  <2>2. UNCHANGED <<list, collection, rows, astray, touched>>
    BY <1>2 DEF StartTimer, Uses
  <2>3. /\ job \in JobRecords /\ job.live /\ job.timer # "start"
        /\ job.session \in {NULL, jobs[j].session}
    <3>1. CASE job = NotOpened(jobs[j])
      BY <1>1, <3>1 DEF NotOpened, JobRecords
    <3>2. CASE job = Started(jobs[j])
      <4>1. ~OverRtsp(jobs[j].kind)
        BY <1>1 DEF OverRtsp
      <4> QED
        BY <1>1, <3>2, <4>1 DEF Started, JobRecords
    <3> QED
      BY <2>1, <3>1, <3>2
  <2>4. /\ jobs' \in Seq(JobRecords) /\ DOMAIN jobs' = DOMAIN jobs /\ jobs'[j] = job
        /\ \A i \in DOMAIN jobs : i # j => jobs'[i] = jobs[i]
    BY <2>1, <2>3, Updating DEF OwnersInv, OwnersTyped
  <2> QED
    BY <1>1, <2>2, <2>3, <2>4, JobsGoOn
<1>3. CASE ~DeviceLive
  <2>1. UNCHANGED owners
    BY <1>3 DEF StartTimer, Uses
  <2>2. astray # {}
    BY <1>1, <1>3 DEF OwnersInv, WidgetOwns, GoodPointers, DeviceLive
  <2> QED
    BY <2>1, <2>2, Unused
<1> QED
  BY <1>2, <1>3

\* One more recording or test, with a session of its own if it is over RTSP.
LEMMA JobBegins ==
  ASSUME OwnersInv, UNCHANGED <<devices, widget, collection, astray, touched>>, widget \in Nat,
         NEW job \in JobRecords, job.live, job.timer = "start" => job.kind = "event",
         jobs' = Append(jobs, job), rows' = rows \cup {Len(jobs) + 1},
         \/ job.session = NULL /\ UNCHANGED list
         \/ job.session = NewSession /\ addSession("device")
  PROVE  OwnersInv'
<1> DEFINE n == Len(jobs) + 1
<1>0. /\ UNCHANGED <<collector, checked, armed, overlap>> /\ DeviceLive' = DeviceLive
      /\ OwnersTyped /\ OneTimer /\ OwnSession /\ JobSessions /\ GoodPointers
      /\ widget # NULL
  BY OwnersAssumption DEF collection, DeviceLive, OwnersInv
<1>1. /\ jobs' \in Seq(JobRecords) /\ DOMAIN jobs' = DOMAIN jobs \cup {n} /\ n \notin DOMAIN jobs
      /\ jobs'[n] = job /\ \A j \in DOMAIN jobs : jobs'[j] = jobs[j]
  BY <1>0, Appending DEF OwnersTyped
<1> HIDE DEF n
<1>2. rows' = rows \cup {n}
  BY DEF n
<1>3. /\ sessions' \in Seq(SessionRecords) /\ DOMAIN sessions \subseteq DOMAIN sessions'
      /\ \A s \in DOMAIN sessions : sessions'[s] = sessions[s]
      /\ listed \subseteq listed' /\ listed' \subseteq DOMAIN sessions'
      /\ \A s \in listed' : s \in listed \/ sessions'[s].live
      /\ job.session # NULL => /\ job.session \in DOMAIN sessions' \ DOMAIN sessions
                               /\ sessions'[job.session].parent = "device"
                               /\ sessions'[job.session].device = widget
                               /\ sessions'[job.session].live
  <2>1. CASE job.session = NULL /\ UNCHANGED list
    BY <1>0, <2>1 DEF list, OwnersTyped
  <2>2. CASE job.session = NewSession /\ addSession("device")
    <3>1. /\ sessions' \in Seq(SessionRecords) /\ DOMAIN sessions' = DOMAIN sessions \cup {NewSession}
          /\ NewSession \notin DOMAIN sessions
          /\ \A s \in DOMAIN sessions : sessions'[s] = sessions[s]
          /\ sessions'[NewSession].parent = "device" /\ sessions'[NewSession].device = widget
          /\ sessions'[NewSession].live
          /\ listed' = listed \cup {NewSession} /\ listed' \subseteq DOMAIN sessions'
      BY <1>0, <2>2, Added
    <3> QED
      BY <2>2, <3>1
  <2> QED
    BY <2>1, <2>2
<1>4. OwnersTyped'
  BY <1>0, <1>1, <1>2, <1>3 DEF OwnersTyped
<1>5. WidgetOwns' /\ OneTimer'
  BY <1>0 DEF WidgetOwns, OneTimer
<1>6. OwnSession'
  BY <1>0, <1>3 DEF OwnSession, OwnersTyped
<1>7. \A j \in DOMAIN jobs : jobs[j].live /\ jobs[j].session # NULL => jobs[j].session \in DOMAIN sessions
  BY <1>0 DEF JobSessions, JobSession
<1>8. JobSessions'
  <2>1. \A j \in DOMAIN jobs' : JobSession(j)' =>
          /\ jobs'[j].session \in DOMAIN sessions'
          /\ sessions'[jobs'[j].session].parent = "device" /\ sessions'[jobs'[j].session].device = widget
    BY <1>0, <1>1, <1>3 DEF JobSessions, JobSession
  <2>2. \A j \in DOMAIN jobs' : jobs'[j].timer = "start" => jobs'[j].kind = "event"
    BY <1>0, <1>1 DEF JobSessions
  <2>3. \A i, j \in DOMAIN jobs' :
          JobSession(i)' /\ JobSession(j)' /\ jobs'[i].session = jobs'[j].session => i = j
    BY <1>0, <1>1, <1>3, <1>7 DEF JobSessions, JobSession
  <2> QED
    BY <2>1, <2>2, <2>3 DEF JobSessions
<1>9. GoodPointers'
  <2> SUFFICES ASSUME astray' = {}
               PROVE  /\ widget # NULL => devices[widget].live
                      /\ \A s \in listed' : sessions'[s].live
                      /\ \A j \in rows' : jobs'[j].live
                      /\ \A j \in DOMAIN jobs' : JobSession(j)' => sessions'[jobs'[j].session].live
                      /\ ~touched
    BY <1>0 DEF GoodPointers
  <2>1. astray = {}
    OBVIOUS
  <2>2. \A s \in listed' : sessions'[s].live
    BY <1>0, <1>3, <2>1 DEF GoodPointers, OwnersTyped
  <2>3. \A j \in rows' : jobs'[j].live
    BY <1>0, <1>1, <1>2, <2>1 DEF GoodPointers, OwnersTyped
  <2>4. \A j \in DOMAIN jobs' : JobSession(j)' => sessions'[jobs'[j].session].live
    BY <1>0, <1>1, <1>3, <1>7, <2>1 DEF GoodPointers, JobSession
  <2> QED
    BY <1>0, <2>1, <2>2, <2>3, <2>4 DEF GoodPointers
<1> QED
  BY <1>4, <1>5, <1>6, <1>8, <1>9 DEF OwnersInv

LEMMA NewJobKeeps ==
  ASSUME OwnersInv, PresenceInv, UNCHANGED <<devices, widget>>, NEW kind \in JobKinds, NewJob(kind)
  PROVE  OwnersInv'
<1>1. widget # NULL /\ widget \in Nat
  BY DEF NewJob, PresenceInv, PresenceTyped
<1>2. CASE DeviceLive
  <2> DEFINE waits == [Job(kind) EXCEPT !.timer = "start"]
  <2> DEFINE runs_ == Started(Job(kind))
  <2> DEFINE fails == NotOpened(Job(kind))
  <2>1. /\ rows' = rows \cup {Len(jobs) + 1} /\ UNCHANGED <<collection, astray, touched>>
        /\ \/ kind = "event" /\ UNCHANGED list /\ jobs' = Append(jobs, waits)
           \/ /\ kind # "event" /\ jobs' = Append(jobs, runs_)
              /\ IF OverRtsp(kind) THEN addSession("device") ELSE UNCHANGED list
           \/ UNCHANGED list /\ jobs' = Append(jobs, fails)
    BY <1>2 DEF NewJob, Uses
  <2>2. NewSession \in Nat
    BY Records DEF OwnersInv, NewSession
  <2>3. /\ waits \in JobRecords /\ waits.live /\ waits.kind = kind /\ waits.session = NULL
    BY DEF Job, JobRecords
  <2>4. /\ fails \in JobRecords /\ fails.live /\ fails.timer = "none" /\ fails.session = NULL
    BY DEF Job, NotOpened, JobRecords
  <2>5. /\ runs_ \in JobRecords /\ runs_.live /\ (kind # "event" => runs_.timer = "none")
        /\ runs_.session = IF OverRtsp(kind) THEN NewSession ELSE NULL
    BY <2>2 DEF Job, Started, JobRecords
  <2> HIDE DEF waits, runs_, fails
  <2>6. CASE kind = "event" /\ UNCHANGED list /\ jobs' = Append(jobs, waits)
    BY <1>1, <2>1, <2>3, <2>6, JobBegins
  <2>7. CASE /\ kind # "event" /\ jobs' = Append(jobs, runs_)
             /\ IF OverRtsp(kind) THEN addSession("device") ELSE UNCHANGED list
    BY <1>1, <2>1, <2>5, <2>7, JobBegins
  <2>8. CASE UNCHANGED list /\ jobs' = Append(jobs, fails)
    BY <1>1, <2>1, <2>4, <2>8, JobBegins
  <2> QED
    BY <2>1, <2>6, <2>7, <2>8
<1>3. CASE ~DeviceLive
  <2>1. UNCHANGED owners
    BY <1>3 DEF NewJob, Uses
  <2>2. astray # {}
    BY <1>1, <1>3 DEF OwnersInv, GoodPointers, DeviceLive
  <2> QED
    BY <2>1, <2>2, Unused
<1> QED
  BY <1>2, <1>3

\* The session of a recording or test goes with it; no other recording or test has it.
LEMMA StopKeeps ==
  ASSUME OwnersInv, UNCHANGED <<devices, widget>>, ~touched, NEW j \in DOMAIN jobs, StopSession(j)
  PROVE  OwnersInv'
<1> DEFINE s == jobs[j].session
<1>0. OwnersTyped /\ WidgetOwns /\ OneTimer /\ OwnSession /\ JobSessions /\ GoodPointers
  BY DEF OwnersInv
<1>1. CASE ~(jobs[j].live /\ (s # NULL => DeviceLive /\ sessions[s].live))
  <2>1. UNCHANGED owners /\ j \in rows
    BY <1>1 DEF StopSession, Uses
  <2>2. astray # {}
    BY <1>0, <1>1, <2>1 DEF GoodPointers, DeviceLive, JobSession, WidgetOwns
  <2> QED
    BY <2>1, <2>2, Unused
<1>2. CASE jobs[j].live /\ (s # NULL => DeviceLive /\ sessions[s].live)
  <2>1. /\ IF s = NULL THEN UNCHANGED list ELSE removeSession(s)
        /\ finished(j) /\ UNCHANGED <<collection, astray, touched>>
    BY <1>2 DEF StopSession, Uses
  <2>2. CASE s = NULL
    BY <2>1, <2>2, FinishedGoesOn
  <2>3. CASE s # NULL
    <3>1. JobSession(j) /\ s \in DOMAIN sessions /\ removeSession(s)
      BY <1>0, <1>2, <2>1, <2>3 DEF JobSession, JobSessions
    <3>2. /\ sessions' \in Seq(SessionRecords) /\ DOMAIN sessions' = DOMAIN sessions
          /\ \A x \in DOMAIN sessions : /\ sessions'[x].parent = sessions[x].parent
                                        /\ sessions'[x].device = sessions[x].device
                                        /\ x # s => sessions'[x] = sessions[x]
          /\ listed' \subseteq listed /\ \A x \in listed : x # s => x \in listed'
          /\ s \in listed' => sessions'[s] = sessions[s]
          /\ sessions[s].parent # "device" => UNCHANGED list
      BY <1>0, <3>1, Removed
    <3>3. jobs' = [jobs EXCEPT ![j] = Ended(j)] /\ rows' = rows \ {j}
      BY <2>1 DEF finished
    <3>4. /\ jobs' \in Seq(JobRecords) /\ DOMAIN jobs' = DOMAIN jobs /\ ~jobs'[j].live
          /\ \A i \in DOMAIN jobs : i # j => jobs'[i] = jobs[i]
      BY <1>0, <3>3, JobOver
    <3>5. jobs'[j].timer # "start"
      <4>1. jobs'[j] = Ended(j) /\ jobs[j] \in JobRecords
        BY <1>0, <3>3, Records DEF OwnersTyped
      <4> QED
        BY <4>1 DEF Ended, JobRecords
    <3>6. /\ UNCHANGED <<collector, checked, armed, overlap>> /\ DeviceLive' = DeviceLive
          /\ \A i \in DOMAIN jobs : JobSession(i)' => /\ JobSession(i) /\ i # j
                                                      /\ jobs'[i] = jobs[i] /\ jobs[i].session # s
      BY <1>0, <2>1, <3>1, <3>4 DEF collection, DeviceLive, JobSession, JobSessions
    <3>7. OwnersTyped'
      BY <1>0, <3>2, <3>3, <3>4, <3>6 DEF OwnersTyped
    <3>8. WidgetOwns' /\ OneTimer'
      BY <1>0, <3>4, <3>6 DEF WidgetOwns, OneTimer
    <3>9. OwnSession'
      <4>1. sessions[s].parent = "device"
        BY <1>0, <3>1 DEF JobSessions
      <4>2. collector.session # NULL => collector.session # s
        BY <1>0, <4>1 DEF OwnSession
      <4> QED
        BY <1>0, <3>2, <3>6, <4>2 DEF OwnSession, OwnersTyped
    <3>10. JobSessions'
      BY <1>0, <3>2, <3>4, <3>5, <3>6 DEF JobSessions
    <3>11. GoodPointers'
      <4> SUFFICES ASSUME astray' = {}
                   PROVE  /\ widget # NULL => devices[widget].live
                          /\ \A x \in listed' : sessions'[x].live
                          /\ \A i \in rows' : jobs'[i].live
                          /\ \A i \in DOMAIN jobs' : JobSession(i)' => sessions'[jobs'[i].session].live
                          /\ ~touched
        BY <2>1 DEF GoodPointers
      <4>1. astray = {}
        BY <2>1
      <4>2. \A x \in listed' : sessions'[x].live
        BY <1>0, <1>2, <3>2, <4>1 DEF GoodPointers, OwnersTyped
      <4>3. \A i \in rows' : jobs'[i].live
        BY <1>0, <3>3, <3>4, <4>1 DEF GoodPointers, OwnersTyped
      <4>4. \A i \in DOMAIN jobs' : JobSession(i)' => sessions'[jobs'[i].session].live
        BY <1>0, <3>2, <3>4, <3>6, <4>1 DEF GoodPointers, JobSessions
      <4> QED
        BY <1>0, <4>1, <4>2, <4>3, <4>4 DEF GoodPointers
    <3> QED
      BY <3>7, <3>8, <3>9, <3>10, <3>11 DEF OwnersInv
  <2> QED
    BY <2>2, <2>3
<1> QED
  BY <1>1, <1>2

LEMMA JobsKeep ==
  ASSUME OwnersInv, PresenceInv, UNCHANGED <<devices, widget>>, ~touched,
         \/ \E kind \in JobKinds : NewJob(kind)
         \/ \E j \in DOMAIN jobs : \/ StartTimer(j) \/ EndTimer(j) \/ StopReply(j)
                                   \/ StopSession(j) \/ ReplyFinished(j)
  PROVE  OwnersInv'
<1>1. ASSUME NEW kind \in JobKinds, NewJob(kind)
      PROVE  OwnersInv'
  BY <1>1, NewJobKeeps
<1>2. ASSUME NEW j \in DOMAIN jobs, StartTimer(j)
      PROVE  OwnersInv'
  BY <1>2, StartKeeps
<1>3. ASSUME NEW j \in DOMAIN jobs, EndTimer(j)
      PROVE  OwnersInv'
  <2>1. closeReply(j, TRUE) /\ UNCHANGED <<list, collection>>
    BY <1>3 DEF EndTimer
  <2> QED
    BY <2>1, ReplyCloses
<1>4. ASSUME NEW j \in DOMAIN jobs, StopReply(j)
      PROVE  OwnersInv'
  <2>1. UNCHANGED <<list, collection>>
    BY <1>4 DEF StopReply
  <2>2. CASE closeReply(j, jobs[j].kind = "test")
    <3>1. (jobs[j].kind = "test") \in BOOLEAN
      OBVIOUS
    <3> QED
      BY <2>1, <2>2, <3>1, ReplyCloses
  <2>3. CASE UNCHANGED <<runs, astray, touched>>
    <3>1. UNCHANGED owners
      BY <2>1, <2>3 DEF owners
    <3> QED
      BY <2>3, <3>1, OwnersUnchanged
  <2> QED
    BY <1>4, <2>2, <2>3 DEF StopReply
<1>5. ASSUME NEW j \in DOMAIN jobs, StopSession(j)
      PROVE  OwnersInv'
  BY <1>5, StopKeeps
<1>6. ASSUME NEW j \in DOMAIN jobs, ReplyFinished(j)
      PROVE  OwnersInv'
  <2>1. finished(j) /\ UNCHANGED <<list, collection, astray, touched>>
    BY <1>6 DEF ReplyFinished
  <2> QED
    BY <2>1, FinishedGoesOn
<1> QED
  BY <1>1, <1>2, <1>3, <1>4, <1>5, <1>6


----------------------------------------------------------------------------
(* Devices come and go, and with them what the user has started.           *)

\* Nothing but devices changes, and those that were live still are.
LEMMA DevicesStay ==
  ASSUME OwnersInv, PresenceInv, UNCHANGED <<widget, sessions, listed, collector, checked, armed, overlap>>,
         UNCHANGED <<jobs, rows, astray, touched>>,
         \A d \in DOMAIN devices : devices'[d].live = devices[d].live
  PROVE  OwnersInv'
<1>1. widget # NULL => devices'[widget].live = devices[widget].live
  BY DEF PresenceInv, PresenceTyped
<1>2. DeviceLive' = DeviceLive
  BY <1>1 DEF DeviceLive
<1> QED
  BY <1>1, <1>2 DEF OwnersInv, OwnersTyped, WidgetOwns, OneTimer, OwnSession, JobSessions, JobSession,
                    GoodPointers

LEMMA JobsClosed ==
  ASSUME OwnersTyped
  PROVE  /\ ClosedJobs \in Seq(JobRecords) /\ DOMAIN ClosedJobs = DOMAIN jobs
         /\ \A j \in DOMAIN jobs : ~ClosedJobs[j].live /\ ClosedJobs[j].timer = "none"
<1>1. /\ DOMAIN ClosedJobs = DOMAIN jobs
      /\ \A j \in DOMAIN jobs : ClosedJobs[j] = Ended(j)
  BY DEF ClosedJobs
<1>2. \A j \in DOMAIN jobs : Ended(j) \in JobRecords /\ ~Ended(j).live /\ Ended(j).timer = "none"
  BY Records DEF Ended, JobRecords
<1>3. ClosedJobs \in [DOMAIN jobs -> JobRecords]
  BY <1>2 DEF ClosedJobs
<1>4. ClosedJobs \in Seq(JobRecords)
  BY <1>3, Mapping DEF OwnersTyped
<1> QED
  BY <1>1, <1>2, <1>4

\* If nothing is left behind, no session is deleted with the widget, and no view shows anything.
LEMMA NothingLeft ==
  ASSUME OwnersInv, NEW d, currentDeviceChanged(d), astray' = {}
  PROVE  /\ astray = {} /\ rows = {} /\ ~touched'
         /\ \A s \in listed : ClosedSessions[s].live
<1>1. astray = {} /\ CloseStrays = {} /\ touched' = ShowFails(d)
  BY DEF currentDeviceChanged
<1>2. OwnersTyped /\ GoodPointers
  BY DEF OwnersInv
<1>3. collector.session = NULL /\ ~\E j \in rows : jobs[j].live
  BY <1>1 DEF CloseStrays
<1>4. rows = {}
  BY <1>1, <1>2, <1>3 DEF GoodPointers
<1>5. \A s \in listed : s \in DOMAIN sessions /\ s # NULL /\ sessions[s].live
  BY <1>1, <1>2, Records DEF OwnersTyped, GoodPointers
<1>6. \A s \in listed : ClosedSessions[s].live
  <2>1. \A s \in DOMAIN sessions : ClosedSessions[s].live = (sessions[s].live /\ s # collector.session)
    BY <1>2, DeletedKeeps DEF ClosedSessions
  <2> QED
    BY <1>3, <1>5, <2>1
<1> QED
  BY <1>1, <1>4, <1>6 DEF ShowFails

\* A widget takes the place of another.
LEMMA SwitchKeeps ==
  ASSUME OwnersInv, NEW d, currentDeviceChanged(d), devices'[d].live,
         sessions' \in Seq(SessionRecords), DOMAIN sessions' = DOMAIN sessions, listed' \subseteq listed,
         \A s \in listed' : ClosedSessions[s].live => sessions'[s].live
  PROVE  OwnersInv'
<1>1. /\ widget' = d /\ collector' = Idle /\ checked' = FALSE /\ armed' = {} /\ overlap' = FALSE
      /\ jobs' = ClosedJobs /\ rows' = rows
  BY DEF currentDeviceChanged
<1>2. /\ collector'.session = NULL /\ collector'.timerID = NULL
      /\ collector' \in [session : Nat \cup {NULL}, current : Nat \cup {NULL}, index : Nat,
                         timerID : Timers \cup {NULL}]
  BY <1>1 DEF Idle
<1>3. /\ jobs' \in Seq(JobRecords) /\ DOMAIN jobs' = DOMAIN jobs
      /\ \A j \in DOMAIN jobs : ~jobs'[j].live /\ jobs'[j].timer = "none"
  BY <1>1, JobsClosed DEF OwnersInv
<1>4. OwnersTyped'
  BY <1>1, <1>2, <1>3 DEF OwnersInv, OwnersTyped
<1>5. WidgetOwns' /\ OneTimer' /\ OwnSession'
  BY <1>1, <1>2, <1>3 DEF WidgetOwns, OneTimer, OwnSession
<1>6. JobSessions'
  BY <1>3 DEF JobSessions, JobSession
<1>7. GoodPointers'
  <2>1. ASSUME astray' = {}
        PROVE  rows' = {} /\ ~touched' /\ \A s \in listed' : sessions'[s].live
    BY <1>1, <2>1, NothingLeft
  <2> QED
    BY <1>1, <1>3, <2>1 DEF GoodPointers, JobSession
<1> QED
  BY <1>4, <1>5, <1>6, <1>7 DEF OwnersInv

LEMMA ShowKeeps ==
  ASSUME OwnersInv, NEW d, Shows(d), devices'[d].live
  PROVE  OwnersInv'
<1>1. /\ currentDeviceChanged(d) /\ sessions' = ClosedSessions /\ listed' = listed
  BY DEF Shows
<1>2. ClosedSessions \in Seq(SessionRecords) /\ DOMAIN ClosedSessions = DOMAIN sessions
  BY DeletedKeeps DEF ClosedSessions, OwnersInv
<1> QED
  BY <1>1, <1>2, SwitchKeeps

LEMMA StayKeeps ==
  ASSUME OwnersInv, PresenceInv, Stays, UNCHANGED list,
         \A d \in DOMAIN devices : devices'[d].live = devices[d].live
  PROVE  OwnersInv'
BY DevicesStay DEF Stays, list, collection, runs

\* The device is gone with its sessions; the collector's is not one of them.
LEMMA DeviceDeleted ==
  ASSUME OwnersTyped, NEW d, NEW left \in Seq(SessionRecords), DOMAIN left = DOMAIN sessions,
         DeleteDevice(d, left)
  PROVE  /\ sessions' \in Seq(SessionRecords) /\ DOMAIN sessions' = DOMAIN sessions
         /\ \A s \in DOMAIN sessions :
              /\ sessions'[s].parent = left[s].parent /\ sessions'[s].device = left[s].device
              /\ sessions'[s].live = (left[s].live /\ ~(sessions[s].device = d /\ sessions[s].parent = "device"))
         /\ listed' = {s \in listed : sessions[s].device # d}
<1> DEFINE gone(s) == sessions[s].device = d /\ sessions[s].parent = "device"
<1>1. /\ listed' = {s \in listed : sessions[s].device # d}
      /\ sessions' = [s \in DOMAIN sessions |-> [left[s] EXCEPT !.live = @ /\ ~gone(s)]]
  BY DEF DeleteDevice
<1>2. \A s \in DOMAIN sessions : left[s] \in SessionRecords
  OBVIOUS
<1> HIDE DEF gone
<1>3. \A s \in DOMAIN sessions : /\ sessions'[s] \in SessionRecords
                                 /\ sessions'[s].parent = left[s].parent
                                 /\ sessions'[s].device = left[s].device
                                 /\ sessions'[s].live = (left[s].live /\ ~gone(s))
  BY <1>1, <1>2 DEF SessionRecords
<1>4. sessions' \in [DOMAIN sessions -> SessionRecords]
  BY <1>1, <1>3
<1>5. sessions' \in Seq(SessionRecords) /\ DOMAIN sessions' = DOMAIN sessions
  BY <1>4, Mapping DEF OwnersTyped
<1> QED
  BY <1>1, <1>3, <1>5 DEF gone

\* The device leaves without a change of the tab: its own widget is left, or another one stays.
LEMMA LeavesUnseen ==
  ASSUME OwnersInv, PresenceInv, NEW d \in DOMAIN devices,
         astray' = IF widget = d THEN astray \cup {"last"} ELSE astray,
         UNCHANGED <<widget, collection, runs, touched>>, DeleteDevice(d, sessions)
  PROVE  OwnersInv'
<1>0. /\ UNCHANGED <<collector, checked, armed, overlap, jobs, rows>>
      /\ OwnersTyped /\ WidgetOwns /\ OneTimer /\ OwnSession /\ JobSessions /\ GoodPointers
      /\ \A j \in DOMAIN jobs : JobSession(j)' = JobSession(j)
  BY DEF collection, runs, OwnersInv, JobSession
<1>1. /\ sessions' \in Seq(SessionRecords) /\ DOMAIN sessions' = DOMAIN sessions
      /\ \A s \in DOMAIN sessions :
           /\ sessions'[s].parent = sessions[s].parent /\ sessions'[s].device = sessions[s].device
           /\ sessions'[s].live = (sessions[s].live /\ ~(sessions[s].device = d /\ sessions[s].parent = "device"))
      /\ listed' = {s \in listed : sessions[s].device # d}
  BY <1>0, DeviceDeleted DEF OwnersTyped
<1>2. /\ ~devices'[d].live
      /\ \A x \in DOMAIN devices : x # d => devices'[x].live = devices[x].live
  <2>1. devices' = [devices EXCEPT ![d].live = FALSE] /\ devices \in Seq(DeviceRecords)
    BY DEF DeleteDevice, PresenceInv, PresenceTyped
  <2>2. devices[d] \in DeviceRecords
    BY <2>1
  <2> QED
    BY <2>1, <2>2 DEF DeviceRecords
<1>3. widget \in DOMAIN devices \cup {NULL}
  BY DEF PresenceInv, PresenceTyped
<1>4. d # NULL
  BY OwnersAssumption DEF PresenceInv, PresenceTyped
<1>5. DeviceLive' => DeviceLive /\ widget # d
  BY <1>2, <1>3 DEF DeviceLive
<1>6. OwnersTyped'
  BY <1>0, <1>1 DEF OwnersTyped
<1>7. WidgetOwns' /\ OneTimer'
  BY <1>0 DEF WidgetOwns, OneTimer
<1>8. OwnSession'
  BY <1>0, <1>1, <1>5 DEF OwnSession, OwnersTyped
<1>9. JobSessions'
  BY <1>0, <1>1 DEF JobSessions
<1>10. GoodPointers'
  <2> SUFFICES ASSUME astray' = {}
               PROVE  /\ widget # NULL => devices'[widget].live
                      /\ \A s \in listed' : sessions'[s].live
                      /\ \A j \in rows : jobs[j].live
                      /\ \A j \in DOMAIN jobs : JobSession(j) => sessions'[jobs[j].session].live
                      /\ ~touched
    BY <1>0 DEF GoodPointers
  <2>1. astray = {} /\ widget # d
    OBVIOUS
  <2>2. widget # NULL => devices'[widget].live
    BY <1>0, <1>2, <1>3, <2>1 DEF GoodPointers
  <2>3. \A s \in listed' : sessions'[s].live
    BY <1>0, <1>1, <2>1 DEF GoodPointers, OwnersTyped
  <2>4. ASSUME NEW j \in DOMAIN jobs, JobSession(j)
        PROVE  sessions'[jobs[j].session].live
    <3>1. /\ jobs[j].session \in DOMAIN sessions /\ sessions[jobs[j].session].live
          /\ sessions[jobs[j].session].device # d
      BY <1>0, <2>1, <2>4 DEF GoodPointers, JobSessions
    <3> QED
      BY <1>1, <3>1
  <2> QED
    BY <1>0, <2>1, <2>2, <2>3, <2>4 DEF GoodPointers
<1> QED
  BY <1>6, <1>7, <1>8, <1>9, <1>10 DEF OwnersInv

LEMMA ByebyeKeeps ==
  ASSUME OwnersInv, PresenceInv, PresenceInv', NEW k \in Keys, Byebye(k)
  PROVE  OwnersInv'
<1> DEFINE d == known[k]
<1> DEFINE i == IF d \in ToSet(tabs) THEN CHOOSE p \in DOMAIN tabs : tabs[p] = d ELSE 0
<1> DEFINE rest == IF i = 0 THEN tabs ELSE RemoveAt(tabs, i)
<1> DEFINE next == rest[CurrentAfter(i, rest)]
<1>1. d \in DOMAIN devices /\ tabs' = rest
  BY DEF Byebye, PresenceInv, PresenceTyped
<1>2. IF i # 0 /\ Notified(i, rest)
      THEN /\ currentDeviceChanged(next) /\ DeleteDevice(d, ClosedSessions)
           /\ current' = CurrentAfter(i, rest)
      ELSE /\ astray' = IF widget = d THEN astray \cup {"last"} ELSE astray
           /\ UNCHANGED <<widget, collection, runs, touched>>
           /\ DeleteDevice(d, sessions)
  BY DEF Byebye
<1> HIDE DEF d, i, rest
<1>3. CASE i # 0 /\ Notified(i, rest)
  <2>1. /\ currentDeviceChanged(next) /\ DeleteDevice(d, ClosedSessions)
        /\ next = tabs'[current'] /\ tabs' # <<>>
    BY <1>1, <1>2, <1>3 DEF Notified
  <2>2. devices'[next].live
    <3>1. current' \in DOMAIN tabs'
      BY <2>1 DEF PresenceInv, PresenceTyped
    <3> QED
      BY <2>1, <3>1 DEF PresenceInv, TabsAreShown
  <2> HIDE DEF next
  <2>3. /\ ClosedSessions \in Seq(SessionRecords) /\ DOMAIN ClosedSessions = DOMAIN sessions
        /\ OwnersTyped
    BY DeletedKeeps DEF ClosedSessions, OwnersInv
  <2>4. /\ sessions' \in Seq(SessionRecords) /\ DOMAIN sessions' = DOMAIN sessions
        /\ \A s \in DOMAIN sessions :
             sessions'[s].live = (ClosedSessions[s].live /\ ~(sessions[s].device = d /\ sessions[s].parent = "device"))
        /\ listed' = {s \in listed : sessions[s].device # d}
    BY <2>1, <2>3, DeviceDeleted
  <2>5. \A s \in listed' : ClosedSessions[s].live => sessions'[s].live
    BY <2>3, <2>4 DEF OwnersTyped
  <2> QED
    BY <2>1, <2>2, <2>4, <2>5, SwitchKeeps
<1>4. CASE ~(i # 0 /\ Notified(i, rest))
  BY <1>1, <1>2, <1>4, LeavesUnseen
<1> QED
  BY <1>3, <1>4

LEMMA TabKeeps ==
  ASSUME OwnersInv, PresenceInv, PresenceInv', NEW d \in DOMAIN devices, descriptionReplyFinished(d)
  PROVE  OwnersInv'
<1>1. /\ devices[d].live /\ devices' = [devices EXCEPT ![d].ready = TRUE]
      /\ (Stays /\ UNCHANGED list) \/ Shows(d)
  BY DEF descriptionReplyFinished
<1>2. \A x \in DOMAIN devices : devices'[x].live = devices[x].live
  <2>1. \A x \in DOMAIN devices : devices[x] \in DeviceRecords
    BY DEF PresenceInv, PresenceTyped
  <2> QED
    BY <1>1, <2>1 DEF DeviceRecords
<1> QED
  BY <1>1, <1>2, StayKeeps, ShowKeeps

LEMMA SelectionKeeps ==
  ASSUME OwnersInv, PresenceInv, checkForDevices \/ \E i \in DOMAIN tabs : SelectTab(i)
  PROVE  OwnersInv'
<1>1. /\ UNCHANGED devices
      /\ (Stays /\ UNCHANGED list) \/ \E i \in DOMAIN tabs : Shows(tabs[i])
  <2>1. CASE checkForDevices
    BY <2>1 DEF checkForDevices, list
  <2>2. ASSUME NEW i \in DOMAIN tabs, SelectTab(i)
        PROVE  UNCHANGED devices /\ ((Stays /\ UNCHANGED list) \/ Shows(tabs[i]))
    BY <2>2 DEF SelectTab
  <2> QED
    BY <2>1, <2>2
<1>2. \A i \in DOMAIN tabs : devices[tabs[i]].live
  BY DEF PresenceInv, TabsAreShown
<1> QED
  BY <1>1, <1>2, StayKeeps, ShowKeeps

LEMMA AliveKeeps ==
  ASSUME OwnersInv, PresenceInv, NEW k \in Keys, Alive(k)
  PROVE  OwnersInv'
<1> DEFINE new == [key |-> k, ready |-> FALSE, live |-> TRUE]
<1>1. devices' = Append(devices, new) /\ UNCHANGED <<widget, owners, touched>>
  BY DEF Alive
<1>2. new \in DeviceRecords /\ devices \in Seq(DeviceRecords)
  BY DEF DeviceRecords, PresenceInv, PresenceTyped
<1> HIDE DEF new
<1>3. \A d \in DOMAIN devices : devices'[d].live = devices[d].live
  BY <1>1, <1>2, Appending
<1> QED
  BY <1>1, <1>3, DevicesStay DEF owners, list, collection, runs

LEMMA OwnersKeep == OwnersInv /\ PresenceInv /\ PresenceInv' /\ [Next]_vars => OwnersInv'
<1> SUFFICES ASSUME OwnersInv, PresenceInv, PresenceInv', [Next]_vars PROVE OwnersInv'
  OBVIOUS
<1>1. CASE Presence
  BY <1>1, AliveKeeps, ByebyeKeeps, TabKeeps, SelectionKeeps DEF Presence
<1>2. CASE ~touched /\ Runs /\ UNCHANGED <<devices, widget, presence>>
  <2>1. UNCHANGED <<devices, widget>>
    BY <1>2
  <2> QED
    BY <1>2, <2>1, UserSessionsKeep, CollectorKeeps, JobsKeep DEF Runs
<1>3. CASE UNCHANGED vars
  BY <1>3, OwnersUnchanged DEF vars
<1> QED
  BY <1>1, <1>2, <1>3 DEF Next

LEMMA OwnersAlways == Spec => [](PresenceInv /\ OwnersInv)
<1>1. Init => PresenceInv /\ OwnersInv
  BY OpensPresence, OpensOwners
<1>2. PresenceInv /\ OwnersInv /\ [Next]_vars => (PresenceInv /\ OwnersInv)'
  BY PresenceKeeps, OwnersKeep
<1> QED
  BY <1>1, <1>2, PTL DEF Spec

\* A deleted object is only used after one of the five things that leave a pointer to it: in
\* every other history of devices, widgets, collections, recordings and tests, however many there
\* are, what a slot uses is live.
THEOREM OnlyStrayPointersFail == Spec => []UsesLive
<1>1. OwnersInv => UsesLive
  BY DEF OwnersInv, GoodPointers, UsesLive
<1> QED
  BY <1>1, OwnersAlways, PTL

\* After stop() the collector has no session and no timer that it knows, and the session that it
\* has until then is live and in the list of its device, whatever the user does with that list.
THEOREM StopMakesQuiet == Spec => []StoppedIsQuiet
<1>1. ASSUME OwnersInv
      PROVE  StoppedIsQuiet
  <2>1. collector.current = NULL => collector.session = NULL /\ collector.timerID = NULL
    BY <1>1 DEF OwnersInv, OneTimer
  <2>2. ASSUME collector.current = NULL, ~overlap
        PROVE  armed = {}
    BY <1>1, <2>1, <2>2, OwnersAssumption DEF OwnersInv, OneTimer, OwnersTyped, Timers
  <2>3. DeviceLive /\ collector.session # NULL =>
          sessions[collector.session].live /\ collector.session \in listed
    BY <1>1 DEF OwnersInv, OwnSession
  <2> QED
    BY <2>1, <2>2, <2>3 DEF StoppedIsQuiet
<1> QED
  BY <1>1, OwnersAlways, PTL
=============================================================================
