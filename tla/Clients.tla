-------------------------------- MODULE Clients --------------------------------
(***************************************************************************)
(* The client as a whole, but for the scan: devices that come and go, the  *)
(* widget of the current one, and what the user runs from it, the events   *)
(* of the one event loop in any order. The user does finitely many things  *)
(* (MaxDevices, MaxSessions, MaxJobs).                                     *)
(***************************************************************************)
EXTENDS Discovery

Init ==
  /\ devices = <<>> /\ widget = NULL
  /\ known = [k \in Keys |-> NULL] /\ tabs = <<>> /\ current = 0 /\ connected = FALSE
  /\ sessions = <<>> /\ listed = {}
  /\ collector = Idle /\ checked = FALSE /\ armed = {} /\ overlap = FALSE /\ events = {}
  /\ jobs = <<>> /\ rows = {} /\ astray = {} /\ touched = FALSE

Presence ==
  \/ \E k \in Keys : Alive(k) \/ Byebye(k)
  \/ \E d \in DOMAIN devices : descriptionReplyFinished(d)
  \/ checkForDevices
  \/ \E i \in DOMAIN tabs : SelectTab(i)

Runs ==
  \/ OpenSession
  \/ \E s \in DOMAIN sessions : RemoveSession(s)
  \/ StartCollector \/ StopCollector
  \/ \E p \in 1..Programs : ClickProgram(p)
  \/ \E t \in Timers : CollectorTimer(t)
  \/ \E e \in Events : newEventAvailable(e)
  \/ \E kind \in JobKinds : NewJob(kind)
  \/ \E j \in DOMAIN jobs : \/ StartTimer(j) \/ EndTimer(j) \/ StopReply(j)
                            \/ StopSession(j) \/ ReplyFinished(j)

Next == ~touched /\ (Presence \/ (Runs /\ UNCHANGED <<devices, widget, presence>>))

Spec == Init /\ [][Next]_vars

\* Timers expire, and the description of a device arrives or fails. A closed reply finishes;
\* an open one may stream for ever.
Loop(A) == ~touched /\ A /\ UNCHANGED <<devices, widget, presence>>
Fairness ==
  /\ \A t \in Timers : WF_vars(Loop(CollectorTimer(t)))
  /\ \A j \in 1..MaxJobs :
       /\ WF_vars(Loop(j \in DOMAIN jobs /\ EndTimer(j)))
       /\ WF_vars(Loop(j \in DOMAIN jobs /\ jobs[j].reply = "closing" /\ ReplyFinished(j)))

FairSpec == Spec /\ Fairness
----------------------------------------------------------------------------
\* A deleted object is only used after one of these: the last tab goes ("last"), the user
\* removes the session of a recording or test ("removed"), a widget goes with the session
\* of its collector ("abandoned") or with a recording that the views still show ("row"), or
\* a reply finishes inside of close() ("closed"). Without them all pointers are good.
UsesLive == touched => astray # {}

\* After stop() the collector is quiet: no session, and no timer, but for what an overlapping
\* start() has left behind. Until then the session of a live device is its own: it is live and
\* in the list, whose removeSession() refuses what the device has not created.
StoppedIsQuiet ==
  /\ (~checked /\ collector.current = NULL /\ ~overlap) => collector.session = NULL /\ armed = {}
  /\ (~touched /\ DeviceLive /\ collector.session # NULL) =>
       sessions[collector.session].live /\ collector.session \in listed

\* What the user sees: the devices with a tab are live and ready, no server has two, and the
\* widget is that of the current tab as long as there is one. A device that is known is live.
TabsAreShown ==
  /\ \A k \in Keys : known[k] = NULL \/ (devices[known[k]].live /\ devices[known[k]].key = k)
  /\ \A i \in DOMAIN tabs : devices[tabs[i]].live /\ devices[tabs[i]].ready
  /\ \A i, j \in DOMAIN tabs : i # j => Server(tabs[i]) # Server(tabs[j])
  /\ (widget # NULL /\ tabs # <<>>) => widget = tabs[current]

\* A collection reaches every program, unless it is stopped or started again or its device
\* leaves: a program without new events is left after its time.
EveryProgramVisited ==
  \A p \in 1..Programs :
     collector.session # NULL ~> (collector.current = p \/ collector.session = NULL \/ ~DeviceLive \/ touched)

RecordsEvent(j) == j \in DOMAIN jobs /\ jobs[j].kind = "event" /\ jobs[j].file

\* A recording of an event comes to its end: its file is closed, even if the stream is not.
RecordingEnds ==
  \A j \in 1..MaxJobs : RecordsEvent(j) ~> (~RecordsEvent(j) \/ touched)
=============================================================================
