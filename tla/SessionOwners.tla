----------------------------- MODULE SessionOwners -----------------------------
(***************************************************************************)
(* What the user runs on a device from its GatewayWidget: RTSP sessions    *)
(* (gatewaydevice.cpp, sessionmodel.cpp), the EPG collector, recordings    *)
(* and stream tests. All of it runs in one event loop, so a slot is one    *)
(* step. Objects are created and deleted; one that is used after it has    *)
(* been deleted ends the model (`touched').                                *)
(***************************************************************************)
EXTENDS Integers, SequencesExt

CONSTANTS
  NULL,
  Programs,     \* how many programs a device has
  Events,       \* events in the EIT
  JobKinds,     \* "event", "file", "rtsp": recordings; "test", "test_rtsp": stream tests
  MaxSessions, MaxJobs

ASSUME OwnersAssumption == NULL \notin Nat /\ {Programs, MaxSessions, MaxJobs} \subseteq Nat

VARIABLES
  devices,      \* every GatewayDevice so far: [key, ready, live]
  widget,       \* the device of the GatewayWidget, or NULL
  sessions,     \* every RTSPSession so far: [parent, device, live]
  listed,       \* those in the SessionModel of their device
  collector,    \* the EpgCollector of the widget: [session, current, index, timerID]
  checked,      \* its button
  armed,        \* its timers
  overlap,      \* its start() has been called while a timer was armed
  events,       \* the events it has found
  jobs,         \* every recording and test so far: [kind, timer, reply, session, file, live]
  rows,         \* those in the views of recordings and tests
  astray,       \* what has happened that leaves a pointer to a deleted object (a history)
  touched       \* such a pointer has been used

list == <<sessions, listed>>
collection == <<collector, checked, armed, overlap, events>>
runs == <<jobs, rows>>
owners == <<list, collection, runs, astray>>

Idle == [session |-> NULL, current |-> NULL, index |-> 1, timerID |-> NULL]
Timers == 1..3
DeviceLive == IF widget = NULL THEN FALSE ELSE devices[widget].live

\* A slot whose first use of an object is of one that may be deleted.
Uses(live, slot) ==
  IF live THEN slot /\ UNCHANGED touched ELSE touched' = TRUE /\ UNCHANGED owners
----------------------------------------------------------------------------
(* Sessions. *)

NewSession == Len(sessions) + 1
Session(parent) == [parent |-> parent, device |-> widget, live |-> TRUE]

addSession(parent) ==
  /\ Len(sessions) < MaxSessions
  /\ sessions' = Append(sessions, Session(parent))
  /\ listed' = listed \cup {NewSession}

\* Only what the device has created can be removed without force.
Removable(s) == sessions[s].parent = "device"

removeSession(s) ==
  IF Removable(s) /\ s \in listed
  THEN listed' = listed \ {s} /\ sessions' = [sessions EXCEPT ![s].live = FALSE]
  ELSE UNCHANGED list

\* From the list of channels, or from the dialog of the session list.
OpenSession ==
  /\ DeviceLive
  /\ addSession("device")
  /\ UNCHANGED <<collection, runs, astray, touched>>

\* From the session list, which shows the sessions of recordings and tests as well.
RemoveSession(s) ==
  /\ DeviceLive /\ s \in listed /\ sessions[s].device = widget
  /\ removeSession(s)
  /\ astray' = IF \E j \in DOMAIN jobs : jobs[j].live /\ jobs[j].session = s
               THEN astray \cup {"removed"} ELSE astray
  /\ UNCHANGED <<collection, runs, touched>>
----------------------------------------------------------------------------
(* The EPG collector: one program after the other, until nothing new is    *)
(* found for a while.                                                      *)

\* The identifiers of timers are reused.
FreeTimer(others) == CHOOSE t \in Timers \ others : \A u \in Timers \ others : t <= u

\* A program of the list, and the next one for the step to come.
Index(at) == IF at > Programs THEN 1 ELSE at
VisitsInPlace(at, session, others) ==
  /\ collector' = [session |-> session, current |-> Index(at), index |-> Index(at),
                   timerID |-> FreeTimer(others)]
  /\ armed' = others \cup {FreeTimer(others)}
Visits(at, session, others) ==
  /\ collector' = [session |-> session, current |-> Index(at), index |-> Index(at) + 1,
                   timerID |-> FreeTimer(others)]
  /\ armed' = others \cup {FreeTimer(others)}

step(at, others) ==
  IF collector.session = NULL
  THEN addSession("collector") /\ Visits(at, NewSession, others)
  ELSE Visits(at, collector.session, others) /\ UNCHANGED list

StartCollector ==
  /\ widget # NULL /\ ~checked /\ armed # Timers
  /\ Uses(DeviceLive, /\ checked' = TRUE /\ overlap' = (overlap \/ armed # {})
                      /\ step(1, armed)
                      /\ UNCHANGED <<events, runs, astray>>)

\* stop() kills the timer it knows, and removes the session with force to delete it itself.
Armed == armed
Unarmed == armed \ {collector.timerID}
Deleted(s) == [x \in DOMAIN sessions |-> [sessions[x] EXCEPT !.live = @ /\ x # s]]

StopCollector ==
  /\ widget # NULL /\ checked
  /\ Uses(DeviceLive \/ collector.session = NULL,
          /\ checked' = FALSE
          /\ collector' = [collector EXCEPT !.session = NULL, !.current = NULL, !.timerID = NULL]
          /\ armed' = Unarmed
          /\ sessions' = Deleted(collector.session)
          /\ listed' = listed \ {collector.session}
          /\ UNCHANGED <<overlap, events, runs, astray>>)

\* A click on a program: stop(), then start() with this one. The button stays as it is.
ClickProgram(p) ==
  /\ DeviceLive /\ Len(sessions) < MaxSessions /\ Unarmed # Timers
  /\ Visits(p, NewSession, Unarmed)
  /\ sessions' = Append(Deleted(collector.session), Session("collector"))
  /\ listed' = (listed \ {collector.session}) \cup {NewSession}
  /\ overlap' = (overlap \/ Unarmed # {})
  /\ UNCHANGED <<checked, events, runs, astray, touched>>

CollectorTimer(t) ==
  /\ t \in armed
  /\ Uses(DeviceLive, step(collector.index, armed \ {t})
                      /\ UNCHANGED <<checked, overlap, events, runs, astray>>)

\* A new event in the packets of the session gives the program more time.
newEventAvailable(e) ==
  /\ collector.session # NULL /\ e \notin events
  /\ events' = events \cup {e}
  /\ collector' = [collector EXCEPT !.timerID = FreeTimer(Unarmed)]
  /\ armed' = Unarmed \cup {FreeTimer(Unarmed)}
  /\ UNCHANGED <<list, checked, overlap, runs, astray, touched>>
----------------------------------------------------------------------------
(* Recordings and stream tests. *)

Job(kind) == [kind |-> kind, timer |-> "none", reply |-> "none", session |-> NULL, file |-> FALSE,
              live |-> TRUE]
OverRtsp(kind) == kind \in {"rtsp", "test_rtsp"}
Tests == {"test", "test_rtsp"}

\* start(): a recording needs its file, and does nothing without it.
StartedForEver(j) == [j EXCEPT !.file = TRUE, !.reply = "open", !.timer = "none"]
Started(j) == [j EXCEPT !.file = j.kind \notin Tests,
                        !.reply = IF OverRtsp(j.kind) THEN "none" ELSE "open",
                        !.session = IF OverRtsp(j.kind) THEN NewSession ELSE NULL,
                        !.timer = IF j.kind = "event" THEN "end" ELSE "none"]
NotOpened(j) == [j EXCEPT !.timer = "none"]

\* A recording of an event waits for its start, everything else starts at once.
NewJob(kind) ==
  /\ widget # NULL /\ Len(jobs) < MaxJobs
  /\ kind = "event" => events # {}
  /\ Uses(DeviceLive,
       /\ rows' = rows \cup {Len(jobs) + 1}
       /\ \/ /\ kind = "event" /\ UNCHANGED list
             /\ jobs' = Append(jobs, [Job(kind) EXCEPT !.timer = "start"])
          \/ /\ kind # "event" /\ jobs' = Append(jobs, Started(Job(kind)))
             /\ IF OverRtsp(kind) THEN addSession("device") ELSE UNCHANGED list
          \/ /\ kind \notin Tests \cup {"event"} /\ UNCHANGED list
             /\ jobs' = Append(jobs, NotOpened(Job(kind)))
       /\ UNCHANGED <<collection, astray>>)

\* The event begins.
StartTimer(j) ==
  /\ jobs[j].live /\ jobs[j].timer = "start"
  /\ Uses(DeviceLive, /\ \E job \in {Started(jobs[j]), NotOpened(jobs[j])} : jobs' = [jobs EXCEPT ![j] = job]
                      /\ UNCHANGED <<list, collection, rows, astray>>)

\* recordingDone() and testingDone(): out of the pool, then deleted.
Ended(j) == [jobs[j] EXCEPT !.live = FALSE, !.file = FALSE, !.timer = "none"]
finishedInPool(j) == jobs' = [jobs EXCEPT ![j] = Ended(j)] /\ UNCHANGED rows
finished(j) == jobs' = [jobs EXCEPT ![j] = Ended(j)] /\ rows' = rows \ {j}

\* Closing a reply finishes it, at once, inside of close(), or in an event of its own. At
\* once deletes the object whose slot is still running.
closeReply(j, usedAfterwards) ==
  \/ /\ finished(j)
     /\ touched' = usedAfterwards
     /\ astray' = IF usedAfterwards THEN astray \cup {"closed"} ELSE astray
  \/ /\ jobs' = [jobs EXCEPT ![j].reply = "closing", ![j].timer = "none"]
     /\ UNCHANGED <<rows, astray, touched>>

\* The event ends: stop(), then the timer is killed.
EndTimer(j) ==
  /\ jobs[j].live /\ jobs[j].timer = "end"
  /\ closeReply(j, TRUE)
  /\ UNCHANGED <<list, collection>>

\* The user stops what a row shows. A test forgets its reply after close().
StopReply(j) ==
  /\ j \in rows /\ jobs[j].live /\ jobs[j].reply # "none"
  /\ IF jobs[j].reply = "open" THEN closeReply(j, jobs[j].kind = "test")
     ELSE UNCHANGED <<runs, astray, touched>>
  /\ UNCHANGED <<list, collection>>

StopSession(j) ==
  /\ j \in rows /\ (jobs[j].live => jobs[j].reply = "none")
  /\ LET s == jobs[j].session IN
     Uses(jobs[j].live /\ (s # NULL => DeviceLive /\ sessions[s].live),
          /\ IF s = NULL THEN UNCHANGED list ELSE removeSession(s)
          /\ finished(j)
          /\ UNCHANGED <<collection, astray>>)

\* The server ends the stream, or a closed reply says that it has finished.
ReplyFinished(j) ==
  /\ jobs[j].live /\ jobs[j].reply # "none"
  /\ finished(j)
  /\ UNCHANGED <<list, collection, astray, touched>>
=============================================================================
