------------------------------- MODULE Discovery -------------------------------
(***************************************************************************)
(* Devices come and go by their SSDP messages (ssdpclient.cpp), each with  *)
(* a tab in the selection of servers (severselectionwidget.cpp). The       *)
(* GatewayWidget on the screen follows the current tab (mainwindow.cpp);   *)
(* what the user runs on a device ends with its widget.                    *)
(***************************************************************************)
EXTENDS SessionOwners

CONSTANTS
  Keys,         \* <<server, location>>, as devices are told apart
  MaxDevices

VARIABLES
  known,        \* for each key the device of the SSDPClient, or NULL
  tabs,         \* the devices with a tab, in their order
  current,      \* the position of the current tab, 0 without tabs
  connected     \* the main window follows the selection, after its first two seconds

presence == <<known, tabs, current, connected>>
vars == <<devices, widget, presence, owners, touched>>

Server(d) == devices[d].key[1]

\* The widget is deleted, and with it its collector, whose session the device refuses to
\* remove, and its recordings and tests, which the views no longer recognise as such.
ClosedSessions == Deleted(collector.session)
ClosedJobs == [j \in DOMAIN jobs |-> Ended(j)]
CloseStrays == (IF collector.session # NULL THEN {"abandoned"} ELSE {})
               \cup (IF \E j \in rows : jobs[j].live THEN {"row"} ELSE {})

\* A session list that shows a deleted session uses it.
ShowFails(d) == \E s \in listed : sessions[s].device = d /\ ~ClosedSessions[s].live

\* The widget of the last device is deleted, and one for this device created.
currentDeviceChanged(d) ==
  /\ widget' = d
  /\ collector' = Idle /\ checked' = FALSE /\ armed' = {} /\ overlap' = FALSE /\ events' = {}
  /\ jobs' = ClosedJobs
  /\ astray' = astray \cup CloseStrays
  /\ touched' = ShowFails(d)
  /\ UNCHANGED rows

Stays == UNCHANGED <<widget, collection, runs, astray, touched>>
Shows(d) == currentDeviceChanged(d) /\ sessions' = ClosedSessions /\ UNCHANGED listed

\* NOTIFY alive, or the answer to a search, of a device that is not known.
Alive(k) ==
  /\ known[k] = NULL /\ Len(devices) < MaxDevices
  /\ devices' = Append(devices, [key |-> k, ready |-> FALSE, live |-> TRUE])
  /\ known' = [known EXCEPT ![k] = Len(devices) + 1]
  /\ UNCHANGED <<widget, owners, touched, tabs, current, connected>>

\* The description of a device is there, or could not be had: it gets a tab, unless its
\* server has one.
HasTabItself(d) == \E i \in DOMAIN tabs : tabs[i] = d
HasTab(d) == \E i \in DOMAIN tabs : Server(tabs[i]) = Server(d)

descriptionReplyFinished(d) ==
  /\ devices[d].live /\ ~devices[d].ready
  /\ devices' = [devices EXCEPT ![d].ready = TRUE]
  /\ IF HasTab(d) THEN Stays /\ UNCHANGED <<list, tabs, current>>
     ELSE /\ tabs' = Append(tabs, d)
          /\ current' = IF tabs = <<>> THEN 1 ELSE current
          /\ IF tabs = <<>> /\ connected THEN Shows(d) ELSE Stays /\ UNCHANGED list
  /\ UNCHANGED <<known, connected>>

\* The last used device, or the current one. Without a last used one the pointer to the
\* device of the main window is read, which nobody has set: it may be no device of a tab.
checkForDevices ==
  /\ ~connected /\ connected' = TRUE
  /\ \/ \E i \in DOMAIN tabs : current' = i /\ Shows(tabs[i])
     \/ Stays /\ UNCHANGED <<list, current>>
  /\ UNCHANGED <<devices, known, tabs>>

SelectTab(i) ==
  /\ i # current /\ current' = i
  /\ IF connected THEN Shows(tabs[i]) ELSE Stays /\ UNCHANGED list
  /\ UNCHANGED <<devices, known, tabs, connected>>

\* Qt: if the current tab goes its right neighbour, else its left one, becomes current; if
\* one on its left goes, the current one moves, which counts as a change of the tab.
CurrentAfter(i, rest) ==
  IF i < current THEN current - 1
  ELSE IF current > Len(rest) THEN Len(rest) ELSE current
Notified(i, rest) == connected /\ i <= current /\ rest # <<>>

\* The device is deleted with its session list and the sessions it has created.
DeleteDevice(d, left) ==
  /\ devices' = [devices EXCEPT ![d].live = FALSE]
  /\ listed' = {s \in listed : sessions[s].device # d}
  /\ sessions' = [s \in DOMAIN sessions |->
       [left[s] EXCEPT !.live = @ /\ ~(sessions[s].device = d /\ sessions[s].parent = "device")]]

Taken(k) == [known EXCEPT ![k] = NULL]

\* NOTIFY byebye: the tab goes first, then the device.
Byebye(k) ==
  LET d == known[k]
      i == IF d \in ToSet(tabs) THEN CHOOSE p \in DOMAIN tabs : tabs[p] = d ELSE 0
      rest == IF i = 0 THEN tabs ELSE RemoveAt(tabs, i)
  IN /\ d # NULL /\ known' = Taken(k)
     /\ tabs' = rest
     /\ current' = IF i = 0 THEN current ELSE CurrentAfter(i, rest)
     /\ IF i # 0 /\ Notified(i, rest)
        THEN currentDeviceChanged(rest[CurrentAfter(i, rest)]) /\ DeleteDevice(d, ClosedSessions)
        ELSE /\ astray' = IF widget = d THEN astray \cup {"last"} ELSE astray
             /\ UNCHANGED <<widget, collection, runs, touched>>
             /\ DeleteDevice(d, sessions)
     /\ UNCHANGED connected
=============================================================================
