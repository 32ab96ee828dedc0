---------------------------- MODULE ScanProcedure ----------------------------
(***************************************************************************)
(* The frequency scan of the SAT>IP client: ScanProcedure with the step    *)
(* computation of its DVB-T and DVB-S subclasses, the PAT, PMT and SDT     *)
(* handlers it owns, and the buttons of ScanWidget that drive it.          *)
(*                                                                         *)
(* Everything runs in the Qt event loop, so one action is one event:  a    *)
(* button, a timer, a posted StepEvent, an RTCP report or a table section. *)
(* A frequency is its index on the scan grid, counted from 1; 0 stands for *)
(* the unset frequency.                                                    *)
(*                                                                         *)
(* A definition that is named after another with a defect added (such as   *)
(* CommitDataKeepsIncomplete) is no part of Spec: it is the plausible bug  *)
(* the properties are tried against.                                       *)
(***************************************************************************)
EXTENDS Integers, FiniteSets

CONSTANTS
  Programs,       \* program numbers a PAT can announce (0, the NIT, left out)
  Pid,            \* Pid[p]: the PID of the PMT of program p
  VideoPrograms,  \* the programs whose PMT lists a video stream
  Pats,           \* the PAT sections that may be received
  TableChanges,   \* may a PMT or an SDT change while it is being watched?
  OldTraffic,     \* may packets of the previous tuning still arrive?
  NbSteps,        \* the values nbSteps() can take
  Inexact,        \* the n for which the double 100 / n * n falls short of 100
  UserActions,    \* what the user does besides pressing start
  Carriers,       \* the frequencies on which the tuner locks (LiveSpec)
  MaxFrequency,   \* bound: the last grid index explored
  MaxEvents       \* bound: StepEvents pending at once

VersionNumbers == 0..31

PatSections ==
  [version : VersionNumbers, current : BOOLEAN, programs : SUBSET Programs]

ASSUME ScanAssumption ==
  /\ Programs \subseteq Nat \ {0}
  /\ DOMAIN Pid = Programs
  /\ VideoPrograms \subseteq Programs
  /\ Pats \subseteq PatSections
  /\ TableChanges \in BOOLEAN /\ OldTraffic \in BOOLEAN
  /\ NbSteps \subseteq Nat /\ NbSteps # {} /\ Inexact \subseteq Nat \ {0}
  /\ UserActions \subseteq {"pause", "stop", "step", "auto", "setup", "clean"}
  /\ Carriers \subseteq Nat
  /\ MaxFrequency \in Nat \ {0} /\ MaxEvents \in Nat \ {0}

VARIABLES
  status, progress, frequency,    \* ScanStatus, percent, param.frequency()
  nbSteps, isAuto,                \* setup of the scan
  session,                        \* does rtpSession exist?
  lockTimer, patTimer,            \* is the timer armed (id # 0)?
  locked, lastSsrc, currentSsrc,
  tables,                         \* TableTypes seen on this frequency
  patHandler, sdtHandler, pmtHandlers, attached,
  tmpPrograms,                    \* programs found on this frequency
  devicePrograms, savedPrograms,  \* GatewayDevice's list, and its file
  pendingSteps,                   \* StepEvents posted and not delivered
  ssrc, streams,                  \* server: newest SSRC, streams in flight
  lockSource                      \* history: frequency of the locking report

scan == <<status, progress, frequency>>
setup == <<nbSteps, isAuto>>
timers == <<lockTimer, patTimer>>
lock == <<locked, lockSource>>
handlers == <<patHandler, sdtHandler, pmtHandlers>>
found == <<tables, tmpPrograms>>
device == <<devicePrograms, savedPrograms>>
server == <<session, ssrc, streams>>
vars == <<scan, setup, timers, lock, lastSsrc, currentSsrc, handlers, attached,
          found, device, pendingSteps, server>>

AllTables == {"PAT", "PMT", "SDT"}
NoPat == [exists |-> FALSE, version |-> 0, programs |-> {}]
NewPat == [exists |-> TRUE, version |-> 0, programs |-> {}]

Frequencies == 0..MaxFrequency
Ssrcs == 1..3
Streams == [freq : Frequencies, ssrc : Ssrcs]
ProgramEntries ==
  [number : Programs, freq : Frequencies, from : SUBSET Frequencies,
   video : BOOLEAN, mapped : BOOLEAN]
PmtHandlers == [number : Programs, listening : BOOLEAN, triggered : BOOLEAN]

Init ==
  /\ status = "Idle" /\ progress = 0 /\ frequency = 0
  /\ nbSteps \in NbSteps /\ isAuto = TRUE
  /\ session = FALSE /\ ssrc = 0 /\ streams = {}
  /\ lockTimer = FALSE /\ patTimer = FALSE
  /\ locked = FALSE /\ lockSource = 0
  /\ lastSsrc = 0 /\ currentSsrc = 0
  /\ patHandler = NoPat /\ sdtHandler = FALSE /\ pmtHandlers = {}
  /\ attached = FALSE
  /\ tables = {} /\ tmpPrograms = {}
  /\ devicePrograms = {} /\ savedPrograms = {}
  /\ pendingSteps = 0

----------------------------------------------------------------------------
(* Steps from one frequency to another.                                    *)

\* (int)(100 / (double)nbSteps * stepIndex); dividing by zero steps yields an
\* infinity or a NaN, which the conversion to int turns into a negative value.
PercentOfTheStepBefore(n, index) == IF n = 0 THEN -1 ELSE (100 * (index - 1)) \div n
Percent(n, index) ==
  IF n = 0 THEN -1
  ELSE IF index = n /\ n \in Inexact THEN 99
  ELSE (100 * index) \div n

NextFrequency(forward) ==
  IF frequency = 0 THEN 1
  ELSE IF forward THEN frequency + 1
  ELSE IF frequency = 1 THEN 1 ELSE frequency - 1

KillRunningTimer == lockTimer' = FALSE /\ patTimer' = FALSE

Committed == IF tables = AllTables THEN {p \in tmpPrograms : p.video} ELSE {}

CommitDataKeepsIncomplete ==
  /\ devicePrograms' = devicePrograms \cup Committed
  /\ tmpPrograms' = IF tables = AllTables THEN {} ELSE tmpPrograms
CommitData ==
  /\ devicePrograms' = devicePrograms \cup Committed
  /\ tmpPrograms' = {}

ClearHandlers ==
  /\ patHandler' = NoPat /\ sdtHandler' = FALSE /\ pmtHandlers' = {}
  /\ attached' = FALSE

BeginStep ==
  /\ ClearHandlers
  /\ CommitData
  /\ lastSsrc' = currentSsrc /\ currentSsrc' = 0
  /\ tables' = {}

DeleteSession == session' = FALSE /\ streams' = {} /\ UNCHANGED ssrc

TuneBeforeAdvance(f) ==
  LET s == (ssrc % 3) + 1 IN
  /\ session' = TRUE /\ ssrc' = s
  /\ streams' = {[freq |-> frequency, ssrc |-> s]}
\* A new session is set up and played, which the server may refuse; an existing
\* one that is ready gets a PLAY for the new frequency. Each tuning has an SSRC
\* of its own.
Tune(f) ==
  LET s == (ssrc % 3) + 1
      new == {[freq |-> f, ssrc |-> s]}
      old == IF OldTraffic THEN {o \in streams : o.ssrc = ssrc} ELSE {}
  IN /\ session' = TRUE
     /\ ssrc' = s
     /\ \/ ~session /\ streams' \in {{}, new}
        \/ session /\ streams' = IF streams = {} THEN {} ELSE new \cup old

ArmLockTimer == lockTimer' = TRUE /\ patTimer' = FALSE

EndStep == locked' = FALSE /\ lockSource' = 0

CompleteSavesFirst ==
  /\ progress = 100
  /\ DeleteSession
  /\ KillRunningTimer
  /\ status' = "Completed"
  /\ savedPrograms' = devicePrograms
  /\ UNCHANGED <<progress, frequency, lock>>
Complete ==
  /\ progress = 100
  /\ DeleteSession
  /\ KillRunningTimer
  /\ status' = "Completed"
  /\ savedPrograms' = devicePrograms'
  /\ UNCHANGED <<progress, frequency, lock>>

Advance(forward) ==
  /\ progress # 100
  /\ IF status = "Paused"
     THEN status' = "Started" /\ UNCHANGED <<progress, frequency>>
     ELSE /\ frequency' = NextFrequency(forward)
          /\ frequency' <= MaxFrequency
          /\ progress' = Percent(nbSteps, frequency' - 1)
          /\ UNCHANGED status
  /\ Tune(frequency')
  /\ ArmLockTimer
  /\ EndStep
  /\ UNCHANGED savedPrograms

Step(forward) == BeginStep /\ (Complete \/ Advance(forward))

----------------------------------------------------------------------------
(* The buttons of ScanWidget and the setup widgets.                        *)

Start ==
  /\ status \in {"Idle", "Completed"}
  /\ ClearHandlers
  /\ CommitData
  /\ lastSsrc' = 0 /\ currentSsrc' = 0   \* clearAll() and step() both begin a step
  /\ tables' = {}
  /\ status' = "Started" /\ frequency' = 1 /\ progress' = Percent(nbSteps, 0)
  /\ Tune(1)
  /\ ArmLockTimer
  /\ EndStep
  /\ UNCHANGED <<setup, savedPrograms, pendingSteps>>

Halt(newStatus) ==
  /\ KillRunningTimer
  /\ DeleteSession
  /\ status' = newStatus
  /\ tmpPrograms' = {}
  /\ UNCHANGED <<progress, frequency, setup, lock, lastSsrc, currentSsrc,
                 handlers, attached, tables, devicePrograms, pendingSteps>>

Pause == "pause" \in UserActions /\ status = "Started" /\ Halt("Paused")
             /\ UNCHANGED savedPrograms

Stop == "stop" \in UserActions /\ status \in {"Started", "Paused"} /\ Halt("Idle")
            /\ savedPrograms' = devicePrograms

Resume == status = "Paused" /\ Step(TRUE) /\ UNCHANGED <<setup, pendingSteps>>

StepButton(forward) ==
  /\ "step" \in UserActions
  /\ status = "Started"
  /\ Step(forward)
  /\ UNCHANGED <<setup, pendingSteps>>

SetAuto(b) ==
  /\ "auto" \in UserActions
  /\ isAuto' = b
  /\ UNCHANGED <<scan, nbSteps, timers, lock, lastSsrc, currentSsrc, handlers,
                 attached, found, device, pendingSteps, server>>

SetEndFrequency(n) ==
  /\ "setup" \in UserActions
  /\ nbSteps' = n
  /\ UNCHANGED <<scan, isAuto, timers, lock, lastSsrc, currentSsrc, handlers,
                 attached, found, device, pendingSteps, server>>

CleanPrograms ==
  /\ "clean" \in UserActions
  /\ status \in {"Idle", "Completed"}
  /\ devicePrograms' = {} /\ savedPrograms' = {}
  /\ UNCHANGED <<scan, setup, timers, lock, lastSsrc, currentSsrc, handlers,
                 attached, found, pendingSteps, server>>

----------------------------------------------------------------------------
(* Events: timers and posted StepEvents.                                   *)

TimerEvent ==
  IF isAuto THEN Step(TRUE)
  ELSE /\ KillRunningTimer
       /\ UNCHANGED <<scan, lock, lastSsrc, currentSsrc, handlers, attached,
                      found, device, server>>

LockTimeout == lockTimer /\ TimerEvent /\ UNCHANGED <<setup, pendingSteps>>
PatTimeout == patTimer /\ TimerEvent /\ UNCHANGED <<setup, pendingSteps>>

StepEvent ==
  /\ pendingSteps > 0
  /\ pendingSteps' = pendingSteps - 1
  /\ IF isAuto THEN Step(TRUE)
     ELSE UNCHANGED <<scan, timers, lock, lastSsrc, currentSsrc, handlers,
                      attached, found, device, server>>
  /\ UNCHANGED setup

----------------------------------------------------------------------------
(* RTCP reports.                                                           *)

LockLeavesTimer(s) ==
  /\ ~locked
  /\ locked' = TRUE /\ lockSource' = s.freq
  /\ patTimer' = TRUE /\ UNCHANGED lockTimer
  /\ patHandler' = IF patHandler.exists THEN patHandler ELSE NewPat
  /\ attached' = TRUE
\* A lock report, whatever frequency it is about.
Lock(s) ==
  /\ ~locked
  /\ locked' = TRUE /\ lockSource' = s.freq
  /\ lockTimer' = FALSE /\ patTimer' = TRUE
  /\ patHandler' = IF patHandler.exists THEN patHandler ELSE NewPat
  /\ attached' = TRUE

Unlock ==
  /\ locked
  /\ EndStep
  /\ ArmLockTimer
  /\ attached' = FALSE
  /\ UNCHANGED patHandler

RtcpReport(s, isLocked) ==
  /\ s \in streams
  /\ IF isLocked THEN Lock(s) ELSE Unlock
  /\ UNCHANGED <<scan, setup, lastSsrc, currentSsrc, sdtHandler, pmtHandlers,
                 found, device, pendingSteps, server>>

----------------------------------------------------------------------------
(* RTP packets: a table section, or data no handler listens for.           *)

AcceptAny(s) ==
  /\ s \in streams
  /\ currentSsrc' = IF currentSsrc = 0 THEN s.ssrc ELSE currentSsrc
\* packetsAvailable(): only the first packet of a step is filtered by SSRC.
Accept(s) ==
  /\ s \in streams
  /\ currentSsrc = 0 => lastSsrc # s.ssrc
  /\ currentSsrc' = IF currentSsrc = 0 THEN s.ssrc ELSE currentSsrc

CheckDoneTestsFirst(seen, pmts) ==
  LET pmtDone == pmts # {} /\ \A h \in pmts : h.triggered
  IN /\ tables' = seen \cup (IF pmtDone THEN {"PMT"} ELSE {})
     /\ IF seen = AllTables /\ isAuto
        THEN pendingSteps < MaxEvents /\ pendingSteps' = pendingSteps + 1
        ELSE UNCHANGED pendingSteps
CheckDoneIgnoresPmt(seen, pmts) ==
  LET pmtDone == pmts # {} /\ \A h \in pmts : h.triggered
  IN /\ tables' = seen \cup (IF pmtDone THEN {"PMT"} ELSE {})
     /\ IF {"PAT", "SDT"} \subseteq seen /\ isAuto
        THEN pendingSteps < MaxEvents /\ pendingSteps' = pendingSteps + 1
        ELSE UNCHANGED pendingSteps
CheckDone(seen, pmts) ==
  LET pmtDone == pmts # {} /\ \A h \in pmts : h.triggered
      all == seen \cup (IF pmtDone THEN {"PMT"} ELSE {})
  IN /\ tables' = all
     /\ IF all = AllTables /\ isAuto
        THEN pendingSteps < MaxEvents /\ pendingSteps' = pendingSteps + 1
        ELSE UNCHANGED pendingSteps

\* What a PAT, a PMT and an SDT do to a program: a second PAT puts a new program
\* under the number in tmpProgramsMap, the old one stays in tmpPrograms only.
Triggered(h) ==
  [number |-> h.number, listening |-> h.listening, triggered |-> TRUE]
Unmapped(p) ==
  [number |-> p.number, freq |-> p.freq, from |-> p.from, video |-> p.video,
   mapped |-> FALSE]
WithStreams(p, s, number) ==
  [number |-> p.number, freq |-> p.freq, from |-> p.from \cup {s.freq},
   video |-> p.video \/ number \in VideoPrograms, mapped |-> p.mapped]
Described(p, s) ==
  [number |-> p.number, freq |-> p.freq, from |-> p.from \cup {s.freq},
   video |-> p.video, mapped |-> p.mapped]

\* The handlers patFound() creates: the demuxer ignores a second one for a PID.
NewPmtHandlers(programs) ==
  LET taken == {Pid[h.number] : h \in {g \in pmtHandlers : g.listening}}
      First(p) == \A q \in programs : Pid[q] = Pid[p] => p <= q
  IN {h \in [number : programs, listening : BOOLEAN, triggered : {FALSE}] :
        h.listening <=> Pid[h.number] \notin taken /\ First(h.number)}

PatFound(s, programs) ==
  LET pmts == pmtHandlers \cup NewPmtHandlers(programs)
      new == [number : programs, freq : {frequency}, from : {{s.freq}},
              video : {FALSE}, mapped : {TRUE}]
  IN /\ KillRunningTimer
     /\ sdtHandler' = TRUE
     /\ pmtHandlers' = pmts
     /\ tmpPrograms' =
          new \cup {IF p.number \in programs THEN Unmapped(p) ELSE p : p \in tmpPrograms}
     /\ CheckDone(tables \cup {"PAT"}, pmts)

\* PatPidHandler::parseTable(): the handler signals a change of version, a
\* program that went away, or a section that is not current yet.
PatSection(s, sec) ==
  LET changed == \/ ~sec.current
                 \/ sec.version # patHandler.version
                 \/ ~(patHandler.programs \subseteq sec.programs)
  IN /\ patHandler.exists /\ attached
     /\ Accept(s)
     /\ patHandler' = [exists |-> TRUE, version |-> sec.version,
                        programs |-> sec.programs]
     /\ IF changed THEN PatFound(s, sec.programs)
        ELSE UNCHANGED <<timers, sdtHandler, pmtHandlers, found, pendingSteps>>
     /\ UNCHANGED <<scan, setup, lock, lastSsrc, attached, device, server>>

\* PmtPidHandler::parseTable() on the section of program q that changed something,
\* then pmtFound(): the handler of a PID several programs share takes the PMT of
\* any of them for its own (the assertion on the number is for debug builds).
PmtSection(s, h, q) ==
  LET pmts == (pmtHandlers \ {h}) \cup {Triggered(h)}
  IN /\ attached /\ h \in pmtHandlers /\ h.listening /\ Pid[q] = Pid[h.number]
     /\ ~h.triggered \/ TableChanges
     /\ Accept(s)
     /\ pmtHandlers' = pmts
     /\ tmpPrograms' = {IF p.number = h.number /\ p.mapped
                        THEN WithStreams(p, s, q) ELSE p : p \in tmpPrograms}
     /\ CheckDone(tables, pmts)
     /\ UNCHANGED <<scan, setup, timers, lock, lastSsrc, patHandler, sdtHandler,
                    attached, device, server>>

\* SdtPidHandler::parseTable() on a section with a new service, then sdtFound().
SdtSection(s) ==
  /\ attached /\ sdtHandler
  /\ "SDT" \notin tables \/ TableChanges
  /\ Accept(s)
  /\ tmpPrograms' = {IF p.mapped THEN Described(p, s) ELSE p : p \in tmpPrograms}
  /\ CheckDone(tables \cup {"SDT"}, pmtHandlers)
  /\ UNCHANGED <<scan, setup, timers, lock, lastSsrc, handlers, attached, device,
                 server>>

OtherPacket(s) ==
  /\ Accept(s)
  /\ UNCHANGED <<scan, setup, timers, lock, lastSsrc, handlers, attached, found,
                 device, pendingSteps, server>>

\* The network has delivered or lost what was left of the previous tuning.
DrainOldTraffic ==
  /\ streams' = {s \in streams : s.ssrc = ssrc}
  /\ UNCHANGED <<scan, setup, timers, lock, lastSsrc, currentSsrc, handlers,
                 attached, found, device, pendingSteps, session, ssrc>>

----------------------------------------------------------------------------
UserAction ==
  \/ Start \/ Pause \/ Stop \/ Resume \/ CleanPrograms
  \/ \E forward \in BOOLEAN : StepButton(forward)
  \/ \E b \in BOOLEAN : SetAuto(b)
  \/ \E n \in NbSteps : SetEndFrequency(n)

Section(s) ==
  \/ \E sec \in Pats : PatSection(s, sec)
  \/ \E h \in pmtHandlers, q \in Programs : PmtSection(s, h, q)
  \/ SdtSection(s)

Next ==
  \/ UserAction
  \/ LockTimeout \/ PatTimeout \/ StepEvent
  \/ \E s \in streams :
       \/ \E isLocked \in BOOLEAN : RtcpReport(s, isLocked)
       \/ Section(s)
       \/ OtherPacket(s)
  \/ DrainOldTraffic

Spec == Init /\ [][Next]_vars

(* A scan that is left alone, on transponders whose tuner status and tables  *)
(* do not change while they are scanned.                                     *)
SteadyNext ==
  \/ Start
  \/ LockTimeout \/ PatTimeout \/ StepEvent
  \/ \E s \in streams :
       \/ RtcpReport(s, s.freq \in Carriers)
       \/ Section(s)
       \/ OtherPacket(s)

AnyPmtSection ==
  \E s \in streams : \E h \in pmtHandlers, q \in Programs : PmtSection(s, h, q)
AnySdtSection == \E s \in streams : SdtSection(s)

\* Qt delivers expired timers and posted events.
EventLoopFairness ==
  WF_vars(LockTimeout) /\ WF_vars(PatTimeout) /\ WF_vars(StepEvent)

\* A broadcaster repeats its tables for as long as somebody listens.
BroadcastFairness == WF_vars(AnyPmtSection) /\ WF_vars(AnySdtSection)

LiveSpec ==
  Init /\ [][SteadyNext]_vars /\ EventLoopFairness /\ BroadcastFairness

----------------------------------------------------------------------------
(* Properties.                                                             *)

\* The values of the variables.
TypeOK ==
  /\ status \in {"Idle", "Started", "Paused", "Completed"}
  /\ progress \in Int /\ frequency \in Frequencies
  /\ nbSteps \in NbSteps /\ isAuto \in BOOLEAN
  /\ session \in BOOLEAN /\ ssrc \in 0..3 /\ streams \subseteq Streams
  /\ lockTimer \in BOOLEAN /\ patTimer \in BOOLEAN
  /\ locked \in BOOLEAN /\ lockSource \in Frequencies
  /\ lastSsrc \in 0..3 /\ currentSsrc \in 0..3
  /\ tables \subseteq AllTables
  /\ patHandler \in [exists : BOOLEAN, version : VersionNumbers,
                     programs : SUBSET Programs]
  /\ sdtHandler \in BOOLEAN /\ pmtHandlers \subseteq PmtHandlers
  /\ attached \in BOOLEAN
  /\ tmpPrograms \subseteq ProgramEntries
  /\ devicePrograms \subseteq ProgramEntries
  /\ savedPrograms \subseteq ProgramEntries
  /\ pendingSteps \in 0..MaxEvents

\* killRunningTimer() keeps at most one timer armed, and the armed timer fits
\* what the scan waits for: a lock while the tuner is not locked, a PAT while it
\* is locked and a PAT handler listens. A timer runs only next to a session, so
\* that pause(), stop() and the end of the scan really silence the procedure.
TimerDiscipline ==
  /\ lockTimer => session /\ ~locked /\ ~patTimer
  /\ patTimer => session /\ locked /\ patHandler.exists

\* The handlers created by locked() and patFound() receive packets exactly while
\* the tuner is locked, whatever sequence of locks, steps and pauses led there.
HandlersFollowLock == patHandler.exists => (attached <=> locked)

\* The table flags never run ahead of the handlers that can set them: nothing is
\* flagged, listened for or collected before the PAT of this step was found, and
\* the PMT flag needs a PMT handler that fired. Programs are collected only for a
\* scan with a session: pause() and stop() drop what was half found.
TablesBacked ==
  /\ tables # {} => "PAT" \in tables
  /\ "PAT" \in tables => patHandler.exists /\ sdtHandler
  /\ sdtHandler \/ pmtHandlers # {} \/ tmpPrograms # {} => "PAT" \in tables
  /\ "PMT" \in tables => \E h \in pmtHandlers : h.triggered
  /\ tmpPrograms # {} => session

\* A paused or completed scan holds no session and no timer, even when StepEvents
\* posted before the pause or the end are still to be delivered.
QuietWhenHalted ==
  status \in {"Paused", "Completed"} => ~session /\ ~lockTimer /\ ~patTimer

\* The inductive invariant behind the four: streams come only from a session, and
\* a completed scan stays at 100 percent, so that a late StepEvent completes it
\* again instead of tuning to another frequency.
Control ==
  /\ TimerDiscipline
  /\ HandlersFollowLock
  /\ TablesBacked
  /\ QuietWhenHalted
  /\ streams # {} => session
  /\ status = "Completed" => progress = 100

\* Every program, collected or handed to the device, was described only by tables
\* received on the frequency it is filed under: beginStep() leaves nothing of the
\* previous frequency that a table of the next one could complete.
FiledUnderSource ==
  \A p \in tmpPrograms \cup devicePrograms : p.from = {p.freq}

\* When the scan reports completion the saved channel list is the device's list:
\* commitData() of the last step comes before scanDone() saves.
SavedWhenDone == status = "Completed" => savedPrograms = devicePrograms

\* The scan stops at the last frequency of the range: the test for exactly 100
\* percent is met when the index reaches nbSteps().
InRange == frequency <= nbSteps + 1

\* An automatic scan that has all tables of a frequency has an event pending that
\* will make it leave: the PAT timer is dead by then, nothing else would.
WayForward == status = "Started" /\ isAuto /\ tables = AllTables => pendingSteps > 0

\* A frequency is left only once it is done with: a timer that was armed for it
\* expired, or all its tables were found.
LeftWhenDone ==
  [][status = "Started" /\ frequency' # frequency =>
       lockTimer \/ patTimer \/ tables = AllTables]_scan

\* Every scan that is left alone ends.
ScanEnds == status = "Started" ~> status = "Completed"

\* The packets that open a step never come from the stream the previous step was
\* listening to: lastSsrc and currentSsrc stay apart through steps, pauses and
\* late packets.
SsrcFilter == currentSsrc # 0 => currentSsrc # lastSsrc

\* "Make sure that we don't treat packet from previous frequency": the procedure
\* counts the tuner as locked only on a report about the frequency it scans, as long as no
\* report of the previous tuning arrives (with OldTraffic it fails: they are not ignored).
LockIsOfThisFrequency == locked => lockSource = frequency

=============================================================================
