------------------------------- MODULE Capture -------------------------------
(***************************************************************************)
(* The two threads of dvbinfo: dvbinfo_capture() reads the input into      *)
(* buffers and queues them, dvbinfo_process(), in the main thread, takes   *)
(* them out, writes and analyses them, and gives the empty buffers back.   *)
(* They share two fifos (buffer.c), the flags b_alive and b_fifo_full, and *)
(* the condition variables of the fifo and of b_fifo_full.                 *)
(*                                                                         *)
(* One action is one critical section, or one access to a shared flag. A   *)
(* program counter names what the thread does next; "sleep" is inside      *)
(* pthread_cond_wait. The fifo size counts buffers, which all have one     *)
(* size. A definition named after another with a defect added is no part   *)
(* of Spec: the properties are tried against it.                           *)
(***************************************************************************)
EXTENDS Integers, Sequences, FiniteSets

CONSTANTS
  FileMode,   \* b_file: wait when the fifo is full, instead of discarding
  Output,     \* is there an output file?
  Threshold,  \* FIFO_THRESHOLD_SIZE, in buffers
  Failures,   \* the calls that may fail
  Items       \* bound: the number of blocks the input has

ASSUME CaptureAssumption ==
  /\ FileMode \in BOOLEAN /\ Output \in BOOLEAN
  /\ Threshold \in Nat \ {0} /\ Items \in Nat
  /\ Failures \subseteq {"memory", "read", "write", "short", "process"}

VARIABLES
  b_alive, b_fifo_full,   \* shared flags
  fifo, b_force_wake,     \* the queue and its wake flag
  empty,                  \* the buffers to reuse
  block,                  \* block[b]: the input block in buffer b
  cpc, cbuf, b_eof,       \* capture thread; 0 is the NULL buffer
  ppc, pbuf, b_error,     \* main thread
  blocksRead,             \* input position
  written, processed      \* output, and what libdvbpsi was given

flags == <<b_alive, b_fifo_full>>
queues == <<fifo, b_force_wake, empty>>
capture == <<cpc, cbuf, b_eof, blocksRead, block>>
main == <<ppc, pbuf, b_error, written, processed>>
vars == <<flags, queues, capture, main>>

Buffers == DOMAIN block
Running == ppc # "aborted"

Init ==
  /\ b_alive = TRUE /\ b_fifo_full = FALSE
  /\ fifo = <<>> /\ b_force_wake = FALSE /\ empty = <<>>
  /\ block = <<>> /\ blocksRead = 0
  /\ cpc = "loop" /\ cbuf = 0 /\ b_eof = FALSE
  /\ ppc = "loop" /\ pbuf = 0 /\ b_error = FALSE
  /\ written = <<>> /\ processed = <<>>

----------------------------------------------------------------------------
(* The capture thread.                                                     *)

CaptureLoop ==
  /\ cpc = "loop"
  /\ cpc' = IF b_alive /\ ~b_eof THEN "take" ELSE "exit"
  /\ UNCHANGED <<cbuf, b_eof, blocksRead, block, flags, queues, main>>

TakeNewAlways ==
  /\ cpc = "take"
  /\ block' = Append(block, 0) /\ cbuf' = Len(block) + 1
  /\ cpc' = "read"
  /\ UNCHANGED <<b_eof, blocksRead, flags, queues, main>>
\* Only this thread takes from empty, so what it counted is still there.
TakeBuffer ==
  /\ cpc = "take"
  /\ \/ /\ empty = <<>>
        /\ block' = Append(block, 0) /\ cbuf' = Len(block) + 1
        /\ cpc' = "read" /\ UNCHANGED empty
     \/ /\ empty = <<>> /\ "memory" \in Failures
        /\ cpc' = "exit" /\ UNCHANGED <<cbuf, block, empty>>
     \/ /\ empty # <<>>
        /\ cbuf' = Head(empty) /\ empty' = Tail(empty)
        /\ cpc' = "read" /\ UNCHANGED block
  /\ UNCHANGED <<b_eof, blocksRead, flags, fifo, b_force_wake, main>>

GiveBack == empty' = Append(empty, cbuf) /\ cbuf' = 0 /\ cpc' = "loop"

ReadInput ==
  /\ cpc = "read"
  /\ \/ /\ blocksRead < Items
        /\ blocksRead' = blocksRead + 1
        /\ block' = [block EXCEPT ![cbuf] = blocksRead + 1]
        /\ cpc' = "check" /\ UNCHANGED <<cbuf, b_eof, empty>>
     \/ /\ "read" \in Failures
        /\ GiveBack /\ UNCHANGED <<b_eof, blocksRead, block>>
     \/ /\ blocksRead = Items
        /\ GiveBack /\ b_eof' = TRUE /\ UNCHANGED <<blocksRead, block>>
  /\ UNCHANGED <<flags, fifo, b_force_wake, main>>

CheckSizeOffByOne ==
  /\ cpc = "check"
  /\ cpc' = IF Len(fifo) > Threshold THEN "full" ELSE "push"
  /\ UNCHANGED <<cbuf, b_eof, blocksRead, block, flags, queues, main>>
CheckSize ==
  /\ cpc = "check"
  /\ cpc' = IF Len(fifo) >= Threshold THEN "full" ELSE "push"
  /\ UNCHANGED <<cbuf, b_eof, blocksRead, block, flags, queues, main>>

SetFullDiscards ==
  /\ cpc = "full"
  /\ b_fifo_full' = TRUE
  /\ cpc' = "discard"
  /\ UNCHANGED <<cbuf, b_eof, blocksRead, block, b_alive, queues, main>>
SetFull ==
  /\ cpc = "full"
  /\ b_fifo_full' = TRUE
  /\ cpc' = IF FileMode THEN "wait" ELSE "discard"
  /\ UNCHANGED <<cbuf, b_eof, blocksRead, block, b_alive, queues, main>>

WaitWhileFull ==
  /\ cpc = "wait"
  /\ cpc' = IF b_fifo_full THEN "sleep" ELSE "push"
  /\ UNCHANGED <<cbuf, b_eof, blocksRead, block, flags, queues, main>>

Discard ==
  /\ cpc = "discard"
  /\ GiveBack
  /\ UNCHANGED <<b_eof, blocksRead, block, flags, fifo, b_force_wake, main>>

\* pthread_cond_signal and pthread_cond_broadcast of fifo->wait.
WakeMain ==
  /\ ppc' = IF ppc = "sleep" THEN "pop" ELSE ppc
  /\ UNCHANGED <<pbuf, b_error, written, processed>>

PushOnTop ==
  /\ cpc = "push"
  /\ fifo' = <<cbuf>> \o fifo /\ cbuf' = 0 /\ cpc' = "loop"
  /\ WakeMain
  /\ UNCHANGED <<b_eof, blocksRead, block, flags, b_force_wake, empty>>
Push ==
  /\ cpc = "push"
  /\ fifo' = Append(fifo, cbuf) /\ cbuf' = 0 /\ cpc' = "loop"
  /\ WakeMain
  /\ UNCHANGED <<b_eof, blocksRead, block, flags, b_force_wake, empty>>

CaptureExit ==
  /\ cpc = "exit"
  /\ b_alive' = FALSE
  /\ cpc' = "wake"
  /\ UNCHANGED <<cbuf, b_eof, blocksRead, block, b_fifo_full, queues, main>>

WakeWithoutForce ==
  /\ cpc = "wake"
  /\ WakeMain
  /\ cpc' = "done"
  /\ UNCHANGED <<cbuf, b_eof, blocksRead, block, flags, queues>>
Wake ==
  /\ cpc = "wake"
  /\ b_force_wake' = (b_force_wake \/ fifo = <<>>)
  /\ WakeMain
  /\ cpc' = "done"
  /\ UNCHANGED <<cbuf, b_eof, blocksRead, block, flags, fifo, empty>>

CaptureStep ==
  \/ CaptureLoop \/ TakeBuffer \/ ReadInput \/ CheckSize \/ SetFull
  \/ WaitWhileFull \/ Discard \/ Push \/ CaptureExit \/ Wake

----------------------------------------------------------------------------
(* The main thread: dvbinfo_process(), then the end of main().             *)

\* b_alive is read before the count: the capture thread pushes nothing after it
\* has cleared the flag, so both reads can be one step.
ProcessLoop ==
  /\ ppc = "loop"
  /\ ppc' = IF b_error \/ (~b_alive /\ fifo = <<>>) THEN "out" ELSE "pop"
  /\ UNCHANGED <<pbuf, b_error, written, processed, flags, queues, capture>>

Pop ==
  /\ ppc = "pop"
  /\ IF fifo = <<>> /\ ~b_force_wake
     THEN ppc' = "sleep" /\ UNCHANGED <<pbuf, fifo, b_force_wake>>
     ELSE /\ b_force_wake' = FALSE
          /\ IF fifo = <<>>
             THEN ppc' = "loop" /\ UNCHANGED <<pbuf, fifo>>
             ELSE ppc' = "write" /\ pbuf' = Head(fifo) /\ fifo' = Tail(fifo)
  /\ UNCHANGED <<b_error, written, processed, flags, empty, capture>>

\* The result is kept in an unsigned size_t, so -1 is neither negative nor short.
WriteOutput ==
  /\ ppc = "write"
  /\ \/ /\ Output
        /\ written' = Append(written, block[pbuf]) /\ ppc' = "process"
     \/ /\ ~Output \/ "write" \in Failures
        /\ ppc' = "process" /\ UNCHANGED written
     \/ /\ Output /\ "short" \in Failures
        /\ ppc' = "out" /\ UNCHANGED written
  /\ UNCHANGED <<pbuf, b_error, processed, flags, queues, capture>>

Process ==
  /\ ppc = "process"
  /\ processed' = Append(processed, block[pbuf])
  /\ b_error' \in IF "process" \in Failures THEN BOOLEAN ELSE {b_error}
  /\ ppc' = "return"
  /\ UNCHANGED <<pbuf, written, flags, queues, capture>>

ReturnWithoutClearing ==
  /\ ppc = "return"
  /\ empty' = Append(empty, pbuf) /\ UNCHANGED pbuf
  /\ ppc' = "size"
  /\ UNCHANGED <<b_error, written, processed, flags, fifo, b_force_wake, capture>>
ReturnBuffer ==
  /\ ppc = "return"
  /\ empty' = Append(empty, pbuf) /\ pbuf' = 0
  /\ ppc' = "size"
  /\ UNCHANGED <<b_error, written, processed, flags, fifo, b_force_wake, capture>>

CheckSpace ==
  /\ ppc = "size"
  /\ ppc' = IF Len(fifo) < Threshold THEN "clear" ELSE "loop"
  /\ UNCHANGED <<pbuf, b_error, written, processed, flags, queues, capture>>

ClearWithoutSignal ==
  /\ ppc = "clear"
  /\ b_fifo_full' = FALSE
  /\ ppc' = "loop"
  /\ UNCHANGED <<pbuf, b_error, written, processed, b_alive, queues, capture>>
ClearFull ==
  /\ ppc = "clear"
  /\ b_fifo_full' = FALSE
  /\ cpc' = IF cpc = "sleep" THEN "wait" ELSE cpc
  /\ ppc' = "loop"
  /\ UNCHANGED <<cbuf, b_eof, blocksRead, block, pbuf, b_error, written, processed,
                 b_alive, queues>>

\* The assertion that the fifo is empty, then the buffer still held is freed.
Leave ==
  /\ ppc = "out"
  /\ IF fifo = <<>> THEN ppc' = "stop" /\ pbuf' = 0 ELSE ppc' = "aborted" /\ UNCHANGED pbuf
  /\ UNCHANGED <<b_error, written, processed, flags, queues, capture>>

StopCapture ==
  /\ ppc = "stop"
  /\ b_alive' = FALSE
  /\ ppc' = "join"
  /\ UNCHANGED <<pbuf, b_error, written, processed, b_fifo_full, queues, capture>>

\* pthread_join(), then both fifos are woken and freed with what they hold.
Join ==
  /\ ppc = "join" /\ cpc = "done"
  /\ fifo' = <<>> /\ empty' = <<>>
  /\ ppc' = "closed"
  /\ UNCHANGED <<pbuf, b_error, written, processed, flags, b_force_wake, capture>>

MainStep ==
  \/ ProcessLoop \/ Pop \/ WriteOutput \/ Process \/ ReturnBuffer \/ CheckSpace
  \/ ClearFull \/ Leave \/ StopCapture \/ Join

----------------------------------------------------------------------------
\* pthread_cond_wait may return without a signal.
SpuriousWakeup ==
  \/ cpc = "sleep" /\ cpc' = "wait"
     /\ UNCHANGED <<cbuf, b_eof, blocksRead, block, flags, queues, main>>
  \/ ppc = "sleep" /\ ppc' = "pop"
     /\ UNCHANGED <<pbuf, b_error, written, processed, flags, queues, capture>>

Next == Running /\ (CaptureStep \/ MainStep \/ SpuriousWakeup)

Spec == Init /\ [][Next]_vars

\* The scheduler runs both threads.
Fairness == WF_vars(Running /\ CaptureStep) /\ WF_vars(Running /\ MainStep)

FairSpec == Spec /\ Fairness

----------------------------------------------------------------------------
(* Properties.                                                             *)

CaptureHolds == {"read", "check", "full", "wait", "sleep", "push", "discard"}
MainHolds == {"write", "process", "return"}

\* The values of the variables; a thread holds a buffer exactly where it needs one.
TypeOK ==
  /\ b_alive \in BOOLEAN /\ b_fifo_full \in BOOLEAN /\ b_force_wake \in BOOLEAN
  /\ b_eof \in BOOLEAN /\ b_error \in BOOLEAN
  /\ blocksRead \in 0..Items /\ block \in Seq(0..Items)
  /\ fifo \in Seq(Buffers) /\ empty \in Seq(Buffers)
  /\ cpc \in CaptureHolds \cup {"loop", "take", "exit", "wake", "done"}
  /\ ppc \in MainHolds \cup {"loop", "pop", "sleep", "size", "clear", "out", "stop",
                             "join", "closed", "aborted"}
  /\ cbuf \in Buffers \cup {0} /\ (cbuf # 0 <=> cpc \in CaptureHolds)
  /\ pbuf \in Buffers \cup {0} /\ (ppc \in MainHolds => pbuf # 0)
  /\ written \in Seq(0..Items) /\ processed \in Seq(0..Items)

\* Until the program ends each buffer is in one place only, in one of the fifos or
\* in the hands of one thread: none is lost, queued twice or used by both.
OneOwner ==
  ppc \notin {"stop", "join", "closed"} =>
    /\ Len(fifo) + Len(empty) + Cardinality({cbuf, pbuf} \ {0}) = Len(block)
    /\ Buffers = {fifo[i] : i \in DOMAIN fifo} \cup {empty[i] : i \in DOMAIN empty}
                 \cup ({cbuf, pbuf} \ {0})

\* The queue stops growing at the threshold. A waiting reader can exceed it by one
\* buffer: the main thread may clear b_fifo_full on a size it read before the fifo
\* filled up, but then it has to see the size below the threshold once more.
QueueBound == Len(fifo) <= Threshold + (IF FileMode THEN 1 ELSE 0)

\* The program never allocates more buffers than the full queue, one for each
\* thread, and the one by which a waiting reader can exceed the threshold.
MemoryBound == Len(block) <= Threshold + (IF FileMode THEN 3 ELSE 2)

\* The main thread does not sleep next to a filled queue, nor after the capture
\* thread has gone: push signals it, and the last wake leaves a flag behind when
\* the thread is not asleep yet.
NotStranded ==
  ppc = "sleep" => fifo = <<>> /\ ~b_force_wake /\ cpc # "done"

\* A program that ended by itself, with nothing failing, has analysed the whole
\* file, and has written it if there is an output.
WholeFile ==
  ppc = "closed" /\ FileMode /\ Failures = {} =>
    /\ processed = [i \in 1..Items |-> i]
    /\ Output => written = processed

\* The blocks on their way: in the hands of the main thread, queued, and in the
\* hands of the capture thread unless it is going to discard it.
Ended == ppc \in {"out", "stop", "join", "closed", "aborted"}
InHand == IF ppc \in {"write", "process"} THEN <<block[pbuf]>> ELSE <<>>
Queued == [i \in DOMAIN fifo |-> block[fifo[i]]]
Coming ==
  IF cpc \in {"check", "push"} \/ (FileMode /\ cpc \in {"full", "wait", "sleep"})
  THEN <<block[cbuf]>> ELSE <<>>
OnTheWay == IF Ended THEN <<>> ELSE InHand \o Queued \o Coming

Pipe == INSTANCE PacketPipe WITH
  Lossy <- ~FileMode,
  read <- blocksRead,
  queue <- OnTheWay,
  delivered <- processed,
  open <- ~Ended

\* The two threads together are such a pipe, whatever their interleaving and
\* whatever fails.
IsPipe == Pipe!Spec

\* Both threads wait for each other: the reader, with b_fifo_full set, for room in a
\* queue that is empty, the main thread for something to be in it.
HandshakeLost ==
  /\ cpc \in {"wait", "sleep"} /\ b_fifo_full
  /\ ppc \in {"pop", "sleep"} /\ fifo = <<>>

\* With nothing failing the program ends, unless the full-queue handshake is lost.
EndsOrHandshakeLost == <>(ppc = "closed" \/ HandshakeLost)
=============================================================================
