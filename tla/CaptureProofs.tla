---------------------------- MODULE CaptureProofs ----------------------------
(***************************************************************************)
(* Proofs about Capture, for every threshold, every input length, and      *)
(* every choice of what may fail: its invariants, then that its two threads*)
(* implement PacketPipe, from which follows that a file is analysed whole. *)
(***************************************************************************)
EXTENDS Capture, FiniteSetTheorems, SequenceTheorems, TLAPS

LEMMA SeqOfMore ==
  ASSUME NEW S, NEW T, S \subseteq T, NEW s \in Seq(S)
  PROVE  s \in Seq(T)
OBVIOUS

LEMMA HeadAndTail ==
  ASSUME NEW S, NEW s \in Seq(S), s # <<>>
  PROVE  Head(s) \in S /\ Tail(s) \in Seq(S) /\ Len(Tail(s)) = Len(s) - 1
OBVIOUS

LEMMA Appended ==
  ASSUME NEW S, NEW s \in Seq(S), NEW e \in S
  PROVE  Append(s, e) \in Seq(S) /\ Len(Append(s, e)) = Len(s) + 1
OBVIOUS

LEMMA ElementOf ==
  ASSUME NEW S, NEW s \in Seq(S), NEW i \in DOMAIN s
  PROVE  s[i] \in S
OBVIOUS

\* Allocating a buffer adds one number to those in use.
LEMMA Allocated ==
  ASSUME block \in Seq(0..Items)
  PROVE  /\ Append(block, 0) \in Seq(0..Items)
         /\ Len(Append(block, 0)) = Len(block) + 1
         /\ Buffers \subseteq DOMAIN Append(block, 0)
         /\ Len(block) + 1 \in DOMAIN Append(block, 0)
         /\ Len(block) + 1 # 0
BY CaptureAssumption DEF Buffers

LEMMA InitTypeOK == Init => TypeOK
<1> SUFFICES ASSUME Init PROVE TypeOK
  OBVIOUS
<1>1. fifo \in Seq(Buffers) /\ empty \in Seq(Buffers) /\ block \in Seq(0..Items)
      /\ written \in Seq(0..Items) /\ processed \in Seq(0..Items)
  BY DEF Init
<1>2. blocksRead \in 0..Items
  BY CaptureAssumption DEF Init
<1> QED
  BY <1>1, <1>2 DEF Init, TypeOK, CaptureHolds, MainHolds

\* The capture thread's steps keep the types.
LEMMA CaptureTypeOK ==
  ASSUME TypeOK, CaptureStep
  PROVE  TypeOK'
<1> USE DEF CaptureHolds, MainHolds, flags, queues, capture, main
<1>1. CASE CaptureLoop \/ CheckSize \/ SetFull \/ WaitWhileFull \/ CaptureExit
  <2>1. CASE CaptureLoop
    BY <2>1 DEF CaptureLoop, TypeOK, Buffers
  <2>2. CASE CheckSize
    BY <2>2 DEF CheckSize, TypeOK, Buffers
  <2>3. CASE SetFull
    BY <2>3 DEF SetFull, TypeOK, Buffers
  <2>4. CASE WaitWhileFull
    BY <2>4 DEF WaitWhileFull, TypeOK, Buffers
  <2>5. CASE CaptureExit
    BY <2>5 DEF CaptureExit, TypeOK, Buffers
  <2> QED
    BY <1>1, <2>1, <2>2, <2>3, <2>4, <2>5
<1>2. CASE TakeBuffer
  <2>1. CASE cpc' = "read" /\ block' = Append(block, 0) /\ cbuf' = Len(block) + 1
             /\ UNCHANGED empty
    <3>1. block' \in Seq(0..Items) /\ Buffers \subseteq Buffers'
          /\ cbuf' \in Buffers' /\ cbuf' # 0
      BY <2>1, Allocated DEF TypeOK, Buffers
    <3>2. fifo' \in Seq(Buffers') /\ empty' \in Seq(Buffers')
      BY <1>2, <2>1, <3>1, SeqOfMore DEF TakeBuffer, TypeOK
    <3> QED
      BY <1>2, <2>1, <3>1, <3>2 DEF TakeBuffer, TypeOK
  <2>2. CASE cpc' = "exit" /\ UNCHANGED <<cbuf, block, empty>>
    BY <1>2, <2>2 DEF TakeBuffer, TypeOK, Buffers
  <2>3. CASE /\ empty # <<>> /\ cbuf' = Head(empty) /\ empty' = Tail(empty)
             /\ cpc' = "read" /\ UNCHANGED block
    <3>1. cbuf' \in Buffers /\ cbuf' # 0 /\ empty' \in Seq(Buffers)
      BY <2>3, HeadAndTail DEF TypeOK, Buffers
    <3> QED
      BY <1>2, <2>3, <3>1 DEF TakeBuffer, TypeOK, Buffers
  <2> QED
    BY <1>2, <2>1, <2>2, <2>3 DEF TakeBuffer
<1>3. CASE ReadInput
  <2>1. cbuf \in Buffers
    BY <1>3 DEF ReadInput, TypeOK
  <2>2. CASE /\ blocksRead < Items /\ blocksRead' = blocksRead + 1
             /\ block' = [block EXCEPT ![cbuf] = blocksRead + 1]
             /\ cpc' = "check" /\ UNCHANGED <<cbuf, b_eof, empty>>
    <3>1. blocksRead' \in 0..Items
      BY <2>2, CaptureAssumption DEF TypeOK
    <3>2. block' \in Seq(0..Items) /\ Buffers' = Buffers
      BY <2>1, <2>2, <3>1 DEF TypeOK, Buffers
    <3> QED
      BY <1>3, <2>2, <3>1, <3>2 DEF ReadInput, TypeOK
  <2>3. CASE GiveBack /\ b_eof' \in BOOLEAN /\ UNCHANGED <<blocksRead, block>>
    <3>1. empty' \in Seq(Buffers)
      BY <2>1, <2>3, Appended DEF GiveBack, TypeOK
    <3> QED
      BY <1>3, <2>3, <3>1 DEF ReadInput, GiveBack, TypeOK, Buffers
  <2> QED
    BY <1>3, <2>2, <2>3 DEF ReadInput, TypeOK
<1>4. CASE Discard
  <2>1. empty' \in Seq(Buffers)
    BY <1>4, Appended DEF Discard, GiveBack, TypeOK
  <2> QED
    BY <1>4, <2>1 DEF Discard, GiveBack, TypeOK, Buffers
<1>5. CASE Push
  <2>1. fifo' \in Seq(Buffers)
    BY <1>5, Appended DEF Push, TypeOK
  <2> QED
    BY <1>5, <2>1 DEF Push, WakeMain, TypeOK, Buffers
<1>6. CASE Wake
  BY <1>6 DEF Wake, WakeMain, TypeOK, Buffers
<1> QED
  BY <1>1, <1>2, <1>3, <1>4, <1>5, <1>6 DEF CaptureStep

\* The main thread's steps keep the types.
LEMMA MainTypeOK ==
  ASSUME TypeOK, MainStep
  PROVE  TypeOK'
<1> USE DEF CaptureHolds, MainHolds, flags, queues, capture, main
<1>1. CASE ProcessLoop \/ CheckSpace \/ ClearFull \/ Leave \/ StopCapture
  <2>1. CASE ProcessLoop
    BY <2>1 DEF ProcessLoop, TypeOK, Buffers
  <2>2. CASE CheckSpace
    BY <2>2 DEF CheckSpace, TypeOK, Buffers
  <2>3. CASE ClearFull
    BY <2>3 DEF ClearFull, TypeOK, Buffers
  <2>4. CASE Leave
    BY <2>4 DEF Leave, TypeOK, Buffers
  <2>5. CASE StopCapture
    BY <2>5 DEF StopCapture, TypeOK, Buffers
  <2> QED
    BY <1>1, <2>1, <2>2, <2>3, <2>4, <2>5
<1>2. CASE Pop
  <2>1. /\ fifo' \in Seq(Buffers) /\ b_force_wake' \in BOOLEAN
        /\ ppc' \in {"sleep", "loop", "write"}
        /\ pbuf' \in Buffers \cup {0} /\ (ppc' = "write" => pbuf' # 0)
    <3>1. CASE fifo = <<>>
      BY <1>2, <3>1 DEF Pop, TypeOK
    <3>2. CASE fifo # <<>>
      <4>1. Head(fifo) \in Buffers /\ Tail(fifo) \in Seq(Buffers)
        BY <3>2, HeadAndTail DEF TypeOK
      <4>2. Head(fifo) # 0
        BY <4>1 DEF TypeOK, Buffers
      <4> QED
        BY <1>2, <3>2, <4>1, <4>2 DEF Pop
    <3> QED
      BY <3>1, <3>2
  <2> QED
    BY <1>2, <2>1 DEF Pop, TypeOK, Buffers
<1>3. CASE WriteOutput \/ Process
  <2>1. block[pbuf] \in 0..Items
    <3>1. pbuf \in DOMAIN block /\ block \in Seq(0..Items)
      BY <1>3 DEF WriteOutput, Process, TypeOK, Buffers
    <3> QED
      BY <3>1, ElementOf
  <2>2. /\ Append(written, block[pbuf]) \in Seq(0..Items)
        /\ Append(processed, block[pbuf]) \in Seq(0..Items)
    BY <2>1, Appended DEF TypeOK
  <2>3. written' \in Seq(0..Items) /\ processed' \in Seq(0..Items)
    BY <1>3, <2>2 DEF WriteOutput, Process, TypeOK
  <2> QED
    BY <1>3, <2>3 DEF WriteOutput, Process, TypeOK, Buffers
<1>4. CASE ReturnBuffer
  <2>1. empty' \in Seq(Buffers)
    BY <1>4, Appended DEF ReturnBuffer, TypeOK
  <2> QED
    BY <1>4, <2>1 DEF ReturnBuffer, TypeOK, Buffers
<1>5. CASE Join
  BY <1>5 DEF Join, TypeOK, Buffers
<1> QED
  BY <1>1, <1>2, <1>3, <1>4, <1>5 DEF MainStep

LEMMA NextTypeOK ==
  ASSUME TypeOK, [Next]_vars
  PROVE  TypeOK'
<1>1. CASE SpuriousWakeup
  BY <1>1 DEF SpuriousWakeup, TypeOK, Buffers, CaptureHolds, MainHolds, flags,
              queues, capture, main
<1>2. CASE UNCHANGED vars
  BY <1>2 DEF vars, TypeOK, Buffers, flags, queues, capture, main
<1> QED
  BY <1>1, <1>2, CaptureTypeOK, MainTypeOK DEF Next

\* Every variable keeps its type, and the capture thread holds a buffer exactly in
\* the places of its code where it uses one.
THEOREM Typing == Spec => []TypeOK
<1>1. TypeOK /\ [Next]_vars => TypeOK'
  BY NextTypeOK
<1> QED
  BY <1>1, InitTypeOK, PTL DEF Spec

----------------------------------------------------------------------------
\* The queue bound. A reader that was let through, or is about to be, finds room up
\* to the threshold; one buffer less if the main thread is about to clear the flag
\* once more; and a queue above the threshold is not about to be cleared.

LetThrough == cpc = "push" \/ (cpc \in {"wait", "sleep"} /\ ~b_fifo_full)

Room ==
  /\ LetThrough => Len(fifo) <= Threshold
  /\ LetThrough /\ ppc = "clear" => Len(fifo) < Threshold
  /\ ~FileMode /\ cpc = "push" => Len(fifo) < Threshold
  /\ Len(fifo) > Threshold => ppc # "clear"
  /\ cpc \in {"wait", "sleep"} => FileMode
  /\ QueueBound

\* A step that leaves the queue and the reader's place alone keeps the room.
LEMMA RoomCapture ==
  ASSUME TypeOK, Room, CaptureStep
  PROVE  Room'
<1> USE CaptureAssumption DEF Room, LetThrough, QueueBound
<1>t. Len(fifo) \in Nat /\ Threshold \in Nat
  BY DEF TypeOK
<1>1. CASE /\ UNCHANGED <<fifo, ppc>>
           /\ cpc' \notin {"push", "wait", "sleep"}
  BY <1>1, <1>t
<1>2. CASE CaptureLoop \/ TakeBuffer \/ Discard \/ CaptureExit
  BY <1>1, <1>2 DEF CaptureLoop, TakeBuffer, Discard, GiveBack, CaptureExit, queues, main
<1>3. CASE ReadInput
  BY <1>1, <1>3 DEF ReadInput, GiveBack, main
<1>4. CASE CheckSize
  BY <1>4, <1>t DEF CheckSize, flags, queues, main
<1>5. CASE SetFull
  BY <1>5, <1>t DEF SetFull, queues, main
<1>6. CASE WaitWhileFull
  BY <1>6, <1>t DEF WaitWhileFull, flags, queues, main
<1>7. CASE Push
  <2>1. Len(fifo') = Len(fifo) + 1 /\ cpc' = "loop" /\ Len(fifo) <= Threshold
    BY <1>7, Appended DEF Push, TypeOK
  <2>2. ppc' = "clear" => ppc = "clear"
    BY <1>7 DEF Push, WakeMain
  <2>3. ~FileMode => Len(fifo) < Threshold
    BY <1>7 DEF Push
  <2>4. ppc = "clear" => Len(fifo) < Threshold
    BY <1>7 DEF Push
  <2> QED
    BY <1>t, <2>1, <2>2, <2>3, <2>4
<1>8. CASE Wake
  <2>1. UNCHANGED fifo /\ (ppc' = "clear" => ppc = "clear") /\ cpc' = "done"
    BY <1>8 DEF Wake, WakeMain
  <2> QED
    BY <1>t, <2>1
<1> QED
  BY <1>2, <1>3, <1>4, <1>5, <1>6, <1>7, <1>8 DEF CaptureStep

LEMMA RoomMain ==
  ASSUME TypeOK, Room, MainStep
  PROVE  Room'
<1> USE CaptureAssumption DEF Room, LetThrough, QueueBound
<1>t. Len(fifo) \in Nat /\ Threshold \in Nat
  BY DEF TypeOK
<1>1. CASE /\ UNCHANGED <<fifo, cpc, b_fifo_full>> /\ ppc' # "clear"
  BY <1>1, <1>t
<1>2. CASE ProcessLoop \/ WriteOutput \/ Process \/ ReturnBuffer \/ Leave \/ StopCapture
  BY <1>1, <1>2 DEF ProcessLoop, WriteOutput, Process, ReturnBuffer, Leave, StopCapture,
                    flags, queues, capture
<1>3. CASE Pop
  <2>1. /\ UNCHANGED <<cpc, b_fifo_full>> /\ ppc' # "clear"
        /\ Len(fifo') \in Nat /\ Len(fifo') <= Len(fifo)
    <3>1. CASE fifo = <<>>
      BY <1>3, <1>t, <3>1 DEF Pop, flags, capture
    <3>2. CASE fifo # <<>>
      <4>1. Len(Tail(fifo)) = Len(fifo) - 1 /\ Len(fifo) > 0
        BY <3>2, HeadAndTail DEF TypeOK
      <4> QED
        BY <1>3, <1>t, <3>2, <4>1 DEF Pop, flags, capture
    <3> QED
      BY <3>1, <3>2
  <2> QED
    BY <1>t, <2>1
<1>4. CASE CheckSpace
  BY <1>4, <1>t DEF CheckSpace, flags, queues, capture
<1>5. CASE ClearFull
  BY <1>5, <1>t DEF ClearFull, queues
<1>6. CASE Join
  <2>1. Len(fifo') = 0 /\ UNCHANGED <<cpc, b_fifo_full>> /\ ppc' = "closed"
    BY <1>6 DEF Join, flags, capture
  <2> QED
    BY <1>t, <2>1
<1> QED
  BY <1>2, <1>3, <1>4, <1>5, <1>6 DEF MainStep

LEMMA NextRoom ==
  ASSUME TypeOK, Room, [Next]_vars
  PROVE  Room'
<1>1. CASE SpuriousWakeup
  BY <1>1 DEF SpuriousWakeup, Room, LetThrough, QueueBound, flags, queues, capture, main
<1>2. CASE UNCHANGED vars
  BY <1>2 DEF vars, Room, LetThrough, QueueBound, flags, queues, capture, main
<1> QED
  BY <1>1, <1>2, RoomCapture, RoomMain DEF Next

LEMMA RoomAlways == Spec => []Room
<1>1. Init => Room
  BY CaptureAssumption DEF Init, Room, LetThrough, QueueBound
<1>2. TypeOK /\ Room /\ [Next]_vars => Room'
  BY NextRoom
<1> QED
  BY <1>1, <1>2, Typing, PTL DEF Spec

\* However the two threads interleave, and however stale the sizes they act on, the
\* queue never holds more than the threshold, or one buffer more when the reader
\* waits instead of discarding.
THEOREM QueueIsBounded == Spec => []QueueBound
<1>1. Room => QueueBound
  BY DEF Room
<1> QED
  BY <1>1, RoomAlways, PTL

----------------------------------------------------------------------------
\* No lost wake-up: a main thread that is about to sleep, or sleeps, on an empty
\* queue after the last wake would have found the flag.
Awake ==
  /\ ppc = "sleep" => fifo = <<>> /\ ~b_force_wake
  /\ cpc \in {"wake", "done"} => ~b_alive
  /\ cpc = "done" /\ ppc \in {"pop", "sleep"} /\ fifo = <<>> => b_force_wake

LEMMA NextAwake ==
  ASSUME TypeOK, Awake, [Next]_vars
  PROVE  Awake'
<1> USE DEF Awake, flags, queues, capture, main
<1>1. CASE CaptureLoop \/ TakeBuffer \/ ReadInput \/ CheckSize \/ SetFull
           \/ WaitWhileFull \/ Discard
  <2>1. /\ UNCHANGED <<ppc, fifo, b_force_wake>> /\ cpc' \notin {"wake", "done"}
    BY <1>1 DEF CaptureLoop, TakeBuffer, ReadInput, GiveBack, CheckSize, SetFull,
                WaitWhileFull, Discard
  <2> QED
    BY <2>1
<1>2. CASE CaptureExit
  BY <1>2 DEF CaptureExit
<1>3. CASE Push
  BY <1>3 DEF Push, WakeMain
<1>4. CASE Wake
  BY <1>4 DEF Wake, WakeMain
<1>5. CASE WriteOutput \/ Process \/ ReturnBuffer \/ CheckSpace \/ Leave
           \/ StopCapture \/ Join
  <2>1. /\ UNCHANGED cpc /\ ppc' \notin {"pop", "sleep"}
        /\ b_alive' = FALSE \/ UNCHANGED b_alive
    BY <1>5 DEF WriteOutput, Process, ReturnBuffer, CheckSpace, Leave, StopCapture, Join
  <2> QED
    BY <2>1
<1>6. CASE ClearFull
  BY <1>6 DEF ClearFull
<1>7. CASE ProcessLoop
  BY <1>7 DEF ProcessLoop
<1>8. CASE Pop
  BY <1>8 DEF Pop
<1>9. CASE SpuriousWakeup
  BY <1>9 DEF SpuriousWakeup
<1>10. CASE UNCHANGED vars
  BY <1>10 DEF vars
<1> QED
  BY <1>1, <1>2, <1>3, <1>4, <1>5, <1>6, <1>7, <1>8, <1>9, <1>10
  DEF Next, CaptureStep, MainStep

\* The main thread never sleeps next to a filled queue or after the last wake.
THEOREM MainIsNotStranded == Spec => []NotStranded
<1>1. Init => Awake
  BY DEF Init, Awake
<1>2. TypeOK /\ Awake /\ [Next]_vars => Awake'
  BY NextAwake
<1>3. TypeOK /\ Awake => NotStranded
  BY DEF Awake, NotStranded
<1> QED
  BY <1>1, <1>2, <1>3, Typing, PTL DEF Spec

----------------------------------------------------------------------------
\* The memory bound: every buffer is accounted for by a queue or a thread (a freed one
\* by the main thread), and one is allocated only when none waits in empty.

Held(b) == IF b = 0 THEN 0 ELSE 1
MainAccount == IF ppc \in {"stop", "join"} THEN 1 ELSE Held(pbuf)
Accounted ==
  Len(block) <= Len(fifo) + Len(empty) + Held(cbuf) + MainAccount

\* The main thread holds a buffer only from the pop to the return.
HandsEmpty == pbuf # 0 => ppc \in MainHolds \cup {"out", "aborted"}

LEMMA HandsStayEmpty ==
  ASSUME HandsEmpty, [Next]_vars
  PROVE  HandsEmpty'
<1> USE DEF HandsEmpty, MainHolds, flags, queues, capture, main
<1>1. CASE CaptureStep
  <2>1. pbuf' = pbuf /\ (ppc' = ppc \/ ppc = "sleep")
    BY <1>1 DEF CaptureStep, CaptureLoop, TakeBuffer, ReadInput, CheckSize, SetFull,
       WaitWhileFull, Discard, Push, CaptureExit, Wake, WakeMain
  <2> QED
    BY <2>1
<1>2. CASE MainStep
  BY <1>2 DEF MainStep, ProcessLoop, Pop, WriteOutput, Process, ReturnBuffer,
     CheckSpace, ClearFull, Leave, StopCapture, Join
<1>3. CASE SpuriousWakeup
  BY <1>3 DEF SpuriousWakeup
<1>4. CASE UNCHANGED vars
  BY <1>4 DEF vars
<1> QED
  BY <1>1, <1>2, <1>3, <1>4 DEF Next

Counted ==
  /\ ppc # "closed" => Accounted
  /\ ppc = "closed" => cpc = "done"
  /\ MemoryBound

LEMMA CountTypes ==
  ASSUME TypeOK
  PROVE  /\ Len(fifo) \in Nat /\ Len(empty) \in Nat /\ Len(block) \in Nat
         /\ Threshold \in Nat
         /\ Held(cbuf) \in 0..1 /\ Held(pbuf) \in 0..1 /\ MainAccount \in 0..1
BY CaptureAssumption DEF TypeOK, Held, MainAccount

LEMMA WakeMainCount ==
  ASSUME WakeMain
  PROVE  /\ MainAccount' = MainAccount
         /\ ppc' = "closed" <=> ppc = "closed"
BY DEF WakeMain, MainAccount, Held

LEMMA CountedCapture ==
  ASSUME TypeOK, QueueBound, Counted, CaptureStep
  PROVE  Counted'
<1> USE DEF flags, queues, capture, main
<1>t. /\ Len(fifo) \in Nat /\ Len(empty) \in Nat /\ Len(block) \in Nat
      /\ Threshold \in Nat
      /\ Held(cbuf) \in 0..1 /\ Held(pbuf) \in 0..1 /\ MainAccount \in 0..1
  BY CountTypes
<1>o. ppc # "closed" /\ Accounted
  BY DEF Counted, CaptureStep, CaptureLoop, TakeBuffer, ReadInput, CheckSize, SetFull,
         WaitWhileFull, Discard, Push, CaptureExit, Wake
<1>1. ASSUME MainAccount' = MainAccount, ppc' # "closed", Len(block') = Len(block),
             Len(fifo') + Len(empty') + Held(cbuf') = Len(fifo) + Len(empty) + Held(cbuf),
             Len(fifo') \in Nat, Len(empty') \in Nat, Held(cbuf') \in 0..1
      PROVE  Counted'
  BY <1>1, <1>t, <1>o DEF Counted, Accounted, MemoryBound
<1>2. CASE CaptureLoop \/ CheckSize \/ SetFull \/ WaitWhileFull \/ CaptureExit
  <2>1. UNCHANGED <<fifo, empty, cbuf, block, ppc, pbuf>>
    BY <1>2 DEF CaptureLoop, CheckSize, SetFull, WaitWhileFull, CaptureExit
  <2> QED
    BY <2>1, <1>1, <1>t, <1>o DEF MainAccount
<1>3. CASE TakeBuffer
  <2>1. cbuf = 0 /\ Held(cbuf) = 0
    BY <1>3 DEF TakeBuffer, TypeOK, CaptureHolds, Held
  <2>2. UNCHANGED <<fifo, ppc, pbuf>> /\ MainAccount' = MainAccount
    BY <1>3 DEF TakeBuffer, MainAccount
  <2>3. CASE empty = <<>> /\ block' = Append(block, 0) /\ cbuf' = Len(block) + 1
             /\ UNCHANGED empty
    <3>1. Len(block') = Len(block) + 1 /\ Held(cbuf') = 1 /\ Len(empty) = 0
      BY <2>3, Allocated DEF TypeOK, Held
    <3>2. Len(block') <= Len(fifo) + 2
      BY <1>t, <1>o, <2>1, <3>1 DEF Accounted
    <3>3. MemoryBound'
      BY <1>t, <3>2 DEF QueueBound, MemoryBound
    <3>4. Accounted'
      BY <1>t, <1>o, <2>1, <2>2, <2>3, <3>1 DEF Accounted
    <3> QED
      BY <1>o, <2>2, <3>3, <3>4 DEF Counted
  <2>4. CASE UNCHANGED <<cbuf, block, empty>>
    BY <1>1, <1>t, <1>o, <2>2, <2>4
  <2>5. CASE empty # <<>> /\ cbuf' = Head(empty) /\ empty' = Tail(empty)
             /\ UNCHANGED block
    <3>1. Len(empty') = Len(empty) - 1 /\ Held(cbuf') = 1 /\ Len(empty) # 0
      BY <2>5, HeadAndTail DEF TypeOK, Buffers, Held
    <3> QED
      BY <1>1, <1>t, <1>o, <2>1, <2>2, <2>5, <3>1
  <2> QED
    BY <1>3, <2>3, <2>4, <2>5 DEF TakeBuffer
<1>4. CASE ReadInput \/ Discard
  <2>1. UNCHANGED <<fifo, ppc, pbuf>> /\ MainAccount' = MainAccount
    BY <1>4 DEF ReadInput, Discard, MainAccount
  <2>2. cbuf \in Buffers /\ Held(cbuf) = 1
    BY <1>4 DEF ReadInput, Discard, TypeOK, CaptureHolds, Held
  <2>3. CASE GiveBack /\ UNCHANGED block
    <3>1. Len(empty') = Len(empty) + 1 /\ Held(cbuf') = 0
      BY <2>2, <2>3, Appended DEF GiveBack, TypeOK, Held
    <3> QED
      BY <1>1, <1>t, <1>o, <2>1, <2>2, <2>3, <3>1
  <2>4. CASE block' = [block EXCEPT ![cbuf] = blocksRead + 1]
             /\ UNCHANGED <<cbuf, empty>>
    <3>1. Len(block') = Len(block)
      BY <2>4 DEF TypeOK
    <3> QED
      BY <1>1, <1>t, <1>o, <2>1, <2>4, <3>1
  <2> QED
    BY <1>4, <2>3, <2>4 DEF ReadInput, Discard
<1>5. CASE Push
  <2>1. cbuf \in Buffers /\ Held(cbuf) = 1
    BY <1>5 DEF Push, TypeOK, CaptureHolds, Held
  <2>2. Len(fifo') = Len(fifo) + 1 /\ Held(cbuf') = 0
    BY <1>5, <2>1, Appended DEF Push, TypeOK, Held
  <2> QED
    BY <1>1, <1>5, <1>t, <1>o, <2>1, <2>2, WakeMainCount DEF Push
<1>6. CASE Wake
  BY <1>1, <1>6, <1>t, <1>o, WakeMainCount DEF Wake
<1> QED
  BY <1>2, <1>3, <1>4, <1>5, <1>6 DEF CaptureStep

LEMMA CountedMain ==
  ASSUME TypeOK, HandsEmpty, Counted, MainStep
  PROVE  Counted'
<1> USE DEF flags, queues, capture, main
<1>t. /\ Len(fifo) \in Nat /\ Len(empty) \in Nat /\ Len(block) \in Nat
      /\ Threshold \in Nat
      /\ Held(cbuf) \in 0..1 /\ Held(pbuf) \in 0..1 /\ MainAccount \in 0..1
  BY CountTypes
<1>o. ppc # "closed" /\ Accounted
  BY DEF Counted, MainStep, ProcessLoop, Pop, WriteOutput, Process, ReturnBuffer,
         CheckSpace, ClearFull, Leave, StopCapture, Join
<1>1. UNCHANGED <<block, cbuf>> /\ MemoryBound'
  BY DEF MainStep, ProcessLoop, Pop, WriteOutput, Process, ReturnBuffer, CheckSpace,
         ClearFull, Leave, StopCapture, Join, Counted, MemoryBound
<1>2. ASSUME ppc' # "closed", Len(fifo') \in Nat, Len(empty') \in Nat,
             MainAccount' \in 0..1,
             Len(fifo) + Len(empty) + MainAccount <=
               Len(fifo') + Len(empty') + MainAccount'
      PROVE  Counted'
  BY <1>1, <1>2, <1>t, <1>o DEF Counted, Accounted
<1>3. CASE ProcessLoop \/ WriteOutput \/ Process \/ CheckSpace \/ ClearFull
  <2>1. UNCHANGED <<fifo, empty, pbuf>> /\ ppc \notin {"stop", "join"}
        /\ ppc' \notin {"stop", "join", "closed"}
    BY <1>3 DEF ProcessLoop, WriteOutput, Process, CheckSpace, ClearFull
  <2> QED
    BY <1>2, <1>t, <2>1 DEF MainAccount
<1>4. CASE Pop
  <2>1. ppc \notin {"stop", "join"} /\ ppc' \notin {"stop", "join", "closed"}
        /\ UNCHANGED empty
    BY <1>4 DEF Pop
  <2>2. CASE fifo = <<>>
    <3>1. UNCHANGED <<fifo, pbuf>>
      BY <1>4, <2>2 DEF Pop
    <3> QED
      BY <1>2, <1>t, <2>1, <3>1 DEF MainAccount
  <2>3. CASE fifo # <<>>
    <3>1. pbuf' = Head(fifo) /\ fifo' = Tail(fifo)
      BY <1>4, <2>3 DEF Pop
    <3>2. Held(pbuf') = 1 /\ Len(fifo') = Len(fifo) - 1 /\ Len(fifo) # 0
      BY <2>3, <3>1, HeadAndTail DEF TypeOK, Buffers, Held
    <3>3. MainAccount = 0 /\ MainAccount' = 1
      BY <1>4, <2>1, <3>2 DEF Pop, HandsEmpty, MainHolds, MainAccount, Held
    <3> QED
      BY <1>2, <1>t, <2>1, <3>2, <3>3
  <2> QED
    BY <2>2, <2>3
<1>5. CASE ReturnBuffer
  <2>1. pbuf \in Buffers /\ Held(pbuf) = 1 /\ ppc = "return" /\ ppc' = "size"
    BY <1>5 DEF ReturnBuffer, TypeOK, MainHolds, Held
  <2>2. Len(empty') = Len(empty) + 1 /\ Held(pbuf') = 0 /\ UNCHANGED fifo
    BY <1>5, <2>1, Appended DEF ReturnBuffer, TypeOK, Held
  <2> QED
    BY <1>2, <1>t, <2>1, <2>2 DEF MainAccount
<1>6. CASE Leave \/ StopCapture
  <2>1. UNCHANGED <<fifo, empty>> /\ ppc' # "closed"
    BY <1>6 DEF Leave, StopCapture
  <2>2. MainAccount' \in 0..1 /\ MainAccount <= MainAccount'
    BY <1>6, <1>t DEF Leave, StopCapture, MainAccount
  <2> QED
    BY <1>2, <1>t, <2>1, <2>2
<1>7. CASE Join
  BY <1>1, <1>7 DEF Join, Counted
<1> QED
  BY <1>3, <1>4, <1>5, <1>6, <1>7 DEF MainStep

LEMMA NextCounted ==
  ASSUME TypeOK, QueueBound, HandsEmpty, Counted, [Next]_vars
  PROVE  Counted'
<1>1. CASE SpuriousWakeup
  <2>1. UNCHANGED <<fifo, empty, block, cbuf, pbuf>>
    BY <1>1 DEF SpuriousWakeup, queues, capture, main
  <2>2. /\ ppc' = ppc \/ (ppc = "sleep" /\ ppc' = "pop")
        /\ cpc' = cpc \/ (cpc = "sleep" /\ cpc' = "wait")
    BY <1>1 DEF SpuriousWakeup, capture, main
  <2> QED
    BY <2>1, <2>2 DEF Counted, Accounted, MainAccount, Held, MemoryBound
<1>2. CASE UNCHANGED vars
  BY <1>2 DEF vars, flags, queues, capture, main, Counted, Accounted, MainAccount,
              Held, MemoryBound
<1> QED
  BY <1>1, <1>2, CountedCapture, CountedMain DEF Next

\* The program allocates at most three buffers more than its queue may hold, however
\* long the input: a buffer is always found again once it has been analysed.
THEOREM MemoryIsBounded == Spec => []MemoryBound
<1>1. Init => Counted
  BY CaptureAssumption DEF Init, Counted, Accounted, MainAccount, Held, MemoryBound
<1>2. Init => HandsEmpty
  BY DEF Init, HandsEmpty
<1>3. HandsEmpty /\ [Next]_vars => HandsEmpty'
  BY HandsStayEmpty
<1>4. TypeOK /\ QueueBound /\ HandsEmpty /\ Counted /\ [Next]_vars => Counted'
  BY NextCounted
<1>5. Counted => MemoryBound
  BY DEF Counted
<1> QED
  BY <1>1, <1>2, <1>3, <1>4, <1>5, Typing, QueueIsBounded, PTL DEF Spec

----------------------------------------------------------------------------
\* Ownership: the buffers in the two fifos and in the two hands are all there are, and
\* no buffer is in two places. The second half is what keeps the first countable.

Elements(s) == {s[i] : i \in DOMAIN s}
Once(s) == \A i, j \in DOMAIN s : s[i] = s[j] => i = j

Apart(f, e, c, p) ==
  /\ Once(f) /\ Once(e) /\ Elements(f) \cap Elements(e) = {}
  /\ c \notin Elements(f) \cup Elements(e)
  /\ p \notin Elements(f) \cup Elements(e)
  /\ c = p => c = 0

Placed(f, e, c, p, n) ==
  /\ Len(f) + Len(e) + Held(c) + Held(p) = n
  /\ 1..n = Elements(f) \cup Elements(e) \cup ({c, p} \ {0})
  /\ Apart(f, e, c, p)

LEMMA TailElements ==
  ASSUME NEW S, NEW s \in Seq(S), s # <<>>
  PROVE  /\ Elements(s) = {Head(s)} \cup Elements(Tail(s))
         /\ Once(s) => Once(Tail(s)) /\ Head(s) \notin Elements(Tail(s))
<1>1. /\ Len(s) \in Nat \ {0} /\ DOMAIN s = 1..Len(s) /\ Head(s) = s[1]
      /\ DOMAIN Tail(s) = 1..Len(s) - 1
      /\ \A i \in 1..Len(s) - 1 : Tail(s)[i] = s[i+1]
  OBVIOUS
<1>2. Elements(s) \subseteq {Head(s)} \cup Elements(Tail(s))
  <2> SUFFICES ASSUME NEW i \in 1..Len(s), i # 1 PROVE s[i] \in Elements(Tail(s))
    BY <1>1 DEF Elements
  <2>1. i - 1 \in 1..Len(s) - 1 /\ Tail(s)[i-1] = s[i]
    BY <1>1
  <2> QED
    BY <1>1, <2>1 DEF Elements
<1>3. {Head(s)} \cup Elements(Tail(s)) \subseteq Elements(s)
  <2>1. \A i \in 1..Len(s) - 1 : i + 1 \in 1..Len(s)
    BY <1>1
  <2> QED
    BY <1>1, <2>1 DEF Elements
<1>4. ASSUME Once(s) PROVE Once(Tail(s)) /\ Head(s) \notin Elements(Tail(s))
  <2>1. \A i \in 1..Len(s) - 1 : i + 1 \in 1..Len(s) /\ i + 1 # 1
    BY <1>1
  <2>2. \A i, j \in 1..Len(s) - 1 : i + 1 = j + 1 => i = j
    BY <1>1
  <2>3. Once(Tail(s))
    BY <1>1, <1>4, <2>1, <2>2 DEF Once
  <2>4. Head(s) \notin Elements(Tail(s))
    BY <1>1, <1>4, <2>1 DEF Once, Elements
  <2> QED
    BY <2>3, <2>4
<1> QED
  BY <1>2, <1>3, <1>4

LEMMA AppendElements ==
  ASSUME NEW S, NEW s \in Seq(S), NEW x \in S
  PROVE  /\ Elements(Append(s, x)) = Elements(s) \cup {x}
         /\ Once(s) /\ x \notin Elements(s) => Once(Append(s, x))
<1>1. /\ Len(s) \in Nat /\ DOMAIN s = 1..Len(s)
      /\ DOMAIN Append(s, x) = 1..Len(s) + 1
      /\ \A i \in 1..Len(s) : Append(s, x)[i] = s[i]
      /\ Append(s, x)[Len(s) + 1] = x
  OBVIOUS
<1>2. 1..Len(s) + 1 = (1..Len(s)) \cup {Len(s) + 1}
  BY <1>1
<1>3. Elements(Append(s, x)) = Elements(s) \cup {x}
  BY <1>1, <1>2 DEF Elements
<1>4. ASSUME Once(s), x \notin Elements(s) PROVE Once(Append(s, x))
  BY <1>1, <1>2, <1>4 DEF Once, Elements
<1> QED
  BY <1>3, <1>4

\* The two hands and the two fifos are alike.
LEMMA PlacedSymmetry ==
  ASSUME NEW f, NEW e, NEW c, NEW p, NEW n, Placed(f, e, c, p, n),
         Len(f) \in Nat, Len(e) \in Nat
  PROVE  Placed(e, f, c, p, n) /\ Placed(f, e, p, c, n)
<1>1. Held(c) \in Nat /\ Held(p) \in Nat
  BY DEF Held
<1>2. /\ Len(e) + Len(f) + Held(c) + Held(p) = n
      /\ Len(f) + Len(e) + Held(p) + Held(c) = n
  BY <1>1 DEF Placed
<1>3. /\ 1..n = Elements(e) \cup Elements(f) \cup ({c, p} \ {0})
      /\ 1..n = Elements(f) \cup Elements(e) \cup ({p, c} \ {0})
  BY DEF Placed
<1>4. Apart(e, f, c, p) /\ Apart(f, e, p, c)
  BY DEF Placed, Apart
<1> QED
  BY <1>2, <1>3, <1>4 DEF Placed

\* An empty hand takes a buffer out of a fifo.
LEMMA PlacedTake ==
  ASSUME NEW n \in Nat, NEW f \in Seq(1..n), NEW e \in Seq(1..n), NEW p \in 0..n,
         Placed(f, e, 0, p, n), e # <<>>
  PROVE  Placed(f, Tail(e), Head(e), p, n)
<1>1. /\ Elements(e) = {Head(e)} \cup Elements(Tail(e))
      /\ Once(Tail(e)) /\ Head(e) \notin Elements(Tail(e))
  BY TailElements DEF Placed, Apart
<1>2. Len(f) \in Nat /\ Len(e) \in Nat /\ Len(Tail(e)) = Len(e) - 1 /\ Head(e) # 0
  BY HeadAndTail
<1>3. Held(Head(e)) = 1 /\ Held(0) = 0 /\ Held(p) \in Nat
  BY <1>2 DEF Held
<1>4. Len(f) + Len(Tail(e)) + Held(Head(e)) + Held(p) = n
  BY <1>2, <1>3 DEF Placed
<1>5. 1..n = Elements(f) \cup Elements(Tail(e)) \cup ({Head(e), p} \ {0})
  BY <1>1, <1>2 DEF Placed
<1>6. Apart(f, Tail(e), Head(e), p)
  BY <1>1 DEF Placed, Apart
<1> QED
  BY <1>4, <1>5, <1>6 DEF Placed

\* A hand gives its buffer to a fifo.
LEMMA PlacedPut ==
  ASSUME NEW n \in Nat, NEW f \in Seq(1..n), NEW e \in Seq(1..n), NEW p \in 0..n,
         NEW c \in 1..n, Placed(f, e, c, p, n)
  PROVE  Placed(f, Append(e, c), 0, p, n)
<1>1. /\ Elements(Append(e, c)) = Elements(e) \cup {c}
      /\ Once(Append(e, c))
  BY AppendElements DEF Placed, Apart
<1>2. Len(f) \in Nat /\ Len(e) \in Nat /\ Len(Append(e, c)) = Len(e) + 1
  BY Appended
<1>3. Held(c) = 1 /\ Held(0) = 0 /\ Held(p) \in Nat
  BY DEF Held
<1>4. Len(f) + Len(Append(e, c)) + Held(0) + Held(p) = n
  BY <1>2, <1>3 DEF Placed
<1>5. 1..n = Elements(f) \cup Elements(Append(e, c)) \cup ({0, p} \ {0})
  BY <1>1 DEF Placed
<1>6. Elements(f) \subseteq 1..n /\ Elements(e) \subseteq 1..n /\ c # 0 /\ 0 \notin 1..n
  BY ElementOf DEF Elements
<1>7. Apart(f, Append(e, c), 0, p)
  BY <1>1, <1>6 DEF Placed, Apart
<1> QED
  BY <1>4, <1>5, <1>7 DEF Placed

\* A new buffer comes into an empty hand.
LEMMA PlacedNew ==
  ASSUME NEW n \in Nat, NEW f \in Seq(1..n), NEW e \in Seq(1..n), NEW p \in 0..n,
         Placed(f, e, 0, p, n)
  PROVE  Placed(f, e, n + 1, p, n + 1)
<1>1. Len(f) \in Nat /\ Len(e) \in Nat
  OBVIOUS
<1>2. Held(n + 1) = 1 /\ Held(0) = 0 /\ Held(p) \in Nat
  BY DEF Held
<1>3. Len(f) + Len(e) + Held(n + 1) + Held(p) = n + 1
  BY <1>1, <1>2 DEF Placed
<1>4. 1..n + 1 = (1..n) \cup {n + 1} /\ n + 1 # 0 /\ n + 1 \notin 0..n /\ 1..n \subseteq 0..n
  OBVIOUS
<1>5. 1..n + 1 = Elements(f) \cup Elements(e) \cup ({n + 1, p} \ {0})
  BY <1>4 DEF Placed
<1>6. Elements(f) \subseteq 1..n /\ Elements(e) \subseteq 1..n
  BY ElementOf DEF Elements
<1>7. Apart(f, e, n + 1, p)
  BY <1>4, <1>6 DEF Placed, Apart
<1> QED
  BY <1>3, <1>5, <1>7 DEF Placed

Finished == {"stop", "join", "closed"}
Owned == ppc \notin Finished => Placed(fifo, empty, cbuf, pbuf, Len(block))

LEMMA PlaceTypes ==
  ASSUME TypeOK
  PROVE  /\ Len(block) \in Nat /\ Buffers = 1..Len(block)
         /\ fifo \in Seq(1..Len(block)) /\ empty \in Seq(1..Len(block))
         /\ Len(fifo) \in Nat /\ Len(empty) \in Nat
         /\ cbuf \in 0..Len(block) /\ pbuf \in 0..Len(block)
         /\ cbuf # 0 => cbuf \in 1..Len(block)
         /\ pbuf # 0 => pbuf \in 1..Len(block)
<1>1. Len(block) \in Nat /\ Buffers = 1..Len(block)
  BY DEF TypeOK, Buffers
<1> QED
  BY <1>1 DEF TypeOK

LEMMA OwnedCapture ==
  ASSUME TypeOK, Owned, CaptureStep
  PROVE  Owned'
<1> USE DEF flags, queues, capture, main
<1>t. /\ Len(block) \in Nat /\ Buffers = 1..Len(block)
      /\ fifo \in Seq(1..Len(block)) /\ empty \in Seq(1..Len(block))
      /\ Len(fifo) \in Nat /\ Len(empty) \in Nat
      /\ cbuf \in 0..Len(block) /\ pbuf \in 0..Len(block)
      /\ cbuf # 0 => cbuf \in 1..Len(block)
  BY PlaceTypes
<1> SUFFICES ASSUME ppc' \notin Finished
             PROVE  Placed(fifo', empty', cbuf', pbuf', Len(block'))
  BY DEF Owned
<1>w. pbuf' = pbuf /\ (ppc' = ppc \/ ppc = "sleep")
  BY DEF CaptureStep, CaptureLoop, TakeBuffer, ReadInput, CheckSize, SetFull,
     WaitWhileFull, Discard, Push, CaptureExit, Wake, WakeMain
<1>p. Placed(fifo, empty, cbuf, pbuf, Len(block))
  BY <1>w DEF Owned, Finished
<1>1. CASE UNCHANGED <<fifo, empty, cbuf>> /\ Len(block') = Len(block)
  BY <1>1, <1>p, <1>w
<1>2. CASE GiveBack /\ cbuf # 0 /\ UNCHANGED <<fifo, block>>
  BY <1>2, <1>t, <1>p, <1>w, PlacedPut DEF GiveBack
<1>3. CASE CaptureLoop \/ CheckSize \/ SetFull \/ WaitWhileFull \/ CaptureExit \/ Wake
  BY <1>1, <1>3 DEF CaptureLoop, CheckSize, SetFull, WaitWhileFull, CaptureExit, Wake
<1>4. CASE TakeBuffer
  <2>1. cbuf = 0 /\ UNCHANGED fifo
    BY <1>4 DEF TakeBuffer, TypeOK, CaptureHolds
  <2>2. CASE /\ block' = Append(block, 0) /\ cbuf' = Len(block) + 1 /\ UNCHANGED empty
    <3>1. Len(block') = Len(block) + 1
      BY <2>2, Allocated DEF TypeOK
    <3> QED
      BY <1>t, <1>p, <1>w, <2>1, <2>2, <3>1, PlacedNew
  <2>3. CASE UNCHANGED <<cbuf, block, empty>>
    BY <1>1, <2>1, <2>3
  <2>4. CASE empty # <<>> /\ cbuf' = Head(empty) /\ empty' = Tail(empty) /\ UNCHANGED block
    BY <1>t, <1>p, <1>w, <2>1, <2>4, PlacedTake
  <2> QED
    BY <1>4, <2>2, <2>3, <2>4 DEF TakeBuffer
<1>5. CASE ReadInput \/ Discard
  <2>1. cbuf # 0 /\ UNCHANGED fifo
    BY <1>5 DEF ReadInput, Discard, TypeOK, CaptureHolds
  <2>2. CASE block' = [block EXCEPT ![cbuf] = blocksRead + 1] /\ UNCHANGED <<cbuf, empty>>
    <3>1. Len(block') = Len(block)
      BY <2>2 DEF TypeOK
    <3> QED
      BY <1>1, <2>1, <2>2, <3>1
  <2> QED
    BY <1>2, <1>5, <2>1, <2>2 DEF ReadInput, Discard
<1>6. CASE Push
  <2>1. cbuf # 0 /\ fifo' = Append(fifo, cbuf) /\ cbuf' = 0 /\ UNCHANGED <<empty, block>>
    BY <1>6 DEF Push, TypeOK, CaptureHolds
  <2>2. Placed(empty, fifo, cbuf, pbuf, Len(block))
    BY <1>t, <1>p, PlacedSymmetry
  <2>3. Placed(empty, fifo', 0, pbuf, Len(block))
    BY <1>t, <2>1, <2>2, PlacedPut
  <2>4. Len(fifo') \in Nat
    BY <1>t, <2>1, Appended
  <2> QED
    BY <1>t, <1>w, <2>1, <2>3, <2>4, PlacedSymmetry
<1> QED
  BY <1>3, <1>4, <1>5, <1>6 DEF CaptureStep

LEMMA OwnedMain ==
  ASSUME TypeOK, HandsEmpty, Owned, MainStep
  PROVE  Owned'
<1> USE DEF flags, queues, capture, main
<1>t. /\ Len(block) \in Nat /\ Buffers = 1..Len(block)
      /\ fifo \in Seq(1..Len(block)) /\ empty \in Seq(1..Len(block))
      /\ Len(fifo) \in Nat /\ Len(empty) \in Nat
      /\ cbuf \in 0..Len(block) /\ pbuf \in 0..Len(block)
      /\ pbuf # 0 => pbuf \in 1..Len(block)
  BY PlaceTypes
<1> SUFFICES ASSUME ppc' \notin Finished
             PROVE  Placed(fifo', empty', cbuf', pbuf', Len(block'))
  BY DEF Owned
<1>w. ppc \notin Finished /\ UNCHANGED <<cbuf, block>>
  BY DEF MainStep, ProcessLoop, Pop, WriteOutput, Process, ReturnBuffer, CheckSpace,
     ClearFull, Leave, StopCapture, Join, Finished
<1>p. Placed(fifo, empty, cbuf, pbuf, Len(block))
  BY <1>w DEF Owned
<1>1. CASE UNCHANGED <<fifo, empty, pbuf>>
  BY <1>1, <1>p, <1>w
<1>2. CASE ProcessLoop \/ WriteOutput \/ Process \/ CheckSpace \/ ClearFull \/ Leave
           \/ StopCapture \/ Join
  BY <1>1, <1>2 DEF ProcessLoop, WriteOutput, Process, CheckSpace, ClearFull, Leave,
     StopCapture, Join, Finished
<1>3. CASE Pop
  <2>1. CASE fifo = <<>>
    BY <1>1, <1>3, <2>1 DEF Pop
  <2>2. CASE fifo # <<>>
    <3>1. /\ pbuf = 0 /\ pbuf' = Head(fifo) /\ fifo' = Tail(fifo) /\ UNCHANGED empty
      BY <1>3, <2>2 DEF Pop, HandsEmpty, MainHolds
    <3>2. Placed(empty, fifo, 0, cbuf, Len(block))
      BY <1>t, <1>p, <3>1, PlacedSymmetry
    <3>3. Placed(empty, fifo', pbuf', cbuf, Len(block))
      BY <1>t, <2>2, <3>1, <3>2, PlacedTake
    <3>4. Len(fifo') \in Nat
      BY <1>t, <3>1
    <3> QED
      BY <1>t, <1>w, <3>1, <3>3, <3>4, PlacedSymmetry
  <2> QED
    BY <2>1, <2>2
<1>4. CASE ReturnBuffer
  <2>1. pbuf # 0 /\ empty' = Append(empty, pbuf) /\ pbuf' = 0 /\ UNCHANGED fifo
    BY <1>4 DEF ReturnBuffer, TypeOK, MainHolds
  <2>2. Placed(fifo, empty, pbuf, cbuf, Len(block))
    BY <1>t, <1>p, PlacedSymmetry
  <2>3. Placed(fifo, empty', 0, cbuf, Len(block))
    BY <1>t, <2>1, <2>2, PlacedPut
  <2>4. Len(empty') \in Nat
    BY <1>t, <2>1, Appended
  <2> QED
    BY <1>t, <1>w, <2>1, <2>3, <2>4, PlacedSymmetry
<1> QED
  BY <1>2, <1>3, <1>4 DEF MainStep

LEMMA NextOwned ==
  ASSUME TypeOK, HandsEmpty, Owned, [Next]_vars
  PROVE  Owned'
<1>1. CASE SpuriousWakeup
  BY <1>1 DEF SpuriousWakeup, Owned, Finished, flags, queues, capture, main
<1>2. CASE UNCHANGED vars
  BY <1>2 DEF vars, Owned, flags, queues, capture, main
<1> QED
  BY <1>1, <1>2, OwnedCapture, OwnedMain DEF Next

LEMMA InitOwned == Init => Owned
<1> SUFFICES ASSUME Init PROVE Placed(fifo, empty, cbuf, pbuf, Len(block))
  BY DEF Owned
<1>1. /\ fifo = <<>> /\ empty = <<>> /\ cbuf = 0 /\ pbuf = 0 /\ block = <<>>
  BY DEF Init
<1>2. Elements(<<>>) = {} /\ Once(<<>>)
  BY DEF Elements, Once
<1>3. Apart(<<>>, <<>>, 0, 0)
  BY <1>2 DEF Apart
<1>4. Len(<<>>) + Len(<<>>) + Held(0) + Held(0) = Len(<<>>)
  BY DEF Held
<1>5. 1..Len(<<>>) = Elements(<<>>) \cup Elements(<<>>) \cup ({0, 0} \ {0})
  BY <1>2
<1> QED
  BY <1>1, <1>3, <1>4, <1>5 DEF Placed

LEMMA HandsCount ==
  ASSUME NEW c, NEW p, c = p => c = 0
  PROVE  Cardinality({c, p} \ {0}) = Held(c) + Held(p)
<1>1. CASE c = 0 /\ p = 0
  <2>1. {c, p} \ {0} = {}
    BY <1>1
  <2> QED
    BY <1>1, <2>1, FS_EmptySet DEF Held
<1>2. CASE c # 0 /\ p = 0
  <2>1. {c, p} \ {0} = {c}
    BY <1>2
  <2> QED
    BY <1>2, <2>1, FS_Singleton DEF Held
<1>3. CASE c = 0 /\ p # 0
  <2>1. {c, p} \ {0} = {p}
    BY <1>3
  <2> QED
    BY <1>3, <2>1, FS_Singleton DEF Held
<1>4. CASE c # 0 /\ p # 0
  <2>1. {c, p} \ {0} = {c} \cup {p} /\ p \notin {c}
    BY <1>4
  <2>2. Cardinality({c} \cup {p}) = Cardinality({c}) + 1
    BY <2>1, FS_Singleton, FS_AddElement
  <2> QED
    BY <1>4, <2>1, <2>2, FS_Singleton DEF Held
<1> QED
  BY <1>1, <1>2, <1>3, <1>4

LEMMA OwnedAlways == Spec => []Owned
<1>1. TypeOK /\ HandsEmpty /\ Owned /\ [Next]_vars => Owned'
  BY NextOwned
<1>2. Init => HandsEmpty
  BY DEF Init, HandsEmpty
<1>3. HandsEmpty /\ [Next]_vars => HandsEmpty'
  BY HandsStayEmpty
<1> QED
  BY <1>1, <1>2, <1>3, InitOwned, Typing, PTL DEF Spec

\* Whatever fails and however the threads interleave, no buffer is lost, queued twice or
\* held by both threads before the program ends.
THEOREM BuffersHaveOneOwner == Spec => []OneOwner
<1>1. TypeOK /\ Owned => OneOwner
  <2> SUFFICES ASSUME TypeOK, Owned, ppc \notin Finished
               PROVE  /\ Len(fifo) + Len(empty) + Cardinality({cbuf, pbuf} \ {0}) = Len(block)
                      /\ Buffers = Elements(fifo) \cup Elements(empty) \cup ({cbuf, pbuf} \ {0})
    BY DEF OneOwner, Finished, Elements
  <2>1. Placed(fifo, empty, cbuf, pbuf, Len(block))
    BY DEF Owned
  <2>2. Cardinality({cbuf, pbuf} \ {0}) = Held(cbuf) + Held(pbuf)
    BY <2>1, HandsCount DEF Placed, Apart
  <2>3. Len(fifo) \in Nat /\ Len(empty) \in Nat /\ Held(cbuf) \in Nat /\ Held(pbuf) \in Nat
        /\ Buffers = 1..Len(block)
    BY PlaceTypes DEF Held
  <2>4. Len(fifo) + Len(empty) + (Held(cbuf) + Held(pbuf)) = Len(block)
    BY <2>1, <2>3 DEF Placed
  <2> QED
    BY <2>1, <2>2, <2>3, <2>4 DEF Placed
<1> QED
  BY <1>1, OwnedAlways, Typing, PTL
----------------------------------------------------------------------------
(* What happens to three sequences, one behind the other. *)

Line(h, q, c) == h \o q \o c

LEMMA LineIsSeq ==
  ASSUME NEW S, NEW h \in Seq(S), NEW q \in Seq(S), NEW c \in Seq(S)
  PROVE  /\ Line(h, q, c) \in Seq(S)
         /\ Len(Line(h, q, c)) = Len(h) + Len(q) + Len(c)
BY ConcatProperties DEF Line

LEMMA AppendedIsConcat ==
  ASSUME NEW S, NEW s \in Seq(S), NEW x \in S
  PROVE  Append(s, x) = s \o <<x>>
OBVIOUS

\* The last sequence has one element: it may be counted to the middle one, is what was
\* appended, and is what a sequence shorter by one does without.
LEMMA LineEnd ==
  ASSUME NEW S, NEW h \in Seq(S), NEW q \in Seq(S), NEW x \in S
  PROVE  /\ Line(h, Append(q, x), <<>>) = Line(h, q, <<x>>)
         /\ Line(h, q, <<x>>) = Append(Line(h, q, <<>>), x)
         /\ SubSeq(Line(h, q, <<x>>), 1, Len(Line(h, q, <<x>>)) - 1) = Line(h, q, <<>>)
         /\ Len(Line(h, q, <<x>>)) > Len(q)
<1>1. h \o q \in Seq(S) /\ <<x>> \in Seq(S) /\ <<>> \in Seq(S) /\ Append(q, x) \in Seq(S)
      /\ h \o Append(q, x) \in Seq(S)
  BY ConcatProperties
<1>2. Line(h, q, <<>>) = h \o q
  BY <1>1, ConcatEmptySeq DEF Line
<1>3. Line(h, q, <<x>>) = Append(h \o q, x)
  BY <1>1, AppendedIsConcat DEF Line
<1>4. Line(h, Append(q, x), <<>>) = h \o (q \o <<x>>)
  BY <1>1, AppendedIsConcat, ConcatEmptySeq DEF Line
<1>5. Line(h, Append(q, x), <<>>) = Line(h, q, <<x>>)
  BY <1>1, <1>4, ConcatAssociative DEF Line
<1>6. SubSeq(Append(h \o q, x), 1, Len(Append(h \o q, x)) - 1) = h \o q
  <2> DEFINE s == h \o q
  <2>1. s \in Seq(S)
    BY <1>1
  <2> HIDE DEF s
  <2>2. /\ Len(s) \in Nat /\ Len(Append(s, x)) = Len(s) + 1
        /\ \A i \in 1..Len(s) : Append(s, x)[i] = s[i] /\ s[i] \in S
    BY <2>1, Appended, ElementOfSeq
  <2>3. /\ SubSeq(Append(s, x), 1, Len(s)) \in Seq(S)
        /\ Len(SubSeq(Append(s, x), 1, Len(s))) = Len(s)
        /\ \A i \in 1..Len(s) : SubSeq(Append(s, x), 1, Len(s))[i] = Append(s, x)[i]
    BY <2>2
  <2>4. SubSeq(Append(s, x), 1, Len(s)) = s
    BY <2>1, <2>2, <2>3, SeqEqual
  <2>5. Len(Append(s, x)) - 1 = Len(s)
    BY <2>2
  <2> QED
    BY <2>4, <2>5 DEF s
<1>7. Len(Append(h \o q, x)) = Len(h) + Len(q) + 1 /\ Len(h) \in Nat /\ Len(q) \in Nat
  BY <1>1, Appended, ConcatProperties
<1>8. Len(Line(h, q, <<x>>)) > Len(q)
  BY <1>3, <1>7
<1>9. SubSeq(Line(h, q, <<x>>), 1, Len(Line(h, q, <<x>>)) - 1) = Line(h, q, <<>>)
  BY <1>2, <1>3, <1>6, Zenon
<1> QED
  BY <1>2, <1>3, <1>5, <1>8, <1>9, Zenon

LEMMA LineStart ==
  ASSUME NEW S, NEW q \in Seq(S), NEW c \in Seq(S), NEW x \in S
  PROVE  /\ Line(<<x>>, q, c) # <<>>
         /\ Head(Line(<<x>>, q, c)) = x
         /\ Tail(Line(<<x>>, q, c)) = Line(<<>>, q, c)
<1> DEFINE s == q \o c
<1>1. Line(<<>>, q, c) = s /\ s \in Seq(S)
  BY ConcatEmptySeq, ConcatProperties DEF Line
<1>2. Line(<<x>>, q, c) = <<x>> \o s
  BY <1>1, ConcatAssociative DEF Line
<1> HIDE DEF s
<1>3. <<x>> \o s # <<>> /\ Head(<<x>> \o s) = x /\ Tail(<<x>> \o s) = s
  BY <1>1
<1> QED
  BY <1>1, <1>2, <1>3

LEMMA HeadThenTail ==
  ASSUME NEW S, NEW s \in Seq(S), s # <<>>
  PROVE  /\ Head(s) \in S /\ Tail(s) \in Seq(S)
         /\ <<Head(s)>> \o Tail(s) = s
OBVIOUS

LEMMA LineMiddle ==
  ASSUME NEW S, NEW q \in Seq(S), NEW c \in Seq(S), q # <<>>
  PROVE  Line(<<Head(q)>>, Tail(q), c) = Line(<<>>, q, c)
<1>1. Line(<<>>, q, c) = q \o c
  BY ConcatEmptySeq, ConcatProperties DEF Line
<1>2. <<Head(q)>> \o Tail(q) = q
  BY HeadThenTail
<1> QED
  BY <1>1, <1>2 DEF Line

LEMMA TailIsFunction ==
  ASSUME NEW S, NEW s \in Seq(S), s # <<>>
  PROVE  Tail(s) = [i \in 1..Len(s) - 1 |-> s[i+1]]
<1>1. /\ Len(s) \in Nat \ {0} /\ Tail(s) \in Seq(S) /\ Len(Tail(s)) = Len(s) - 1
      /\ \A i \in 1..Len(s) - 1 : Tail(s)[i] = s[i+1]
  BY HeadTailProperties, EmptySeq
<1>2. Tail(s) \in [1..Len(s) - 1 -> S]
  BY <1>1, LenProperties
<1> QED
  BY <1>1, <1>2
----------------------------------------------------------------------------
(* The three parts of the queue. *)

LEMMA PartTypes ==
  ASSUME TypeOK
  PROVE  /\ InHand \in Seq(0..Items) /\ Queued \in Seq(0..Items)
         /\ Coming \in Seq(0..Items)
         /\ Len(Queued) = Len(fifo)
         /\ \A b \in Buffers : block[b] \in 0..Items
<1>1. \A b \in Buffers : block[b] \in 0..Items
  BY ElementOf DEF TypeOK, Buffers
<1>2. pbuf # 0 => pbuf \in Buffers
  BY DEF TypeOK
<1>3. cbuf # 0 => cbuf \in Buffers
  BY DEF TypeOK
<1>s. <<>> \in Seq(0..Items) /\ \A x \in 0..Items : <<x>> \in Seq(0..Items)
  OBVIOUS
<1>4. InHand \in Seq(0..Items)
  <2>1. ppc \in {"write", "process"} => block[pbuf] \in 0..Items
    BY <1>1, <1>2 DEF TypeOK, MainHolds
  <2> QED
    BY <1>s, <2>1 DEF InHand
<1>5. Coming \in Seq(0..Items)
  <2>1. cpc \in {"check", "push", "full", "wait", "sleep"} => block[cbuf] \in 0..Items
    BY <1>1, <1>3 DEF TypeOK, CaptureHolds
  <2> QED
    BY <1>s, <2>1 DEF Coming
<1>6. Len(fifo) \in Nat /\ DOMAIN fifo = 1..Len(fifo)
  BY DEF TypeOK
<1>7. Queued \in [1..Len(fifo) -> 0..Items]
  BY <1>1, <1>6, ElementOf DEF TypeOK, Queued
<1>8. Queued \in Seq(0..Items)
  BY <1>6, <1>7, SeqDef
<1>9. Len(Queued) = Len(fifo)
  BY <1>6, <1>7, <1>8, LenProperties
<1> QED
  BY <1>1, <1>4, <1>5, <1>8, <1>9

PipeState == <<blocksRead, OnTheWay, processed, ~Ended>>

\* A step of the program is one of the pipe.
PipeStep == [Pipe!Next]_PipeState

\* The blocks of a fifo are kept by whoever writes to a buffer elsewhere.
LEMMA QueueKept ==
  ASSUME TypeOK, UNCHANGED fifo,
         \A b \in Elements(fifo) : block'[b] = block[b]
  PROVE  Queued' = Queued
<1>1. \A i \in DOMAIN fifo : fifo[i] \in Elements(fifo)
  BY DEF Elements
<1> QED
  BY <1>1 DEF Queued

\* The steps of the capture thread.
LEMMA CapturePipe ==
  ASSUME TypeOK, Room, Owned, CaptureStep
  PROVE  PipeStep
<1> USE DEF flags, queues, capture, main
<1>t. /\ InHand \in Seq(0..Items) /\ Queued \in Seq(0..Items) /\ Coming \in Seq(0..Items)
      /\ Len(Queued) = Len(fifo)
      /\ \A b \in Buffers : block[b] \in 0..Items
  BY PartTypes
<1>w. /\ pbuf' = pbuf /\ UNCHANGED processed
      /\ ppc' = ppc \/ (ppc = "sleep" /\ ppc' = "pop")
  BY DEF CaptureStep, CaptureLoop, TakeBuffer, ReadInput, CheckSize, SetFull,
     WaitWhileFull, Discard, Push, CaptureExit, Wake, WakeMain
<1>e. Ended' = Ended
  BY <1>w DEF Ended
<1>o. ~Ended => Placed(fifo, empty, cbuf, pbuf, Len(block))
  BY DEF Ended, Finished, Owned
<1>h. (ppc \in {"write", "process"} => block'[pbuf] = block[pbuf]) => InHand' = InHand
  BY <1>w DEF InHand
<1>s. ASSUME UNCHANGED blocksRead, ~Ended => OnTheWay' = OnTheWay
      PROVE  PipeStep
  BY <1>s, <1>e, <1>w DEF PipeStep, PipeState, OnTheWay
<1>1. CASE UNCHANGED <<fifo, block, blocksRead>> /\ Coming' = Coming
  <2>1. Queued' = Queued
    BY <1>1 DEF Queued
  <2> QED
    BY <1>1, <1>e, <1>h, <1>s, <2>1 DEF OnTheWay
<1>2. CASE CaptureLoop \/ WaitWhileFull \/ Discard \/ CaptureExit \/ Wake
  <2>1. cpc \in {"wait", "sleep"} => FileMode
    BY DEF Room
  <2>2. Coming' = Coming
    BY <1>2, <2>1 DEF CaptureLoop, WaitWhileFull, Discard, GiveBack, CaptureExit, Wake, Coming
  <2> QED
    BY <1>1, <1>2, <2>2 DEF CaptureLoop, WaitWhileFull, Discard, CaptureExit, Wake
<1>3. CASE SetFull
  BY <1>1, <1>3 DEF SetFull, Coming
<1>4. CASE TakeBuffer
  <2>1. Coming = <<>> /\ Coming' = <<>> /\ UNCHANGED <<fifo, blocksRead>>
    BY <1>4 DEF TakeBuffer, Coming
  <2>2. CASE UNCHANGED block
    BY <1>1, <2>1, <2>2
  <2>3. CASE block' = Append(block, 0)
    <3>1. \A b \in Buffers : block'[b] = block[b]
      BY <2>3 DEF TypeOK, Buffers
    <3>2. Elements(fifo) \subseteq Buffers
      BY ElementOf DEF TypeOK, Elements
    <3>3. Queued' = Queued
      BY <2>1, <3>1, <3>2, QueueKept
    <3>4. InHand' = InHand
      BY <1>h, <3>1 DEF TypeOK, MainHolds
    <3> QED
      BY <1>e, <1>s, <2>1, <3>3, <3>4 DEF OnTheWay
  <2> QED
    BY <1>4, <2>2, <2>3 DEF TakeBuffer
<1>5. CASE ReadInput
  <2>1. CASE GiveBack
    BY <1>1, <1>5, <2>1 DEF ReadInput, GiveBack, Coming
  <2>2. CASE /\ blocksRead < Items /\ blocksRead' = blocksRead + 1
             /\ block' = [block EXCEPT ![cbuf] = blocksRead + 1]
             /\ cpc' = "check" /\ UNCHANGED cbuf
    <3>1. cbuf \in DOMAIN block /\ block \in Seq(0..Items) /\ UNCHANGED fifo
      BY <1>5 DEF ReadInput, TypeOK, Buffers
    <3>2. Coming = <<>>
      BY <1>5 DEF ReadInput, Coming
    <3>3. Coming' = <<blocksRead + 1>>
      BY <2>2, <3>1 DEF Coming
    <3>4. \A b \in Buffers : b # cbuf => block'[b] = block[b]
      BY <2>2, <3>1 DEF Buffers
    <3>5. CASE ~Ended
      <4>1. cbuf \notin Elements(fifo) /\ (pbuf = cbuf => pbuf = 0)
        BY <1>o, <3>5 DEF Placed, Apart
      <4>2. Elements(fifo) \subseteq Buffers
        BY ElementOf DEF TypeOK, Elements
      <4>3. Queued' = Queued
        BY <3>1, <3>4, <4>1, <4>2, QueueKept
      <4>4. InHand' = InHand
        BY <1>h, <3>4, <4>1 DEF TypeOK, MainHolds
      <4>5. blocksRead + 1 \in 0..Items
        BY <2>2, CaptureAssumption DEF TypeOK
      <4>6. OnTheWay = Line(InHand, Queued, <<>>)
        BY <3>2, <3>5 DEF OnTheWay, Line
      <4>7. OnTheWay' = Line(InHand, Queued, <<blocksRead + 1>>)
        BY <1>e, <3>3, <3>5, <4>3, <4>4 DEF OnTheWay, Line
      <4>8. OnTheWay' = Append(OnTheWay, blocksRead + 1)
        BY <1>t, <4>5, <4>6, <4>7, LineEnd
      <4> QED
        BY <1>e, <1>w, <2>2, <3>5, <4>8 DEF PipeStep, Pipe!Next, Pipe!Read
    <3>6. CASE Ended
      <4>1. OnTheWay' = OnTheWay
        BY <1>e, <3>6 DEF OnTheWay
      <4> QED
        BY <1>e, <1>w, <2>2, <3>6, <4>1 DEF PipeStep, Pipe!Next, Pipe!Read
    <3> QED
      BY <3>5, <3>6
  <2> QED
    BY <1>5, <2>1, <2>2 DEF ReadInput
<1>6. CASE CheckSize
  <2>1. UNCHANGED <<fifo, block, blocksRead, cbuf>> /\ Coming = <<block[cbuf]>>
        /\ cbuf \in Buffers
    BY <1>6 DEF CheckSize, Coming, TypeOK
  <2>2. CASE cpc' = "push" \/ FileMode \/ Ended
    <3>1. CASE Ended
      BY <1>s, <2>1, <3>1
    <3>2. CASE ~Ended
      <4>1. Coming' = Coming
        BY <1>6, <2>1, <2>2, <3>2 DEF CheckSize, Coming
      <4> QED
        BY <1>1, <2>1, <4>1
    <3> QED
      BY <3>1, <3>2
  <2>3. CASE cpc' = "full" /\ ~FileMode /\ ~Ended
    <3>1. Coming' = <<>> /\ Len(fifo) >= Threshold
      BY <1>6, <2>3 DEF CheckSize, Coming
    <3>2. Queued' = Queued /\ InHand' = InHand
      BY <1>h, <2>1 DEF Queued
    <3>3. OnTheWay = Line(InHand, Queued, <<block[cbuf]>>)
      BY <2>1, <2>3 DEF OnTheWay, Line
    <3>4. OnTheWay' = Line(InHand, Queued, <<>>)
      BY <1>e, <2>3, <3>1, <3>2 DEF OnTheWay, Line
    <3>5. block[cbuf] \in 0..Items
      BY <1>t, <2>1
    <3>6. OnTheWay' = SubSeq(OnTheWay, 1, Len(OnTheWay) - 1) /\ Len(OnTheWay) > Len(fifo)
      BY <1>t, <3>3, <3>4, <3>5, LineEnd
    <3>7. OnTheWay \in Seq(0..Items)
      BY <1>t, <2>1, <2>3, LineIsSeq DEF OnTheWay, Line
    <3>8. Len(OnTheWay) > Threshold
      BY <3>1, <3>6, <3>7, CaptureAssumption DEF TypeOK
    <3> QED
      BY <1>e, <1>w, <2>1, <2>3, <3>6, <3>8 DEF PipeStep, Pipe!Next, Pipe!Drop
  <2> QED
    BY <1>6, <2>2, <2>3 DEF CheckSize
<1>7. CASE Push
  <2>1. UNCHANGED <<block, blocksRead>> /\ fifo' = Append(fifo, cbuf) /\ cbuf \in Buffers
        /\ Coming = <<block[cbuf]>> /\ Coming' = <<>>
    BY <1>7 DEF Push, TypeOK, Coming
  <2>2. block[cbuf] \in 0..Items /\ InHand' = InHand
    BY <1>h, <1>t, <2>1
  <2>3. Queued' = Append(Queued, block[cbuf])
    <3>1. fifo \in Seq(Buffers) /\ Len(fifo) \in Nat /\ DOMAIN fifo = 1..Len(fifo)
      BY DEF TypeOK
    <3>2. /\ DOMAIN fifo' = 1..Len(fifo) + 1
          /\ \A i \in 1..Len(fifo) : fifo'[i] = fifo[i]
          /\ fifo'[Len(fifo) + 1] = cbuf
      BY <2>1, <3>1
    <3>3. Queued' = [i \in 1..Len(fifo) + 1 |-> block[fifo'[i]]]
      BY <2>1, <3>2 DEF Queued
    <3>4. Append(Queued, block[cbuf]) =
            [i \in 1..Len(fifo) + 1 |-> IF i <= Len(fifo) THEN Queued[i] ELSE block[cbuf]]
      BY <1>t, <2>2, <3>1
    <3>5. \A i \in 1..Len(fifo) + 1 :
            block[fifo'[i]] = IF i <= Len(fifo) THEN Queued[i] ELSE block[cbuf]
      BY <3>1, <3>2 DEF Queued
    <3> QED
      BY <3>3, <3>4, <3>5
  <2>4. CASE ~Ended
    <3>1. OnTheWay = Line(InHand, Queued, <<block[cbuf]>>)
      BY <2>1, <2>4 DEF OnTheWay, Line
    <3>2. OnTheWay' = Line(InHand, Append(Queued, block[cbuf]), <<>>)
      BY <1>e, <2>1, <2>2, <2>3, <2>4 DEF OnTheWay, Line
    <3> QED
      BY <1>s, <1>t, <2>1, <2>2, <3>1, <3>2, LineEnd
  <2> QED
    BY <1>s, <2>1, <2>4
<1> QED
  BY <1>2, <1>3, <1>4, <1>5, <1>6, <1>7 DEF CaptureStep

\* The steps of the main thread.
LEMMA MainPipe ==
  ASSUME TypeOK, Room, MainStep
  PROVE  PipeStep
<1> USE DEF flags, queues, capture, main
<1>t. /\ InHand \in Seq(0..Items) /\ Queued \in Seq(0..Items) /\ Coming \in Seq(0..Items)
      /\ Len(Queued) = Len(fifo)
      /\ \A b \in Buffers : block[b] \in 0..Items
  BY PartTypes
<1>b. UNCHANGED <<blocksRead, block, cbuf>>
  BY DEF MainStep, ProcessLoop, Pop, WriteOutput, Process, ReturnBuffer, CheckSpace,
     ClearFull, Leave, StopCapture, Join
<1>c. Coming' = Coming
  <2>1. cpc' = cpc \/ (cpc = "sleep" /\ cpc' = "wait")
    BY DEF MainStep, ProcessLoop, Pop, WriteOutput, Process, ReturnBuffer, CheckSpace,
       ClearFull, Leave, StopCapture, Join
  <2> QED
    BY <1>b, <2>1 DEF Coming
<1>1. CASE Ended' /\ UNCHANGED processed
  <2>1. OnTheWay' = <<>>
    BY <1>1 DEF OnTheWay
  <2> QED
    BY <1>1, <1>b, <2>1 DEF PipeStep, Pipe!Next, Pipe!End
<1>2. CASE ~Ended /\ ~Ended' /\ UNCHANGED <<fifo, processed>> /\ InHand' = InHand
  <2>1. Queued' = Queued
    BY <1>2, <1>b DEF Queued
  <2> QED
    BY <1>2, <1>b, <1>c, <2>1 DEF OnTheWay, PipeStep, PipeState
<1>3. CASE Leave \/ StopCapture \/ Join
  BY <1>1, <1>3 DEF Leave, StopCapture, Join, Ended
<1>4. CASE ProcessLoop \/ ReturnBuffer \/ CheckSpace \/ ClearFull
  BY <1>1, <1>2, <1>4 DEF ProcessLoop, ReturnBuffer, CheckSpace, ClearFull, Ended, InHand
<1>5. CASE WriteOutput
  <2>1. CASE ppc' = "process"
    BY <1>2, <1>5, <1>b, <2>1 DEF WriteOutput, Ended, InHand
  <2>2. CASE ppc' = "out"
    BY <1>1, <1>5, <2>2 DEF WriteOutput, Ended
  <2> QED
    BY <1>5, <2>1, <2>2 DEF WriteOutput
<1>6. CASE Pop
  <2>1. CASE fifo = <<>>
    BY <1>2, <1>6, <2>1 DEF Pop, Ended, InHand
  <2>2. CASE fifo # <<>>
    <3>1. /\ pbuf' = Head(fifo) /\ fifo' = Tail(fifo) /\ ppc = "pop" /\ ppc' = "write"
          /\ UNCHANGED processed
      BY <1>6, <2>2 DEF Pop
    <3>2. ~Ended /\ ~Ended' /\ InHand = <<>> /\ InHand' = <<block[Head(fifo)]>>
      BY <1>b, <3>1 DEF Ended, InHand
    <3>3. /\ Len(fifo) \in Nat \ {0} /\ DOMAIN fifo = 1..Len(fifo) /\ Head(fifo) = fifo[1]
          /\ DOMAIN Tail(fifo) = 1..Len(fifo) - 1
          /\ \A i \in 1..Len(fifo) - 1 : Tail(fifo)[i] = fifo[i+1]
      BY <2>2 DEF TypeOK
    <3>4. Queued # <<>> /\ Head(Queued) = block[Head(fifo)]
      BY <1>t, <3>3 DEF Queued
    <3>5. Queued' = [i \in 1..Len(fifo) - 1 |-> block[fifo[i+1]]]
      BY <1>b, <3>1, <3>3 DEF Queued
    <3>6. Tail(Queued) = [i \in 1..Len(fifo) - 1 |-> Queued[i+1]]
      BY <1>t, <3>4, TailIsFunction
    <3>7. \A i \in 1..Len(fifo) - 1 : Queued[i+1] = block[fifo[i+1]]
      BY <3>3 DEF Queued
    <3>8. Queued' = Tail(Queued)
      BY <3>5, <3>6, <3>7
    <3>9. OnTheWay = Line(<<>>, Queued, Coming)
      BY <3>2 DEF OnTheWay, Line
    <3>10. OnTheWay' = Line(<<Head(Queued)>>, Tail(Queued), Coming)
      BY <1>c, <3>2, <3>4, <3>8 DEF OnTheWay, Line
    <3>11. OnTheWay' = OnTheWay
      BY <1>t, <3>4, <3>9, <3>10, LineMiddle
    <3> QED
      BY <1>b, <3>1, <3>2, <3>11 DEF PipeStep, PipeState
  <2> QED
    BY <2>1, <2>2
<1>7. CASE Process
  <2>1. /\ ppc = "process" /\ ppc' = "return" /\ UNCHANGED <<pbuf, fifo>>
        /\ processed' = Append(processed, block[pbuf])
    BY <1>7 DEF Process
  <2>2. ~Ended /\ ~Ended' /\ InHand = <<block[pbuf]>> /\ InHand' = <<>> /\ Queued' = Queued
    BY <1>b, <2>1 DEF Ended, InHand, Queued
  <2>3. block[pbuf] \in 0..Items
    BY <1>t, <2>1 DEF TypeOK, MainHolds
  <2>4. /\ OnTheWay = Line(<<block[pbuf]>>, Queued, Coming)
        /\ OnTheWay' = Line(<<>>, Queued, Coming)
    BY <1>c, <2>2 DEF OnTheWay, Line
  <2>5. \A x \in 0..Items :
          /\ Line(<<x>>, Queued, Coming) # <<>>
          /\ Head(Line(<<x>>, Queued, Coming)) = x
          /\ Tail(Line(<<x>>, Queued, Coming)) = Line(<<>>, Queued, Coming)
    BY <1>t, LineStart
  <2>6. OnTheWay # <<>> /\ Head(OnTheWay) = block[pbuf] /\ OnTheWay' = Tail(OnTheWay)
    BY <2>3, <2>4, <2>5
  <2> QED
    BY <1>b, <2>1, <2>2, <2>6 DEF PipeStep, Pipe!Next, Pipe!Deliver
<1> QED
  BY <1>3, <1>4, <1>5, <1>6, <1>7 DEF MainStep

LEMMA NextPipe ==
  ASSUME TypeOK, Room, Owned, [Next]_vars
  PROVE  PipeStep
<1>1. CASE SpuriousWakeup
  <2>1. UNCHANGED <<blocksRead, processed, fifo, block, cbuf, pbuf>>
    BY <1>1 DEF SpuriousWakeup, flags, queues, capture, main
  <2>2. InHand' = InHand /\ Coming' = Coming /\ Ended' = Ended
    BY <1>1, <2>1 DEF SpuriousWakeup, InHand, Coming, Ended, capture, main
  <2>3. Queued' = Queued
    BY <2>1 DEF Queued
  <2> QED
    BY <2>1, <2>2, <2>3 DEF OnTheWay, PipeStep, PipeState
<1>2. CASE UNCHANGED vars
  <2>1. UNCHANGED <<blocksRead, processed, fifo, block, cbuf, pbuf, cpc, ppc>>
    BY <1>2 DEF vars, flags, queues, capture, main
  <2> QED
    BY <2>1 DEF OnTheWay, InHand, Queued, Coming, Ended, PipeStep, PipeState
<1> QED
  BY <1>1, <1>2, CapturePipe, MainPipe DEF Next

\* The blocks are analysed in the order in which they are read, each at most once and
\* none skipped but those a full queue of a pipe drops.
THEOREM CaptureIsPipe == Spec => IsPipe
<1>1. Init => Pipe!Init
  <2> SUFFICES ASSUME Init PROVE Pipe!Init
    OBVIOUS
  <2>1. ~Ended /\ InHand = <<>> /\ Coming = <<>> /\ Queued = <<>>
    BY DEF Init, Ended, InHand, Coming, Queued
  <2>2. OnTheWay = <<>>
    BY <2>1 DEF OnTheWay
  <2> QED
    BY <2>1, <2>2 DEF Init, Pipe!Init
<1>2. TypeOK /\ Room /\ Owned /\ [Next]_vars => [Pipe!Next]_(Pipe!vars)
  BY NextPipe DEF PipeStep, PipeState, Pipe!vars
<1> QED
  BY <1>1, <1>2, Typing, RoomAlways, OwnedAlways, PTL DEF Spec, IsPipe, Pipe!Spec
----------------------------------------------------------------------------
(* A file that is read without a failure. *)

Numbers(n) == [i \in 1..n |-> i]

\* Until the input ends both threads go on, and the main thread ends after the other.
Control ==
  /\ ~b_error
  /\ cpc \in {"exit", "wake", "done"} => b_eof
  /\ b_eof => blocksRead = Items
  /\ ~b_alive \/ Ended => cpc \in {"wake", "done"}

Sorted ==
  /\ ~Ended => processed \o OnTheWay = Numbers(blocksRead)
  /\ Ended => processed = Numbers(Items)

Copied ==
  Output => written = IF ppc = "process" THEN Append(processed, block[pbuf]) ELSE processed

Smooth == FileMode /\ Failures = {} => Control /\ Sorted /\ Copied

LEMMA NextControl ==
  ASSUME FileMode, Failures = {}, TypeOK, Control, [Next]_vars
  PROVE  Control'
<1> USE DEF Control, Ended, flags, queues, capture, main
<1>1. CASE CaptureLoop \/ TakeBuffer \/ CheckSize \/ SetFull \/ WaitWhileFull
  BY <1>1 DEF CaptureLoop, TakeBuffer, CheckSize, SetFull, WaitWhileFull
<1>2. CASE ReadInput
  BY <1>2, CaptureAssumption DEF ReadInput, GiveBack, TypeOK
<1>3. CASE Discard \/ CaptureExit
  BY <1>3 DEF Discard, GiveBack, CaptureExit
<1>4. CASE Push \/ Wake
  BY <1>4 DEF Push, Wake, WakeMain
<1>5. CASE ProcessLoop \/ Pop \/ WriteOutput \/ Process \/ ReturnBuffer \/ CheckSpace
  BY <1>5 DEF ProcessLoop, Pop, WriteOutput, Process, ReturnBuffer, CheckSpace
<1>6. CASE ClearFull \/ Leave \/ StopCapture \/ Join
  BY <1>6 DEF ClearFull, Leave, StopCapture, Join
<1>7. CASE SpuriousWakeup
  BY <1>7 DEF SpuriousWakeup
<1>8. CASE UNCHANGED vars
  BY <1>8 DEF vars
<1> QED
  BY <1>1, <1>2, <1>3, <1>4, <1>5, <1>6, <1>7, <1>8 DEF Next, CaptureStep, MainStep

LEMMA NumbersGrow ==
  ASSUME NEW n \in Nat
  PROVE  Numbers(n) \o <<n + 1>> = Numbers(n + 1)
<1>1. Numbers(n) \in Seq(Nat) /\ Len(Numbers(n)) = n
  <2>1. Numbers(n) \in [1..n -> Nat]
    BY DEF Numbers
  <2>2. Numbers(n) \in Seq(Nat)
    BY <2>1, SeqDef
  <2> QED
    BY <2>1, <2>2, LenProperties
<1>2. Numbers(n + 1) \in Seq(Nat) /\ Len(Numbers(n + 1)) = n + 1
  <2>1. Numbers(n + 1) \in [1..n + 1 -> Nat]
    BY DEF Numbers
  <2>2. Numbers(n + 1) \in Seq(Nat)
    BY <2>1, SeqDef
  <2> QED
    BY <2>1, <2>2, LenProperties
<1>3. <<n + 1>> \in Seq(Nat) /\ Len(<<n + 1>>) = 1 /\ <<n + 1>>[1] = n + 1
  OBVIOUS
<1>4. /\ Numbers(n) \o <<n + 1>> \in Seq(Nat)
      /\ Len(Numbers(n) \o <<n + 1>>) = n + 1
      /\ \A i \in 1..n + 1 : (Numbers(n) \o <<n + 1>>)[i] =
                               IF i <= n THEN Numbers(n)[i] ELSE <<n + 1>>[i - n]
  BY <1>1, <1>3, ConcatProperties
<1>5. \A i \in 1..n + 1 : (Numbers(n) \o <<n + 1>>)[i] = Numbers(n + 1)[i]
  BY <1>3, <1>4 DEF Numbers
<1> QED
  BY <1>2, <1>4, <1>5, SeqEqual

\* The blocks on their way are blocks.
WayOK == OnTheWay \in Seq(0..Items)

LEMMA WayTypes ==
  ASSUME TypeOK
  PROVE  WayOK
<1>1. Line(InHand, Queued, Coming) \in Seq(0..Items)
  BY PartTypes, LineIsSeq
<1>2. <<>> \in Seq(0..Items)
  OBVIOUS
<1> QED
  BY <1>1, <1>2 DEF WayOK, OnTheWay, Line

\* A pipe that drops nothing keeps what is analysed and what is on its way in order.
LEMMA PipeSorted ==
  ASSUME FileMode, PipeStep, ~Ended, ~Ended', blocksRead \in Nat,
         processed \in Seq(0..Items), OnTheWay \in Seq(0..Items), OnTheWay' \in Seq(0..Items),
         processed \o OnTheWay = Numbers(blocksRead), blocksRead' \in 0..Items
  PROVE  processed' \o OnTheWay' = Numbers(blocksRead')
<1>1. CASE UNCHANGED PipeState
  BY <1>1 DEF PipeState
<1>2. CASE Pipe!Read
  <2>1. /\ OnTheWay' = Append(OnTheWay, blocksRead + 1) /\ processed' = processed
        /\ blocksRead' = blocksRead + 1
    BY <1>2 DEF Pipe!Read
  <2>2. OnTheWay' = OnTheWay \o <<blocksRead + 1>> /\ <<blocksRead + 1>> \in Seq(0..Items)
    BY <2>1, AppendedIsConcat
  <2>3. processed' \o OnTheWay' = Numbers(blocksRead) \o <<blocksRead + 1>>
    BY <2>1, <2>2, ConcatAssociative
  <2>4. Numbers(blocksRead) \o <<blocksRead + 1>> = Numbers(blocksRead + 1)
    BY NumbersGrow
  <2> QED
    BY <2>1, <2>3, <2>4
<1>3. CASE Pipe!Deliver
  <2>1. /\ OnTheWay # <<>> /\ OnTheWay' = Tail(OnTheWay)
        /\ processed' = Append(processed, Head(OnTheWay)) /\ blocksRead' = blocksRead
    BY <1>3 DEF Pipe!Deliver
  <2>2. /\ Head(OnTheWay) \in 0..Items /\ Tail(OnTheWay) \in Seq(0..Items)
        /\ <<Head(OnTheWay)>> \o Tail(OnTheWay) = OnTheWay
    BY <2>1, HeadThenTail
  <2>3. processed' = processed \o <<Head(OnTheWay)>> /\ <<Head(OnTheWay)>> \in Seq(0..Items)
    BY <2>1, <2>2, AppendedIsConcat
  <2>4. processed' \o OnTheWay' = processed \o (<<Head(OnTheWay)>> \o Tail(OnTheWay))
    BY <2>1, <2>3, ConcatAssociative
  <2> QED
    BY <2>1, <2>2, <2>4
<1> QED
  BY <1>1, <1>2, <1>3 DEF PipeStep, Pipe!Next, Pipe!Drop, Pipe!End

LEMMA NextSorted ==
  ASSUME FileMode, Failures = {}, TypeOK, TypeOK', WayOK, WayOK', Room, Owned, Control, Sorted,
         [Next]_vars
  PROVE  Sorted'
<1>t. /\ processed \in Seq(0..Items) /\ OnTheWay \in Seq(0..Items) /\ OnTheWay' \in Seq(0..Items)
      /\ blocksRead \in Nat /\ blocksRead' \in 0..Items
  BY CaptureAssumption DEF TypeOK, WayOK
<1>1. CASE ~Ended'
  <2>1. ~Ended
    BY <1>1 DEF Ended, Next, CaptureStep, MainStep, SpuriousWakeup, vars, flags, queues,
       capture, main, CaptureLoop, TakeBuffer, ReadInput, CheckSize, SetFull, WaitWhileFull,
       Discard, Push, CaptureExit, Wake, WakeMain, ProcessLoop, Pop, WriteOutput, Process,
       ReturnBuffer, CheckSpace, ClearFull, Leave, StopCapture, Join
  <2> QED
    BY <1>1, <1>t, <2>1, NextPipe, PipeSorted DEF Sorted
<1>2. CASE Ended /\ Ended'
  <2>1. UNCHANGED processed
    BY <1>2 DEF Ended, Next, CaptureStep, MainStep, SpuriousWakeup, vars, flags, queues,
       capture, main, CaptureLoop, TakeBuffer, ReadInput, CheckSize, SetFull, WaitWhileFull,
       Discard, Push, CaptureExit, Wake, WakeMain, ProcessLoop, Pop, WriteOutput, Process,
       ReturnBuffer, CheckSpace, ClearFull, Leave, StopCapture, Join
  <2> QED
    BY <1>2, <2>1 DEF Sorted
<1>3. CASE ~Ended /\ Ended'
  <2>1. ProcessLoop /\ ppc' = "out"
    BY <1>3 DEF Ended, Next, CaptureStep, MainStep, SpuriousWakeup, vars, flags, queues,
       capture, main, CaptureLoop, TakeBuffer, ReadInput, CheckSize, SetFull, WaitWhileFull,
       Discard, Push, CaptureExit, Wake, WakeMain, ProcessLoop, Pop, WriteOutput, Process,
       ReturnBuffer, CheckSpace, ClearFull, Leave, StopCapture, Join
  <2>2. fifo = <<>> /\ cpc \in {"wake", "done"} /\ blocksRead = Items /\ UNCHANGED processed
        /\ ppc = "loop"
    BY <2>1 DEF ProcessLoop, Control
  <2>3. InHand = <<>> /\ Queued = <<>> /\ Coming = <<>>
    BY <2>2 DEF InHand, Queued, Coming
  <2>4. OnTheWay = <<>>
    BY <2>3 DEF OnTheWay
  <2>5. processed \o <<>> = processed
    BY <1>t, ConcatEmptySeq
  <2> QED
    BY <1>3, <2>2, <2>4, <2>5 DEF Sorted
<1> QED
  BY <1>1, <1>2, <1>3

LEMMA NextCopied ==
  ASSUME FileMode, Failures = {}, TypeOK, Owned, Copied, [Next]_vars
  PROVE  Copied'
<1> USE DEF flags, queues, capture, main
<1>1. CASE CaptureStep \/ SpuriousWakeup \/ UNCHANGED vars
  <2>1. /\ UNCHANGED <<written, processed, pbuf>>
        /\ ppc' = ppc \/ (ppc = "sleep" /\ ppc' = "pop")
    BY <1>1 DEF SpuriousWakeup, vars, CaptureStep, CaptureLoop, TakeBuffer, ReadInput,
       CheckSize, SetFull, WaitWhileFull, Discard, Push, CaptureExit, Wake, WakeMain
  <2>2. CASE ppc = "process"
    <3>1. pbuf \in DOMAIN block /\ block \in Seq(0..Items) /\ Len(block) \in Nat
          /\ DOMAIN block = 1..Len(block) /\ pbuf # cbuf
      BY <2>2 DEF TypeOK, Buffers, MainHolds, Owned, Finished, Placed, Apart
    <3>2. \/ block' = block \/ block' = Append(block, 0)
          \/ block' = [block EXCEPT ![cbuf] = blocksRead + 1]
      BY <1>1 DEF SpuriousWakeup, vars, CaptureStep, CaptureLoop, TakeBuffer, ReadInput,
         CheckSize, SetFull, WaitWhileFull, Discard, Push, CaptureExit, Wake
    <3>3. block'[pbuf] = block[pbuf]
      BY <3>1, <3>2
    <3> QED
      BY <2>1, <2>2, <3>3 DEF Copied
  <2>3. CASE ppc # "process"
    BY <2>1, <2>3 DEF Copied
  <2> QED
    BY <2>2, <2>3
<1>2. CASE MainStep
  <2>1. CASE WriteOutput
    BY <2>1 DEF WriteOutput, Copied
  <2>2. CASE Process
    BY <2>2 DEF Process, Copied
  <2>3. CASE ProcessLoop \/ Pop \/ ReturnBuffer \/ CheckSpace \/ ClearFull \/ Leave
             \/ StopCapture \/ Join
    <3>1. UNCHANGED <<written, processed>> /\ ppc # "process" /\ ppc' # "process"
      BY <2>3 DEF ProcessLoop, Pop, ReturnBuffer, CheckSpace, ClearFull, Leave, StopCapture,
         Join
    <3> QED
      BY <3>1 DEF Copied
  <2> QED
    BY <1>2, <2>1, <2>2, <2>3 DEF MainStep
<1> QED
  BY <1>1, <1>2 DEF Next

\* A program that ends with nothing having failed has analysed the whole file in order,
\* and has written it if there is an output.
THEOREM FileIsWhole == Spec => []WholeFile
<1>1. Init => Smooth
  <2> SUFFICES ASSUME Init PROVE Control /\ Sorted /\ Copied
    BY DEF Smooth
  <2>1. ~Ended /\ InHand = <<>> /\ Coming = <<>> /\ Queued = <<>>
    BY DEF Init, Ended, InHand, Coming, Queued
  <2>2. processed \o OnTheWay = <<>> /\ Numbers(blocksRead) = <<>>
    BY <2>1 DEF OnTheWay, Init, Numbers
  <2> QED
    BY <2>1, <2>2 DEF Init, Control, Sorted, Copied
<1>w. TypeOK => WayOK
  BY WayTypes
<1>2. /\ TypeOK /\ TypeOK' /\ WayOK /\ WayOK' /\ Room /\ Owned /\ Smooth /\ [Next]_vars
      => Smooth'
  BY NextControl, NextSorted, NextCopied DEF Smooth
<1>3. Smooth => WholeFile
  BY DEF Smooth, Sorted, Copied, WholeFile, Ended, Numbers
<1> QED
  BY <1>w, <1>1, <1>2, <1>3, Typing, RoomAlways, OwnedAlways, PTL DEF Spec
=============================================================================
