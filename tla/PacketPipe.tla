------------------------------ MODULE PacketPipe ------------------------------
(***************************************************************************)
(* What dvbinfo promises about its input: the blocks are analysed in the   *)
(* order they were read, each at most once. Nothing is skipped, except that*)
(* a pipe from a socket may drop the newest block when the queue is full.  *)
(***************************************************************************)
EXTENDS Integers, Sequences

CONSTANTS Lossy, Threshold

VARIABLES
  read,       \* the number of blocks read
  queue,      \* the blocks read and not yet analysed
  delivered,  \* the blocks analysed
  open        \* has the analysis not ended?

vars == <<read, queue, delivered, open>>

Init == read = 0 /\ queue = <<>> /\ delivered = <<>> /\ open = TRUE

Read ==
  /\ read' = read + 1
  /\ queue' = IF open THEN Append(queue, read + 1) ELSE queue
  /\ UNCHANGED <<delivered, open>>

Drop ==
  /\ open /\ Lossy /\ Len(queue) > Threshold
  /\ queue' = SubSeq(queue, 1, Len(queue) - 1)
  /\ UNCHANGED <<read, delivered, open>>

Deliver ==
  /\ open /\ queue # <<>>
  /\ delivered' = Append(delivered, Head(queue))
  /\ queue' = Tail(queue)
  /\ UNCHANGED <<read, open>>

End ==
  /\ open' = FALSE /\ queue' = <<>>
  /\ UNCHANGED <<read, delivered>>

Next == Read \/ Drop \/ Deliver \/ End

Spec == Init /\ [][Next]_vars
=============================================================================
