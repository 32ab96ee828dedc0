---------------------------- MODULE SectionChannel ----------------------------
(***************************************************************************)
(* What a decoder of sections promises: it delivers sections that were     *)
(* sent in full, in their order, each at most once. It may miss some.      *)
(***************************************************************************)
EXTENDS Integers, SequencesExt

CONSTANT N            \* how many sections are sent; a section is its number

VARIABLES completed,  \* how many of them have been sent in full
          delivered   \* the sections delivered

vars == <<completed, delivered>>

Init == completed = 0 /\ delivered = <<>>

InOrder(s) == \A i, j \in DOMAIN s : i < j => s[i] < s[j]

\* A packet ends any number of sections.
Packet ==
  /\ completed' \in completed..N
  /\ IsPrefix(delivered, delivered')
  /\ InOrder(delivered') /\ \A i \in DOMAIN delivered' : delivered'[i] \in 1..completed'

Next == Packet

Spec == Init /\ [][Next]_vars
=============================================================================
