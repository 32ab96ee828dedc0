--------------------------- MODULE MCScanProcedure ---------------------------
(* Instances of ScanProcedure for TLC. *)
EXTENDS ScanProcedure

MCPid == [p \in Programs |-> 100 + p]
SharedPid == [p \in Programs |-> 100]
AnyPat(v, ps) == [version |-> v, current |-> TRUE, programs |-> ps]

\* One PAT, always the same, or one that gains and loses a program.
SteadyPats == {AnyPat(1, Programs)}
ChangingPats == {AnyPat(1, Programs), AnyPat(2, {1})}
=============================================================================
