--------------------------- MODULE MCStreamAnalysis ---------------------------
(* Two programs that swap, share and leave their PIDs.                     *)
EXTENDS StreamAnalysis

MCLists == {<<<<1, 32>>, <<2, 33>>>>, <<<<1, 33>>, <<2, 33>>>>, <<<<1, 33>>>>}

MCTraffics == {{0, 32, 33}, {2, 17, 20}, {20, 64, Null}}
=============================================================================
