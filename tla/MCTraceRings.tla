----------------------------- MODULE MCTraceRings -----------------------------
(***************************************************************************)
(* TraceRings with two threads, of which the first may fill its ring, and  *)
(* a caller that starts two sessions.                                      *)
(***************************************************************************)
EXTENDS TraceRings

CONSTANTS t1, t2, c1

TwoThreads == {t1, t2}
OneCaller == {c1}
FiveAndOne == [t \in Threads |-> IF t = t1 THEN 5 ELSE 1]

=============================================================================
