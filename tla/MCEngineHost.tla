---------------------------- MODULE MCEngineHost ----------------------------
(***************************************************************************)
(* EngineHost on small instances: a worker whose wakes merge with the      *)
(* first one, and two commands with a listener or a command and a query.   *)
(***************************************************************************)
EXTENDS EngineHost, TLC

CONSTANTS c1, c2, q1, w1, l1

TwoCommands == {c1, c2}
OneQuery    == {q1}
OneWorker   == {w1}
OneListener == {l1}
CommandAndQuery == {c1, q1}

\* One scenario per behaviour.  What is not part of it never starts, which
\* nothing makes it do.
Updates == \A q \in Queries : phase[q] = "new"
Asking  == phase[c2] = "new" /\ \A l \in Listeners : listening[l] = "new"
OneScenario == Updates \/ Asking

=============================================================================
