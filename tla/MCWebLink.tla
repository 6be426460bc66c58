----------------------------- MODULE MCWebLink -----------------------------
(***************************************************************************)
(* WebLink on small instances: a command and a query while two fields      *)
(* change, or a window with a player; two connections, two engines.        *)
(***************************************************************************)
EXTENDS WebLink, TLC

CONSTANTS c1, q1, f1, f2, w1

NoRequest  == {}
OneCommand == {c1}
OneQuery   == {q1}
NoField    == {}
TwoFields  == {f1, f2}
OneByOne   == {{f} : f \in Fields}
NoWindow   == {}
OneWindow  == {w1}

FieldSymmetry == Permutations(Fields)

=============================================================================
