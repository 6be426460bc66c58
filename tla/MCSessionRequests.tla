------------------------- MODULE MCSessionRequests -------------------------
(***************************************************************************)
(* SessionRequests on small instances: two entries of the control channel  *)
(* with two commands each and a window that closes and opens again, or two *)
(* entries of a host with one command each, while the page loses its       *)
(* connection and opens a second one.                                      *)
(***************************************************************************)
EXTENDS SessionRequests, TLC

CONSTANTS
    c1, c2, c3, c4, main, empty, normal

TwoLocal == {c1, c2}
TwoForwarded == {c3, c4}
OneKind == {main}
OneDraft == {empty}
OneFact == {normal}

\* One sort of entry per behaviour: the others never call.
OnControlChannel == link = 0 /\ \A c \in Forwarded : caller[c].number = 0
OnPage ==
    /\ generation[main] <= 1
    /\ \A c \in Callers : caller[c].number <= IF c \in Forwarded THEN 1 ELSE 0
OneSort == OnControlChannel \/ OnPage

CallerSymmetry ==
    {f @@ g : f \in Permutations(TwoLocal), g \in Permutations(TwoForwarded)}

=============================================================================
