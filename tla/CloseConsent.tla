---------------------------- MODULE CloseConsent ----------------------------
(***************************************************************************)
(* What the close protocol promises, one window kind at a time and without *)
(* ids, generations or staleness: a window with something to lose closes   *)
(* on a consent, a consent answers a question, and a question is only      *)
(* about the edits made before it (Docs/Design.md, "Close, focus and       *)
(* resource ownership").                                                   *)
(***************************************************************************)
EXTENDS Naturals

CONSTANT Kinds

VARIABLES
    shown,    \* the window is open
    edits,    \* edits of the instance so far
    asked,    \* a question is out
    covers,   \* the edits that question is about
    consented \* what the window may close on: nothing, the edits of a moment when
              \* nobody had to be asked, or the edits an answer was about

vars == <<shown, edits, asked, covers, consented>>

Nothing == [given |-> "no", revision |-> 0]

Init ==
    /\ shown = [k \in Kinds |-> FALSE]
    /\ edits = [k \in Kinds |-> 0]
    /\ asked = [k \in Kinds |-> FALSE]
    /\ covers = [k \in Kinds |-> 0]
    /\ consented = [k \in Kinds |-> Nothing]

Open(k) ==
    /\ ~shown[k]
    /\ shown' = [shown EXCEPT ![k] = TRUE]
    /\ edits' = [edits EXCEPT ![k] = 0]
    /\ consented' = [consented EXCEPT ![k] = Nothing]
    /\ UNCHANGED <<asked, covers>>

Edit(k) ==
    /\ shown[k]
    /\ edits' = [edits EXCEPT ![k] = @ + 1]
    /\ UNCHANGED <<shown, asked, covers, consented>>

\* Only an unasked question, or one about older edits, is asked (anew).
Ask(k) ==
    /\ shown[k]
    /\ ~asked[k] \/ covers[k] # edits[k]
    /\ asked' = [asked EXCEPT ![k] = TRUE]
    /\ covers' = [covers EXCEPT ![k] = edits[k]]
    /\ UNCHANGED <<shown, edits, consented>>

\* The question is answered with a cancel, or is found to be out of date.
Withdraw(k) ==
    /\ asked[k]
    /\ asked' = [asked EXCEPT ![k] = FALSE]
    /\ covers' = [covers EXCEPT ![k] = 0]
    /\ UNCHANGED <<shown, edits, consented>>

\* An answered question consents to what it was about, which must be all
\* there is.
Consent(k) ==
    /\ shown[k]
    /\ asked[k]
    /\ covers[k] = edits[k]
    /\ asked' = [asked EXCEPT ![k] = FALSE]
    /\ covers' = [covers EXCEPT ![k] = 0]
    /\ consented' = [consented EXCEPT ![k] = [given |-> "asked", revision |-> edits[k]]]
    /\ UNCHANGED <<shown, edits>>

\* The window has nothing to lose now; a question about older edits goes.
Allow(k) ==
    /\ shown[k]
    /\ ~asked[k] \/ covers[k] # edits[k]
    /\ asked' = [asked EXCEPT ![k] = FALSE]
    /\ covers' = [covers EXCEPT ![k] = 0]
    /\ consented' = [consented EXCEPT ![k] = [given |-> "freely", revision |-> edits[k]]]
    /\ UNCHANGED <<shown, edits>>

Close(k) ==
    /\ shown[k]
    /\ shown' = [shown EXCEPT ![k] = FALSE]
    /\ asked' = [asked EXCEPT ![k] = FALSE]
    /\ covers' = [covers EXCEPT ![k] = 0]
    /\ UNCHANGED <<edits, consented>>

Next ==
    \E k \in Kinds :
        Open(k) \/ Edit(k) \/ Ask(k) \/ Withdraw(k) \/ Consent(k) \/ Allow(k)
        \/ Close(k)

Spec == Init /\ [][Next]_vars

=============================================================================
