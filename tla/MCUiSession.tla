----------------------------- MODULE MCUiSession -----------------------------
(***************************************************************************)
(* UiSession with two window kinds, which are symmetric, two draft values  *)
(* and one reported presentation; every kind is reopened once, and an      *)
(* instance is edited at most twice, so that its drafts can be once more   *)
(* what they were when a question was asked.                               *)
(***************************************************************************)
EXTENDS UiSession, TLC

CONSTANTS
    main, settings, empty, typed, normal

TwoKinds  == {main, settings}
TwoDrafts == {empty, typed}
OneFact   == {normal}

KindSymmetry == Permutations(TwoKinds)

=============================================================================
