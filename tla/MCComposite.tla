---------------------------- MODULE MCComposite ----------------------------
(***************************************************************************)
(* Composite with a module that always runs and two that can be switched   *)
(* off: the reader depends on the feed, the feed on the base.              *)
(***************************************************************************)
EXTENDS Composite

CONSTANTS base, feed, reader, old, new

AllModules  == {base, feed, reader}
ListedOrder == <<base, feed, reader>>
NeedsOf     == [m \in AllModules |-> IF m = reader THEN {feed} ELSE IF m = feed THEN {base} ELSE {}]
Switchable  == {feed, reader}
TwoValues   == {old, new}

=============================================================================
