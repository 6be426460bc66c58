---------------------------- MODULE MCQuerySubs ----------------------------
(* Small instances of QuerySubs for TLC. *)
EXTENDS QuerySubs, TLC

ParamSymmetry == Permutations(Params)
=============================================================================
