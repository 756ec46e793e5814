---------------------------- MODULE MCQuerySpans ----------------------------
(* QuerySpans for TLC; the instances are in the .cfg files. *)
EXTENDS QuerySpans

(* Scopes are only compared with each other. *)
ScopeSymmetry == Permutations(Scopes)
=============================================================================
