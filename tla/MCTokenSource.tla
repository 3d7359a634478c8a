---------------------------- MODULE MCTokenSource ----------------------------
(* Model values and symmetry for TokenSource. *)
EXTENDS TokenSource, TLC

CONSTANTS c1, c2

Perms == Permutations(Callers)
=============================================================================
