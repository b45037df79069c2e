------------------------------ MODULE MCTokens ------------------------------
(***************************************************************************)
(* Two users, two clients that may belong to either.                       *)
(***************************************************************************)
EXTENDS Tokens, TLC

CONSTANTS u1, u2, c1, c2

Symmetry == Permutations({u1, u2}) \cup Permutations({c1, c2})

=============================================================================
