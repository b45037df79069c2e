----------------------------- MODULE MCDocuments -----------------------------
(***************************************************************************)
(* Two users, up to three accounts and two cards.                          *)
(***************************************************************************)
EXTENDS Documents, TLC

CONSTANTS u1, u2, p1

Symmetry == Permutations({u1, u2})

=============================================================================
