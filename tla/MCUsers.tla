------------------------------- MODULE MCUsers -------------------------------
(***************************************************************************)
(* Two users; the webhook beside runbot.                                   *)
(***************************************************************************)
EXTENDS Users, TLC

CONSTANTS u1, u2, webhook, runbot, p1, k1, k2

Symmetry == Permutations({u1, u2}) \cup Permutations({k1, k2})

=============================================================================
