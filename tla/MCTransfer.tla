----------------------------- MODULE MCTransfer -----------------------------
(***************************************************************************)
(* Small instances of Transfer for TLC.                                    *)
(***************************************************************************)
EXTENDS Transfer, TLC

CONSTANTS a1, a2, a3, w1, w2, w3, p1

\* Two accounts, the second one close to the limit of its column.
TwoAccounts == (1 :> 2) @@ (2 :> 3)

Symmetry2 == Permutations({w1, w2}) \cup Permutations({a1, a2})

=============================================================================
