-------------------------- MODULE MCTransferDialog --------------------------
(***************************************************************************)
(* Small instances of TransferDialog for TLC.                              *)
(***************************************************************************)
EXTENDS TransferDialog, TLC

CONSTANTS me, f1, f2, p1, p2

Decimal(d, e) == [digits |-> d, exponent |-> e]

\* 0.01, 0.017 (two hundredths), 0.005 (none), 10 (too large for an account),
\* 1e2 (too large for the context), as the constants of the runs have it.
SomeTexts == {Decimal(1, -2), Decimal(17, -3), Decimal(5, -3), Decimal(10, 0), Decimal(1, 2)}

\* The user has two accounts, one friend has one, the other friend none.
FewAccounts ==
    (1 :> [owner |-> me, balance |-> 2]) @@ (2 :> [owner |-> me, balance |-> 1])
    @@ (3 :> [owner |-> f1, balance |-> 0])

\* One account each.
TwoAccounts == (1 :> [owner |-> me, balance |-> 2]) @@ (2 :> [owner |-> f1, balance |-> 0])

\* Each friend has an account.
ThreeAccounts ==
    (1 :> [owner |-> me, balance |-> 2]) @@ (2 :> [owner |-> f1, balance |-> 0])
    @@ (3 :> [owner |-> f2, balance |-> 1])

=============================================================================
