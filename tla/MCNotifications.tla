---------------------------- MODULE MCNotifications ----------------------------
(***************************************************************************)
(* Two users, the first with two accounts.                                 *)
(***************************************************************************)
EXTENDS Notifications, TLC

CONSTANTS u1, u2

ThreeAccounts == (1 :> u1) @@ (2 :> u1) @@ (3 :> u2)

=============================================================================
