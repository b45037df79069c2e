------------------------------ MODULE MCFriends ------------------------------
(***************************************************************************)
(* Two users, and the two processes that handle their calls.               *)
(***************************************************************************)
EXTENDS Friends, TLC

CONSTANTS u1, u2, gunicorn, runbot

=============================================================================
