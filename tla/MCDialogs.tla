----------------------------- MODULE MCDialogs -----------------------------
(***************************************************************************)
(* The bot's conversations put into Dialogs, for TLC.                      *)
(***************************************************************************)
EXTENDS Dialogs, Conversations

CONSTANTS c1, c2, c3
=============================================================================
