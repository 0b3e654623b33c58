----------------------------- MODULE MCChatTurn -----------------------------
(* Turns that create sessions, answer in each other's, and in one made empty. *)
EXTENDS ChatTurn
=============================================================================
