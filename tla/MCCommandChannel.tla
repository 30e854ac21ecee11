-------------------------- MODULE MCCommandChannel --------------------------
(* Two tasks that compete for one destination. *)
EXTENDS CommandChannel
=============================================================================
