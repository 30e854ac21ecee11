------------------------------ MODULE MCWebPorts ------------------------------
(* Two tasks that compete for one source and one destination. *)
EXTENDS WebPorts
=============================================================================
