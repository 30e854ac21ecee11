-------------------------- MODULE MCInboundStreams --------------------------
(* Queues of two, so that one can be full while another is not. *)
EXTENDS InboundStreams
=============================================================================
