---------------------------- MODULE MCAlsaPorts ----------------------------
(* One other client, whose ports are sources, or sources and destinations. *)
EXTENDS AlsaPorts

CONSTANT c1

MCClientOf == [p \in Ports |-> c1]
MCCapSets  == {{"source"}, {"source", "destination"}}
=============================================================================
