--------------------------- MODULE MCCoreMidiPorts ---------------------------
(* One source, and three destinations, one of which may be virtual at first; *)
(* nothing tells the two others apart.                                       *)
EXTENDS CoreMidiPorts, TLC

Symmetry == Permutations(Destinations \ (Virtual \cup Connectable))
=============================================================================
