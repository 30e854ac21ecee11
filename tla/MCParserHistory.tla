--------------------------- MODULE MCParserHistory ---------------------------
(* Every stream of MaxWire bytes over one or two bytes of each class. *)
EXTENDS ParserHistory

MCBytes == {1, 2, \h90, \hC0, \hF0, \hF2, \hF4, \hF6, \hF7, \hF8}
=============================================================================
