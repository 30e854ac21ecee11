---------------------------- MODULE MCAlsaRouting ----------------------------
(* Two writers and one virtual destination, subscribed in every way.  Nothing *)
(* tells the writers apart, so that they may be exchanged.                    *)
EXTENDS AlsaRouting, TLC

MCSymmetry == Permutations(Writers)
=============================================================================
