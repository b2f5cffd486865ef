---------------------------- MODULE MCPosDrafts ----------------------------
(* Small instances of PosDrafts for TLC.                                    *)
EXTENDS PosDrafts, TLC

CONSTANTS s, t   \* businesses

BusinessSymmetry == Permutations(Businesses)
=============================================================================
