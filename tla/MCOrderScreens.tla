--------------------------- MODULE MCOrderScreens ---------------------------
(* Small instances of OrderScreens for TLC.                                *)
EXTENDS OrderScreens, TLC

CONSTANTS a, b   \* orders

OrderSymmetry == Permutations(Orders)
=============================================================================
