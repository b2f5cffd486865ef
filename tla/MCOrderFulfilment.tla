-------------------------- MODULE MCOrderFulfilment --------------------------
(* Small instances of OrderFulfilment for TLC.                             *)
EXTENDS OrderFulfilment, TLC

CONSTANTS i1, i2, s1, s2, k1, k2

\* Items are interchangeable, and so are shipments and workers.
ItemShipmentSymmetry == Permutations({i1, i2}) \cup Permutations({s1, s2})
RaceSymmetry == Permutations({k1, k2}) \cup Permutations({s1, s2})
=============================================================================
