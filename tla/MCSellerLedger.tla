-------------------------- MODULE MCSellerLedger ---------------------------
(* Small instances of SellerLedger for TLC.                                *)
EXTENDS SellerLedger, FiniteSetsExt, TLC

CONSTANTS s1, s2, o1, w1, w2, k1, k2

OwnedByFirst == [o \in Orders |-> s1]

\* Two workers that may both serve the seller: the real server.
AllHandled == [k \in {k1, k2} |-> {s1}]

\* Two sellers, each with its own worker: requests of one seller never overlap.
PartitionedHandled == [k \in {k1, k2} |-> IF k = k1 THEN {s1} ELSE {s2}]

\* Workers that serve the same sellers are interchangeable.
WorkerSymmetry == Permutations(Workers)

\* Counting cents is summing.
ASSUME TotalIsSum ==
  \A S \in SUBSET (1 .. 3) : \A f \in [1 .. 3 -> 0 .. 3] :
    Total(S, f) = MapThenSumSet(LAMBDA i : f[i], S)
=============================================================================
