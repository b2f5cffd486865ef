--------------------------- MODULE MCOrderPayment ---------------------------
(* A small instance of OrderPayment for TLC.                               *)
EXTENDS OrderPayment, TLC

CONSTANTS a1, a2, p1, p2
=============================================================================
