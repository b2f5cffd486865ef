-------------------------- MODULE MCMaintenanceCache --------------------------
(* Small instances of MaintenanceCache for TLC.                            *)
EXTENDS MaintenanceCache, TLC

CONSTANTS a, b, c1, c2, c3

\* What the pages ask: one key each.
Singles == {{a}, {b}}
OneKey == {{a}}
=============================================================================
