------------------------- MODULE MCSecurityMonitor -------------------------
(* Small instances of SecurityMonitor.                                     *)
EXTENDS SecurityMonitor, TLC

Symmetry == Permutations(Scans)

\* faults only tells a failure from an answer.
View == <<status, latest, open, pending, scan, rollup, daily, raced>>
=============================================================================
