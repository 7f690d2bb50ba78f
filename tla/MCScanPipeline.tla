--------------------------- MODULE MCScanPipeline ---------------------------
(* Small instances of ScanPipeline.                                        *)
EXTENDS ScanPipeline, TLC

CONSTANTS r1, r2, r3, d1, d2

\* Two requests of one device and one of another.
TwoDevices == (r1 :> d1) @@ (r2 :> d1) @@ (r3 :> d2)
=============================================================================
