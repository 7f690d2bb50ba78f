-------------------------- MODULE MCTrafficPipeline --------------------------
(* A small instance of TrafficPipeline.                                    *)
EXTENDS TrafficPipeline

CONSTANTS m1, m2, x, y

\* One MAC with two destinations, another with one of them.
ThreeFlows == {<<m1, x>>, <<m1, y>>, <<m2, x>>}
=============================================================================
