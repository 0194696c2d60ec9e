---------------------------- MODULE MCG25Service ----------------------------
(* Instances of G25Service for TLC. *)
EXTENDS G25Service

\* Magnitudes -8 .. 8 and wheel bytes -4 .. 4: two magnitudes share a byte, the filter
\* needs several passes to arrive.
MCForces == {0, 8, -5}
MCPull == {0, -8}
MCNone == {0}
MCLeft == {0, 1}
=============================================================================
