------------------------------ MODULE MCG25Runtime ------------------------------
(* Instances of G25Runtime for TLC. *)
EXTENDS G25Runtime, TLC

CONSTANTS run1, start1, start2, c1, c2, home, other

MCChild == c1 :> start1 @@ c2 :> start2
MCStartStop == c1 :> {"start"} @@ c2 :> {"start", "stop"}
MCStopStart == c1 :> {"stop"} @@ c2 :> {"start"}
\* Everything in one data directory.
MCOneHome == [p \in {run1, start1, start2, c1, c2} |-> home]
\* The second command works in a data directory of its own.
MCTwoHomes == [p \in {run1, start1, start2, c1, c2} |-> IF p \in {start2, c2} THEN other ELSE home]
=============================================================================
