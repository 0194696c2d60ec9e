---------------------------- MODULE MCDriverLink ----------------------------
(* Instances of DriverLink for TLC. *)
EXTENDS DriverLink

MCIds == 1 .. 2
MCShapes == {[duration |-> Infinite, delay |-> 0, level |-> 1]}
MCCounts == {1}
\* Gains in range and one beyond it.
MCGains == {1, 2, 3}
MCOneGain == {2}
MCStops == {"reset", "stopall"}
MCCommands == CommandNames \ {"other"}
=============================================================================
