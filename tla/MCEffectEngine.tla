---------------------------- MODULE MCEffectEngine ----------------------------
(* Instances of EffectEngine for TLC. *)
EXTENDS EffectEngine, TLC

\* One that is played after a delay, one without an end; their forces cancel.
MCShapes == {[duration |-> 1, delay |-> 1, level |-> 2],
             [duration |-> Infinite, delay |-> 0, level |-> -2]}

MCCounts == {2}
\* A gain beyond its range.
MCGains == {3}

\* The handles are interchangeable: messages, mixing and timing treat every one alike.
MCSymmetry == Permutations(EffectIds)
=============================================================================
