------------------------------ MODULE Stopwatch ------------------------------
(***************************************************************************)
(* What the effect engine promises about TIME, whatever it does about      *)
(* force: every effect a game has downloaded is a stopwatch that only the  *)
(* passage of time moves, that stands still while its game has paused the  *)
(* device, that nothing but its own owner's operations can touch, and that *)
(* runs out only when its delay and all its iterations have been played.   *)
(***************************************************************************)
EXTENDS Integers

CONSTANTS
    Owners,         \* games
    Keys,           \* handles of effects
    Infinite,       \* a duration or a count without end
    None            \* no effect under this handle

VARIABLES
    watch,          \* watch[o][k]: None or [shape, count, running, position]
    frozen          \* frozen[o]: game o has paused the device

watchVars == <<watch, frozen>>

Running(o, k) == watch[o][k] # None /\ watch[o][k].running

\* Every iteration has been played.  A watch of duration zero is over at its delay.
RunOut(w) ==
    \/ w.shape.duration = 0 /\ w.position >= w.shape.delay
    \/ /\ w.shape.duration # Infinite
       /\ w.count # Infinite
       /\ w.position >= w.shape.delay + w.shape.duration * w.count

-----------------------------------------------------------------------------
Init ==
    /\ watch = [o \in Owners |-> [k \in Keys |-> None]]
    /\ frozen = [o \in Owners |-> FALSE]

\* One tick moves exactly the running watches of the games that are not paused.
Advance ==
    /\ watch' = [o \in Owners |-> [k \in Keys |->
          IF Running(o, k) /\ ~frozen[o]
          THEN [watch[o][k] EXCEPT !.position = @ + 1]
          ELSE watch[o][k]]]
    /\ UNCHANGED frozen

\* Rendering stops watches that have run out, of any number of games, and only those.
RunsOut(o, k) ==
    /\ Running(o, k) /\ ~frozen[o] /\ RunOut(watch[o][k])
    /\ watch'[o][k] = [shape |-> watch[o][k].shape, count |-> watch[o][k].count,
                       running |-> FALSE, position |-> 0]

Expire ==
    /\ \A o \in Owners, k \in Keys : watch'[o][k] = watch[o][k] \/ RunsOut(o, k)
    /\ UNCHANGED frozen

\* What one operation of game o may do to one of its own watches.
Absent(o, k) == watch'[o][k] = None

\* It stands still; a new shape never stops it.
Stopped(o, k) ==
    /\ watch'[o][k] # None /\ ~watch'[o][k].running
    /\ Running(o, k) => watch'[o][k].shape = watch[o][k].shape

\* It goes on from the position it had, perhaps with a new shape.
Kept(o, k) ==
    /\ Running(o, k) /\ watch'[o][k] # None /\ watch'[o][k].running
    /\ watch'[o][k].count = watch[o][k].count
    /\ watch'[o][k].position = watch[o][k].position

\* It starts from zero; a start while the game has paused the device is not counted
\* from the pause but from the later start (see the README).
Restarted(o, k) ==
    /\ watch'[o][k] # None /\ watch'[o][k].running
    /\ watch'[o][k].position = 0 \/ (frozen[o] /\ watch'[o][k].position < 0)

Operate(o) ==
    /\ \A k \in Keys : Absent(o, k) \/ Stopped(o, k) \/ Kept(o, k) \/ Restarted(o, k)
    /\ \A p \in Owners \ {o} : watch'[p] = watch[p] /\ frozen'[p] = frozen[p]

\* The service ends, and every watch with it.
End ==
    /\ watch' = [o \in Owners |-> [k \in Keys |-> None]]
    /\ frozen' = [o \in Owners |-> FALSE]

Next == Advance \/ Expire \/ End \/ \E o \in Owners : Operate(o)

Spec == Init /\ [][Next]_watchVars
=============================================================================
