------------------------------ MODULE WheelLease ------------------------------
(***************************************************************************)
(* What the runtime promises about its processes, whatever locks, files    *)
(* and ports it uses: an instance has the wheel at most once, for one      *)
(* unbroken time in which nobody else has it, and a stop command says      *)
(* "stopped" only of an instance that will never have it again.            *)
(***************************************************************************)
CONSTANTS Instances, Commands, Nobody

VARIABLES
    owners,         \* the instances that have the wheel
    over,           \* the instances that will not have it any more
    confirmed       \* confirmed[c]: the instance that command c has said is stopped

leaseVars == <<owners, over, confirmed>>

Init ==
    /\ owners = {}
    /\ over = {}
    /\ confirmed = [c \in Commands |-> Nobody]

Take(i) ==
    /\ owners = {} /\ i \notin over
    /\ owners' = {i}
    /\ UNCHANGED <<over, confirmed>>

\* An instance gives the wheel back, or ends without having had it.
End(i) ==
    /\ over' = over \cup {i}
    /\ owners' = owners \ {i}
    /\ UNCHANGED confirmed

Confirm(c, i) ==
    /\ i \in over
    /\ confirmed' = [confirmed EXCEPT ![c] = i]
    /\ UNCHANGED <<owners, over>>

Next ==
    \/ \E i \in Instances : Take(i) \/ End(i)
    \/ \E c \in Commands, i \in Instances : Confirm(c, i)

Spec == Init /\ [][Next]_leaseVars
=============================================================================
