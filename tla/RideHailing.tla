----------------------------- MODULE RideHailing -----------------------------
(***************************************************************************)
(* What the simulation promises a robot, without drones, types, handlers   *)
(* and plans: a trip that was asked for is taken up once at most, a ride   *)
(* that began ends at the destination, and there is no second ride.        *)
(* TransitSimulation is shown to implement this module.                    *)
(***************************************************************************)
CONSTANT Riders     \* the entities that may ask for a trip

VARIABLE trip       \* [Riders -> {"none", "waiting", "riding", "done"}]

Init == trip = [r \in Riders |-> "none"]

Advance(r, from, to) ==
    /\ trip[r] = from
    /\ trip' = [trip EXCEPT ![r] = to]

Request(r) == Advance(r, "none", "waiting")

TakeUp(r) == Advance(r, "waiting", "riding")

Deliver(r) == Advance(r, "riding", "done")

Next == \E r \in Riders : Request(r) \/ TakeUp(r) \/ Deliver(r)

Safety == Init /\ [][Next]_trip

\* A ride that has begun ends; how long a robot waits depends on the drones.
Spec == Safety /\ \A r \in Riders : WF_trip(Deliver(r))
=============================================================================
