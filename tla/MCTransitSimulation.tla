------------------------- MODULE MCTransitSimulation -------------------------
(***************************************************************************)
(* The scene of the run of TransitSimulation: the three drones of          *)
(* umn.json.                                                               *)
(***************************************************************************)
EXTENDS TransitSimulation

MCDrones == <<"drone", "drone", "drone">>
=============================================================================
