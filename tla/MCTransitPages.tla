---------------------------- MODULE MCTransitPages ----------------------------
(* A page with two commands and another one with one.  With LongStep = FixedStep = 2   *)
(* an update at the higher speed after one unit of time is a long step that goes       *)
(* beyond it.                                                                          *)
EXTENDS TransitPages

CONSTANTS p1, p2

MCPages == {p1, p2}
MCSpeeds == {1, 3}
MCCommands == p1 :> 2 @@ p2 :> 1
=============================================================================
