------------------------------ MODULE MCRouting ------------------------------
(***************************************************************************)
(* The maps of the run of Routing: four points in the plane, at distances *)
(* that are rounded up, with roads anywhere among them; and files with a   *)
(* highway that passes a node outside the file, with a highway between     *)
(* nodes that another one joins, and with a node given twice.              *)
(***************************************************************************)
EXTENDS Routing

MCPoint(n) == CASE n = "a" -> <<0, 0>> [] n = "b" -> <<4, 0>> [] n = "c" -> <<6, 1>>
                [] n = "d" -> <<0, 3>> [] OTHER -> <<0, 0>>

MCIds == {"a", "b", "c", "d", "x"}

Square(i) == i * i

MCDistance(a, b) ==
    LET p == MCPoint(a)
        q == MCPoint(b)
        square == Square(p[1] - q[1]) + Square(p[2] - q[2])
    IN  CHOOSE d \in 0..9 : Square(d) >= square /\ \A c \in 0..(d - 1) : Square(c) < square

MCRoads == {<<"a", "b">>, <<"b", "c">>, <<"c", "d">>, <<"d", "a">>, <<"a", "c">>, <<"b", "d">>}

MCFiles ==
    [nodes : {<<"a", "b", "c", "d">>}, ways : SUBSET MCRoads] \union
    [nodes : {<<"d", "a">>, <<"a", "b", "a">>}, ways : {{<<"a", "x", "d">>, <<"b", "a">>}}] \union
    [nodes : {<<"a", "b", "c">>}, ways : {{<<"a", "b", "c">>, <<"d", "c", "a">>}}]
=============================================================================
