--------------------------- MODULE MCLitterServer ---------------------------
(***************************************************************************)
(* LitterServer on small instances; requests, clients and passwords are    *)
(* interchangeable.                                                        *)
(***************************************************************************)
EXTENDS LitterServer, TLC

MCSymmetry ==
    Permutations(Requests) \union Permutations(Clients) \union Permutations(Passwords)
=============================================================================
