---------------------------- MODULE MCHttpServer ----------------------------
(***************************************************************************)
(* HttpServer on small instances.  Workers are interchangeable; client     *)
(* sockets get numbers from 3 on, as open descriptors do.                  *)
(***************************************************************************)
EXTENDS HttpServer, TLC

MCThreeClients == {3, 4, 5}
MCTwoClients == {3, 4}

MCProducers == {Main}

MCSymmetry == Permutations(Consumers)
=============================================================================
