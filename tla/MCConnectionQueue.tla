-------------------------- MODULE MCConnectionQueue --------------------------
(***************************************************************************)
(* ConnectionQueue on small instances.  Descriptors are numbers, as in the *)
(* code; 0, 1 and 2 are taken by the standard streams.                     *)
(***************************************************************************)
EXTENDS ConnectionQueue

MCFds == {3, 4}

MCOneFd == {3}
=============================================================================
