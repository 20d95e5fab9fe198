-------------------------- MODULE MCConcurrentOpen --------------------------
(***************************************************************************)
(* ConcurrentOpen with one thread more than the barrier waits for, so that *)
(* a group can fill up while threads of the last one are still inside.     *)
(* The cfg gives all constants; a thread is a model value.                 *)
(***************************************************************************)
EXTENDS ConcurrentOpen
=============================================================================
