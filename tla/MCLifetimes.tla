---------------------------- MODULE MCLifetimes -----------------------------
(***************************************************************************)
(* Three calls, two workers; two pending calls; a connection of each kind  *)
(* and two of the server; three variables of the application.  The calls are *)
(* interchangeable, and the workers.                                       *)
(***************************************************************************)
EXTENDS Lifetimes

Interchangeable == Permutations(Calls) \cup Permutations(Workers)
=============================================================================
