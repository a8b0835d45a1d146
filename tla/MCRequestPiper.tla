--------------------------- MODULE MCRequestPiper ---------------------------
(***************************************************************************)
(* Small instances of RequestPiper.  Two Tags for each call are enough: one *)
(* of _Forwarding_stub() and one of a method that answers later.            *)
(***************************************************************************)
EXTENDS RequestPiperRefinement, RequestPiperInvariant, TLC

\* Addresses are interchangeable, and so are calls and signals.  Used in runs
\* without liveness properties only.
Symmetry == Permutations(Tags) \cup Permutations(Calls)
              \cup Permutations(Workers)
=============================================================================
