----------------------------- MODULE MCSealedRelay -----------------------------
(***************************************************************************)
(* Instances of SealedRelay for TLC: viewers and the requests of a viewer  *)
(* are interchangeable.                                                    *)
(***************************************************************************)
EXTENDS SealedRelay, TLC

Symmetry == Permutations(Viewers) \cup Permutations(Reqs)
=============================================================================
