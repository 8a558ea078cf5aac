---------------------------- MODULE MCSessionRegistry ---------------------------
(***************************************************************************)
(* Instances of SessionRegistry for TLC: ids, sockets and kill requests    *)
(* are interchangeable.                                                    *)
(***************************************************************************)
EXTENDS SessionRegistry, TLC

Symmetry == Permutations(Ids) \cup Permutations(Conns) \cup Permutations(Kills)
=============================================================================
