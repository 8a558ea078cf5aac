------------------------------ MODULE MCTunnelRoom ------------------------------
(***************************************************************************)
(* Instances of TunnelRoom for TLC: agents and viewers are interchangeable *)
(* among themselves.                                                       *)
(***************************************************************************)
EXTENDS TunnelRoom, TLC

Symmetry == Permutations(Agents) \cup Permutations(Clients)
=============================================================================
