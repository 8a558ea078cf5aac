---------------------------- MODULE MCShellSession ----------------------------
(***************************************************************************)
(* Instances of ShellSession for TLC: the sockets and the tabs are         *)
(* interchangeable, so the safety runs use their permutations.             *)
(***************************************************************************)
EXTENDS ShellSession, TLC

Symmetry == Permutations(Conns) \cup Permutations(Tabs)
=============================================================================
