----------------------------- MODULE MCShellBridges -----------------------------
(* An instance of ShellBridges for TLC. *)
EXTENDS ShellBridges
=============================================================================
