------------------------------- MODULE MCHostFiles -------------------------------
(***************************************************************************)
(* Instances of HostFiles for TLC: tabs are interchangeable.               *)
(***************************************************************************)
EXTENDS HostFiles, TLC

Symmetry == Permutations(Tabs)
Everything == {"load", "rename", "copy", "delete", "upload", "url", "zip", "unzip", "create", "edit"}
=============================================================================
