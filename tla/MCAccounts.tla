------------------------------- MODULE MCAccounts -------------------------------
(***************************************************************************)
(* Instances of Accounts for TLC: requests are interchangeable.            *)
(***************************************************************************)
EXTENDS Accounts, TLC

Symmetry == Permutations(Threads)
Changes == {"login", "chpass", "create", "update", "delete"}
Logins == {"login", "logout", "delete", "enroll", "totpon", "totpoff", "unlock", "revoke", "oidc"}
=============================================================================
