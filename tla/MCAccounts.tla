----------------------------- MODULE MCAccounts -----------------------------
(* Instances of Accounts for TLC. *)
EXTENDS Accounts, TLC

\* Requests of a kind are interchangeable.
Symmetry == Permutations(Login) \cup Permutations(Acceptance) \cup Permutations(Invitation)
=============================================================================
