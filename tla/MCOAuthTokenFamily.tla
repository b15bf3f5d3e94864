------------------------ MODULE MCOAuthTokenFamily ------------------------
(* Instances of OAuthTokenFamily for TLC. *)
EXTENDS OAuthTokenFamily, TLC

\* Identities are interchangeable.
Symmetry == Permutations(Pair) \cup Permutations(Entry) \cup Permutations(Exchange)
              \cup Permutations(Family) \cup Permutations(Code)
============================================================================
