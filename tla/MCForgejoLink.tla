---------------------------- MODULE MCForgejoLink ----------------------------
(* Instances of ForgejoLink for TLC. *)
EXTENDS ForgejoLink, TLC

\* Sessions, flows, credentials, links and calls are interchangeable.
Symmetry == UNION {Permutations(S) : S \in {Session, Flow, Cred, Link, Use} \ {{}}}
==============================================================================
