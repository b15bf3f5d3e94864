------------------------------ MODULE MCToolCall ------------------------------
(* Instances of ToolCall for TLC. *)
EXTENDS ToolCall, TLC

\* Calls are interchangeable.
Symmetry == Permutations(Call)
===============================================================================
