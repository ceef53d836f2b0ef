-------------------------- MODULE MCPolicyLifecycle --------------------------
(* Small instances of PolicyLifecycle.  What a pack holds and which process *)
(* runs a command are interchangeable.                                      *)
EXTENDS PolicyLifecycle, TLC

Symmetry == Permutations(Commands) \cup Permutations(Contents)

=============================================================================
