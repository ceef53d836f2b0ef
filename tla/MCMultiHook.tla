----------------------------- MODULE MCMultiHook -----------------------------
(* An instance of MultiHook for TLC: the time each member is given. *)
EXTENDS MultiHook

MCAllowed == [m \in 1 .. N |-> 1]

=============================================================================
