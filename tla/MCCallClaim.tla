---------------------------- MODULE MCCallClaim ----------------------------
(***************************************************************************)
(* Instances of CallClaim for TLC: two hooks judge a call that has an id,  *)
(* and two a call without one.  A claim of either prunes old claims.       *)
(***************************************************************************)
EXTENDS CallClaim, TLC

CONSTANTS h1, h2, h3, h4, c1, c2

MCHooks == {h1, h2, h3, h4}
MCCalls == {c1, c2}
MCCallOf == [h \in MCHooks |-> IF h \in {h1, h2} THEN c1 ELSE c2]
MCKeyOf == [c \in MCCalls |-> IF c = c1 THEN "id" ELSE "target"]
MCTimed == {"target"}
MCPruners == {<<"id", NoTime>>, <<"target", 1>>}

\* The hooks of one call do not differ in anything.
MCSymmetry == Permutations({h1, h2}) \cup Permutations({h3, h4})

=============================================================================
