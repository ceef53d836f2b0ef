--------------------------- MODULE MCDecisionLog ---------------------------
(***************************************************************************)
(* Instances of DecisionLog for TLC, with one history variable.            *)
(***************************************************************************)
EXTENDS DecisionLog

\* history: whether a writer ever went on without the lock, or without the last
\* line it could not read
VARIABLE bypassed

mcVars == <<vars, bypassed>>

Bypasses(w) ==
  \/ pc[w] = "waiting" /\ pc'[w] = "tail"
  \/ pc[w] \in {"tail", "rotatedTail"} /\ pc'[w] = "open" /\ ~linked'[w]

MCInit == Init /\ bypassed = FALSE
MCNext == Next /\ bypassed' = (bypassed \/ \E w \in Writers : Bypasses(w))

MCSpec == MCInit /\ [][MCNext]_mcVars

MCFairSpec == MCSpec /\ Fairness

\* _log_line: "a torn last line (no newline) is closed, never joined".  As long
\* as every writer had the lock and could read the last line, the bytes of a torn
\* line are the same after any later write.  (With an unlocked writer about they
\* may not be: the end can tear between another writer's look at it and that
\* writer's own write.)
TornNeverJoined ==
  [][~bypassed' =>
       \A n \in {Len(current)} : EndsTorn(current) /\ n \in DOMAIN current'
         => current'[n].id = current[n].id]_mcVars

=============================================================================
