--------------------------- MODULE MCStopReentry ---------------------------
(***************************************************************************)
(* Instances of StopReentry for TLC: the kinds of clients there are.       *)
(***************************************************************************)
EXTENDS StopReentry

CONSTANTS p1, p2

\* Claude Code and Copilot send a flag only; Codex sends the turn's id as well;
\* Cursor sends its count and the turn's id.
MCClients == {[counts |-> FALSE, turnIds |-> FALSE], [counts |-> FALSE, turnIds |-> TRUE],
              [counts |-> TRUE, turnIds |-> TRUE]}

\* A record of an earlier turn, whose id no later turn has.
Left(p, index) ==
  [policy |-> p, turn |-> NoTurn, reentry |-> index, anchor |-> FALSE,
   made |-> NoTurn]

LastTurn == <<Left(p1, 0), Left(p2, 0), Left(p2, 1), Left(p1, 1)>>

\* The ledger of a new session, or what a turn with one re-entry left.
MCEarlier == [c \in MCClients |-> {LastTurn} \cup (IF c.counts THEN {} ELSE {<<>>})]

=============================================================================
