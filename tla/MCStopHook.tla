----------------------------- MODULE MCStopHook -----------------------------
(***************************************************************************)
(* Instances of StopHook for TLC: repository A with a linked worktree W,   *)
(* and a repository B that nobody stops.                                   *)
(***************************************************************************)
EXTENDS StopHook, TLC

CONSTANTS A, B, W

Person(kind, place) ==
  [kind |-> kind, place |-> place, scope |-> "all", agent |-> FALSE]
CursorStop == [Person("stop", A) EXCEPT !.scope = "cursor"]

MCRepos == {A, B, W}
MCMainOf == (W :> A) @@ [r \in {A, B} |-> r]

\* A's stop is one client's, the machine's every client's.
MCJobs == {CursorStop, Person("resume", A)}
            \cup {Person(k, Everywhere) : k \in {"stop", "resume"}}

\* A call of a session in the repositories `near`, naming `named`.
In(near, named) ==
  [client |-> "cursor", near |-> near, named |-> named, placed |-> TRUE,
   overCap |-> FALSE, git |-> FALSE]

MCCursorCalls ==
  {In({W}, {}), In({B}, {}), In({B}, {W}),
   [In({B}, {}) EXCEPT !.placed = FALSE],
   [In({B}, {A}) EXCEPT !.overCap = TRUE],
   [In({W}, {}) EXCEPT !.git = TRUE]}
\* The same calls by cursor, by another client, and by one nobody knows.
MCCalls ==
  {[k EXCEPT !.client = c] : k \in MCCursorCalls, c \in Clients}

\* Either of two people may be the first.
MCSymmetry == Permutations(Commands)

=============================================================================
