------------------------------ MODULE StopHook ------------------------------
(***************************************************************************)
(* The hook that refuses what a stop reaches: `repo_stop_refusal` before   *)
(* every tool call (gate/repo_stop.py), `halt_git` at an agent's commit or *)
(* push (gate/runner/verdict.py).  It reads the stop files near the call,  *)
(* then lists the registry and reads its entries, one file at a time while *)
(* people stop and resume; where something registered reaches the agent,   *)
(* it reads the files and entries of what the call names as well.          *)
(***************************************************************************)
EXTENDS RepoStop

CONSTANTS
  MainOf,   \* the main worktree of each repository (itself, where it is one)
  Calls,    \* the calls agents may make
  MaxCalls  \* bound: calls made

\* An agent's call: the repositories it works in, those its input names,
\* whether its client names the session's project, whether it names more than
\* a hook reads, and whether it is a git hook's commit or push.
Call == [client : Clients, near : SUBSET Repos, named : SUBSET Repos,
         placed : BOOLEAN, overCap : BOOLEAN, git : BOOLEAN]

ASSUME MainAssumption == MainOf \in [Repos -> Repos]
ASSUME CallsAssumption == Calls \subseteq Call /\ Calls # {} /\ MaxCalls \in Nat

VARIABLES
  hpc,      \* where the hook is
  call,     \* the call it judges
  again,    \* whether it is looking for what the call names
  left,     \* the stop files or entries it has yet to read
  missing,  \* the one it has just found missing, and asks for once more
  verdict,  \* what it decided, and why
  made,     \* how many calls were made
  owed,     \* history: the stops that are to refuse this call
  blame     \* history: the stops in its reach that the call may be refused for

hookVars == <<hpc, call, again, left, missing, verdict, made>>
callHistory == <<owed, blame>>
allVars == <<vars, hookVars, callHistory>>

HookStage == {"idle", "files", "list", "all", "entries", "done"}
Verdicts == {"none", "allow", "stopped", "overCap", "unlisted"}

\* A folder counts with the main worktree it is linked to.
Roots(repos) == repos \cup {MainOf[r] : r \in repos}

\* The places whose stop is to refuse the call.
Reach(k) ==
  {Everywhere} \cup (IF k.git THEN Roots(k.near)
                     ELSE IF k.placed THEN Roots(k.near \cup k.named) ELSE Repos)

InForce(k) ==
  {r \in Repos \cap Reach(k) : Covers(stopFile[r], k.client)}
    \cup {p \in Reach(k) : Covers(entry[p], k.client)}

HInit ==
  /\ Init
  /\ hpc = "idle" /\ call = (CHOOSE k \in Calls : TRUE) /\ again = FALSE /\ left = {}
  /\ missing = {} /\ verdict = "none" /\ made = 0
  /\ owed = {} /\ blame = {}

-----------------------------------------------------------------------------

MakeCall ==
  /\ hpc \in {"idle", "done"} /\ made < MaxCalls
  /\ hpc' = "files" /\ again' = FALSE
  /\ missing' = {} /\ verdict' = "none" /\ made' = made + 1
  /\ \E k \in Calls :
       /\ call' = k
       /\ left' = Roots(k.near)
       /\ owed' = {p \in Reach(k) : k.client \in promised[p]}
       /\ blame' = InForce(k)
  /\ UNCHANGED vars

HookStep(from) ==
  /\ hpc = from
  /\ UNCHANGED <<vars, call, made, callHistory>>

Decide(v) == /\ verdict' = v /\ hpc' = "done"
             /\ UNCHANGED <<again, left, missing>>

Proceed(stage, files) == /\ hpc' = stage /\ left' = files
                         /\ missing' = {} /\ UNCHANGED <<again, verdict>>

Misses(p) == missing' = {p} /\ UNCHANGED <<hpc, again, left, verdict>>

\* halt_find: the next stop.json refuses, is not this agent's business, or is
\* not there.
ReadStopFile ==
  /\ HookStep("files") /\ missing = {}
  /\ \E r \in left :
       IF stopFile[r] = NoStop THEN Misses(r)
       ELSE IF Covers(stopFile[r], call.client) THEN Decide("stopped")
       ELSE Proceed("files", left \ {r})

\* _halt_read_file: a file that was not there to be read and is there now counts
\* as one that cannot be read, which stops every agent.
LookForStopFile ==
  /\ HookStep("files")
  /\ \E r \in missing : IF stopFile[r] # NoStop THEN Decide("stopped")
                        ELSE Proceed("files", left \ {r})

FilesRead ==
  /\ HookStep("files") /\ left = {}
  /\ Proceed(IF call.git THEN "all" ELSE "list", {})

Listed == {p \in Places : entry[p] # NoStop}

\* A slip to be noticed: every listed file is an entry that counts, whatever the
\* call names.
ListAll ==
  /\ HookStep("list")
  /\ Proceed(IF Everywhere \in Listed THEN "all" ELSE "entries", Listed)

\* halt_registry_find: of the listed files all are read, _everywhere.json too
\* where it was gone when asked for; the second time, only the entries of the
\* repositories the call works in or names.
ListRegistry ==
  /\ HookStep("list")
  /\ Proceed(IF Everywhere \in Listed THEN "all" ELSE "entries",
             IF again THEN Listed \cap Roots(call.near \cup call.named)
             ELSE Listed)

\* _everywhere.json refuses, unless it is gone since it was listed.
ReadEverywhere ==
  /\ HookStep("all")
  /\ IF entry[Everywhere] # NoStop THEN Decide("stopped")
     ELSE IF call.git THEN Decide("allow")
     ELSE Proceed("entries", left)

\* A slip to be noticed: another repository's stop is of no concern to a
\* session its client places, and what the call names is not looked at.
PlacedIsAllowed ==
  IF call.placed THEN Decide("allow") ELSE Decide("stopped")

\* Something registered reaches the agent: a session that no client places is
\* refused, a placed one only for what its call names, which is looked at next.
Registry(refusal) ==
  IF again \/ ~call.placed THEN Decide(refusal)
  ELSE IF call.overCap THEN Decide("overCap")
  ELSE /\ again' = TRUE /\ hpc' = "files" /\ left' = Roots(call.named)
       /\ missing' = {} /\ UNCHANGED verdict

Registered == Registry("stopped")

\* A registry that cannot be listed, or that is there only when asked for again,
\* counts as a stop of every agent.
ListFails ==
  /\ "home" \in Faults
  /\ HookStep("list")
  /\ Registry("unlisted")

ReadEntry ==
  /\ HookStep("entries") /\ missing = {}
  /\ \E p \in left :
       IF entry[p] = NoStop THEN Misses(p)
       ELSE IF Covers(entry[p], call.client) THEN Registered
       ELSE Proceed("entries", left \ {p})

LookForEntry ==
  /\ HookStep("entries")
  /\ \E p \in missing : IF entry[p] # NoStop THEN Registered
                        ELSE Proceed("entries", left \ {p})

EntriesRead ==
  /\ HookStep("entries") /\ left = {}
  /\ Decide("allow")

Hook ==
  \/ MakeCall \/ ReadStopFile \/ LookForStopFile \/ FilesRead
  \/ ListRegistry \/ ListFails \/ ReadEverywhere
  \/ ReadEntry \/ LookForEntry \/ EntriesRead

\* What the hook missed and is there when it asks again, in the call's reach.
Sudden ==
  {p \in missing \cap Reach(call) :
     IF hpc = "files" THEN stopFile[p] # NoStop ELSE entry[p] # NoStop}

CommandRuns ==
  /\ Next /\ UNCHANGED hookVars
  /\ owed' = {p \in owed : call.client \in promised'[p]}
  /\ blame' = IF hpc \in {"idle", "done"} THEN blame
              ELSE blame \cup InForce(call)' \cup Sudden'

HNext == CommandRuns \/ Hook

HSpec == HInit /\ [][HNext]_allVars

-----------------------------------------------------------------------------

HookTypeOK ==
  /\ hpc \in HookStage /\ call \in Calls /\ again \in BOOLEAN
  /\ left \subseteq (IF hpc = "files" THEN Repos ELSE Places) /\ missing \subseteq left
  /\ verdict \in Verdicts
  /\ made \in 0 .. MaxCalls
  /\ owed \subseteq Places /\ blame \subseteq Places

\* docs/stop.md: while a stop is in force "every tool call an agent in scope
\* makes is refused".  A call made after a stop that reaches it was finished,
\* and judged before anybody began to resume it, is not allowed, whatever the
\* hook reads meanwhile and whatever fails.
StoppedIsRefused == verdict = "allow" => owed = {}

\* docs/stop.md: "a session the client roots in an unstopped repository is not
\* stopped by another repository's stop, unless the call names a path in it".
\* A call is refused as stopped only for a stop it is in the reach of and that
\* covers its client, in some file at some time of the call; or for one in its
\* reach that was written, for whatever client, just between the hook's missing
\* the file and asking for it again.
RefusalHasItsStop == verdict = "stopped" => blame # {}

=============================================================================
