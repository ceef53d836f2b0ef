------------------------------ MODULE RepoStop ------------------------------
(***************************************************************************)
(* A person's stop on agents: `chock stop` and `chock resume`, for one     *)
(* repository or `--everywhere` (stop.py, stop_everywhere.py).  The stop   *)
(* of a repository is two files: `stop.json` in the repository and its     *)
(* mirror in the machine's registry, for hooks that cannot tell which      *)
(* repository their session is in.  The stop everywhere is one more file   *)
(* in the registry.  Commands are processes that share the files and take  *)
(* no lock; StopHook adds the hooks that read them.                        *)
(***************************************************************************)
EXTENDS Integers, FiniteSets

CONSTANTS
  Repos,        \* the repositories
  Clients,      \* the agents' clients
  Unknown,      \* the client of an agent that no client id matches
  Commands,     \* the processes that run a stop or resume command
  Jobs,         \* the commands people and agents may run
  MaxCommands,  \* bound: commands run
  Faults        \* crash: a command is killed;  home: the registry cannot be
                \* changed;  repo: stop.json cannot be;  spoil: a stop's file
                \* becomes unreadable

Everywhere == "everywhere"
Places == Repos \cup {Everywhere}
NoStop == "none"
Scope == {"all", "unreadable"} \cup (Clients \ {Unknown})

\* A command: what it does, where, to whom, and whether an agent's shell runs it.
Job == [kind : {"stop", "resume"}, place : Places,
        scope : Scope \ {"unreadable"}, agent : BOOLEAN]

ASSUME ClientsAssumption ==
  Unknown \in Clients /\ NoStop \notin Clients /\ Everywhere \notin Repos
ASSUME JobsAssumption ==
  Jobs \subseteq Job /\ \A j \in Jobs : j.place = Everywhere => j.scope = "all"
ASSUME FaultsAssumption == Faults \subseteq {"crash", "home", "repo", "spoil"}
ASSUME BoundsAssumption == MaxCommands \in Nat

VARIABLES
  stopFile,   \* .chock/stop.json of each repository: its scope, or NoStop
  entry,      \* the registry: each repository's entry, and _everywhere.json
  pc,         \* where each command is
  job,        \* what it was last run to do
  begun,      \* how many commands were run
  promised,   \* history: the clients that a finished stop of a place is to
              \* hold until somebody resumes it
  overlapped, \* history: commands during which one of the other kind ran
  resumed     \* history: places a finished resume has cleared

fileVars == <<stopFile, entry>>
vars == <<stopFile, entry, pc, job, begun, promised, overlapped, resumed>>

Stage == {"idle", "write", "entry", "read", "recheck", "look", "unlink", "unregister"}

\* halt_covers: a client that no client id matches is reached by every stop.
Covers(scope, client) ==
  scope # NoStop /\ (scope \in {"all", "unreadable", client} \/ client = Unknown)

Reached(scope) == {c \in Clients : Covers(scope, c)}

Others(kind, place) == {c \in Commands : /\ pc[c] # "idle"
                                         /\ job[c].place = place
                                         /\ job[c].kind # kind}

StopScopes(place) ==
  {j.scope : j \in {k \in Jobs : k.kind = "stop" /\ k.place = place /\ ~k.agent}}

\* Whatever stops are in force were written whole by commands run earlier.
Init ==
  /\ stopFile \in {f \in [Repos -> Scope \cup {NoStop}] :
                    \A r \in Repos : f[r] \in {NoStop} \cup StopScopes(r)}
  /\ entry = [p \in Places |-> IF p \in Repos THEN stopFile[p] ELSE NoStop]
  /\ pc = [c \in Commands |-> "idle"]
  /\ \E j \in Jobs : job = [c \in Commands |-> j]
  /\ begun = 0
  /\ promised = [p \in Places |-> Reached(entry[p])]
  /\ overlapped = {} /\ resumed = {}

-----------------------------------------------------------------------------

\* An agent's shell is refused; so is a resume without a person's confirmation.
Refused(c) ==
  /\ pc[c] = "idle" /\ begun < MaxCommands
  /\ \E j \in Jobs : (j.agent \/ j.kind = "resume") /\ job' = [job EXCEPT ![c] = j]
  /\ begun' = begun + 1
  /\ UNCHANGED <<fileVars, pc, promised, overlapped, resumed>>

FirstStage(j) ==
  CASE j.kind = "stop" -> IF j.place \in Repos THEN "write" ELSE "entry"
    [] j.kind = "resume" -> IF j.place \in Repos THEN "read" ELSE "look"

\* A person runs a command, and confirms it where it asks.
Begin(c) ==
  /\ pc[c] = "idle" /\ begun < MaxCommands
  /\ begun' = begun + 1
  /\ \E j \in Jobs :
       LET others == Others(j.kind, j.place) IN
       /\ ~j.agent
       /\ job' = [job EXCEPT ![c] = j]
       /\ pc' = [pc EXCEPT ![c] = FirstStage(j)]
       /\ promised' = IF j.kind = "resume"
                      THEN [promised EXCEPT ![j.place] = {}] ELSE promised
       /\ overlapped' = (overlapped \ {c}) \cup others
                          \cup (IF others = {} THEN {} ELSE {c})
       /\ resumed' = IF j.kind = "stop" THEN resumed \ {j.place} ELSE resumed
  /\ UNCHANGED fileVars

Go(c, from, to) ==
  /\ pc[c] = from
  /\ pc' = [pc EXCEPT ![c] = to]
  /\ UNCHANGED <<job, begun, overlapped>>

\* os.replace of a staged file: a reader sees the old stop or the new one.
WriteStop(c) ==
  /\ Go(c, "write", "entry")
  /\ stopFile' = [stopFile EXCEPT ![job[c].place] = job[c].scope]
  /\ UNCHANGED <<entry, promised, resumed>>

WriteFails(c) ==
  /\ "repo" \in Faults
  /\ Go(c, "write", "idle")
  /\ UNCHANGED <<fileVars, promised, resumed>>

\* The command has done all it had to, and returns 0.
StopDone(c) ==
  promised' = IF c \in overlapped THEN promised
              ELSE [promised EXCEPT ![job[c].place] = @ \cup Reached(job[c].scope)]

WriteEntry(c) ==
  /\ Go(c, "entry", "idle")
  /\ entry' = [entry EXCEPT ![job[c].place] = job[c].scope]
  /\ StopDone(c)
  /\ UNCHANGED <<stopFile, resumed>>

\* A slip to be noticed: the command returns 0 without its entry.
EntryFailsQuietly(c) ==
  /\ "home" \in Faults
  /\ Go(c, "entry", "idle")
  /\ StopDone(c)
  /\ UNCHANGED <<fileVars, resumed>>

\* The registry cannot be written: the command says so and returns 1, with
\* stop.json in force.
EntryFails(c) ==
  /\ "home" \in Faults
  /\ Go(c, "entry", "idle")
  /\ UNCHANGED <<fileVars, promised, resumed>>

-----------------------------------------------------------------------------

\* halt_read: where the file is not there to be read, it is asked for again, and
\* one that has come meanwhile counts as one that cannot be read.
ReadStop(c) ==
  /\ Go(c, "read", IF stopFile[job[c].place] = NoStop THEN "recheck" ELSE "unlink")
  /\ UNCHANGED <<fileVars, promised, resumed>>

Recheck(c) ==
  /\ Go(c, "recheck", IF stopFile[job[c].place] = NoStop THEN "look" ELSE "unlink")
  /\ UNCHANGED <<fileVars, promised, resumed>>

ResumeDone(c) ==
  resumed' = IF c \in overlapped THEN resumed ELSE resumed \cup {job[c].place}

\* A slip to be noticed: a repository without stop.json has nothing to resume.
LookNowhere(c) ==
  /\ Go(c, "look", "idle")
  /\ ResumeDone(c)
  /\ UNCHANGED <<fileVars, promised>>

\* No stop.json (or everywhere's only file): is there an entry to remove?
Look(c) ==
  \/ /\ entry[job[c].place] # NoStop
     /\ Go(c, "look", "unregister")
     /\ UNCHANGED <<fileVars, promised, resumed>>
  \/ /\ entry[job[c].place] = NoStop
     /\ Go(c, "look", "idle")
     /\ ResumeDone(c)
     /\ UNCHANGED <<fileVars, promised>>

Unlink(c) ==
  /\ Go(c, "unlink", "unregister")
  /\ stopFile[job[c].place] # NoStop
  /\ stopFile' = [stopFile EXCEPT ![job[c].place] = NoStop]
  /\ UNCHANGED <<entry, promised, resumed>>

\* It cannot be removed, or is gone since it was read: the command returns 1.
UnlinkFails(c) ==
  /\ Go(c, "unlink", "idle")
  /\ stopFile[job[c].place] = NoStop \/ "repo" \in Faults
  /\ UNCHANGED <<fileVars, promised, resumed>>

\* A repository's entry may be missing; everywhere's, looked at just now, not.
Unregister(c) ==
  /\ Go(c, "unregister", "idle")
  /\ job[c].place \in Repos \/ entry[job[c].place] # NoStop
  /\ entry' = [entry EXCEPT ![job[c].place] = NoStop]
  /\ ResumeDone(c)
  /\ UNCHANGED <<stopFile, promised>>

UnregisterFails(c) ==
  /\ Go(c, "unregister", "idle")
  /\ "home" \in Faults \/ (job[c].place = Everywhere /\ entry[Everywhere] = NoStop)
  /\ UNCHANGED <<fileVars, promised, resumed>>

Crash(c) ==
  /\ "crash" \in Faults
  /\ pc[c] # "idle"
  /\ Go(c, pc[c], "idle")
  /\ UNCHANGED <<fileVars, promised, resumed>>

\* Somebody's edit leaves a stop's file unreadable: it stops every agent.
Spoil ==
  /\ "spoil" \in Faults
  /\ \/ \E r \in Repos : /\ stopFile[r] # NoStop
                         /\ stopFile' = [stopFile EXCEPT ![r] = "unreadable"]
                         /\ UNCHANGED entry
     \/ \E p \in Places : /\ entry[p] # NoStop
                          /\ entry' = [entry EXCEPT ![p] = "unreadable"]
                          /\ UNCHANGED stopFile
  /\ UNCHANGED <<pc, job, begun, promised, overlapped, resumed>>

CommandStep(c) ==
  \/ Refused(c) \/ Begin(c)
  \/ WriteStop(c) \/ WriteFails(c) \/ WriteEntry(c) \/ EntryFails(c)
  \/ ReadStop(c) \/ Recheck(c) \/ Look(c) \/ Unlink(c) \/ UnlinkFails(c)
  \/ Unregister(c) \/ UnregisterFails(c) \/ Crash(c)

Next == Spoil \/ \E c \in Commands : CommandStep(c)

Spec == Init /\ [][Next]_vars

-----------------------------------------------------------------------------

TypeOK ==
  /\ stopFile \in [Repos -> Scope \cup {NoStop}]
  /\ entry \in [Places -> Scope \cup {NoStop}]
  /\ pc \in [Commands -> Stage] /\ job \in [Commands -> Job]
  /\ begun \in 0 .. MaxCommands
  /\ promised \in [Places -> SUBSET Clients]
  /\ overlapped \subseteq Commands /\ resumed \subseteq Places

\* stop_main: every agent in scope "is refused until resume".  What a finished
\* stop is to hold back is held by stop.json and by its mirror, through other
\* stops, failed and killed commands and spoilt files, until a resume begins.
StopLastsUntilResume ==
  \A p \in Places :
    promised[p] \subseteq Reached(entry[p])
      /\ (p \in Repos => promised[p] \subseteq Reached(stopFile[p]))

\* docs/stop.md: "`resume` removes the file and the registry entry".  After a
\* resume that returned 0 neither is left, whatever earlier commands that were
\* killed or failed half-way had left behind, until somebody stops again.
ResumeClears ==
  \A p \in resumed : /\ entry[p] = NoStop
                     /\ p \in Repos => stopFile[p] = NoStop

=============================================================================
