--------------------------- MODULE PolicyLifecycle ---------------------------
(***************************************************************************)
(* What `chock add`, `remove`, `enable`, `disable`, `sync` and `verify     *)
(* init` do to a repository (scaffold/add.py, remove.py, recompile.py,     *)
(* toggles.py, lifecycle.py, lock.py, config.py): the policy packs, the    *)
(* compiled tree, coverage.json, the git hooks, the clients' hook entries, *)
(* the registry and index, and chock.lock.  Nothing is locked: commands of *)
(* several shells and session starts overlap, are killed anywhere, and     *)
(* people and git change packs meanwhile.  A pack, its compiled output and *)
(* its hook entry are each told apart by the content they come from.       *)
(***************************************************************************)
EXTENDS Integers, FiniteSets

CONSTANTS
  Packs,        \* policy ids
  Mandatory,    \* those whose manifest says `mandatory: true`
  Contents,     \* what a pack may hold
  Commands,     \* processes that run a command
  MaxCommands,  \* bound: commands run
  MaxEdits,     \* bound: packs changed other than by a command
  Faults        \* crash: a command is killed;  wire: a client's config
                \* cannot be written;  list: the registry and index cannot;
                \* git: a command may find a folder that is no git repository

\* A folder without its manifest, half-way through a copy or a removal.
Torn == "torn"
None == "none"

ASSUME PacksAssumption ==
  Mandatory \subseteq Packs /\ {Torn, None} \cap Contents = {} /\ {"lock", None} \cap Packs = {}
ASSUME LifecycleFaults == Faults \subseteq {"crash", "wire", "list", "git"}
ASSUME LifecycleBounds == {MaxCommands, MaxEdits} \subseteq Nat

VARIABLES
  pack,     \* .agents/policies/<id>
  disabled, \* policies.disabled in .chock/config.yaml
  tree,     \* .chock/compiled: whether it is there, what it holds, and
            \* whether a second tree was moved inside it
  coverage, \* coverage.json, by pack
  gitHooks, \* the packs with a wrapper in .git/hooks
  wired,    \* the hook entries in the clients' configs, by pack
  listed,   \* registry.json and INDEX.md, by pack
  lock,     \* chock.lock: its entries by pack, and whether it parses
  pc, job,  \* per command: where it is, and what it holds
  left,     \* how many commands and edits may still come
  fetched,  \* history: the contents a catalog gave, by pack
  touched,  \* history: commands during which another changed something
  doubtful  \* history: "lock", and packs, that a touched command recorded

files == <<pack, disabled, tree, coverage, gitHooks, wired, listed, lock>>
history == <<fetched, touched, doubtful>>
vars == <<files, pc, job, left, history>>

Entry == [sha : Contents, source : {"local", "catalog"}, artifacts : Contents \cup {None}]
NoEntry == [sha |-> None, source |-> None, artifacts |-> None]
NoLock == [torn |-> FALSE, at |-> [p \in Packs |-> NoEntry]]
TornLock == [NoLock EXCEPT !.torn = TRUE]
Tree == [there : BOOLEAN, at : [Packs -> Contents \cup {None}], nested : BOOLEAN]
Lock == [torn : BOOLEAN, at : [Packs -> Entry \cup {NoEntry}]]
NoTree == [there |-> FALSE, at |-> [p \in Packs |-> None], nested |-> FALSE]
Stage == {"idle", "clear", "copy", "erase", "config", "blank", "toggle", "compile", "replace", "move",
          "cover", "unhook", "hook", "wire", "recover", "list", "build", "truncate",
          "write", "again", "source", "done"}
Command == {"none", "add", "copy", "remove", "enable", "disable", "sync", "skip", "init"}
Job == [cmd : Command, on : Packs \cup {None}, what : Contents \cup {None}, off : SUBSET Packs,
        staged : [Packs -> Contents \cup {None}],
        cover : [Packs -> {None, "disabled", "compiled", "wired"}], draft : Lock,
        then : {"source", "again", "done"}, out : {"ok", "unwired", "failed"},
        unlisted : BOOLEAN, unhooked : BOOLEAN, was : Lock, had : [Packs -> Contents \cup {Torn, None}]]

NoJob == [cmd |-> "none", on |-> None, what |-> None, off |-> {}, staged |-> [p \in Packs |-> None],
          cover |-> [p \in Packs |-> None], draft |-> NoLock, then |-> "done",
          out |-> "ok", unlisted |-> FALSE, unhooked |-> FALSE, was |-> NoLock,
          had |-> [p \in Packs |-> None]]

-----------------------------------------------------------------------------

\* discover_policy_dirs, policy_status: a mandatory pack cannot be disabled.
Installed == {p \in Packs : pack[p] \in Contents}
Off(p) == p \in disabled /\ p \notin Mandatory

\* _compile_all: what the packs on disk compile to.
Compiled == [p \in Packs |-> IF p \in Installed /\ ~Off(p) THEN pack[p] ELSE None]

\* installed_policy_ids: the compiled entries that are in the clients' configs.
Wired(p) == tree.at[p] # None /\ wired[p] = tree.at[p]

\* The cell a compile of p writes, from the tree and the configs on disk then.
Cell(p) == IF p \notin Installed THEN None
           ELSE IF Off(p) THEN "disabled" ELSE IF Wired(p) THEN "wired" ELSE "compiled"
Cells == [p \in Packs |-> Cell(p)]

\* build_lock: catalog provenance stays while the pack hashes to what was
\* fetched; from a lock that does not parse nothing is taken over.
\* Slips to be noticed: the hash not compared, or that of the wrong folder.
KeptById(p) == lock.at[p].source = "catalog"
KeptIfCompiled(p) == lock.at[p].source = "catalog" /\ lock.at[p].sha = tree.at[p]
Kept(p) == lock.at[p].source = "catalog" /\ lock.at[p].sha = pack[p]

Locked == [torn |-> FALSE, at |-> [p \in Packs |->
  IF p \notin Installed THEN NoEntry
  ELSE [sha |-> pack[p], source |-> IF Kept(p) THEN "catalog" ELSE "local",
        artifacts |-> tree.at[p]]]]

\* verify_lock, without the vendored runtimes.
Verified ==
  /\ ~lock.torn
  /\ \A p \in Packs :
       IF lock.at[p] = NoEntry THEN p \notin Installed
       ELSE /\ pack[p] = lock.at[p].sha
            /\ lock.at[p].artifacts \in {tree.at[p], None}

Init ==
  /\ pack = [p \in Packs |-> None] /\ disabled = {}
  /\ tree = NoTree /\ coverage = [p \in Packs |-> None]
  /\ gitHooks = {} /\ wired = [p \in Packs |-> None]
  /\ listed = pack /\ lock = NoLock
  /\ pc = [c \in Commands |-> "idle"] /\ job = [c \in Commands |-> NoJob]
  /\ left = [commands |-> MaxCommands, edits |-> MaxEdits]
  /\ fetched = [p \in Packs |-> {}] /\ touched = {} /\ doubtful = {}

-----------------------------------------------------------------------------
(* Commands. *)

Runs(c) == pc[c] # "idle"
Touch(c) == touched' = touched \cup {d \in Commands \ {c} : Runs(d)}

Go(c, from, to) == pc[c] = from /\ pc' = [pc EXCEPT ![c] = to]
Keeps(c) == UNCHANGED <<job, left, fetched, doubtful>> /\ Touch(c)
Ends(c, out) == job' = [job EXCEPT ![c].out = out]

\* The command line, with its early refusals.
Start(c, cmd, p, x, first) ==
  /\ pc[c] = "idle" /\ left.commands > 0
  /\ left' = [left EXCEPT !.commands = @ - 1]
  /\ pc' = [pc EXCEPT ![c] = first]
  /\ job' = [job EXCEPT ![c] = [NoJob EXCEPT
       !.cmd = cmd, !.on = p, !.what = x, !.was = lock, !.had = pack]]
  /\ touched' = touched \ {c}
  /\ UNCHANGED <<files, doubtful>>

\* Without --force a pack that is there is refused.
Add(c) == \E cmd \in {"add", "copy"}, p \in Packs, x \in Contents, force \in BOOLEAN :
  /\ force \/ pack[p] = None
  /\ Start(c, cmd, p, x, IF pack[p] = None THEN "copy" ELSE "clear")
  /\ fetched' = [fetched EXCEPT ![p] = @ \cup {x}]

Remove(c) == \E p \in Installed \ Mandatory :
  Start(c, "remove", p, None, "erase") /\ UNCHANGED fetched

Toggle(c) == \E p \in Installed :
  /\ \/ Start(c, "enable", p, None, "config")
     \/ p \notin Mandatory /\ Start(c, "disable", p, None, "config")
  /\ UNCHANGED fetched

Sync(c) == (\E cmd \in {"sync", "skip"} : Start(c, cmd, None, None, "compile"))
             /\ UNCHANGED fetched

InitLock(c) == Start(c, "init", None, None, "build") /\ UNCHANGED fetched

\* rmtree of the pack, of `add --force` or `remove`: seen half-done first.
Erase(c) ==
  LET p == job[c].on IN
  /\ pc[c] \in {"clear", "erase"}
  /\ IF pack[p] \in Contents
     THEN pack' = [pack EXCEPT ![p] = Torn] /\ UNCHANGED pc
     ELSE /\ pack' = [pack EXCEPT ![p] = None]
          /\ pc' = [pc EXCEPT ![c] = IF @ = "clear" THEN "copy" ELSE "compile"]
  /\ UNCHANGED <<disabled, tree, coverage, gitHooks, wired, listed, lock>> /\ Keeps(c)

CopyPack(c) ==
  LET p == job[c].on IN
  /\ pc[c] = "copy"
  /\ IF pack[p] = None
     THEN pack' = [pack EXCEPT ![p] = Torn] /\ UNCHANGED pc
     ELSE /\ pack' = [pack EXCEPT ![p] = job[c].what]
          /\ pc' = [pc EXCEPT ![c] = IF job[c].cmd = "add" THEN "compile" ELSE "done"]
  /\ UNCHANGED <<disabled, tree, coverage, gitHooks, wired, listed, lock>> /\ Keeps(c)

\* set_disabled: the config is read, its list changed, and the file emptied
\* and written; an empty config disables nothing.
ReadConfig(c) ==
  /\ Go(c, "config", "blank")
  /\ job' = [job EXCEPT ![c].off = IF job[c].cmd = "disable" THEN disabled \cup {job[c].on}
                                   ELSE disabled \ {job[c].on}]
  /\ UNCHANGED <<files, left, history>>

EmptyConfig(c) ==
  /\ Go(c, "blank", "toggle") /\ disabled' = {}
  /\ UNCHANGED <<pack, tree, coverage, gitHooks, wired, listed, lock>> /\ Keeps(c)

SetDisabled(c) ==
  /\ Go(c, "toggle", "compile") /\ disabled' = job[c].off
  /\ UNCHANGED <<pack, tree, coverage, gitHooks, wired, listed, lock>> /\ Keeps(c)

-----------------------------------------------------------------------------
(* recompile. *)

CompileAll(c) ==
  /\ Go(c, "compile", IF tree.there THEN "replace" ELSE "move")
  /\ job' = [job EXCEPT ![c].staged = Compiled, ![c].cover = Cells]
  /\ UNCHANGED <<files, left, history>>

\* A slip to be noticed: the old tree stays where it is.
RemoveTreeNot(c) == Go(c, "replace", "move") /\ UNCHANGED files /\ Keeps(c)

RemoveTree(c) ==
  /\ Go(c, "replace", "move")
  /\ tree' = NoTree
  /\ UNCHANGED <<pack, disabled, coverage, gitHooks, wired, listed, lock>> /\ Keeps(c)

\* shutil.move puts the staged tree inside a folder that has come back.
MoveTree(c) ==
  /\ Go(c, "move", "cover")
  /\ tree' = IF tree.there THEN [tree EXCEPT !.nested = TRUE]
             ELSE [there |-> TRUE, at |-> job[c].staged, nested |-> FALSE]
  /\ UNCHANGED <<pack, disabled, coverage, gitHooks, wired, listed, lock>> /\ Keeps(c)

SkipHooks(c) == job[c].cmd \in {"add", "skip"}

WriteCoverage(c) ==
  /\ \/ Go(c, "cover", IF SkipHooks(c) THEN "list" ELSE "unhook")
     \/ Go(c, "recover", "list")
  /\ coverage' = job[c].cover
  /\ UNCHANGED <<pack, disabled, tree, gitHooks, wired, listed, lock>> /\ Keeps(c)

\* A slip to be noticed: only the wrappers of packs still compiled are removed.
RemoveWrappersOfTree(c) ==
  /\ Go(c, "unhook", "hook")
  /\ tree' = [tree EXCEPT !.there = TRUE,
                !.at = [p \in Packs |-> IF @[p] = None THEN Compiled[p] ELSE @[p]]]
  /\ gitHooks' = gitHooks \ {p \in Packs : tree.at[p] # None}
  /\ UNCHANGED <<pack, disabled, coverage, wired, listed, lock>> /\ Keeps(c)

\* install_policy_hooks: a pack dropped in since is compiled, the old wrappers
\* go, and those of the compiled tree are written.
RemoveWrappers(c) ==
  /\ Go(c, "unhook", "hook")
  /\ tree' = [tree EXCEPT !.there = TRUE,
                !.at = [p \in Packs |-> IF @[p] = None THEN Compiled[p] ELSE @[p]]]
  /\ gitHooks' = {}
  /\ UNCHANGED <<pack, disabled, coverage, wired, listed, lock>> /\ Keeps(c)

WriteWrappers(c) ==
  /\ Go(c, "hook", "wire")
  /\ gitHooks' = gitHooks \cup {p \in Packs : tree.at[p] # None}
  /\ UNCHANGED <<pack, disabled, tree, coverage, wired, listed, lock>> /\ Keeps(c)

\* Outside a git repository it only warns: no pack is compiled, no wrapper changes.
WarnNotGit(c) ==
  /\ "git" \in Faults
  /\ Go(c, "unhook", "wire") /\ job' = [job EXCEPT ![c].unhooked = TRUE]
  /\ UNCHANGED <<files, left, history>>

\* Entries come from the compiled tree; where that changed which packs are
\* wired, everything is compiled again for the coverage.
WireClients(c) ==
  /\ pc[c] = "wire" /\ wired' = tree.at
  /\ IF {p \in Packs : Wired(p)} # {p \in Packs : tree.at[p] # None}
     THEN /\ pc' = [pc EXCEPT ![c] = "recover"]
          /\ job' = [job EXCEPT ![c].cover = [p \in Packs |->
               IF Cell(p) = "compiled" /\ tree.at[p] # None THEN "wired" ELSE Cell(p)]]
     ELSE pc' = [pc EXCEPT ![c] = "list"] /\ UNCHANGED job
  /\ Touch(c)
  /\ UNCHANGED <<pack, disabled, tree, coverage, gitHooks, listed, lock, left, fetched, doubtful>>

\* A config that cannot be read or written: bookkeeping goes on, the command fails.
WiringFails(c) ==
  /\ "wire" \in Faults
  /\ Go(c, "wire", "list") /\ Ends(c, "unwired")
  /\ UNCHANGED <<files, left, history>>

\* _refresh_bookkeeping: a registry or index that fails is only a warning.
Refresh(c) ==
  /\ \/ Go(c, "list", "build")
     \/ Go(c, "again", "done")
  /\ \/ listed' = pack /\ UNCHANGED job
     \/ "list" \in Faults /\ UNCHANGED listed /\ job' = [job EXCEPT ![c].unlisted = TRUE]
  /\ Touch(c)
  /\ UNCHANGED <<pack, disabled, tree, coverage, gitHooks, wired, lock, left, fetched, doubtful>>

AfterLock(c) == CASE job[c].cmd = "add" -> "source"
                  [] job[c].cmd \in {"enable", "disable"} /\ job[c].out = "ok" -> "again"
                  [] OTHER -> "done"

BuildLock(c) ==
  /\ Go(c, "build", "truncate")
  /\ job' = [job EXCEPT ![c].draft = Locked, ![c].then = AfterLock(c)]
  /\ UNCHANGED <<files, left, history>>

\* write_text: the file is emptied, then written.
TruncateLock(c) ==
  /\ Go(c, "truncate", "write")
  /\ lock' = TornLock
  /\ UNCHANGED <<pack, disabled, tree, coverage, gitHooks, wired, listed>> /\ Keeps(c)

WriteLock(c) ==
  /\ Go(c, "write", job[c].then)
  /\ lock' = job[c].draft
  /\ doubtful' = (doubtful \ {"lock"})
       \cup (IF c \in touched \/ job[c].cmd = "init" THEN {"lock"} ELSE {})
       \cup (IF c \in touched /\ job[c].cmd = "add" THEN {job[c].on} ELSE {})
  /\ Touch(c)
  /\ UNCHANGED <<pack, disabled, tree, coverage, gitHooks, wired, listed, job, left, fetched>>

\* record_provenance: by id, in the lock as it is now.
RecordProvenance(c) ==
  LET p == job[c].on IN
  /\ pc[c] = "source"
  /\ IF lock.torn THEN Ends(c, "failed") /\ pc' = [pc EXCEPT ![c] = "done"]
     ELSE IF lock.at[p] = NoEntry THEN pc' = [pc EXCEPT ![c] = "done"] /\ UNCHANGED job
     ELSE /\ pc' = [pc EXCEPT ![c] = "truncate"]
          /\ job' = [job EXCEPT ![c].draft = [lock EXCEPT !.at[p].source = "catalog"],
                                ![c].then = "done"]
  /\ UNCHANGED <<files, left, history>>

Exit(c) ==
  /\ Go(c, "done", "idle") /\ job' = [job EXCEPT ![c] = NoJob]
  /\ touched' = touched \ {c}
  /\ UNCHANGED <<files, left, fetched, doubtful>>

Killed(c) ==
  /\ "crash" \in Faults /\ Runs(c)
  /\ pc' = [pc EXCEPT ![c] = "idle"] /\ job' = [job EXCEPT ![c] = NoJob]
  /\ touched' = touched \ {c}
  /\ UNCHANGED <<files, left, fetched, doubtful>>

\* A person, an agent or git drops a pack in, changes it or takes it away.
Edit(p) ==
  /\ left.edits > 0 /\ left' = [left EXCEPT !.edits = @ - 1]
  /\ \E x \in (Contents \cup {None}) \ {pack[p]} : pack' = [pack EXCEPT ![p] = x]
  /\ touched' = touched \cup {c \in Commands : Runs(c)}
  /\ UNCHANGED <<disabled, tree, coverage, gitHooks, wired, listed, lock, pc, job, fetched, doubtful>>

Step(c) ==
  \/ Add(c) \/ Remove(c) \/ Toggle(c) \/ Sync(c) \/ InitLock(c) \/ Erase(c) \/ CopyPack(c)
  \/ ReadConfig(c) \/ EmptyConfig(c) \/ SetDisabled(c) \/ CompileAll(c) \/ RemoveTree(c)
  \/ MoveTree(c) \/ WriteCoverage(c) \/ RemoveWrappers(c)
  \/ WriteWrappers(c) \/ WarnNotGit(c) \/ WireClients(c) \/ WiringFails(c) \/ Refresh(c)
  \/ BuildLock(c) \/ TruncateLock(c) \/ WriteLock(c) \/ RecordProvenance(c)
  \/ Exit(c) \/ Killed(c)

Next == (\E c \in Commands : Step(c)) \/ (\E p \in Packs : Edit(p))

Spec == Init /\ [][Next]_vars

-----------------------------------------------------------------------------

TypeOK ==
  /\ pack \in [Packs -> Contents \cup {Torn, None}] /\ disabled \subseteq Packs
  /\ tree \in Tree /\ lock \in Lock
  /\ coverage \in [Packs -> {None, "disabled", "compiled", "wired"}]
  /\ gitHooks \subseteq Packs /\ wired \in [Packs -> Contents \cup {None}]
  /\ listed \in [Packs -> Contents \cup {Torn, None}]
  /\ pc \in [Commands -> Stage] /\ job \in [Commands -> Job]
  /\ fetched \in [Packs -> SUBSET Contents]
  /\ touched \subseteq Commands /\ doubtful \subseteq Packs \cup {"lock"}

\* A command that compiled, to its end, with nothing else changing meanwhile.
Settled(c) == pc[c] = "done" /\ c \notin touched
                /\ job[c].cmd \notin {"copy", "init"} /\ job[c].out # "failed"

\* Whatever crashes, races and edits came before, one such command leaves the
\* compiled tree, the lock and (unless it warned) the lists as the packs say,
\* and one with hooks wires every compiled pack and (unless it warned that the
\* folder is no git repository) leaves just their wrappers; that holds for the tree and
\* the lock even where it fails because a client could not be wired.  The
\* coverage then claims no wiring that is not there; it may still miss one, where
\* a killed command had taken the tree away after its clients were wired.
CommandSettles ==
  \A c \in Commands : Settled(c) =>
    /\ Verified /\ tree.at = Compiled /\ ~tree.nested
    /\ ~job[c].unlisted => listed = pack
    /\ ~SkipHooks(c) /\ ~job[c].unhooked => gitHooks = {p \in Packs : tree.at[p] # None}
    /\ ~SkipHooks(c) /\ job[c].out = "ok" => wired = tree.at
    /\ ~SkipHooks(c) /\ job[c].out = "ok" =>
         \A p \in Packs : coverage[p] = Cell(p) \/ (coverage[p] = "compiled" /\ Cell(p) = "wired")

\* The artifacts a lock attests were compiled from the pack it attests.
AttestedIsCompiled ==
  "lock" \notin doubtful =>
    \A p \in Packs : lock.at[p].artifacts \in {lock.at[p].sha, None}

\* A pack the lock says came from a catalog is one that catalog gave.
ProvenanceIsTrue ==
  \A p \in Packs \ doubtful :
    lock.at[p].source = "catalog" => lock.at[p].sha \in fetched[p]

\* No command drops the provenance of a pack that it and its lock left alone.
ProvenanceKept ==
  \A c \in Commands : pc[c] = "done" /\ c \notin touched =>
    \A p \in Packs :
      (/\ job[c].was.at[p].source = "catalog"
       /\ job[c].was.at[p].sha = job[c].had[p] /\ pack[p] = job[c].had[p])
      => lock.at[p].source = "catalog"

=============================================================================
