# Verification of chock

chock compiles policies into small gate programs that an agent's client runs as
hooks before tool calls, at the end of a turn and at commits and pushes. Most of
what can go wrong in it goes wrong *between* processes and threads: a client starts
several hooks at once, each with a timeout after which it is killed; inside one
hook every policy is judged by a thread of its own; a gateway sits between a client
and a server that each may go away; and all of them share files (the decision log,
stop files, ledgers, toggle files, compiled gates, the lock file) that people
change with `chock` commands at the same time. There is no daemon and almost no
locking. This directory models those programs, checks the models with TLC, and
proves the most important facts with TLAPS.

Paths below are relative to `src/chock/`.

## 1. The system

| Component | State it keeps | Operations | What must be true of it |
|---|---|---|---|
| Decision log writer (`gate/runner/journal.py`, `chain.py`) | the log, one rotated file, a lock file | append: lock, rotate, read the last line, write one chained line | the two files are one hash chain; nobody forks it; a break shows its cause; a stuck hook delays nobody for ever |
| Log levels and claims (`journal.py`, `gate/runner/log.py`) | claim files, the level | write one line per allowed call | one line per claim at `info`, none lost quietly |
| Log verifier (`gatelog_chain.py`) | none; reads both files without the lock | `--verify-log`, `--head` | no break reported where there is none; a kept head stays confirmed |
| Log follower (`gatelog_read.py`) | an offset per file name | `--follow` | every new line once, in order |
| Stop re-entry ledger (`gate/stop_reentry.py`) | a ledger per session | `settle_stop` at each end of a turn | a capped number of refusals while no record is lost, none given up early, every turn ends |
| Repository and machine stop (`stop.py`, `stop_everywhere.py`) | `.chock/stop.json`, registry entries in `~/.chock/stops/` | stop, resume | a stop lasts until a resume, a resume clears everything |
| Stop refusal (`gate/repo_stop.py`, `gate/runner/halt.py`) | none; reads those files one by one | refuse a call, a commit, a push | no call under a stop is let through, none is refused without one |
| Policy fan-out of a hook (`gate/multi.py`, `gate/budget.py`, `gate/data/dispatch.py.tmpl`) | a thread and a slot per policy, a table of live child processes, the process's streams | start, join by deadline, end the children, log, combine, leave | nothing a policy decided is softened; no child survives; the hook leaves |
| Guardrail toggles (`guardrails/*`) | two toggle files, the record of each, a binding per session | `chock bundle on/off/adopt`, `chock sync`; start, call and turn-end hooks | an agent cannot switch a guardrail off, nor a person in the middle of a session, unnoticed |
| Policy lifecycle (`scaffold/*`, `toggles.py`, `lifecycle.py`, `lock.py`, `hooks/installers.py`) | packs, compiled tree, coverage, git hooks, client wiring, registry and index, `chock.lock` | add, remove, enable, disable, sync, verify init | whatever a crash leaves, one command settles it; the lock attests only what is so |
| MCP gateway (`gateway/*`) | four pipes, the client's name and folders, the decision log | relay, judge `tools/call`, answer, log | no call passes a standing stop; one answer per request; it ends with its client or server |
| Unreadable stops, session log (`gate/unreadable_stop.py`, `gate/session_log.py`) | a window of refusals; a bounded log | count and append; rewrite through one scratch file | see section 5 |
| Gate runner (`gate/guard_runner.py`, `gate/runner/*`) | none | judge one payload by one policy | a function of the payload |
| Hook installation (`hooks/*`, `install/*`) | clients' configuration files | merge, remove | idempotent merges |
| Registry, compiler, plugin builders, evals, reviews, reports | documents | read, translate, write | pure functions, or I/O of one process |

How they meet: a hook process runs the stop refusal first, then judges with every
policy, writes to the decision log (claiming the call first), and at the end of a
turn settles against the session's ledger; a bundle's wrapper asks the toggles
which members to leave out. The gateway does the same for MCP calls, with the
stop check per folder. `chock stop` and `resume` write the files hooks and gateway
read; lifecycle commands rewrite the gates hooks run. The verifier and the follower
read what the writers write. Nothing but the append to the decision log takes a
lock, and that lock gives up after a fixed wait.

`PROJECT.json` lists what is hard about each under `hazards`, at its line, with
the properties that watch it.

## 2. Modules

```
LogChain ─── AppendOnlyChain ─── MCLogChain ─── LogWalkProofs ─┐
   └──────── DecisionLog ─────── VerifyLog ──── DecisionLogProofs
CallClaim, LogFollow ─── LogUsersProofs
MultiHook, StopReentry ─ HookProofs
RepoStop ─── StopHook ── StopProofs
Gateway ──── GatewayProofs
Guardrails ─ GuardrailsProofs
PolicyLifecycle ──────── PolicyLifecycleProofs
```

- **LogChain**: the pure part of the hash chain. What the writer puts in a line
  (`ChainAfter`, `LastLine`, `EndsTorn`), and how the verifier walks lines
  (`StepBreak`, `Breaks`, `FirstBreak`, `HeadOf`, `HeadConfirmed`). The hash is a
  unique number: equal ids mean equal bytes.
- **AppendOnlyChain**: the abstract specification: one sequence that grows by a
  line chained to its last line and loses only its oldest lines. **MCLogChain**
  lets the same sequence grow by any line (`AnySpec`), chained or not, to say what
  the verifier's walk decides.
- **DecisionLog**: `log_append` for any number of processes, one action per
  system call (`Acquire`, `GiveUp`, `Rotate`, `KeepFile`, `ReadTail`, ...,
  `Write`, `WriteShort`, `Unlock`, `Crash`). A descriptor keeps naming the file it
  opened when that is rotated (`fd`). `Faults` selects which failures may happen.
- **VerifyLog** EXTENDS DecisionLog with the verifier, which lists two files and
  reads them one after the other between any steps of the writers.
- **LogFollow**: the follower's `stat`, `open` and `read` as separate steps.
- **CallClaim**: `log_write`: the level, the name of the claim file (`NameClaim`:
  the call's id or, for a call without one, the second on the hook's own clock), the
  file made with `O_EXCL`, its pruning, the client's timeout, and the failures of the
  claim and of the append.
- **StopReentry**: `settle_stop` for several policies that share a ledger. A gate
  that only warns settles nothing and leaves no record (`PassOn`). Any other hook
  reads the ledger whole and counts its chain, looks at the file's size (`Weigh`) and
  appends its record, or replaces the file, which is then what it read and its own
  record, if that is full or large. Between a look and a write another hook may have
  replaced the file: an append then goes to the file that is gone (`AppendStale`), a
  replacement leaves out what was added (`Loses`). A policy's
  records are a set of positions (`Mine`), and that they count back without a gap
  to a first stop or an anchor is said of that set (`Chained`): the code's loop
  from the newest line down decides just this.
- **RepoStop**: `chock stop` and `chock resume`, of a repository and of the
  machine, one file operation per step, with failures, kills and spoilt files.
- **StopHook** EXTENDS RepoStop with a hook that judges a call while those
  commands run, one file read per step. A file that is missing is asked for once more
  (`LookForStopFile`, `LookForEntry`), and one that is there by then counts as one
  that cannot be read, a stop of everyone; `chock resume` asks twice as well.
- **MultiHook**: one hook process. A thread per member sets its deadline, starts
  children, tracks them, decides, leaves a record, hands over its slot; the main
  thread starts them (`StartThreads`), joins them in index order (`Join`), puts
  the streams back (`Restore`), ends the trees (`EndTrees`), writes the lines
  (`Log`), combines (`Combine`), ends the trees again and exits (`Leave`). A late
  thread goes on through all of that; a tick is the only notion of time.
- **Guardrails**: a toggle file is told apart by the members it switches off, its
  record by the text it was made of. Commands (`BeginSwitch`, `ReadCurrent`,
  `WriteToggles`, `Record`, `BeginAdopt`, `Show`, `BeginSync`), the agent and git
  (`Edit`, `Commit`, `Pull`, `Review`, `Forge`) and hooks (`FindSource`,
  `ReadToggles`, `Bind`, `Compare`, `LookAtTurnEnd`, `TidyRecords`, `EndTurn`)
  interleave at every read and write.
- **PolicyLifecycle**: every command down to the file it writes next: pack copied
  or erased, config read, emptied and written, everything compiled, the old tree
  removed, the new one moved in, coverage, git wrappers removed and rewritten (or,
  where the folder is no git repository, left out with a warning), clients wired,
  coverage again, registry and index, lock built, truncated and written, provenance recorded
  by a second rewrite. A pack, its compiled output and its hook entry are told
  apart by the content they come from.
- **Gateway**: both threads of `chock gateway run`, the client, the server and the
  four pipes between them. `serve` reads a line; `_judge` handles an element at a
  time (`NoteClient`, `BeginStopCheck`, `LooksAtStop`, `JudgeByGates`); the line is
  answered, handed on or both, and logged entry by entry, of which any may be missed
  (`Logs`, `missed`). The pipe thread has its own steps.

`MC*.tla` hold the instances. Definitions introduced by "A slip to be noticed" are
variants of a definition with one plausible bug: each property is known to fail
when a variant takes the place of the code's definition, so none holds merely by
the shape of its model. `map` in `PROJECT.json` gives the source lines of every
definition.

## 3. What the runs check

| Run | Module | Shows |
|---|---|---|
| `chain_walk` | MCLogChain | for every sequence of up to 3 lines: the walk accepts exactly the well-chained ones (`IntactMeansWellChained`), a changed line is a break or another head (`ChangeIsABreak`), a head names its line (`HeadNamesItsLine`) |
| `verify_locked` | MCVerifyLog | writers that crash and fail to open or rename, but always get the lock: `ChainIntact` and the refinement `ImplementsChain`; for a verifier beside them `BreakOnlyIfOvertaken` and `KeptHeadOnlyAgesOut` |
| `log_faults` | MCDecisionLog | every failure at once: `BreakIsAccountedFor`, `NeverForks`, `TornNeverJoined` as long as no writer went on without the lock or the last line, `NoWriterWaitsForever` |
| `follow_poll` | LogFollow | `PrintedOnceInOrder`, `LineAheadIsPrinted` |
| `claim_files` | MCCallClaim | `AllowIsOneLine`, `OnlyTheClaimantIsNameless`, `AllowIsLogged` |
| `reentry_clients` | MCStopReentry | `CapHoldsWhileRecorded`, `NoEarlyWarning`, `EveryTurnEnds` |
| `hook_stopped` | MCStopHook | `StoppedIsRefused`, `RefusalHasItsStop`, `StopLastsUntilResume`, `ResumeClears` |
| `multi_hook` | MCMultiHook | `NothingIsSoftened`, `OnlyYoungTreesSurvive`, `OnlyTheLateSpeakUp`, `HookLeaves` |
| `multi_logged` | MCMultiHook | **violated**: the log line of a member that was late is made of the record it leaves afterwards, not of the refusal the client was told |
| `guardrails_toggle` | Guardrails | `OffWasApproved`, `OffPredatesSession`, `TurnEndTells` |
| `lifecycle_settles` | MCPolicyLifecycle | `CommandSettles`, `AttestedIsCompiled`, `ProvenanceIsTrue`, `ProvenanceKept` |
| `gateway` | MCGateway | `StandingStopRefuses`, `AnsweredOnce`, `LogTellsTheFate`, `HangUpEnds`, `EndedGatewayLeaves` |

`LoggedAsHeard`, the violated one, is what `docs/decision-log.md` promises
("Every block, ask, warn, fault and override keeps its own line per policy"). The
window is wide where a later member has a longer deadline: the log then says
`allow` for a call that was refused, and no line says that it was.

### Conditions in the properties

A property that holds only under a condition names it, and the condition is then a
limit of the code that a reader should know:

- Decision log. `BreakOnlyIfOvertaken`: a rotation between the verifier's two
  reads makes it report a break in an intact log, although the documentation reads
  as if a break meant tampering (`gatelog_chain.py:75`). `LineAheadIsPrinted`: the
  follower tells a rotation by a smaller size only, so it misses the first lines of
  a new file that has already outgrown its offset (`gatelog_read.py:154`).
  `AllowIsLogged`: a claim is made before its line, so a hook that dies or fails in
  between leaves the call without one. `AllowIsOneLine` and
  `OnlyTheClaimantIsNameless` speak of the hooks that go by one claim: if a client
  gives a call no id, each hook takes the second at which *it* looked at the clock
  (`journal.py:143`), so a call whose hooks come to it in different seconds has one
  nameless line per second, where the documentation promises one ("However many
  policy hooks judge that call, its allow is one line", `docs/decision-log.md:62`);
  and two calls of one session on one target in one second share a claim, hence a
  line. `TornNeverJoined`: an unlocked writer can
  tear the end after another looked at it. The follower ends with an error when
  the log is rotated between its listing and its `stat` or `open`.
- Ledger. `CapHoldsWhileRecorded`: a hook replaces the ledger when it read 500 lines
  in it, but also whenever the file has reached `SESSION_TRIM_BYTES`
  (`gate/stop_reentry.py:185`), so in a session of long records every append is a
  read and a replacement, and two hooks of one stop can drop each other's records
  (`dropped`). The cap can be passed from then on, by clients that leave the count
  to the ledger; one that counts for itself keeps it whatever becomes of the file.
  `NoEarlyWarning`: a client that neither counts nor names its turns can have the
  last turn's records counted into the next, if a stop of the next leaves none.
  `EveryTurnEnds`: where such records are lost again and again, a turn of a client
  that does not count need not end.
- Stops. `StopLastsUntilResume` takes stops of one place to have one scope: the
  file holds one, so `chock stop --agent X` after a stop of every agent leaves only
  X stopped. A stop that could not write its registry entry returns 1 and promises
  nothing to sessions placed elsewhere; a stop and a resume of one place that
  overlap promise nothing either. `RefusalHasItsStop` has one case in which a call is
  refused for a stop of *another* client: a file that was missing when the hook read
  it and is there when it asks again counts as unreadable (`gate/runner/halt.py:64-66`),
  so a stop of that client which is written just then refuses this call too. The run
  has stops of one client and calls of another to show how far this goes.
- MultiHook. A late member is taken for a refusal, so a hook with one never tells
  the client less than deny. A child that a late member starts after, or had not
  yet tracked at, the last kill survives the process (`young`). What late members
  write to stderr reaches the process's own streams.
- Guardrails. `OffWasApproved` excludes files whose record an agent wrote, or that
  it wrote between a command's write and its record: the command then records the
  agent's text (`tainted`). `OffPredatesSession` excludes sessions whose binding
  could not be kept or was pruned after a week: those bind anew at their next hook.
  It speaks of the files as they are and not of what happened to them: an edit
  from A to B and back to A in mid-session is not noticed, whatever the comment at
  `toggle.py:11` says of a file once moved. HEAD is read at every call and bound by
  nothing, so a commit in mid-session can bring an off of the repository's file
  into force that stood in the working tree since the start.
  `TurnEndTells` is about the one drift that a turn end forgives: a deleted file
  has its record dropped because deletion tightens, unless the user's file that
  takes over loosens. It excludes what a person did themselves (let the
  repository's file go, or put the user's file back to what it was at the start)
  and files whose record a turn end dropped after they had changed again (`lost`),
  which errs to the safe side: such a file has no record and drifts.
- Lifecycle. `CommandSettles` is about a command during which nothing else changed.
  It leaves one slack: after a kill between taking the compiled tree away and
  moving the new one in, a successful sync can leave the coverage at `compiled`
  where `sync --check` expects `wired`. What happens *until* the next command
  settles things is no property but is in the model: two recompiles at once move
  one tree into the other; between removing and rewriting the git wrappers commits
  pass ungated, and neither `verify` nor `sync --check` looks at `.git/hooks`; an
  `enable` killed before it recompiled leaves `verify` passing; a lock torn by a
  kill loses every provenance; `verify init` writes a lock without compiling; an
  `enable` or `disable` killed between truncating and writing the config leaves an
  empty one, and two at once can lose one of the two toggles (`config.py:145`,
  `:157`), neither of which any property forbids. In a folder that is no git
  repository a command warns, writes no wrapper and succeeds (`unhooked`).
  `ProvenanceIsTrue` excludes packs whose provenance was recorded by a command
  that was raced, because `record_provenance` writes by id and compares no hash.
- Gateway. `StandingStopRefuses` takes stops that have stood since the line was read.
  `LogTellsTheFate`: what the log says of a call is true, but it need not say anything:
  entries that cannot be built or appended are passed over
  (`gate/runner/decision.py:81-96`), and none is written at level `off`
  (`journal.py:291-292`, `tests/test_mcp_gateway_log.py:151`). `allow` is logged for a
  call the server was too dead to take. `EndedGatewayLeaves`: `sys.stdin.close()` waits
  for the main thread's blocked read, so after the server has died the gateway leaves
  only at the client's next line or hang-up, and a request in flight stays unanswered
  until then. `HangUpEnds` excepts one jam (`Jammed`): the client hangs up, the pipe
  thread dies of the broken pipe without setting `_downstream_ended`, the server blocks
  on its full stdout and the main thread on the server's full stdin, and all of them
  stay for good although `proxy.py:193` counts on falling "through to stop downstream".
  Both behaviours of the gateway were seen in the real program too (Python 3.11, Linux).

### Bounds, and why they suffice

- `chain_walk`: 3 lines, 3 hashes, 3 seqs: the walk relates a line to the one
  before it, and three lines give a first, a middle and a last one.
- `verify_locked`: 3 writers (a holder, a waiter and one killed), 8 lines with
  rotation above 2 and a legacy prefix: the oldest file is dropped twice, a rotation
  falls before, between and after the verifier's reads, and the window can begin in
  mid-chain. Writers are interchangeable there, hence the symmetry; no property that
  needs fairness is checked with it.
- `log_faults`: 2 writers, one of which may stall for ever anywhere, 5 lines: what
  a fork or a joined line needs is one writer with the lock, one without, and a file
  to rotate under both.
- `follow_poll`: 7 lines with rotation above 2: two rotations, each of which may
  fall between any two steps of a poll.
- `claim_files`: two hooks of a call that has an id and two of one without, whose
  looks at the clock may fall in different seconds (clock to 2); a claim of either
  prunes, and outlives every hook of its call (`TimeAssumption`), as in the code.
  Hooks of one call are interchangeable, hence the symmetry.
- `reentry_clients`: Claude Code (a flag), Codex (a flag and turn ids) and Cursor (a
  count and turn ids), 2 policies, cap 1 (the code's is 3; the counting is the same at
  every index past the first), one turn after an empty ledger or after one of a turn
  with one re-entry. A ledger keeps 5 lines here, 500 in the code: a replacement
  because of their number happens within the turn, one because of the size may
  happen at any record (`heavy` is free to change at each write). A third policy's
  hook may leave one record at a first stop (`OtherRecords`): with two hooks alone
  nobody can replace a file that the other has opened to append to, since between their
  looks at its size somebody must have written. That the third refuses too is left to
  the proof, which has any number of policies.
- `hook_stopped`: a repository with a linked worktree and an unstopped one, two
  clients that a stop may name, of which one is named, and a third that nobody knows
  (every stop reaches it); 2 people, 3 commands, 1 call: a call is judged from its
  own reads only, so a second call adds nothing. The two people are interchangeable.
- `multi_hook`: 2 members with a deadline of one tick, one child each, clock to 2:
  each may be in time, late or hang for ever, and one may be late while the other
  is judged. The `multi_hook` run keeps deadlock checking on (`Finished` is the end).
- `guardrails_toggle`: one member, both files, 1 command, 2 edits, 2 hooks in one
  session: a start and a call or a turn end, with a command and two changes anywhere
  among their steps. One hook process at a time keeps the run within minutes; the
  proof covers any number, and sessions without an id.
- `lifecycle_settles`: 1 pack of two possible contents, 2 commands that overlap and
  may be killed, 1 edit; the folder may be no git repository, the tree hard to list,
  a client's wiring fail. A second pack multiplies the states and adds no step: a
  command treats packs one like the other, and what it does per file it does for all.
- `gateway`: 2 lines out of three batches (an initialize that names another folder,
  beside a malformed call; another client's initialize with a call; two
  notifications), two clients, pipes with room for one line, 1 stop at a time in
  either folder, of one client here and of every client there. `MaxMissed`: one entry
  of the log may be missed, which for a line with one entry is the whole line.

`CHECK_DEADLOCK FALSE` is used where everything ends (commands, hooks, calls and
turns are bounded; the follower may die; the gateway leaves, and a jammed one stands
still). `DecisionLog` has instead a step `Quiet` for the state in which no hook
runs, and `MultiHook` a step `Finished`, so a hook that is stuck shows as a deadlock.

### Fairness

- DecisionLog: weak fairness on `Step(w)` of every writer that is not `Stalled`: the
  system keeps scheduling a hook. A stalled writer has none: a process on a dead
  network disk may hold the lock for ever, and only the others' deadline
  (`GiveUp`) gets them out.
- LogFollow: weak fairness on the follower's next step; it polls every
  `FOLLOW_INTERVAL`. The writers have none.
- StopReentry: weak fairness on whatever goes on within a turn (hooks, and the client
  once all have answered), none on starting a turn.
- MultiHook: weak fairness on the main thread and on the clock, none on members: a
  member may hang for ever, and `HookLeaves` is what the deadlines are for.
- Gateway: weak fairness on both threads, on the client reading its answers and on
  the server finishing a line it has begun, strong fairness on the server reading
  what it is sent (it may be asked to read again and again between its own notes).
  None on sending, hanging up, ending, or people. A server that stops reading is one
  that has ended.

## 4. What is proved

The theorems hold for every value of the constants that satisfies the named
assumptions of the module, none of which bounds a number: any writers, policies,
packs, commands, sessions, hooks, and any numbers of edits and lines.

**Decision log** (`DecisionLogProofs`)

- `TypeCorrect`; `NoForkEver`: `Spec => []NeverForks` **with every failure
  allowed**. The invariant is `ForkInv == TypeInv /\ LockInv /\ OrderInv`: a writer
  that chains holds the lock until it leaves; hashes rise along each file and from
  the rotated file to the current one, and a chained line's `prev` lies strictly
  between the hash of every earlier line and its own, so two lines with one `prev`
  would have to precede each other.
- `BreaksAreAccountedFor` (`BreakIsAccountedFor`), again with every failure.
  `NeverForks` says nothing of two neighbours that do not fit, so `JoinInv` is
  needed besides: a chained line follows the line before it, across the two files
  too, and the link a lock holder has in hand follows the last line there is by now
  (`Fresh`), whoever else timed out and wrote `unchained` lines meanwhile.
- `TornLinesAreKept` (`TornNeverJoined`, an action property): as long as nobody
  went on without the lock or the last line, every writer past the wait holds the
  lock and knows whether the end is torn (`TornInv`), so what it writes closes the
  torn line and leaves its bytes.
- `LogImplementsChain`: `Spec => ImplementsChain` if
  `Faults \subseteq {"crash", "open", "rename"}`, with the abstract chain read off the
  files as `rotated \o current`. Needed besides: every line is closed, only the
  lock's holder is past the wait, and its link follows the window's last line at its
  write (`Turns`). A write maps to `AppendLine`, a second rotation to `DropOldest`
  (or a stutter), everything else to a stutter. The condition on `Faults` is not a
  weakness of the proof: a timeout, a short write or an unreadable last line does
  break the chain, and `BreakIsAccountedFor` is what is left then.
  From it and `AppendOnlyChainIsIntact` follows `LogIsIntact`.
- `OnlyOvertakenWalksBreak` (`BreakOnlyIfOvertaken`) and `KeptHeadsAgeOut`
  (`KeptHeadOnlyAgesOut`), of the verifier beside any number of writers, under the
  same condition on `Faults`. That the files are intact in every state is not enough,
  because the verifier sees no state: it reads one file now and the other later.
  `VerifyInv` says of each of its stages what it has read: every line it holds, and
  every head it printed, is in the log still or older than the oldest line in it
  (`SeenInv`), and without a rotation in between the lines of the first read are
  still those before the second (`WalkedInv`).

**The walk** (`LogWalkProofs`)

- `AppendOnlyChainIsIntact`: whatever the abstract chain goes through walks as intact.
- `WalkDecides` (`IntactMeansWellChained`), `ChangesAreBreaks` (`ChangeIsABreak`),
  `HeadsNameLines` (`HeadNamesItsLine`), for lines of any hashes and logs of any
  length, where the run has three lines. The walk compares neighbours only; that
  this decides about the whole log is an induction over its length, made by letting
  `AnySpec` add a line per step (`WalkInv`): an intact log is well chained, and its
  seqs rise. The converse, and the changes, are arguments about one place and the
  lines beside it.

**Claims and follower** (`LogUsersProofs`)

- `AllowsShareALine` (`AllowIsOneLine`), `ClaimantIsNameless`
  (`OnlyTheClaimantIsNameless`), `AllowsAreLogged` (`AllowIsLogged`), for any calls,
  hooks, times and failures. The first two are of lines that went by a claim of one
  name: one id, or one session, target and second. `ClaimInv` rests on `TimeAssumption`,
  that a hook is killed before its claim is pruned: a claim that stands is no older than
  the time from which its hooks run (`Since`, the call's or the second in its name), and
  one that was pruned belongs to hooks that are gone (`StandsInv`), so two hooks that
  made a claim file of one name did so for calls of different times (`ApartInv`). A line
  in the log is the one its hook left (`LineInv`), and behind a claim is a hook that
  wrote or was to write (`BehindInv`).
- `FollowerPrintsInOrder` (`PrintedOnceInOrder`): wherever the follower may go on
  from, what lies after it is younger than all it has printed, and if the file has
  become shorter than that place, all of the file is (`FollowInv`, `Fresh`). This must
  be known of the offset it keeps and of the place its last `stat` chose, because
  the file can rotate between `stat` and `read`.

**Policy fan-out** (`HookProofs`): `HookTypes`, `HookNeverSoftens`
(`NothingIsSoftened`), `OnlyLateMembersLeak` (`OnlyTheLateSpeakUp`), `TreesAreEnded`
(`OnlyYoungTreesSurvive`), for any number of members, any deadlines and children.
One inductive invariant, `HookInv == SoftInv /\ StreamInv /\ TreeInv`. `SoftInv`
ties each member's thread, slot and record to what it decided: what the join heard
is a refusal, or the settled verdict of a thread that was done. `StreamInv`: while
the streams are set aside nobody writes to the process's own, and after the join
whoever still runs was late. `TreeInv`: a child that lives after the last kill is
one that the kill could not have in its table.

**Stop re-entry ledger** (`HookProofs`): `RefusalsStayCapped`
(`CapHoldsWhileRecorded`), `NoneGivesUpEarly` (`NoEarlyWarning`), for any policies,
cap, clients, room, file sizes, failures to write, and ledgers that earlier turns left.
The cap is kept by counting records that others append between, so `TurnEndInv` relates
the two. Of a client that counts, refusals never pass the count it sends
(`CountedInv`), and no ledger is needed. Of any other, a policy has refused at most
once, or its newest record is chained and counts at least its refusals less one
(`BoundInv`). For that the ledger must keep what is counted from: a policy that left a
record at each stop of this turn still has its chain there (`RecordedInv`), and what a
hook read of its own records is still so when it writes (`ReadInv`). Both end with the
first replacement that leaves such a line out (`Loses`) and with the first append to a
file that was replaced, which is why the property does. A replacement that drops only lines
of earlier turns does no harm, which is told by the turn in which a line was written
(`MadeInv`; no hook knows it). Not giving up early needs the opposite bound: no record
of this turn counts more re-entries than there were, told by the turn's id (`TurnInv`)
or, without ids, by a first stop whose record landed (`RestartInv`). That a policy has a
newest record at all is the one place where an order must be well founded: a
nonempty set of positions in a ledger has a greatest element (`GreatestOf`, from
the library's theorem that a well-founded relation has minimal elements).

**Guardrail toggles** (`GuardrailsProofs`): `GuardrailTypes`, `OffIsAPersons`
(`OffWasApproved`), `OffIsTheStarts` (`OffPredatesSession`), `TurnsEndInTheOpen`
(`TurnEndTells`), for any number of members, people, hooks and sessions. The
invariant `GuardInv` has, besides shapes: what a hook has read is still so unless
something changed while it ran (`ReadRight`, `SeenRight`); every record is of a text
a person wrote, saw or reviewed (`RecordsApproved`); a session whose binding could
be kept is bound to what it began with (`BoundAsBegun`); and where the record of a
repository's file is gone although a person had vouched for it, the user's record
switches nothing off unless a command made it since (`GoneIsTight`), the fact that
carries a turn end from one deletion to the next. The two action properties follow
from the invariant before the step.

**Policy lifecycle** (`PolicyLifecycleProofs`): `LifecycleTypes`,
`ProvenanceIsNeverInvented` (`ProvenanceIsTrue`), `ProvenanceIsNotDropped`
(`ProvenanceKept`), `LockAttestsItsCompile` (`AttestedIsCompiled`), for any packs,
contents, commands, kills and overlaps. The invariant `LifeInv` holds the last and
the first of these, and per command: what stage goes with what command (`Shape`),
what a command knows of the files as long as nothing else changed any (`Alone`: the
staged and the moved tree are of the packs, the draft attests its artifacts, the
lock is still the one it read), and that a lock about to be written is true of every
pack not in doubt (`DraftTrue`).
`AloneACommandSettles` (`CommandSettles`) adds `SettleInv` on top of it: how far a
command that compiles and is left alone has brought the repository at each stage,
from the staged tree that is `Compiled` to the lock that fits packs and tree
(`Settling`). It starts from nothing but the files as they are, which is why no
earlier crash or race matters: each file is rewritten, never patched, before
anything later relies on it.

**Stops** (`StopProofs`): `StopTypes`, `StopsLast` (`StopLastsUntilResume`),
`ResumesClear` (`ResumeClears`), `StoppedCallsAreRefused` (`StoppedIsRefused`),
`RefusalsHaveStops` (`RefusalHasItsStop`), for any repositories, clients, commands,
failures and unreadable files. `StopInv` says of a command that none of the other
kind ran beside that it finds the files as it, or another of its kind, left them
(`Alone`), of a promised stop that both files stand and nobody lifts it (`Kept`), of
a resumed place the opposite (`Cleared`). `StopsLast`, and with it
`StoppedCallsAreRefused`, assume `OneScope`: the stops people write for one place
name one client, or none. Without it a second, narrower stop replaces the scope of
the first, and those only the first one held go on without a resume: the file holds
one scope, which is listed as a hazard. The property is not claimed of such stops,
and the run has one scope per place too. For the composition: hooks only read the files, so
`HSpec` implements `Spec`; `Looking` says what a hook has yet to read, `Owing` that
every stop it owes a refusal is among that or has refused, `Blaming` that whatever
refused stood meanwhile, or came to be between the two looks for it (`Sudden`).

**Gateway** (`GatewayProofs`): `StandingStopsRefuse` (`StandingStopRefuses`),
`TheLogTells` (`LogTellsTheFate`), for any gates, lines, batches, folders, clients,
stops and room in the pipes. `GateInv` has the order of the lines (`QueueInv`); the
stage of the main thread against the element it judges (`PlaceInv`); that the folders
and the client it has noted are those of the initializes before that element
(`KnownInv`), which needs that the last initialize exists and is carried from one
line to the next; that a stop binding the element is still to be looked at or has
refused it, and has refused every call judged before (`StopsInv`); and what the
server, the log and the entries that were skipped have of each line (`FateInv`: each
entry in the log is `True`, and of each line handled every call is `Told`, in the log
or among the skipped).
`RequestsAreAnswered` (`AnsweredOnce`) needs `PipesInv` besides. One half: what the
gateway answers was not handed on and will not be (`OwnInv`). The other: unless one
of the four has ended (`Over`), every line is still to be read, or being decided, or
handed to the server, or all its requests are in an answer, which is in a pipe, in
the hands of the server or of the pipe thread, or read (`KeptInv`). It is this
second half that follows an answer from one thread to the other.

Every invariant and every action property of a passing run is the statement of one
of these theorems. Only model-checked are the liveness properties
(`NoWriterWaitsForever`, `LineAheadIsPrinted`, `EveryTurnEnds`, `HookLeaves`,
`HangUpEnds`, `EndedGatewayLeaves`), because fairness and ENABLED are beyond the proof
system. No module declares a RECURSIVE operator: the walk is a statement about all
pairs of neighbours and the ledger's chain one about a set of positions, so facts
about them are first-order and need no induction over data.

The assumptions a reader should check against the code are few: `OnlyHarmless` (no lock
timeout, short write or failed read) for the refinement and the verifier;
`TimeAssumption` (a client kills its hooks before their claim is pruned);
`EarlierAssumption` (earlier turns' records bear no id of these); `OneScope` (the stops
of one place have one scope).

## 5. What is left out

- Bytes: redaction, trace text, formatting, JSON. Line length is 1 for offsets,
  and the rotation threshold counts lines.
- What a policy finds on a payload is always a free choice: gate runner, pattern
  judge, patch images, script gates and the compiler that builds them.
- `log_write`'s legacy switch that keeps rollout evidence with the log off.
- Finding paths in tool input, and the cap on how many are read (a flag,
  `overCap`, says whether a call exceeds it).
- Unreadable stops: refusals in a window are counted and the new one appended
  without a lock, so a record can be lost, which only delays the warning. It counts
  refusals and not stops: with several policies at one unreadable stop the turn
  ends sooner than its warning ("stops in a row") says; stops further apart than the
  window, and a ledger that cannot be written, are refused for as long as they come.
- Ledgers of sessions: a line torn in the middle or a ledger that cannot be read.
- Session log: hooks of a session rewrite it through one scratch file, and can lose
  or overwrite records. Only script gates read it, and what they make of it is theirs.
- Guardrails: one repository and one user file; bundle names, links and special
  files. Lifecycle: vendored runtimes, the MCP registration and the starter files of
  `init`; one client stands for all that are wired, and one git wrapper for the
  wrappers of the four events, which are handled one after the other; of the
  config only what a policy's toggle is; the hook that arms a session is
  `sync` at its start. MultiHook: the bytes of the pattern judge.
- Gateway: gates are loaded once, at the start, and stay; request ids are told
  apart, so a client that uses one twice is not modelled; a line is written in one
  step, because a lock makes it so; one folder stands for the repository and the
  working directory.
- Hook installation edits documents of one client by one process; registry,
  compiler, builders, evals, reviews and reports are functions of documents. Their
  correctness is in text that a model would only spell out again.
- Power loss: a killed process loses no write that returned. Windows locking.
  `O_APPEND` writes are taken to be atomic with respect to each other, as on local
  POSIX file systems.

## 6. What could come next

1. The safety half of the liveness properties as invariants: what must be so in a
   state from which nobody can go on (the jam of the gateway, a hook at its last
   deadline), so that only fairness is left to TLC.
2. Type correctness of the gateway, the ledger, claims and follower as theorems of
   their own; today their invariants contain it.
3. A model of merging into client configuration files, if two installers are ever
   allowed to run at once.
