---------------------------- MODULE DecisionLog ----------------------------
(***************************************************************************)
(* `log_append` (gate/runner/journal.py): hooks, git hooks, the gateway    *)
(* and `chock stop` are separate processes that append to one log.  Each   *)
(* takes the file lock beside it, rotates a full log, reads the last line, *)
(* and writes its own line chained after it.  A writer that cannot get the *)
(* lock in time writes all the same, unchained and unlocked.               *)
(*                                                                         *)
(* One action per system call another process can slip in between.         *)
(***************************************************************************)
EXTENDS LogChain, FiniteSets

CONSTANTS
  Writers,   \* the processes that append
  NoWriter,  \* the lock is free
  RotateAt,  \* a file of more than this many lines is past max_bytes
  MaxLines,  \* bound: lines ever written
  Legacy,    \* lines a runtime without chaining left in the log beforehand
  Stalled,   \* writers that may stop running anywhere, for ever
  Faults     \* what may go wrong, see FaultKind

\* timeout: the lock stays held for LOG_CHAIN_WAIT;  unreadable: reading the
\* last line fails;  tear: a write stops short;  crash: the process is killed;
\* open: opening the log fails;  rename: moving a full log fails.
FaultKind == {"timeout", "unreadable", "tear", "crash", "open", "rename"}

ASSUME WritersAssumption == NoWriter \notin Writers /\ Stalled \subseteq Writers
ASSUME BoundsAssumption ==
  RotateAt \in Nat \ {0} /\ MaxLines \in Nat /\ Legacy \in Nat
ASSUME FaultsAssumption == Faults \subseteq FaultKind

VARIABLES
  current,  \* the log's lines, <<>> also when there is no file
  rotated,  \* the lines of the one rotated file kept beside it
  present,  \* whether the log file exists
  lock,     \* who holds the lock beside the log
  pc,       \* where in log_append each writer is
  link,     \* the chain fields a writer computed for its line
  linked,   \* whether it chains its line, or writes it `unchained`
  torn,     \* whether it saw a last line without a newline
  fd,       \* which file its open descriptor now names
  lastId    \* the hash last given to a line

logVars == <<current, rotated, present, lastId>>
ownVars == <<link, linked, torn, fd>>
vars == <<current, rotated, present, lock, pc, link, linked, torn, fd, lastId>>

Stage == {"idle", "waiting", "rotate", "tail", "rotatedTail", "open", "write",
          "unlock"}
File == {"none", "current", "rotated", "gone"}

\* The chain a verifier walks: the rotated file first.
Window == rotated \o current

Held(w) == lock = w
Busy == {w \in Writers : pc[w] # "idle"}

LegacyLine(i) == [id |-> i, kind |-> "unchained", seq |-> -1, prev |-> GENESIS,
                  closed |-> TRUE]

Init ==
  /\ current = [i \in 1 .. Legacy |-> LegacyLine(i)]
  /\ rotated = <<>>
  /\ present = (Legacy > 0)
  /\ lock = NoWriter
  /\ pc = [w \in Writers |-> "idle"]
  /\ link = [w \in Writers |-> Unlinked]
  /\ linked = [w \in Writers |-> FALSE]
  /\ torn = [w \in Writers |-> FALSE]
  /\ fd = [w \in Writers |-> "none"]
  /\ lastId = Legacy

-----------------------------------------------------------------------------

\* The writer leaves log_append: its locals are gone, its descriptors closed.
Leave(w) ==
  /\ pc' = [pc EXCEPT ![w] = "idle"]
  /\ link' = [link EXCEPT ![w] = Unlinked]
  /\ linked' = [linked EXCEPT ![w] = FALSE]
  /\ torn' = [torn EXCEPT ![w] = FALSE]
  /\ fd' = [fd EXCEPT ![w] = "none"]

Go(w, from, to) ==
  /\ pc[w] = from
  /\ pc' = [pc EXCEPT ![w] = to]

\* Closing the lock's descriptor releases it, however the writer leaves.
Release(w) == lock' = IF Held(w) THEN NoWriter ELSE lock

Begin(w) ==
  /\ lastId + Cardinality(Busy) < Legacy + MaxLines
  /\ Go(w, "idle", "waiting")
  /\ UNCHANGED <<logVars, ownVars, lock>>

\* A slip to be noticed: the lock does not keep a second writer out.
AcquireHeld(w) ==
  /\ Go(w, "waiting", "rotate")
  /\ lock' = w
  /\ UNCHANGED <<logVars, ownVars>>

Acquire(w) ==
  /\ lock = NoWriter
  /\ Go(w, "waiting", "rotate")
  /\ lock' = w
  /\ UNCHANGED <<logVars, ownVars>>

\* A slip to be noticed: the deadline is looked at only once the lock is free.
GiveUpWhenFree(w) ==
  /\ "timeout" \in Faults
  /\ lock = NoWriter
  /\ Go(w, "waiting", "tail")
  /\ UNCHANGED <<logVars, ownVars, lock>>

\* The lock was still held at the deadline.
GiveUp(w) ==
  /\ "timeout" \in Faults
  /\ lock # NoWriter
  /\ Go(w, "waiting", "tail")
  /\ UNCHANGED <<logVars, ownVars, lock>>

\* A slip to be noticed: a full log is removed, not moved beside.
RemoveFull(w) ==
  /\ Len(current) > RotateAt
  /\ Go(w, "rotate", "tail")
  /\ current' = <<>>
  /\ present' = FALSE
  /\ fd' = [v \in Writers |-> IF fd[v] = "none" THEN "none" ELSE "gone"]
  /\ UNCHANGED <<rotated, lock, link, linked, torn, lastId>>

\* path.replace: an open descriptor keeps naming the file it opened.
Rotate(w) ==
  /\ Len(current) > RotateAt
  /\ Go(w, "rotate", "tail")
  /\ rotated' = current
  /\ current' = <<>>
  /\ present' = FALSE
  /\ fd' = [v \in Writers |-> CASE fd[v] = "none" -> "none"
                                [] fd[v] = "current" -> "rotated"
                                [] OTHER -> "gone"]
  /\ UNCHANGED <<lock, link, linked, torn, lastId>>

KeepFile(w) ==
  /\ Len(current) <= RotateAt \/ "rename" \in Faults
  /\ Go(w, "rotate", "tail")
  /\ UNCHANGED <<logVars, ownVars, lock>>

\* A slip to be noticed: a torn end is not noted with the last line.
ReadTailOnly(w) ==
  /\ Held(w) /\ current # <<>>
  /\ Go(w, "tail", "open")
  /\ link' = [link EXCEPT ![w] = ChainAfter(LastLine(current))]
  /\ linked' = [linked EXCEPT ![w] = TRUE]
  /\ UNCHANGED <<logVars, torn, fd, lock>>

\* The lock holder found a last line in the log itself.
ReadTail(w) ==
  /\ Held(w) /\ current # <<>>
  /\ Go(w, "tail", "open")
  /\ link' = [link EXCEPT ![w] = ChainAfter(LastLine(current))]
  /\ linked' = [linked EXCEPT ![w] = TRUE]
  /\ torn' = [torn EXCEPT ![w] = EndsTorn(current)]
  /\ UNCHANGED <<logVars, fd, lock>>

\* The lock holder found no line: it goes on to the rotated file.
ReadEmptyTail(w) ==
  /\ Held(w) /\ current = <<>>
  /\ Go(w, "tail", "rotatedTail")
  /\ UNCHANGED <<logVars, ownVars, lock>>

\* A slip to be noticed: an empty log starts a chain of its own.
StartAfresh(w) ==
  /\ Go(w, "rotatedTail", "open")
  /\ link' = [link EXCEPT ![w] = ChainAfter(NoLine)]
  /\ linked' = [linked EXCEPT ![w] = TRUE]
  /\ UNCHANGED <<logVars, torn, fd, lock>>

ReadRotatedTail(w) ==
  /\ Go(w, "rotatedTail", "open")
  /\ link' = [link EXCEPT ![w] = ChainAfter(LastLine(rotated))]
  /\ linked' = [linked EXCEPT ![w] = TRUE]
  /\ UNCHANGED <<logVars, torn, fd, lock>>

\* A slip to be noticed: a writer without the lock chains its line all the same.
ChainUnlocked(w) ==
  /\ ~Held(w)
  /\ Go(w, "tail", "open")
  /\ link' = [link EXCEPT ![w] = ChainAfter(LastLine(current))]
  /\ linked' = [linked EXCEPT ![w] = TRUE]
  /\ torn' = [torn EXCEPT ![w] = EndsTorn(current)]
  /\ UNCHANGED <<logVars, fd, lock>>

ReadTailUnlocked(w) ==
  /\ ~Held(w)
  /\ Go(w, "tail", "open")
  /\ torn' = [torn EXCEPT ![w] = EndsTorn(current)]
  /\ UNCHANGED <<logVars, link, linked, fd, lock>>

\* An OSError or ValueError on the way to the link: unchained, torn forgotten.
ReadFails(w) ==
  /\ "unreadable" \in Faults
  /\ pc[w] \in {"tail", "rotatedTail"}
  /\ pc' = [pc EXCEPT ![w] = "open"]
  /\ linked' = [linked EXCEPT ![w] = FALSE]
  /\ torn' = [torn EXCEPT ![w] = FALSE]
  /\ UNCHANGED <<logVars, link, fd, lock>>

OpenLog(w) ==
  /\ Go(w, "open", "write")
  /\ fd' = [fd EXCEPT ![w] = "current"]
  /\ present' = TRUE
  /\ UNCHANGED <<current, rotated, lastId, link, linked, torn, lock>>

OpenFails(w) ==
  /\ "open" \in Faults
  /\ pc[w] = "open"
  /\ Leave(w)
  /\ Release(w)
  /\ UNCHANGED logVars

-----------------------------------------------------------------------------
(***************************************************************************)
(* The one write of a line.  What lands in the file depends on the bytes   *)
(* already at its end at that moment (O_APPEND), and on the newline the    *)
(* writer put first if it had seen a torn end.                             *)
(***************************************************************************)

NewLine(w, closed) ==
  [id |-> lastId + 1,
   kind |-> IF linked[w] THEN "chained" ELSE "unchained",
   seq |-> link[w].seq, prev |-> link[w].prev, closed |-> closed]

GarbageLine(closed) ==
  [id |-> lastId + 1, kind |-> "garbage", seq |-> -1, prev |-> GENESIS,
   closed |-> closed]

CloseEnd(file) == IF file = <<>> THEN file
                  ELSE [file EXCEPT ![Len(file)].closed = TRUE]

\* `line` added after the end of `file`: glued to a torn end that no newline
\* closes, which makes one unreadable line of the two.
AddTo(w, file, line) ==
  IF EndsTorn(file) /\ ~torn[w]
  THEN [file EXCEPT ![Len(file)] = GarbageLine(line.closed)]
  ELSE Append(CloseEnd(file), line)

Target(w) == IF fd[w] = "rotated" THEN rotated ELSE current

\* The file w has open reads `file` from now on; a file rotated away twice is
\* in no name's reach, and what is written to it is lost.
Put(w, file) ==
  /\ current' = IF fd[w] = "current" THEN file ELSE current
  /\ rotated' = IF fd[w] = "rotated" THEN file ELSE rotated
  /\ lastId' = lastId + 1
  /\ UNCHANGED present

Write(w) ==
  /\ Go(w, "write", "unlock")
  /\ Put(w, AddTo(w, Target(w), NewLine(w, TRUE)))
  /\ UNCHANGED <<ownVars, lock>>

\* os.write wrote fewer bytes than the line has (its result is not read):
\* part of the text, the text without its newline, or the leading newline only.
WriteShort(w) ==
  /\ "tear" \in Faults
  /\ Go(w, "write", "unlock")
  /\ \/ Put(w, AddTo(w, Target(w), GarbageLine(FALSE)))
     \/ Put(w, AddTo(w, Target(w), NewLine(w, FALSE)))
     \/ torn[w] /\ Put(w, CloseEnd(Target(w)))
  /\ UNCHANGED <<ownVars, lock>>

Unlock(w) ==
  /\ pc[w] = "unlock"
  /\ Leave(w)
  /\ Release(w)
  /\ UNCHANGED logVars

\* The process is killed between two calls; the system closes its files.
Crash(w) ==
  /\ "crash" \in Faults
  /\ pc[w] # "idle"
  /\ Leave(w)
  /\ Release(w)
  /\ UNCHANGED logVars

Step(w) ==
  \/ Acquire(w) \/ GiveUp(w) \/ Rotate(w) \/ KeepFile(w)
  \/ ReadTail(w) \/ ReadEmptyTail(w) \/ ReadRotatedTail(w)
  \/ ReadTailUnlocked(w) \/ ReadFails(w) \/ OpenLog(w) \/ OpenFails(w)
  \/ Write(w) \/ WriteShort(w) \/ Unlock(w)

\* No hook runs: the only state in which nothing has to happen.
Quiet == Busy = {} /\ UNCHANGED vars

Next == (\E w \in Writers : Begin(w) \/ Step(w) \/ Crash(w)) \/ Quiet

Spec == Init /\ [][Next]_vars

\* A hook the system keeps scheduling takes its next step; one that stalls,
\* for instance on a network disk, may never take another.
Fairness == \A w \in Writers \ Stalled : WF_vars(Step(w))

FairSpec == Spec /\ Fairness

-----------------------------------------------------------------------------
(***************************************************************************)
(* Properties.                                                             *)
(***************************************************************************)

TypeOK ==
  /\ current \in Seq(Line) /\ rotated \in Seq(Line)
  /\ present \in BOOLEAN
  /\ lock \in Writers \cup {NoWriter}
  /\ pc \in [Writers -> Stage]
  /\ link \in [Writers -> [seq : Nat \cup {-1}, prev : Nat]]
  /\ linked \in [Writers -> BOOLEAN]
  /\ torn \in [Writers -> BOOLEAN]
  /\ fd \in [Writers -> File]
  /\ lastId \in Nat

\* While every writer gets the lock and every write completes, the verifier
\* finds the two files one unbroken chain in every state: whatever crashes,
\* rotations and failed opens come between the read of the last line and the
\* write of the next (log_append, gatelog_chain.verify).
ChainIntact == Intact(Window)

\* Without lock timeouts, torn writes and unreadable logs the two files together
\* are the append-only chain the documentation describes: a step of a writer
\* adds one chained line, drops the oldest file's lines, or changes nothing.
Chain == INSTANCE AppendOnlyChain WITH lines <- Window
ImplementsChain == Chain!Spec

\* Lines written outside the lock, torn writes and unreadable logs do break
\* the chain, but the line that did it is still there to be shown: a break is
\* never left alone with lines that all look well-formed and chained.
BreakIsAccountedFor ==
  Intact(Window) \/ \E i \in DOMAIN Window : ~Chained(Window[i])

\* Two chained lines never follow the same line, whatever goes wrong
\* (tests/test_decision_log_chain_routes.py, "never fork").
NeverForks ==
  \A i, j \in DOMAIN Window :
    (i # j /\ Chained(Window[i]) /\ Chained(Window[j]))
      => Window[i].prev # Window[j].prev

\* A hook waits for the lock for a bounded time: however long another hook
\* holds it, even for ever, its own append comes to an end (_log_lock_wait).
NoWriterWaitsForever ==
  \A w \in Writers \ Stalled : (pc[w] = "waiting") ~> (pc[w] = "idle")

=============================================================================
