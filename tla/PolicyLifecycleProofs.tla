------------------------ MODULE PolicyLifecycleProofs ------------------------
(***************************************************************************)
(* What chock.lock may be trusted for, whatever commands race, are killed  *)
(* or meet edits, for any packs, contents and processes: it names a        *)
(* catalog only for what that catalog gave, no command drops the           *)
(* provenance of a pack that was left alone, and the artifacts it attests  *)
(* were compiled from the packs it attests.                                *)
(***************************************************************************)
EXTENDS PolicyLifecycle, TLAPS

Recompiling == {"replace", "move", "cover", "unhook", "hook", "wire", "recover", "list"}
BeforeLock == {"clear", "copy", "erase", "config", "blank", "toggle", "compile", "build"} \cup Recompiling
Writing == {"truncate", "write"}
Covered == {"cover", "unhook", "hook", "wire", "recover", "list", "build"}

\* Which command is at which stage.
Shape(c) ==
  /\ job[c].cmd \in {"add", "copy"} => job[c].on \in Packs /\ job[c].what \in fetched[job[c].on]
  /\ pc[c] \in {"clear", "copy"} => job[c].cmd \in {"add", "copy"}
  /\ pc[c] = "erase" => job[c].cmd = "remove" /\ job[c].on \in Packs
  /\ pc[c] \in {"config", "blank", "toggle"} => job[c].cmd \in {"enable", "disable"} /\ job[c].on \in Packs
  /\ job[c].cmd = "init" => pc[c] \in {"build", "truncate", "write", "again", "done"}
  /\ pc[c] = "source" => job[c].cmd = "add"
  /\ pc[c] \in Writing /\ job[c].then = "source" => job[c].cmd = "add"

\* A lock whose artifacts were compiled from the packs it attests.
Attests(l) == \A p \in Packs : l.at[p].artifacts \in {l.at[p].sha, None}

\* The lock l keeps the provenance of the packs that are as c found them.
Keeping(c, l) ==
  \A p \in Packs :
    (/\ job[c].was.at[p].source = "catalog"
     /\ job[c].was.at[p].sha = job[c].had[p] /\ pack[p] = job[c].had[p])
    => l.at[p].source = "catalog"

\* What a command knows of the files while nothing else has changed any.
Alone(c) ==
  /\ job[c].cmd = "add" /\ pc[c] \in {"compile", "build"} \cup Recompiling =>
       pack[job[c].on] = job[c].what
  /\ pc[c] \in {"replace", "move"} => \A p \in Packs : job[c].staged[p] \in {None, pack[p]}
  /\ pc[c] = "move" => ~tree.there
  /\ job[c].cmd # "init" /\ pc[c] \in Covered => \A p \in Packs : tree.at[p] \in {None, pack[p]}
  /\ job[c].cmd # "init" /\ pc[c] \in Writing => Attests(job[c].draft)
  /\ pc[c] \in Writing /\ job[c].then = "source" => job[c].draft.at[job[c].on].sha = job[c].what
  /\ pc[c] = "source" => lock.at[job[c].on].sha = job[c].what /\ Attests(lock)
  /\ pc[c] \in BeforeLock => lock = job[c].was
  /\ pc[c] \in Writing => Keeping(c, job[c].draft)
  /\ pc[c] \in {"source", "again", "done"} => Keeping(c, lock)

\* The lock a command is about to write is true of every pack whose source was
\* not recorded in the dark, unless that is what this command now does.
DraftTrue(c) ==
  pc[c] \in Writing => \A p \in Packs \ doubtful :
    job[c].draft.at[p].source = "catalog" =>
      \/ job[c].draft.at[p].sha \in fetched[p]
      \/ c \in touched /\ job[c].cmd = "add" /\ p = job[c].on

LifeInv ==
  /\ TypeOK
  /\ \A c \in Commands : Shape(c) /\ DraftTrue(c) /\ (c \notin touched => Alone(c))
  /\ AttestedIsCompiled
  /\ ProvenanceIsTrue

-----------------------------------------------------------------------------

LEMMA NothingIsNull ==
  /\ Torn = "torn" /\ None = "none" /\ None \notin Contents /\ Torn \notin Contents
  /\ "lock" \notin Packs /\ None \notin Packs
BY PacksAssumption DEF Torn, None

LEMMA NoJobIsAJob == NoJob \in Job /\ NoLock \in Lock /\ TornLock \in Lock /\ NoTree \in Tree
<1>1. NoLock \in Lock
  BY DEF NoLock, Lock
<1>2. TornLock \in Lock
  BY <1>1 DEF TornLock, Lock
<1>3. NoTree \in Tree
  BY DEF NoTree, Tree
<1>4. NoJob \in Job
  BY <1>1 DEF NoJob, Job, Command
<1> QED
  BY <1>1, <1>2, <1>3, <1>4

\* What a lock is built from is what the packs, the tree and the lock hold.
LEMMA LockedIsALock ==
  ASSUME TypeOK
  PROVE  /\ Locked \in Lock
         /\ \A p \in Packs : Locked.at[p].artifacts \in {None, tree.at[p]}
                               /\ (p \notin Installed => Locked.at[p] = NoEntry)
                               /\ (p \in Installed => Locked.at[p].sha = pack[p])
         /\ \A p \in Packs : Locked.at[p].source = "catalog" <=> p \in Installed /\ Kept(p)
<1> DEFINE Of(p) == IF p \notin Installed THEN NoEntry
                    ELSE [sha |-> pack[p], source |-> IF Kept(p) THEN "catalog" ELSE "local",
                          artifacts |-> tree.at[p]]
<1>1. Locked = [torn |-> FALSE, at |-> [p \in Packs |-> Of(p)]]
  BY DEF Locked
<1>2. \A p \in Packs : Of(p) \in Entry \cup {NoEntry}
  <2> SUFFICES ASSUME NEW p \in Packs, p \in Installed PROVE Of(p) \in Entry
    OBVIOUS
  <2>1. pack[p] \in Contents /\ tree.at[p] \in Contents \cup {None}
    BY DEF Installed, TypeOK, Tree
  <2> QED
    BY <2>1 DEF Entry
<1>3. Locked \in Lock
  <2> HIDE DEF Of
  <2> QED
    BY <1>1, <1>2 DEF Lock
<1>4. \A p \in Packs : Locked.at[p] = Of(p)
  BY <1>1
<1>5. ASSUME NEW p \in Packs, p \notin Installed
      PROVE  Locked.at[p] = NoEntry /\ NoEntry.artifacts = None /\ NoEntry.source # "catalog"
  BY <1>4, <1>5 DEF NoEntry, None
<1>6. ASSUME NEW p \in Packs, p \in Installed
      PROVE  /\ Locked.at[p].artifacts = tree.at[p] /\ Locked.at[p].sha = pack[p]
             /\ Locked.at[p].source = "catalog" <=> Kept(p)
  <2>1. Locked.at[p] = [sha |-> pack[p], source |-> IF Kept(p) THEN "catalog" ELSE "local",
                        artifacts |-> tree.at[p]]
    BY <1>4, <1>6
  <2>2. Locked.at[p].source = IF Kept(p) THEN "catalog" ELSE "local"
    BY <2>1
  <2>3. Locked.at[p].artifacts = tree.at[p] /\ Locked.at[p].sha = pack[p]
    BY <2>1
  <2> QED
    BY <2>2, <2>3
<1> HIDE DEF Of
<1>7. ASSUME NEW p \in Packs
      PROVE  /\ Locked.at[p].artifacts \in {None, tree.at[p]}
             /\ p \notin Installed => Locked.at[p] = NoEntry
             /\ p \in Installed => Locked.at[p].sha = pack[p]
             /\ Locked.at[p].source = "catalog" <=> p \in Installed /\ Kept(p)
  <2>1. CASE p \in Installed
    BY <1>6, <2>1
  <2>2. CASE p \notin Installed
    BY <1>5, <2>2
  <2> QED
    BY <2>1, <2>2
<1> QED
  BY <1>3, <1>7

LEMMA CompiledIsTyped ==
  ASSUME TypeOK
  PROVE  /\ Compiled \in [Packs -> Contents \cup {None}]
         /\ \A p \in Packs : Compiled[p] \in {None, pack[p]}
         /\ Cells \in [Packs -> {None, "disabled", "compiled", "wired"}]
BY DEF Compiled, Installed, Cells, Cell

-----------------------------------------------------------------------------

LEMMA LifeInit == Init => LifeInv
<1> SUFFICES ASSUME Init PROVE LifeInv
  OBVIOUS
<1>1. TypeOK
  <2>1. tree \in Tree /\ lock \in Lock /\ job \in [Commands -> Job]
    BY NoJobIsAJob DEF Init
  <2> QED
    BY <2>1 DEF Init, TypeOK, Stage
<1>2. \A c \in Commands : job[c].cmd = "none" /\ pc[c] = "idle"
  BY DEF Init, NoJob
<1>3. \A c \in Commands : Shape(c) /\ DraftTrue(c) /\ Alone(c)
  BY <1>2 DEF Shape, DraftTrue, Alone, Writing, Covered, BeforeLock, Recompiling
<1>4. \A p \in Packs : lock.at[p] = NoEntry
  BY DEF Init, NoLock
<1>5. AttestedIsCompiled /\ ProvenanceIsTrue
  BY <1>4 DEF AttestedIsCompiled, ProvenanceIsTrue, NoEntry, None
<1> QED
  BY <1>1, <1>3, <1>5 DEF LifeInv

\* The fields of a job that a command changes together.
LEMMA JobFields ==
  ASSUME NEW j \in Job
  PROVE  /\ \A s \in [Packs -> Contents \cup {None}] :
              \A k \in [Packs -> {None, "disabled", "compiled", "wired"}] :
                [j EXCEPT !.staged = s, !.cover = k] \in Job
         /\ \A k \in [Packs -> {None, "disabled", "compiled", "wired"}] : [j EXCEPT !.cover = k] \in Job
         /\ \A o \in {"ok", "unwired", "failed"} : [j EXCEPT !.out = o] \in Job
         /\ [j EXCEPT !.unlisted = TRUE] \in Job /\ [j EXCEPT !.unhooked = TRUE] \in Job
         /\ \A o \in SUBSET Packs : [j EXCEPT !.off = o] \in Job
         /\ \A d \in Lock : \A t \in {"source", "again", "done"} :
              [j EXCEPT !.draft = d, !.then = t] \in Job
BY DEF Job

\* A job of the given type, put in the place of a command's.
LEMMA JobUpdate ==
  ASSUME TypeOK, NEW c \in Commands, NEW j \in Job, job' = [job EXCEPT ![c] = j]
  PROVE  job' \in [Commands -> Job]
BY DEF TypeOK

LEMMA TypeStart ==
  ASSUME TypeOK, NEW c \in Commands, NEW cmd \in Command, NEW p \in Packs \cup {None},
         NEW x \in Contents \cup {None}, NEW first \in Stage, Start(c, cmd, p, x, first)
  PROVE  /\ job' \in [Commands -> Job] /\ pc' \in [Commands -> Stage]
         /\ touched' \subseteq Commands /\ UNCHANGED <<files, doubtful>>
<1> DEFINE j == [NoJob EXCEPT !.cmd = cmd, !.on = p, !.what = x, !.was = lock, !.had = pack]
<1>1. j \in Job
  BY NoJobIsAJob DEF Job, TypeOK
<1>2. job' = [job EXCEPT ![c] = j]
  BY DEF Start
<1>3. job' \in [Commands -> Job]
  BY <1>1, <1>2, JobUpdate
<1> QED
  BY <1>3 DEF Start, TypeOK

LEMMA TypeStep ==
  ASSUME LifeInv, [Next]_vars
  PROVE  TypeOK'
<1>0. TypeOK
  BY DEF LifeInv
<1> USE DEF TypeOK, files, history, Keeps, Touch, Go
<1>1. ASSUME NEW c \in Commands,
             Add(c) \/ Remove(c) \/ Toggle(c) \/ Sync(c) \/ InitLock(c)
      PROVE  TypeOK'
  <2>1. \E cmd \in Command, p \in Packs \cup {None}, x \in Contents \cup {None}, first \in Stage :
           Start(c, cmd, p, x, first)
    <3>1. CASE Add(c)
      <4>1. PICK cmd \in {"add", "copy"}, p \in Packs, x \in Contents :
               Start(c, cmd, p, x, IF pack[p] = None THEN "copy" ELSE "clear")
        BY <3>1 DEF Add
      <4> QED
        BY <4>1 DEF Stage, Command
    <3>2. CASE Remove(c)
      BY <3>2 DEF Remove, Installed, Stage, Command
    <3>3. CASE Toggle(c)
      BY <3>3 DEF Toggle, Installed, Stage, Command
    <3>4. CASE Sync(c) \/ InitLock(c)
      BY <3>4 DEF Sync, InitLock, Stage, Command
    <3> QED
      BY <1>1, <3>1, <3>2, <3>3, <3>4
  <2>2. /\ job' \in [Commands -> Job] /\ pc' \in [Commands -> Stage]
        /\ touched' \subseteq Commands /\ UNCHANGED <<files, doubtful>>
    BY <1>0, <2>1, TypeStart
  <2>3. fetched' \in [Packs -> SUBSET Contents]
    BY <1>0, <1>1 DEF Add, Remove, Toggle, Sync, InitLock
  <2> QED
    BY <1>0, <2>2, <2>3
<1>2. ASSUME NEW c \in Commands, Erase(c) PROVE TypeOK'
  <2>1. pc' \in [Commands -> Stage]
    BY <1>0, <1>2 DEF Erase, Stage
  <2>2. pack' \in [Packs -> Contents \cup {Torn, None}]
    BY <1>0, <1>2 DEF Erase
  <2> QED
    BY <1>0, <1>2, <2>1, <2>2 DEF Erase
<1>3. ASSUME NEW c \in Commands, CopyPack(c) PROVE TypeOK'
  <2>1. pc' \in [Commands -> Stage]
    BY <1>0, <1>3 DEF CopyPack, Stage
  <2>2. job[c].what \in Contents
    BY <1>0, <1>3 DEF CopyPack, LifeInv, Shape
  <2>3. pack' \in [Packs -> Contents \cup {Torn, None}]
    BY <1>0, <1>3, <2>2 DEF CopyPack
  <2> QED
    BY <1>0, <1>3, <2>1, <2>3 DEF CopyPack
<1>4. ASSUME NEW c \in Commands, ReadConfig(c) \/ EmptyConfig(c) \/ SetDisabled(c) PROVE TypeOK'
  <2> DEFINE off == IF job[c].cmd = "disable" THEN disabled \cup {job[c].on}
                    ELSE disabled \ {job[c].on}
  <2>1. CASE ReadConfig(c)
    <3>1. job[c].on \in Packs
      BY <2>1 DEF ReadConfig, LifeInv, Shape
    <3>2. [job[c] EXCEPT !.off = off] \in Job
      BY <1>0, <3>1, JobFields
    <3>3. job' \in [Commands -> Job]
      BY <1>0, <2>1, <3>2, JobUpdate DEF ReadConfig
    <3> QED
      BY <1>0, <2>1, <3>3 DEF ReadConfig, Stage
  <2>2. CASE EmptyConfig(c)
    BY <1>0, <2>2 DEF EmptyConfig, Stage
  <2>3. CASE SetDisabled(c)
    BY <1>0, <2>3 DEF SetDisabled, Stage, Job
  <2> QED
    BY <1>4, <2>1, <2>2, <2>3
<1>5. ASSUME NEW c \in Commands, CompileAll(c) PROVE TypeOK'
  <2>1. [job[c] EXCEPT !.staged = Compiled, !.cover = Cells] \in Job
    BY <1>0, CompiledIsTyped, JobFields
  <2>2. job' \in [Commands -> Job]
    BY <1>0, <1>5, <2>1, JobUpdate DEF CompileAll
  <2> QED
    BY <1>0, <1>5, <2>2 DEF CompileAll, Stage
<1>6. ASSUME NEW c \in Commands, RemoveTree(c) PROVE TypeOK'
  BY <1>0, <1>6, NoJobIsAJob DEF RemoveTree, Stage
<1>7. ASSUME NEW c \in Commands, MoveTree(c) PROVE TypeOK'
  <2>1. tree' \in Tree
    BY <1>0, <1>7 DEF MoveTree, Tree, Job
  <2> QED
    BY <1>0, <1>7, <2>1 DEF MoveTree, Stage
<1>8. ASSUME NEW c \in Commands, WriteCoverage(c) PROVE TypeOK'
  <2>1. coverage' \in [Packs -> {None, "disabled", "compiled", "wired"}]
    BY <1>0, <1>8 DEF WriteCoverage, Job
  <2> QED
    BY <1>0, <1>8, <2>1 DEF WriteCoverage, Stage
<1>9. ASSUME NEW c \in Commands, RemoveWrappers(c) \/ WriteWrappers(c) PROVE TypeOK'
  <2>1. tree' \in Tree
    <3>1. CASE RemoveWrappers(c)
      <4> DEFINE at == [p \in Packs |-> IF tree.at[p] = None THEN Compiled[p] ELSE tree.at[p]]
      <4>1. at \in [Packs -> Contents \cup {None}]
        BY <1>0, CompiledIsTyped DEF Tree
      <4>2. tree' = [tree EXCEPT !.there = TRUE, !.at = at]
        BY <3>1 DEF RemoveWrappers
      <4> QED
        BY <1>0, <4>1, <4>2 DEF Tree
    <3>2. CASE WriteWrappers(c)
      BY <1>0, <3>2 DEF WriteWrappers
    <3> QED
      BY <1>9, <3>1, <3>2
  <2>2. gitHooks' \subseteq Packs /\ pc' \in [Commands -> Stage]
    BY <1>0, <1>9 DEF RemoveWrappers, WriteWrappers, Stage
  <2> QED
    BY <1>0, <1>9, <2>1, <2>2 DEF RemoveWrappers, WriteWrappers
<1>10. ASSUME NEW c \in Commands, WireClients(c) PROVE TypeOK'
  <2> DEFINE again == [p \in Packs |->
               IF Cell(p) = "compiled" /\ tree.at[p] # None THEN "wired" ELSE Cell(p)]
  <2>1. again \in [Packs -> {None, "disabled", "compiled", "wired"}]
    BY DEF Cell
  <2>2. [job[c] EXCEPT !.cover = again] \in Job
    BY <1>0, <2>1, JobFields
  <2>3. job' = job \/ job' = [job EXCEPT ![c] = [job[c] EXCEPT !.cover = again]]
    BY <1>10 DEF WireClients
  <2>4. job' \in [Commands -> Job]
    BY <1>0, <2>2, <2>3, JobUpdate
  <2> QED
    BY <1>0, <1>10, <2>4 DEF WireClients, Stage, Tree
<1>20. ASSUME NEW c \in Commands, WarnNotGit(c) PROVE TypeOK'
  <2>1. [job[c] EXCEPT !.unhooked = TRUE] \in Job
    BY <1>0, JobFields
  <2>2. job' \in [Commands -> Job]
    BY <1>0, <1>20, <2>1, JobUpdate DEF WarnNotGit
  <2> QED
    BY <1>0, <1>20, <2>2 DEF WarnNotGit, Stage
<1>11. ASSUME NEW c \in Commands, WiringFails(c) PROVE TypeOK'
  <2>1. [job[c] EXCEPT !.out = "unwired"] \in Job
    BY <1>0, JobFields
  <2>2. job' \in [Commands -> Job]
    BY <1>0, <1>11, <2>1, JobUpdate DEF WiringFails, Ends
  <2> QED
    BY <1>0, <1>11, <2>2 DEF WiringFails, Stage
<1>12. ASSUME NEW c \in Commands, Refresh(c) PROVE TypeOK'
  <2>1. [job[c] EXCEPT !.unlisted = TRUE] \in Job
    BY <1>0, JobFields
  <2>2. job' \in [Commands -> Job]
    BY <1>0, <1>12, <2>1, JobUpdate DEF Refresh
  <2> QED
    BY <1>0, <1>12, <2>2 DEF Refresh, Stage
<1>13. ASSUME NEW c \in Commands, BuildLock(c) PROVE TypeOK'
  <2>1. [job[c] EXCEPT !.draft = Locked, !.then = AfterLock(c)] \in Job
    <3>1. AfterLock(c) \in {"source", "again", "done"}
      BY DEF AfterLock
    <3> QED
      BY <1>0, <3>1, LockedIsALock, JobFields
  <2>2. job' \in [Commands -> Job]
    BY <1>0, <1>13, <2>1, JobUpdate DEF BuildLock
  <2> QED
    BY <1>0, <1>13, <2>2 DEF BuildLock, Stage
<1>14. ASSUME NEW c \in Commands, TruncateLock(c) PROVE TypeOK'
  BY <1>0, <1>14, NoJobIsAJob DEF TruncateLock, Stage
<1>15. ASSUME NEW c \in Commands, WriteLock(c) PROVE TypeOK'
  <2>1. job[c].draft \in Lock /\ job[c].then \in Stage
    BY <1>0 DEF Job, Stage
  <2>2. doubtful' \subseteq Packs \cup {"lock"}
    <3>1. pc[c] = "write" /\ job[c].cmd = "add" => job[c].on \in Packs
      BY DEF LifeInv, Shape
    <3> QED
      BY <1>0, <1>15, <3>1 DEF WriteLock
  <2> QED
    BY <1>0, <1>15, <2>1, <2>2 DEF WriteLock
<1>16. ASSUME NEW c \in Commands, RecordProvenance(c) PROVE TypeOK'
  <2> DEFINE p == job[c].on
             sourced == [lock EXCEPT !.at[p].source = "catalog"]
  <2>1. p \in Packs
    BY <1>16 DEF RecordProvenance, LifeInv, Shape
  <2>2. lock.at[p] # NoEntry => sourced \in Lock
    BY <1>0, <2>1 DEF Lock, Entry
  <2>3. lock.at[p] # NoEntry => [job[c] EXCEPT !.draft = sourced, !.then = "done"] \in Job
    BY <1>0, <2>2, JobFields
  <2>4. [job[c] EXCEPT !.out = "failed"] \in Job
    BY <1>0, JobFields
  <2>5. job' \in [Commands -> Job]
    <3>1. CASE lock.torn
      BY <1>0, <1>16, <2>4, <3>1, JobUpdate DEF RecordProvenance, Ends
    <3>2. CASE ~lock.torn /\ lock.at[p] = NoEntry
      BY <1>0, <1>16, <3>2 DEF RecordProvenance
    <3>3. CASE ~lock.torn /\ lock.at[p] # NoEntry
      BY <1>0, <1>16, <2>3, <3>3, JobUpdate DEF RecordProvenance
    <3> QED
      BY <3>1, <3>2, <3>3
  <2> QED
    BY <1>0, <1>16, <2>5 DEF RecordProvenance, Stage
<1>17. ASSUME NEW c \in Commands, Exit(c) \/ Killed(c) PROVE TypeOK'
  BY <1>0, <1>17, NoJobIsAJob DEF Exit, Killed, Stage
<1>18. ASSUME NEW p \in Packs, Edit(p) PROVE TypeOK'
  BY <1>0, <1>18 DEF Edit
<1>19. CASE UNCHANGED vars
  BY <1>0, <1>19 DEF vars
<1> QED
  BY <1>1, <1>2, <1>3, <1>4, <1>5, <1>6, <1>7, <1>8, <1>9, <1>10, <1>11, <1>12, <1>13, <1>14,
     <1>15, <1>16, <1>17, <1>18, <1>19, <1>20
     DEF Next, Step

-----------------------------------------------------------------------------

LEMMA StartFacts ==
  ASSUME TypeOK, NEW c \in Commands, NEW cmd, NEW p, NEW x, NEW first, Start(c, cmd, p, x, first)
  PROVE  /\ job'[c].cmd = cmd /\ job'[c].on = p /\ job'[c].what = x /\ job'[c].was = lock
         /\ pc'[c] = first /\ UNCHANGED <<files, doubtful>>
         /\ \A d \in Commands \ {c} : pc'[d] = pc[d] /\ job'[d] = job[d]
         /\ touched' = touched \ {c}
<1>1. job'[c] = [NoJob EXCEPT !.cmd = cmd, !.on = p, !.what = x, !.was = lock, !.had = pack]
  BY DEF Start, TypeOK
<1>2. job'[c].cmd = cmd /\ job'[c].on = p /\ job'[c].what = x /\ job'[c].was = lock
  BY <1>1 DEF NoJob
<1> QED
  BY <1>2 DEF Start, TypeOK

\* A command's own step, to another command that is running: it is left alone
\* only where no file changes, and what is recorded of it only grows.
LEMMA Undisturbed ==
  ASSUME TypeOK, NEW c \in Commands, NEW d \in Commands, c # d, Step(d)
  PROVE  /\ pc'[c] = pc[c] /\ job'[c] = job[c] /\ (c \in touched => c \in touched')
         /\ Runs(c) /\ c \notin touched' => UNCHANGED files
<1> USE DEF files, history, Keeps, Touch, Go, TypeOK, Runs, Ends
<1>1. CASE Add(d) \/ Remove(d) \/ Toggle(d) \/ Sync(d) \/ InitLock(d)
  <2>1. \E cmd, p, x, first : Start(d, cmd, p, x, first)
    BY <1>1 DEF Add, Remove, Toggle, Sync, InitLock
  <2> QED
    BY <2>1, StartFacts
<1>2. CASE Erase(d) \/ CopyPack(d)
  BY <1>2 DEF Erase, CopyPack
<1>3. CASE CompileAll(d) \/ RemoveTree(d) \/ MoveTree(d)
  BY <1>3 DEF CompileAll, RemoveTree, MoveTree
<1>8. CASE ReadConfig(d) \/ EmptyConfig(d) \/ SetDisabled(d)
  BY <1>8 DEF ReadConfig, EmptyConfig, SetDisabled
<1>4. CASE WriteCoverage(d) \/ RemoveWrappers(d) \/ WriteWrappers(d) \/ WarnNotGit(d)
  BY <1>4 DEF WriteCoverage, RemoveWrappers, WriteWrappers, WarnNotGit
<1>5. CASE WireClients(d) \/ WiringFails(d) \/ Refresh(d)
  BY <1>5 DEF WireClients, WiringFails, Refresh
<1>6. CASE BuildLock(d) \/ TruncateLock(d) \/ WriteLock(d)
  BY <1>6 DEF BuildLock, TruncateLock, WriteLock
<1>7. CASE RecordProvenance(d) \/ Exit(d) \/ Killed(d)
  BY <1>7 DEF RecordProvenance, Exit, Killed
<1> QED
  BY <1>1, <1>2, <1>3, <1>4, <1>5, <1>6, <1>7, <1>8 DEF Step

\* A catalog's gifts are not forgotten, and no doubt about a pack is lifted.
LEMMA HistoryGrows ==
  ASSUME TypeOK, NEW c \in Commands, Step(c), NEW p \in Packs
  PROVE  fetched[p] \subseteq fetched'[p] /\ (p \in doubtful => p \in doubtful')
<1>0. p # "lock"
  BY NothingIsNull
<1>1. CASE Add(c)
  BY <1>1 DEF Add, Start, TypeOK
<1>2. CASE WriteLock(c)
  BY <1>0, <1>2 DEF WriteLock
<1>3. CASE Remove(c) \/ Toggle(c) \/ Sync(c) \/ InitLock(c)
  BY <1>3 DEF Remove, Toggle, Sync, InitLock, Start
<1>4. CASE Erase(c) \/ CopyPack(c) \/ ReadConfig(c) \/ EmptyConfig(c) \/ SetDisabled(c)
             \/ WarnNotGit(c) \/ CompileAll(c) \/ RemoveTree(c)
             \/ MoveTree(c) \/ WriteCoverage(c) \/ RemoveWrappers(c) \/ WriteWrappers(c)
             \/ WireClients(c) \/ WiringFails(c) \/ Refresh(c) \/ BuildLock(c)
             \/ TruncateLock(c) \/ RecordProvenance(c) \/ Exit(c) \/ Killed(c)
  BY <1>4 DEF Erase, CopyPack, ReadConfig, EmptyConfig, SetDisabled, WarnNotGit, CompileAll, RemoveTree, MoveTree, WriteCoverage,
              RemoveWrappers, WriteWrappers, WireClients, WiringFails, Refresh, BuildLock,
              TruncateLock, RecordProvenance, Exit, Killed, Keeps, history
<1> QED
  BY <1>1, <1>2, <1>3, <1>4 DEF Step

\* What holds of a command still does after another's step.
LEMMA OthersStep ==
  ASSUME LifeInv, NEW c \in Commands, NEW d \in Commands, c # d, Step(d)
  PROVE  Shape(c)' /\ DraftTrue(c)' /\ (c \notin touched' => Alone(c)')
<1>1. TypeOK /\ Shape(c) /\ DraftTrue(c) /\ (c \notin touched => Alone(c))
  BY DEF LifeInv
<1>2. /\ pc'[c] = pc[c] /\ job'[c] = job[c] /\ (c \in touched => c \in touched')
      /\ Runs(c) /\ c \notin touched' => UNCHANGED files
  BY <1>1, Undisturbed
<1>3. \A p \in Packs : fetched[p] \subseteq fetched'[p] /\ (p \in doubtful => p \in doubtful')
  BY <1>1, HistoryGrows
<1>4. Shape(c)' /\ DraftTrue(c)'
  BY <1>1, <1>2, <1>3 DEF Shape, DraftTrue
<1>5. ASSUME c \notin touched' PROVE Alone(c)'
  <2>1. CASE Runs(c)
    BY <1>1, <1>2, <1>5, <2>1 DEF Alone, files, Attests, Keeping
  <2>2. CASE ~Runs(c)
    BY <1>2, <2>2 DEF Alone, Runs, Recompiling, Covered, Writing, BeforeLock
  <2> QED
    BY <2>1, <2>2
<1> QED
  BY <1>4, <1>5

-----------------------------------------------------------------------------

\* A command that starts has seen nothing yet but the lock it starts from.
LEMMA StartStep ==
  ASSUME LifeInv, NEW c \in Commands,
         Add(c) \/ Remove(c) \/ Toggle(c) \/ Sync(c) \/ InitLock(c)
  PROVE  Shape(c)' /\ DraftTrue(c)' /\ Alone(c)'
<1> USE DEF Shape, DraftTrue, Alone, Recompiling, Covered, Writing, BeforeLock
<1>0. TypeOK
  BY DEF LifeInv
<1>1. CASE Add(c)
  <2>1. PICK cmd \in {"add", "copy"}, p \in Packs, x \in Contents :
           /\ Start(c, cmd, p, x, IF pack[p] = None THEN "copy" ELSE "clear")
           /\ fetched' = [fetched EXCEPT ![p] = @ \cup {x}]
    BY <1>1 DEF Add
  <2>2. /\ job'[c].cmd = cmd /\ job'[c].on = p /\ job'[c].what = x /\ job'[c].was = lock
        /\ pc'[c] \in {"copy", "clear"} /\ UNCHANGED files
    BY <1>0, <2>1, StartFacts
  <2>3. x \in fetched'[p]
    BY <1>0, <2>1 DEF TypeOK
  <2> QED
    BY <2>2, <2>3 DEF files
<1>2. CASE Remove(c)
  <2>1. PICK p \in Packs : Start(c, "remove", p, None, "erase")
    BY <1>2 DEF Remove, Installed
  <2>2. job'[c].cmd = "remove" /\ job'[c].on = p /\ job'[c].was = lock /\ pc'[c] = "erase" /\ UNCHANGED files
    BY <1>0, <2>1, StartFacts
  <2> QED
    BY <2>2 DEF files
<1>3. CASE Toggle(c)
  <2>1. PICK p \in Packs, cmd \in {"enable", "disable"} : Start(c, cmd, p, None, "config")
    BY <1>3 DEF Toggle, Installed
  <2>2. job'[c].cmd = cmd /\ job'[c].on = p /\ job'[c].was = lock /\ pc'[c] = "config" /\ UNCHANGED files
    BY <1>0, <2>1, StartFacts
  <2> QED
    BY <2>2 DEF files
<1>4. CASE Sync(c)
  <2>1. PICK cmd \in {"sync", "skip"} : Start(c, cmd, None, None, "compile")
    BY <1>4 DEF Sync
  <2>2. job'[c].cmd = cmd /\ job'[c].was = lock /\ pc'[c] = "compile" /\ UNCHANGED files
    BY <1>0, <2>1, StartFacts
  <2> QED
    BY <2>2 DEF files
<1>5. CASE InitLock(c)
  <2>1. job'[c].cmd = "init" /\ job'[c].was = lock /\ pc'[c] = "build" /\ UNCHANGED files
    BY <1>0, <1>5, StartFacts DEF InitLock
  <2> QED
    BY <2>1 DEF files
<1> QED
  BY <1>1, <1>2, <1>3, <1>4, <1>5

\* Up to the lock a command only learns of the tree it makes.
LEMMA RecompileStep ==
  ASSUME LifeInv, NEW c \in Commands,
         \/ Erase(c) \/ CopyPack(c) \/ ReadConfig(c) \/ EmptyConfig(c) \/ SetDisabled(c)
         \/ WarnNotGit(c) \/ CompileAll(c) \/ RemoveTree(c)
         \/ MoveTree(c) \/ WriteCoverage(c) \/ RemoveWrappers(c) \/ WriteWrappers(c)
         \/ WireClients(c) \/ WiringFails(c) \/ Refresh(c)
  PROVE  Shape(c)' /\ DraftTrue(c)' /\ (c \notin touched' => Alone(c)')
<1>0. TypeOK /\ Shape(c) /\ (c \notin touched => Alone(c))
  BY DEF LifeInv
<1> USE DEF Shape, DraftTrue, Alone, Recompiling, Covered, Writing, BeforeLock, Keeps, Touch, Go
<1>1. CASE Erase(c)
  <2>1. pc'[c] \in {"clear", "erase", "copy", "compile"} /\ (pc'[c] = "compile" => pc[c] = "erase")
        /\ (pc'[c] = "copy" => pc[c] = "clear") /\ (pc'[c] \in {"clear", "erase"} => pc'[c] = pc[c])
        /\ pc[c] \in {"clear", "erase"}
        /\ UNCHANGED <<job, lock, fetched>> /\ (c \in touched <=> c \in touched')
    BY <1>0, <1>1 DEF Erase, TypeOK
  <2> QED
    BY <1>0, <2>1
<1>2. CASE CopyPack(c)
  <2>1. job[c].on \in Packs /\ pc[c] = "copy" /\ UNCHANGED <<job, lock, fetched>> /\ (c \in touched <=> c \in touched')
    BY <1>0, <1>2 DEF CopyPack, TypeOK
  <2>2. \/ pc'[c] = "copy"
        \/ pc'[c] = "compile" /\ job[c].cmd = "add" /\ pack'[job[c].on] = job[c].what
        \/ pc'[c] = "done" /\ job[c].cmd # "add"
    BY <1>0, <1>2, <2>1 DEF CopyPack, TypeOK
  <2>3. c \notin touched => lock = job[c].was
    BY <1>0, <2>1
  <2> QED
    BY <1>0, <2>1, <2>2, <2>3 DEF Keeping
<1>3. CASE ReadConfig(c) \/ EmptyConfig(c) \/ SetDisabled(c)
  <2>1. /\ \/ pc[c] = "config" /\ pc'[c] = "blank"
           \/ pc[c] = "blank" /\ pc'[c] = "toggle"
           \/ pc[c] = "toggle" /\ pc'[c] = "compile"
        /\ UNCHANGED <<pack, lock, fetched>> /\ (c \in touched <=> c \in touched')
    BY <1>0, <1>3 DEF ReadConfig, EmptyConfig, SetDisabled, TypeOK, files, history
  <2>2. /\ job'[c].cmd = job[c].cmd /\ job'[c].on = job[c].on
        /\ job'[c].what = job[c].what /\ job'[c].was = job[c].was
    BY <1>0, <1>3 DEF ReadConfig, EmptyConfig, SetDisabled, TypeOK, Job
  <2> QED
    BY <1>0, <2>1, <2>2
<1>4. CASE CompileAll(c)
  <2>1. /\ pc[c] = "compile" /\ pc'[c] \in {"replace", "move"} /\ (pc'[c] = "move" => ~tree.there)
        /\ UNCHANGED <<files, history>>
    BY <1>0, <1>4 DEF CompileAll, TypeOK
  <2>2. /\ job'[c].staged = Compiled /\ job'[c].cmd = job[c].cmd /\ job'[c].on = job[c].on
        /\ job'[c].what = job[c].what /\ job'[c].was = job[c].was
    BY <1>0, <1>4 DEF CompileAll, TypeOK, Job
  <2> QED
    BY <1>0, <2>1, <2>2, CompiledIsTyped DEF files, history
<1>5. CASE RemoveTree(c)
  <2>1. /\ pc[c] = "replace" /\ pc'[c] = "move" /\ ~tree'.there
        /\ UNCHANGED <<pack, lock, job, fetched>> /\ (c \in touched <=> c \in touched')
    BY <1>0, <1>5 DEF RemoveTree, TypeOK, NoTree
  <2> QED
    BY <1>0, <2>1
<1>6. CASE MoveTree(c)
  <2>1. /\ pc[c] = "move" /\ pc'[c] = "cover" /\ UNCHANGED <<pack, lock, job, fetched>>
        /\ (c \in touched <=> c \in touched') /\ (~tree.there => tree'.at = job[c].staged)
    BY <1>0, <1>6 DEF MoveTree, TypeOK
  <2> QED
    BY <1>0, <2>1
<1>7. CASE WriteCoverage(c) \/ WriteWrappers(c)
  <2>1. /\ pc[c] \in {"cover", "recover", "hook"} /\ pc'[c] \in {"unhook", "list", "wire"}
        /\ UNCHANGED <<pack, tree, lock, job, fetched>> /\ (c \in touched <=> c \in touched')
    BY <1>0, <1>7 DEF WriteCoverage, WriteWrappers, TypeOK
  <2> QED
    BY <1>0, <2>1
<1>8. CASE RemoveWrappers(c)
  <2>1. /\ pc[c] = "unhook" /\ pc'[c] = "hook" /\ UNCHANGED <<pack, lock, job, fetched>>
        /\ (c \in touched <=> c \in touched')
    BY <1>0, <1>8 DEF RemoveWrappers, TypeOK
  <2>2. \A p \in Packs : tree'.at[p] \in {Compiled[p], tree.at[p]}
    BY <1>0, <1>8 DEF RemoveWrappers, TypeOK, Tree
  <2> QED
    BY <1>0, <2>1, <2>2, CompiledIsTyped
<1>11. CASE WarnNotGit(c)
  <2>1. pc[c] = "unhook" /\ pc'[c] = "wire" /\ UNCHANGED <<files, history>>
    BY <1>0, <1>11 DEF WarnNotGit, TypeOK
  <2>2. /\ job'[c].cmd = job[c].cmd /\ job'[c].on = job[c].on
        /\ job'[c].what = job[c].what /\ job'[c].was = job[c].was
    BY <1>0, <1>11 DEF WarnNotGit, TypeOK, Job
  <2> QED
    BY <1>0, <2>1, <2>2 DEF files, history
<1>9. CASE WireClients(c) \/ WiringFails(c)
  <2>1. /\ pc[c] = "wire" /\ pc'[c] \in {"recover", "list"} /\ UNCHANGED <<pack, tree, lock, fetched>>
        /\ (c \in touched <=> c \in touched')
    BY <1>0, <1>9 DEF WireClients, WiringFails, TypeOK, files, history
  <2>2. /\ job'[c].cmd = job[c].cmd /\ job'[c].on = job[c].on
        /\ job'[c].what = job[c].what /\ job'[c].was = job[c].was
    BY <1>0, <1>9 DEF WireClients, WiringFails, Ends, TypeOK, Job
  <2> QED
    BY <1>0, <2>1, <2>2
<1>10. CASE Refresh(c)
  <2>1. /\ \/ pc[c] = "list" /\ pc'[c] = "build"
           \/ pc[c] = "again" /\ pc'[c] = "done"
        /\ UNCHANGED <<pack, tree, lock, fetched>> /\ (c \in touched <=> c \in touched')
    BY <1>0, <1>10 DEF Refresh, TypeOK
  <2>2. /\ job'[c].cmd = job[c].cmd /\ job'[c].on = job[c].on /\ job'[c].had = job[c].had
        /\ job'[c].what = job[c].what /\ job'[c].was = job[c].was
    BY <1>0, <1>10 DEF Refresh, TypeOK, Job
  <2> QED
    BY <1>0, <2>1, <2>2 DEF Keeping
<1> QED
  BY <1>1, <1>2, <1>3, <1>4, <1>5, <1>6, <1>7, <1>8, <1>9, <1>10, <1>11

\* The lock that is built is true, attests what was compiled, and keeps the
\* provenance of what stayed as it was.
LEMMA BuildStep ==
  ASSUME LifeInv, NEW c \in Commands, BuildLock(c)
  PROVE  Shape(c)' /\ DraftTrue(c)' /\ (c \notin touched' => Alone(c)')
<1>0. TypeOK /\ Shape(c) /\ (c \notin touched => Alone(c)) /\ ProvenanceIsTrue
  BY DEF LifeInv
<1>1. pc[c] = "build" /\ pc'[c] = "truncate" /\ UNCHANGED <<files, history>>
  BY <1>0 DEF BuildLock, Go, TypeOK
<1>2. /\ job'[c].draft = Locked /\ job'[c].then = AfterLock(c) /\ job'[c].cmd = job[c].cmd
      /\ job'[c].on = job[c].on /\ job'[c].what = job[c].what /\ job'[c].was = job[c].was
      /\ job'[c].had = job[c].had
  BY <1>0 DEF BuildLock, TypeOK, Job
<1>3. AfterLock(c) = "source" <=> job[c].cmd = "add"
  BY DEF AfterLock
<1>4. Shape(c)'
  BY <1>0, <1>1, <1>2, <1>3 DEF Shape, Writing, history
<1>5. ASSUME NEW p \in Packs, Locked.at[p].source = "catalog"
      PROVE  lock.at[p].source = "catalog" /\ Locked.at[p].sha = lock.at[p].sha
  BY <1>0, <1>5, LockedIsALock DEF Kept
<1>6. DraftTrue(c)'
  BY <1>0, <1>1, <1>2, <1>5 DEF DraftTrue, ProvenanceIsTrue, history
<1>7. ASSUME c \notin touched' PROVE Alone(c)'
  <2>1. c \notin touched /\ Alone(c)
    BY <1>0, <1>1, <1>7 DEF history
  <2>2. job[c].cmd # "init" => Attests(Locked)
    <3> SUFFICES ASSUME job[c].cmd # "init", NEW p \in Packs
                 PROVE  Locked.at[p].artifacts \in {Locked.at[p].sha, None}
      BY DEF Attests
    <3>1. tree.at[p] \in {None, pack[p]}
      BY <1>1, <2>1 DEF Alone, Covered
    <3> QED
      BY <1>0, <3>1, LockedIsALock DEF NoEntry
  <2>3. job[c].cmd = "add" => Locked.at[job[c].on].sha = job[c].what
    <3> SUFFICES ASSUME job[c].cmd = "add" PROVE Locked.at[job[c].on].sha = job[c].what
      OBVIOUS
    <3>1. job[c].on \in Packs /\ job[c].what \in Contents /\ pack[job[c].on] = job[c].what
      BY <1>0, <1>1, <2>1 DEF Shape, Alone, TypeOK
    <3>2. job[c].on \in Installed
      BY <3>1 DEF Installed
    <3> QED
      BY <1>0, <3>1, <3>2, LockedIsALock
  <2>4. lock = job[c].was
    BY <1>1, <2>1 DEF Alone, BeforeLock
  <2>5. ASSUME NEW p \in Packs, job[c].was.at[p].source = "catalog",
               job[c].was.at[p].sha = job[c].had[p], pack[p] = job[c].had[p]
        PROVE  Locked.at[p].source = "catalog"
    <3>1. lock.at[p] \in Entry
      BY <1>0, <2>4, <2>5 DEF TypeOK, Lock, NoEntry, None
    <3>2. pack[p] \in Contents
      BY <2>4, <2>5, <3>1 DEF Entry
    <3> QED
      BY <1>0, <2>4, <2>5, <3>2, LockedIsALock DEF Kept, Installed
  <2>6. Keeping(c, job[c].draft)'
    BY <1>1, <1>2, <2>5 DEF Keeping, files
  <2>7. Attests(Locked)' <=> Attests(Locked)
    BY <1>1 DEF Attests, Locked, files, Installed, Kept
  <2> QED
    BY <1>1, <1>2, <1>3, <2>2, <2>3, <2>6 DEF Alone, Recompiling, Covered, Writing, BeforeLock, Attests
<1> QED
  BY <1>4, <1>6, <1>7

\* The lock is emptied and written: what it will say does not change.
LEMMA WriteStep ==
  ASSUME LifeInv, NEW c \in Commands, TruncateLock(c) \/ WriteLock(c)
  PROVE  Shape(c)' /\ DraftTrue(c)' /\ (c \notin touched' => Alone(c)')
<1>0. TypeOK /\ Shape(c) /\ DraftTrue(c) /\ (c \notin touched => Alone(c))
  BY DEF LifeInv
<1> USE DEF Shape, DraftTrue, Alone, Recompiling, Covered, Writing, BeforeLock, Keeps, Touch, Go,
            Attests, Keeping
<1>1. CASE TruncateLock(c)
  <2>1. /\ pc[c] = "truncate" /\ pc'[c] = "write"
        /\ UNCHANGED <<pack, tree, job, fetched, doubtful>> /\ (c \in touched <=> c \in touched')
    BY <1>0, <1>1 DEF TruncateLock, TypeOK
  <2> QED
    BY <1>0, <2>1
<1>2. CASE WriteLock(c)
  <2>1. /\ pc[c] = "write" /\ pc'[c] = job[c].then /\ job[c].then \in {"source", "again", "done"}
        /\ lock' = job[c].draft
        /\ UNCHANGED <<pack, tree, job, fetched>> /\ (c \in touched <=> c \in touched')
    BY <1>0, <1>2 DEF WriteLock, TypeOK, Job
  <2>2. Shape(c)' /\ DraftTrue(c)'
    BY <1>0, <2>1
  <2>3. ASSUME c \notin touched' PROVE Alone(c)'
    <3>1. /\ job[c].cmd # "init" => Attests(job[c].draft)
          /\ job[c].then = "source" => job[c].cmd = "add" /\ job[c].draft.at[job[c].on].sha = job[c].what
          /\ Keeping(c, job[c].draft)
      BY <1>0, <2>1, <2>3
    <3> QED
      BY <2>1, <3>1
  <2> QED
    BY <2>2, <2>3
<1> QED
  BY <1>1, <1>2

\* The source is recorded in the lock as it is, which is the one this command
\* wrote unless another came between.
LEMMA SourceStep ==
  ASSUME LifeInv, NEW c \in Commands, RecordProvenance(c)
  PROVE  Shape(c)' /\ DraftTrue(c)' /\ (c \notin touched' => Alone(c)')
<1> DEFINE on == job[c].on
           sourced == [lock EXCEPT !.at[on].source = "catalog"]
<1>0. /\ TypeOK /\ Shape(c) /\ (c \notin touched => Alone(c)) /\ ProvenanceIsTrue
      /\ pc[c] = "source" /\ job[c].cmd = "add" /\ on \in Packs /\ job[c].what \in fetched[on]
  BY DEF LifeInv, RecordProvenance, Shape
<1>1. UNCHANGED <<files, history>>
  BY DEF RecordProvenance
<1>2. CASE lock.torn \/ lock.at[on] = NoEntry
  <2>1. /\ pc'[c] = "done" /\ job'[c].cmd = job[c].cmd /\ job'[c].on = job[c].on
        /\ job'[c].what = job[c].what /\ job'[c].was = job[c].was /\ job'[c].had = job[c].had
    BY <1>0, <1>2 DEF RecordProvenance, Ends, TypeOK, Job
  <2> QED
    BY <1>0, <1>1, <2>1 DEF Shape, DraftTrue, Alone, Recompiling, Covered, Writing, BeforeLock,
                            Keeping, files, history
<1>3. CASE ~lock.torn /\ lock.at[on] # NoEntry
  <2>1. /\ pc'[c] = "truncate" /\ job'[c].cmd = "add" /\ job'[c].on = on
        /\ job'[c].draft = sourced /\ job'[c].then = "done"
        /\ job'[c].what = job[c].what /\ job'[c].was = job[c].was /\ job'[c].had = job[c].had
    <3>1. pc' = [pc EXCEPT ![c] = "truncate"]
          /\ job' = [job EXCEPT ![c].draft = sourced, ![c].then = "done"]
      BY <1>3 DEF RecordProvenance
    <3> HIDE DEF sourced
    <3> QED
      BY <1>0, <3>1 DEF TypeOK, Job
  <2>2. lock.at[on] \in Entry
    BY <1>0, <1>3 DEF TypeOK, Lock
  <2>3. \A p \in Packs : /\ sourced.at[p].sha = lock.at[p].sha
                          /\ sourced.at[p].artifacts = lock.at[p].artifacts
                          /\ sourced.at[p].source = IF p = on THEN "catalog" ELSE lock.at[p].source
    BY <1>0, <2>2 DEF TypeOK, Lock, Entry
  <2>4. c \notin touched => lock.at[on].sha = job[c].what /\ Attests(lock) /\ Keeping(c, lock)
    BY <1>0 DEF Alone
  <2>5. Shape(c)'
    BY <1>0, <1>1, <2>1 DEF Shape, Writing, history
  <2>6. DraftTrue(c)'
    <3> SUFFICES ASSUME NEW p \in Packs, p \notin doubtful, sourced.at[p].source = "catalog"
                 PROVE  sourced.at[p].sha \in fetched[p] \/ (c \in touched /\ p = on)
      BY <1>1, <2>1 DEF DraftTrue, history
    <3>1. CASE p = on
      BY <1>0, <2>3, <2>4, <3>1
    <3>2. CASE p # on
      BY <1>0, <2>3, <3>2 DEF ProvenanceIsTrue
    <3> QED
      BY <3>1, <3>2
  <2>7. ASSUME c \notin touched' PROVE Alone(c)'
    <3>1. c \notin touched
      BY <1>1, <2>7 DEF history
    <3>2. Attests(sourced)
      BY <2>3, <2>4, <3>1 DEF Attests
    <3>3. Keeping(c, sourced)
      BY <2>3, <2>4, <3>1 DEF Keeping
    <3> HIDE DEF sourced
    <3> QED
      BY <1>1, <2>1, <3>2, <3>3
         DEF Alone, Recompiling, Covered, Writing, BeforeLock, Attests, Keeping, files
  <2> QED
    BY <2>5, <2>6, <2>7
<1> QED
  BY <1>2, <1>3

LEMMA LeaveStep ==
  ASSUME LifeInv, NEW c \in Commands, Exit(c) \/ Killed(c)
  PROVE  Shape(c)' /\ DraftTrue(c)' /\ (c \notin touched' => Alone(c)')
<1>1. pc'[c] = "idle" /\ job'[c] = NoJob
  BY DEF LifeInv, TypeOK, Exit, Killed, Go
<1> QED
  BY <1>1 DEF NoJob, Shape, DraftTrue, Alone, Recompiling, Covered, Writing, BeforeLock

LEMMA OwnStep ==
  ASSUME LifeInv, NEW c \in Commands, Step(c)
  PROVE  Shape(c)' /\ DraftTrue(c)' /\ (c \notin touched' => Alone(c)')
BY StartStep, RecompileStep, BuildStep, WriteStep, SourceStep, LeaveStep DEF Step

\* An edit is seen by every command that runs.
LEMMA EditStep ==
  ASSUME LifeInv, NEW q \in Packs, Edit(q), NEW c \in Commands
  PROVE  Shape(c)' /\ DraftTrue(c)' /\ (c \notin touched' => Alone(c)')
<1>0. Shape(c) /\ DraftTrue(c)
  BY DEF LifeInv
<1>1. UNCHANGED <<pc, job, lock, fetched, doubtful>> /\ touched \subseteq touched'
      /\ (c \notin touched' => pc[c] = "idle")
  BY DEF Edit, Runs
<1> QED
  BY <1>0, <1>1 DEF Shape, DraftTrue, Alone, Recompiling, Covered, Writing, BeforeLock

\* The lock on disk stays true: it changes when it is emptied, and when a true
\* draft is written.
LEMMA LockStep ==
  ASSUME LifeInv, [Next]_vars
  PROVE  AttestedIsCompiled' /\ ProvenanceIsTrue'
<1>0. TypeOK /\ AttestedIsCompiled /\ ProvenanceIsTrue
  BY DEF LifeInv
<1>1. ASSUME UNCHANGED <<lock, doubtful>>, \A p \in Packs : fetched[p] \subseteq fetched'[p]
      PROVE  AttestedIsCompiled' /\ ProvenanceIsTrue'
  BY <1>0, <1>1 DEF AttestedIsCompiled, ProvenanceIsTrue
<1>2. CASE (\E p \in Packs : Edit(p)) \/ UNCHANGED vars
  BY <1>1, <1>2 DEF Edit, vars, files, history
<1>3. ASSUME NEW c \in Commands, Step(c), ~TruncateLock(c), ~WriteLock(c)
      PROVE  UNCHANGED <<lock, doubtful>>
  <2>1. CASE Add(c) \/ Remove(c) \/ Toggle(c) \/ Sync(c) \/ InitLock(c)
    BY <2>1 DEF Add, Remove, Toggle, Sync, InitLock, Start, files
  <2>2. CASE Erase(c) \/ CopyPack(c) \/ ReadConfig(c) \/ EmptyConfig(c) \/ SetDisabled(c)
             \/ WarnNotGit(c) \/ CompileAll(c) \/ RemoveTree(c)
             \/ MoveTree(c) \/ WriteCoverage(c) \/ RemoveWrappers(c) \/ WriteWrappers(c)
             \/ WireClients(c) \/ WiringFails(c) \/ Refresh(c) \/ BuildLock(c)
             \/ RecordProvenance(c) \/ Exit(c) \/ Killed(c)
    BY <2>2 DEF Erase, CopyPack, ReadConfig, EmptyConfig, SetDisabled, WarnNotGit, CompileAll, RemoveTree, MoveTree, WriteCoverage,
                RemoveWrappers, WriteWrappers, WireClients, WiringFails, Refresh, BuildLock,
                RecordProvenance, Exit, Killed, Keeps, history, files
  <2> QED
    BY <1>3, <2>1, <2>2 DEF Step
<1>4. ASSUME NEW c \in Commands, TruncateLock(c) PROVE AttestedIsCompiled' /\ ProvenanceIsTrue'
  <2>1. \A p \in Packs : lock'.at[p] = NoEntry
    BY <1>4 DEF TruncateLock, TornLock, NoLock
  <2> QED
    BY <2>1 DEF AttestedIsCompiled, ProvenanceIsTrue, NoEntry, None
<1>5. ASSUME NEW c \in Commands, WriteLock(c) PROVE AttestedIsCompiled' /\ ProvenanceIsTrue'
  <2>1. /\ pc[c] = "write" /\ lock' = job[c].draft /\ UNCHANGED fetched
        /\ doubtful' = (doubtful \ {"lock"})
             \cup (IF c \in touched \/ job[c].cmd = "init" THEN {"lock"} ELSE {})
             \cup (IF c \in touched /\ job[c].cmd = "add" THEN {job[c].on} ELSE {})
    BY <1>5 DEF WriteLock, Go
  <2>2. DraftTrue(c) /\ (c \notin touched => Alone(c))
    BY DEF LifeInv
  <2>3. AttestedIsCompiled'
    BY <2>1, <2>2 DEF AttestedIsCompiled, Alone, Attests, Writing
  <2>4. ProvenanceIsTrue'
    <3> SUFFICES ASSUME NEW p \in Packs, p \notin doubtful', job[c].draft.at[p].source = "catalog"
                 PROVE  job[c].draft.at[p].sha \in fetched[p]
      BY <2>1 DEF ProvenanceIsTrue
    <3>1. p \notin doubtful /\ ~(c \in touched /\ job[c].cmd = "add" /\ p = job[c].on)
      BY <2>1, NothingIsNull
    <3> QED
      BY <2>1, <2>2, <3>1 DEF DraftTrue, Writing
  <2> QED
    BY <2>3, <2>4
<1>6. ASSUME NEW c \in Commands, Step(c) PROVE AttestedIsCompiled' /\ ProvenanceIsTrue'
  <2>1. \A p \in Packs : fetched[p] \subseteq fetched'[p]
    BY <1>0, <1>6, HistoryGrows
  <2> QED
    BY <1>1, <1>3, <1>4, <1>5, <1>6, <2>1
<1> QED
  BY <1>2, <1>6 DEF Next

LEMMA LifeStep == LifeInv /\ [Next]_vars => LifeInv'
<1> SUFFICES ASSUME LifeInv, [Next]_vars PROVE LifeInv'
  OBVIOUS
<1>1. ASSUME NEW c \in Commands PROVE Shape(c)' /\ DraftTrue(c)' /\ (c \notin touched' => Alone(c)')
  <2>1. CASE \E d \in Commands : Step(d)
    BY <2>1, OwnStep, OthersStep
  <2>2. CASE \E q \in Packs : Edit(q)
    BY <2>2, EditStep
  <2>3. CASE UNCHANGED vars
    BY <2>3 DEF LifeInv, vars, files, history, Shape, DraftTrue, Alone, Attests, Keeping
  <2> QED
    BY <2>1, <2>2, <2>3 DEF Next
<1> QED
  BY <1>1, TypeStep, LockStep DEF LifeInv

LEMMA LifeAlways == Spec => []LifeInv
BY LifeInit, LifeStep, PTL DEF Spec

-----------------------------------------------------------------------------

\* The files, the processes and what they hold keep their type.
THEOREM LifecycleTypes == Spec => []TypeOK
<1>1. LifeInv => TypeOK
  BY DEF LifeInv
<1> QED
  BY <1>1, LifeAlways, PTL

\* A pack chock.lock says came from a catalog holds what that catalog gave,
\* whatever commands raced or died (build_lock, record_provenance).
THEOREM ProvenanceIsNeverInvented == Spec => []ProvenanceIsTrue
<1>1. LifeInv => ProvenanceIsTrue
  BY DEF LifeInv
<1> QED
  BY <1>1, LifeAlways, PTL

\* A command that was left alone drops no provenance but that of a pack it
\* found, or made, different (build_lock).
THEOREM ProvenanceIsNotDropped == Spec => []ProvenanceKept
<1>1. LifeInv => ProvenanceKept
  <2> SUFFICES ASSUME LifeInv, NEW c \in Commands, pc[c] = "done", c \notin touched
               PROVE  Keeping(c, lock)
    BY DEF ProvenanceKept, Keeping
  <2> QED
    BY DEF LifeInv, Alone
<1> QED
  BY <1>1, LifeAlways, PTL

\* The artifact hashes in chock.lock belong to the packs they are listed with,
\* unless a command that wrote them was raced (build_lock, _compile_all).
THEOREM LockAttestsItsCompile == Spec => []AttestedIsCompiled
<1>1. LifeInv => AttestedIsCompiled
  BY DEF LifeInv
<1> QED
  BY <1>1, LifeAlways, PTL

-----------------------------------------------------------------------------
(***************************************************************************)
(* A command that is left alone settles the repository.                    *)
(***************************************************************************)

\* A lock that says what the packs and the tree hold.
Fits(l) ==
  /\ ~l.torn
  /\ \A p \in Packs :
       /\ l.at[p] = NoEntry => p \notin Installed
       /\ l.at[p] # NoEntry => pack[p] = l.at[p].sha /\ l.at[p].artifacts \in {tree.at[p], None}

\* Cells that are right but for the wiring.
Covers(k) ==
  \A p \in Packs : /\ p \notin Installed => k[p] = None
                   /\ p \in Installed /\ Off(p) => k[p] = "disabled"
                   /\ p \in Installed /\ ~Off(p) => k[p] \in {"compiled", "wired"}

Ending == {"source", "again", "done"}
Listed == {"build"} \cup Writing \cup Ending
Rewired == {"list"} \cup Listed
Hooked == {"wire", "recover"} \cup Rewired
Moved == {"cover", "unhook", "hook"} \cup Hooked

\* How far a command that compiles and is left alone has brought the repository.
Settling(c) ==
  job[c].cmd \notin {"copy", "init"} =>
    /\ pc[c] \in {"replace", "move"} => job[c].staged = Compiled
    /\ pc[c] \in {"replace", "move", "cover", "recover"} => Covers(job[c].cover)
    /\ pc[c] \in Moved => tree.at = Compiled /\ ~tree.nested
    /\ pc[c] \in {"unhook", "hook", "wire"} \cup Rewired => Covers(coverage)
    /\ pc[c] = "hook" => gitHooks = {}
    /\ pc[c] \in Hooked /\ ~SkipHooks(c) /\ ~job[c].unhooked => gitHooks = {p \in Packs : tree.at[p] # None}
    /\ pc[c] \in {"recover"} \cup Rewired /\ ~SkipHooks(c) /\ job[c].out = "ok" =>
         wired = tree.at
    /\ pc[c] \in Listed => job[c].unlisted \/ listed = pack
    /\ pc[c] \in Writing => Fits(job[c].draft)
    /\ pc[c] \in Ending => Fits(lock)

SettleInv == \A c \in Commands : c \notin touched => Settling(c)


\* What is compiled is there, and covered.
LEMMA CompileFits ==
  ASSUME TypeOK
  PROVE  /\ Covers(Cells)
         /\ \A p \in Packs : Compiled[p] # None <=> p \in Installed /\ ~Off(p)
BY NothingIsNull DEF Covers, Cells, Cell, Compiled, Installed

\* What the clients are wired for after WireClients, and the cells written then.
LEMMA WiredCells ==
  ASSUME TypeOK, tree.at = Compiled
  PROVE  Covers([p \in Packs |->
           IF Cell(p) = "compiled" /\ tree.at[p] # None THEN "wired" ELSE Cell(p)])
<1>1. \A p \in Packs : /\ p \notin Installed => Cell(p) = None
                       /\ p \in Installed /\ Off(p) => Cell(p) = "disabled"
                       /\ p \in Installed /\ ~Off(p) => Cell(p) \in {"compiled", "wired"}
  BY DEF Cell
<1> QED
  BY <1>1, NothingIsNull DEF Covers

LEMMA BuiltFits ==
  ASSUME TypeOK
  PROVE  Fits(Locked)
<1>1. ~Locked.torn
  BY DEF Locked
<1>2. ASSUME NEW p \in Packs
      PROVE  /\ Locked.at[p] = NoEntry => p \notin Installed
             /\ Locked.at[p] # NoEntry =>
                  pack[p] = Locked.at[p].sha /\ Locked.at[p].artifacts \in {tree.at[p], None}
  <2>1. p \in Installed => pack[p] # None /\ Locked.at[p].sha = pack[p]
    BY NothingIsNull, LockedIsALock DEF Installed
  <2>2. NoEntry.sha = None
    BY DEF NoEntry
  <2>3. p \notin Installed => Locked.at[p] = NoEntry
    BY LockedIsALock
  <2>4. Locked.at[p].artifacts \in {None, tree.at[p]}
    BY LockedIsALock
  <2> QED
    BY <2>1, <2>2, <2>3, <2>4
<1> QED
  BY <1>1, <1>2 DEF Fits

LEMMA SourcedFits ==
  ASSUME TypeOK, Fits(lock), NEW q \in Packs, lock.at[q] # NoEntry
  PROVE  Fits([lock EXCEPT !.at[q].source = "catalog"])
<1> DEFINE l == [lock EXCEPT !.at[q].source = "catalog"]
<1>1. lock \in Lock /\ lock.at[q] \in Entry
  BY DEF TypeOK, Lock
<1>2. l.torn = lock.torn
  BY <1>1 DEF Lock
<1>3. /\ l.at[q].sha = lock.at[q].sha /\ l.at[q].artifacts = lock.at[q].artifacts
      /\ l.at[q].source = "catalog"
  BY <1>1 DEF Lock, Entry
<1>4. \A p \in Packs : p # q => l.at[p] = lock.at[p]
  BY <1>1 DEF Lock
<1>5. l.at[q] # NoEntry
  BY <1>3 DEF NoEntry, None
<1> HIDE DEF l
<1>6. Fits(l)
  BY <1>2, <1>3, <1>4, <1>5 DEF Fits
<1> QED
  BY <1>6 DEF l

\* Another command leaves it as it was, or has touched it.
LEMMA SettlingBeside ==
  ASSUME LifeInv, NEW c \in Commands, c \notin touched => Settling(c),
         NEW d \in Commands, c # d, Step(d), c \notin touched'
  PROVE  Settling(c)'
<1>1. /\ pc'[c] = pc[c] /\ job'[c] = job[c] /\ c \notin touched
      /\ Runs(c) => UNCHANGED files
  BY Undisturbed DEF LifeInv
<1>2. CASE Runs(c)
  BY <1>1, <1>2
  DEF Settling, files, Covers, Fits, Compiled, Installed, Off, SkipHooks
<1>3. CASE ~Runs(c)
  BY <1>1, <1>3
  DEF Settling, Runs, Moved, Hooked, Rewired, Listed, Writing, Ending
<1> QED
  BY <1>2, <1>3

\* A command that starts, goes to its packs or ends has compiled nothing yet.
LEMMA SettlingEarly ==
  ASSUME LifeInv, NEW c \in Commands,
         pc'[c] \in {"idle", "clear", "copy", "erase", "config", "blank", "toggle", "compile"}
  PROVE  Settling(c)'
BY DEF Settling, Moved, Hooked, Rewired, Listed, Writing, Ending

LEMMA SettlingStart ==
  ASSUME LifeInv, NEW c \in Commands,
         \/ Add(c) \/ Remove(c) \/ Toggle(c) \/ Sync(c) \/ InitLock(c) \/ Erase(c)
         \/ CopyPack(c) \/ ReadConfig(c) \/ EmptyConfig(c) \/ SetDisabled(c) \/ Exit(c) \/ Killed(c)
  PROVE  Settling(c)'
<1>0. TypeOK /\ Shape(c)
  BY DEF LifeInv
<1>1. CASE Add(c) \/ Remove(c) \/ Toggle(c) \/ Sync(c)
  <2>1. \E cmd, p, x :
          \E first \in {"clear", "copy", "erase", "config", "blank", "toggle", "compile"} :
            Start(c, cmd, p, x, first)
    BY <1>1 DEF Add, Remove, Toggle, Sync
  <2> QED
    BY <1>0, <2>1, StartFacts, SettlingEarly
<1>2. CASE InitLock(c)
  BY <1>0, <1>2, StartFacts DEF InitLock, Settling
<1>3. CASE Erase(c) \/ ReadConfig(c) \/ EmptyConfig(c) \/ SetDisabled(c) \/ Exit(c) \/ Killed(c)
  <2>1. pc'[c] \in {"idle", "clear", "copy", "erase", "config", "blank", "toggle", "compile"}
    BY <1>0, <1>3 DEF Erase, ReadConfig, EmptyConfig, SetDisabled, Exit, Killed, Go, TypeOK
  <2> QED
    BY <2>1, SettlingEarly
<1>4. CASE CopyPack(c)
  <2>1. \/ pc'[c] \in {"copy", "compile"}
        \/ pc'[c] = "done" /\ job[c].cmd = "copy"
    BY <1>0, <1>4 DEF CopyPack, TypeOK, Shape
  <2>2. job' = job
    BY <1>4 DEF CopyPack, Keeps
  <2> QED
    BY <2>1, <2>2, SettlingEarly DEF Settling
<1> QED
  BY <1>1, <1>2, <1>3, <1>4

\* From the compile to the move the tree is on its way.
LEMMA SettlingTree ==
  ASSUME LifeInv, NEW c \in Commands, c \notin touched, Settling(c), Alone(c),
         CompileAll(c) \/ RemoveTree(c) \/ MoveTree(c)
  PROVE  Settling(c)'
<1> USE DEF Go, Keeps
<1>0. TypeOK
  BY DEF LifeInv
<1>1. CASE CompileAll(c)
  <2>1. /\ pc'[c] \in {"replace", "move"} /\ UNCHANGED files
        /\ job'[c].staged = Compiled /\ job'[c].cover = Cells /\ job'[c].cmd = job[c].cmd
    BY <1>0, <1>1 DEF CompileAll, TypeOK, Job
  <2>2. Compiled' = Compiled
    BY <2>1 DEF files, Compiled, Installed, Off
  <2>3. Covers(job[c].cover)'
    BY <1>0, <2>1, CompileFits DEF files, Covers, Installed, Off
  <2> QED
    BY <2>1, <2>2, <2>3 DEF Settling, Moved, Hooked, Rewired, Listed, Writing, Ending
<1>2. CASE RemoveTree(c)
  <2>1. pc[c] = "replace" /\ pc'[c] = "move" /\ UNCHANGED <<pack, disabled, job>>
    BY <1>0, <1>2 DEF RemoveTree, TypeOK
  <2>2. Compiled' = Compiled /\ (Covers(job[c].cover) => Covers(job[c].cover)')
    BY <2>1 DEF Compiled, Covers, Installed, Off
  <2> QED
    BY <2>1, <2>2 DEF Settling, Moved, Hooked, Rewired, Listed, Writing, Ending
<1>3. CASE MoveTree(c)
  <2>1. pc[c] = "move" /\ pc'[c] = "cover" /\ UNCHANGED <<pack, disabled, job>>
    BY <1>0, <1>3 DEF MoveTree, TypeOK
  <2>2. Compiled' = Compiled /\ (Covers(job[c].cover) => Covers(job[c].cover)')
    BY <2>1 DEF Compiled, Covers, Installed, Off
  <2>3. ~tree.there
    BY <2>1 DEF Alone
  <2>4. tree'.at = job[c].staged /\ ~tree'.nested
    BY <1>3, <2>3 DEF MoveTree
  <2> QED
    BY <2>1, <2>2, <2>4 DEF Settling, Moved, Hooked, Rewired, Listed, Writing, Ending
<1> QED
  BY <1>1, <1>2, <1>3

\* From the move to the lists the tree stays, and what follows it comes about.
LEMMA SettlingHooks ==
  ASSUME LifeInv, NEW c \in Commands, c \notin touched, Settling(c),
         WriteCoverage(c) \/ RemoveWrappers(c) \/ WriteWrappers(c) \/ WarnNotGit(c)
  PROVE  Settling(c)'
<1> USE DEF Go, Keeps
<1>0. TypeOK
  BY DEF LifeInv
<1>6. CASE WarnNotGit(c)
  <2>1. /\ pc[c] = "unhook" /\ pc'[c] = "wire" /\ UNCHANGED files
        /\ job'[c].cmd = job[c].cmd /\ job'[c].unhooked
    BY <1>0, <1>6 DEF WarnNotGit, TypeOK, Job
  <2>2. Compiled' = Compiled /\ (Covers(coverage) => Covers(coverage)')
    BY <2>1 DEF files, Compiled, Covers, Installed, Off
  <2> QED
    BY <2>1, <2>2 DEF files, Settling, Moved, Hooked, Rewired, Listed, Writing, Ending
<1> SUFFICES ASSUME ~WarnNotGit(c) PROVE Settling(c)'
  BY <1>6
<1>1. UNCHANGED <<pack, disabled, job>>
  BY DEF WriteCoverage, RemoveWrappers, WriteWrappers
<1>2. Compiled' = Compiled /\ SkipHooks(c)' = SkipHooks(c)
  BY <1>1 DEF Compiled, Installed, Off, SkipHooks
<1>3. CASE WriteCoverage(c)
  <2>1. /\ \/ pc[c] = "cover" /\ pc'[c] = "unhook" /\ ~SkipHooks(c)
           \/ pc[c] = "cover" /\ pc'[c] = "list" /\ SkipHooks(c)
           \/ pc[c] = "recover" /\ pc'[c] = "list"
        /\ coverage' = job[c].cover /\ UNCHANGED <<tree, gitHooks, wired>>
    BY <1>0, <1>3 DEF WriteCoverage, TypeOK
  <2>2. Covers(job[c].cover) => Covers(coverage)'
    BY <1>1, <2>1 DEF Covers, Installed, Off
  <2> QED
    BY <1>1, <1>2, <2>1, <2>2 DEF Settling, Moved, Hooked, Rewired, Listed, Writing, Ending
<1>4. CASE RemoveWrappers(c)
  <2>1. /\ pc[c] = "unhook" /\ pc'[c] = "hook" /\ gitHooks' = {}
        /\ UNCHANGED coverage
    BY <1>0, <1>4 DEF RemoveWrappers, TypeOK
  <2>2. Covers(coverage) => Covers(coverage)'
    BY <1>1, <2>1 DEF Covers, Installed, Off
  <2>3. job[c].cmd \notin {"copy", "init"} => tree'.at = Compiled /\ ~tree'.nested
    <3> SUFFICES ASSUME tree.at = Compiled, ~tree.nested
                 PROVE  tree'.at = Compiled /\ ~tree'.nested
      BY <2>1 DEF Settling, Moved
    <3> DEFINE at == [p \in Packs |-> IF tree.at[p] = None THEN Compiled[p] ELSE tree.at[p]]
    <3>1. at = Compiled
      BY DEF Compiled
    <3>2. tree' = [tree EXCEPT !.there = TRUE, !.at = at]
      BY <1>4 DEF RemoveWrappers
    <3> HIDE DEF at
    <3> QED
      BY <1>0, <3>1, <3>2 DEF TypeOK, Tree
  <2> QED
    BY <1>1, <1>2, <2>1, <2>2, <2>3
    DEF Settling, Moved, Hooked, Rewired, Listed, Writing, Ending
<1>5. CASE WriteWrappers(c)
  <2>1. /\ pc[c] = "hook" /\ pc'[c] = "wire" /\ UNCHANGED <<coverage, tree>>
        /\ gitHooks' = gitHooks \cup {p \in Packs : tree.at[p] # None}
    BY <1>0, <1>5 DEF WriteWrappers, TypeOK
  <2>2. Covers(coverage) => Covers(coverage)'
    BY <1>1, <2>1 DEF Covers, Installed, Off
  <2> QED
    BY <1>1, <1>2, <2>1, <2>2 DEF Settling, Moved, Hooked, Rewired, Listed, Writing, Ending
<1> QED
  BY <1>3, <1>4, <1>5


\* The entries in the clients' configs, then the lists, follow the tree.
LEMMA SettlingWire ==
  ASSUME LifeInv, NEW c \in Commands, c \notin touched, Settling(c),
         WireClients(c) \/ WiringFails(c) \/ Refresh(c)
  PROVE  Settling(c)'
<1> USE DEF Go
<1>0. TypeOK
  BY DEF LifeInv
<1>1. UNCHANGED <<pack, disabled, tree, coverage, gitHooks>>
  BY DEF WireClients, WiringFails, Refresh, files
<1>2. /\ Compiled' = Compiled /\ (Covers(coverage) => Covers(coverage)')
      /\ job'[c].cmd = job[c].cmd /\ job'[c].unhooked = job[c].unhooked
  BY <1>0, <1>1
  DEF Compiled, Covers, Installed, Off, WireClients, WiringFails, Refresh, Ends, TypeOK, Job
<1>3. CASE WireClients(c)
  <2> DEFINE again == [p \in Packs |->
               IF Cell(p) = "compiled" /\ tree.at[p] # None THEN "wired" ELSE Cell(p)]
  <2>1. /\ pc[c] = "wire" /\ wired' = tree.at
        /\ \/ pc'[c] = "recover" /\ job' = [job EXCEPT ![c].cover = again]
           \/ pc'[c] = "list" /\ UNCHANGED job
    BY <1>0, <1>3 DEF WireClients, TypeOK
  <2>2. CASE pc'[c] = "recover" /\ job' = [job EXCEPT ![c].cover = again]
    <3>1. job[c].cmd \notin {"copy", "init"} => Covers(again)
      BY <1>0, <2>1, WiredCells DEF Settling, Moved, Hooked
    <3> HIDE DEF again
    <3>2. job'[c].cover = again
      BY <1>0, <2>2 DEF TypeOK, Job
    <3>3. job[c].cmd \notin {"copy", "init"} => Covers(job[c].cover)'
      BY <1>1, <3>1, <3>2 DEF Covers, Installed, Off
    <3> QED
      BY <1>1, <1>2, <2>1, <2>2, <3>3
      DEF Settling, Moved, Hooked, Rewired, Listed, Writing, Ending, SkipHooks
  <2>3. CASE pc'[c] = "list" /\ UNCHANGED job
    BY <1>1, <1>2, <2>1, <2>3
    DEF Settling, Moved, Hooked, Rewired, Listed, Writing, Ending, SkipHooks
  <2> QED
    BY <2>1, <2>2, <2>3
<1>4. CASE WiringFails(c)
  <2>1. pc[c] = "wire" /\ pc'[c] = "list" /\ job'[c].out = "unwired"
    BY <1>0, <1>4 DEF WiringFails, Ends, TypeOK, Job
  <2> QED
    BY <1>1, <1>2, <2>1
    DEF Settling, Moved, Hooked, Rewired, Listed, Writing, Ending, SkipHooks
<1>5. CASE Refresh(c)
  <2>1. /\ \/ pc[c] = "list" /\ pc'[c] = "build"
           \/ pc[c] = "again" /\ pc'[c] = "done"
        /\ job'[c].out = job[c].out /\ UNCHANGED <<wired, lock>>
        /\ \/ listed' = pack
           \/ job'[c].unlisted
    BY <1>0, <1>5 DEF Refresh, TypeOK, Job
  <2>2. Fits(lock) => Fits(lock)'
    BY <1>1, <2>1 DEF Fits, Installed
  <2> QED
    BY <1>1, <1>2, <2>1, <2>2
    DEF Settling, Moved, Hooked, Rewired, Listed, Writing, Ending, SkipHooks
<1> QED
  BY <1>3, <1>4, <1>5

\* The lock is built from what is there, emptied, written, and given its source.
LEMMA SettlingLock ==
  ASSUME LifeInv, NEW c \in Commands, c \notin touched, Settling(c),
         BuildLock(c) \/ TruncateLock(c) \/ WriteLock(c) \/ RecordProvenance(c)
  PROVE  Settling(c)'
<1> USE DEF Go
<1>0. TypeOK
  BY DEF LifeInv
<1>1. UNCHANGED <<pack, disabled, tree, coverage, gitHooks, wired, listed>>
  BY DEF BuildLock, TruncateLock, WriteLock, RecordProvenance, files
<1>2. /\ Compiled' = Compiled /\ (Covers(coverage) => Covers(coverage)')
      /\ job'[c].cmd = job[c].cmd /\ job'[c].unlisted = job[c].unlisted
      /\ job'[c].unhooked = job[c].unhooked
      /\ job'[c].out = job[c].out \/ job'[c].out = "failed"
  <2>1. Compiled' = Compiled /\ (Covers(coverage) => Covers(coverage)')
    BY <1>1 DEF Compiled, Covers, Installed, Off
  <2>2. CASE BuildLock(c)
    BY <1>0, <2>1, <2>2 DEF BuildLock, TypeOK, Job
  <2>3. CASE TruncateLock(c) \/ WriteLock(c)
    BY <2>1, <2>3 DEF TruncateLock, WriteLock, Keeps
  <2>4. CASE RecordProvenance(c)
    <3> DEFINE sourced == [lock EXCEPT !.at[job[c].on].source = "catalog"]
    <3>1. \/ job' = [job EXCEPT ![c].out = "failed"]
          \/ UNCHANGED job
          \/ job' = [job EXCEPT ![c].draft = sourced, ![c].then = "done"]
      BY <2>4 DEF RecordProvenance, Ends
    <3> HIDE DEF sourced
    <3> QED
      BY <1>0, <2>1, <3>1 DEF TypeOK, Job
  <2> QED
    BY <2>2, <2>3, <2>4
<1>3. CASE BuildLock(c)
  <2>1. pc[c] = "build" /\ pc'[c] = "truncate" /\ job'[c].draft = Locked
    BY <1>0, <1>3 DEF BuildLock, TypeOK, Job
  <2>2. Fits(job[c].draft)'
    <3>1. Fits(Locked)
      BY <1>0, BuiltFits
    <3> QED
      BY <1>1, <2>1, <3>1 DEF Fits, Installed
  <2> QED
    BY <1>1, <1>2, <2>1, <2>2
    DEF Settling, Moved, Hooked, Rewired, Listed, Writing, Ending, SkipHooks
<1>4. CASE TruncateLock(c)
  <2>1. pc[c] = "truncate" /\ pc'[c] = "write" /\ job' = job
    BY <1>0, <1>4 DEF TruncateLock, Keeps, TypeOK
  <2>2. Fits(job[c].draft) => Fits(job[c].draft)'
    BY <1>1, <2>1 DEF Fits, Installed
  <2> QED
    BY <1>1, <1>2, <2>1, <2>2
    DEF Settling, Moved, Hooked, Rewired, Listed, Writing, Ending, SkipHooks
<1>5. CASE WriteLock(c)
  <2>1. pc[c] = "write" /\ pc'[c] \in Ending /\ job' = job /\ lock' = job[c].draft
    BY <1>0, <1>5 DEF WriteLock, Ending, TypeOK, Job
  <2>2. Fits(job[c].draft) => Fits(lock)'
    BY <1>1, <2>1 DEF Fits, Installed
  <2> QED
    BY <1>1, <1>2, <2>1, <2>2
    DEF Settling, Moved, Hooked, Rewired, Listed, Writing, Ending, SkipHooks
<1>6. CASE RecordProvenance(c)
  <2> DEFINE on == job[c].on
             sourced == [lock EXCEPT !.at[on].source = "catalog"]
  <2>1. pc[c] = "source" /\ lock' = lock /\ on \in Packs
    BY <1>6 DEF RecordProvenance, files, LifeInv, Shape
  <2>2. CASE lock.torn \/ lock.at[on] = NoEntry
    <3>1. pc'[c] = "done"
      BY <1>0, <1>6, <2>2 DEF RecordProvenance, TypeOK
    <3>2. Fits(lock) => Fits(lock)'
      BY <1>1, <2>1 DEF Fits, Installed
    <3> QED
      BY <1>1, <1>2, <2>1, <3>1, <3>2
      DEF Settling, Moved, Hooked, Rewired, Listed, Writing, Ending, SkipHooks
  <2>3. CASE ~lock.torn /\ lock.at[on] # NoEntry
    <3>1. pc'[c] = "truncate" /\ job'[c].draft = sourced
      <4>1. pc' = [pc EXCEPT ![c] = "truncate"]
            /\ job' = [job EXCEPT ![c].draft = sourced, ![c].then = "done"]
        BY <1>6, <2>3 DEF RecordProvenance
      <4> HIDE DEF sourced
      <4> QED
        BY <1>0, <4>1 DEF TypeOK, Job
    <3>2. Fits(lock) => Fits(sourced)
      BY <1>0, <2>1, <2>3, SourcedFits
    <3> HIDE DEF sourced
    <3>3. Fits(lock) => Fits(job[c].draft)'
      BY <1>1, <3>1, <3>2 DEF Fits, Installed
    <3> QED
      BY <1>1, <1>2, <2>1, <3>1, <3>3
      DEF Settling, Moved, Hooked, Rewired, Listed, Writing, Ending, SkipHooks
  <2> QED
    BY <2>2, <2>3
<1> QED
  BY <1>3, <1>4, <1>5, <1>6

\* A command is touched by another's step only: its own leaves that as it was.
LEMMA OwnStepTouches ==
  ASSUME LifeInv, NEW c \in Commands, Step(c), c \notin touched', c \in touched
  PROVE  Settling(c)'
<1>0. TypeOK
  BY DEF LifeInv
<1>1. CASE Add(c) \/ Remove(c) \/ Toggle(c) \/ Sync(c) \/ InitLock(c) \/ Exit(c) \/ Killed(c)
  BY <1>1, SettlingStart
<1>2. CASE \/ Erase(c) \/ CopyPack(c) \/ ReadConfig(c) \/ EmptyConfig(c) \/ SetDisabled(c)
           \/ WarnNotGit(c) \/ CompileAll(c) \/ RemoveTree(c)
           \/ MoveTree(c) \/ WriteCoverage(c) \/ RemoveWrappers(c) \/ WriteWrappers(c)
           \/ WireClients(c) \/ WiringFails(c) \/ Refresh(c) \/ BuildLock(c)
           \/ TruncateLock(c) \/ WriteLock(c) \/ RecordProvenance(c)
  BY <1>2
  DEF Erase, CopyPack, ReadConfig, EmptyConfig, SetDisabled, WarnNotGit, CompileAll, RemoveTree, MoveTree, WriteCoverage,
      RemoveWrappers, WriteWrappers, WireClients, WiringFails, Refresh, BuildLock,
      TruncateLock, WriteLock, RecordProvenance, Keeps, Touch, history
<1> QED
  BY <1>1, <1>2 DEF Step

LEMMA SettleStep ==
  ASSUME LifeInv, SettleInv, [Next]_vars
  PROVE  SettleInv'
<1> SUFFICES ASSUME NEW c \in Commands, c \notin touched' PROVE Settling(c)'
  BY DEF SettleInv
<1>0. c \notin touched => Settling(c) /\ Alone(c)
  BY DEF SettleInv, LifeInv
<1>1. CASE Step(c)
  <2>1. CASE c \in touched
    BY <1>1, <2>1, OwnStepTouches
  <2>2. CASE c \notin touched
    BY <1>0, <1>1, <2>2, SettlingStart, SettlingTree, SettlingHooks, SettlingWire, SettlingLock
    DEF Step
  <2> QED
    BY <2>1, <2>2
<1>2. ASSUME NEW d \in Commands, d # c, Step(d) PROVE Settling(c)'
  BY <1>0, <1>2, SettlingBeside
<1>3. ASSUME NEW q \in Packs, Edit(q) PROVE Settling(c)'
  <2>1. pc'[c] = "idle"
    BY <1>3 DEF Edit, Runs
  <2> QED
    BY <2>1, SettlingEarly
<1>4. CASE UNCHANGED vars
  <2>1. UNCHANGED files /\ pc' = pc /\ job' = job /\ c \notin touched
    BY <1>4 DEF vars, history
  <2> QED
    BY <1>0, <2>1 DEF Settling, files, Covers, Fits, Compiled, Installed, Off, SkipHooks
<1> QED
  BY <1>1, <1>2, <1>3, <1>4 DEF Next

\* Whatever crashes, races and edits came before, a command that compiles and is
\* left alone ends with the tree, the lock, the lists, the git hooks and the
\* clients as the packs say, but for what it said it could not do.
THEOREM AloneACommandSettles == Spec => []CommandSettles
<1>1. Init => SettleInv
  BY DEF Init, SettleInv, Settling, Moved, Hooked, Rewired, Listed, Writing, Ending
<1>2. LifeInv /\ SettleInv => CommandSettles
  <2> SUFFICES ASSUME LifeInv, SettleInv, NEW c \in Commands, Settled(c)
               PROVE  /\ Verified /\ tree.at = Compiled /\ ~tree.nested
                      /\ ~job[c].unlisted => listed = pack
                      /\ ~SkipHooks(c) /\ ~job[c].unhooked => gitHooks = {p \in Packs : tree.at[p] # None}
                      /\ ~SkipHooks(c) /\ job[c].out = "ok" => wired = tree.at
                      /\ ~SkipHooks(c) /\ job[c].out = "ok" =>
                           \A p \in Packs : \/ coverage[p] = Cell(p)
                                            \/ coverage[p] = "compiled" /\ Cell(p) = "wired"
    BY DEF CommandSettles
  <2>0. TypeOK
    BY DEF LifeInv
  <2>1. /\ tree.at = Compiled /\ ~tree.nested /\ Covers(coverage) /\ Fits(lock)
        /\ ~job[c].unlisted => listed = pack
        /\ ~SkipHooks(c) /\ ~job[c].unhooked => gitHooks = {p \in Packs : tree.at[p] # None}
        /\ ~SkipHooks(c) /\ job[c].out = "ok" => wired = tree.at
    BY DEF SettleInv, Settled, Settling, Moved, Hooked, Rewired, Listed, Ending
  <2>2. Verified
    BY <2>1 DEF Fits, Verified
  <2>3. ASSUME ~SkipHooks(c), job[c].out = "ok", NEW p \in Packs
        PROVE  coverage[p] = Cell(p) \/ (coverage[p] = "compiled" /\ Cell(p) = "wired")
    <3>1. p \in Installed /\ ~Off(p) => Cell(p) = "wired"
      BY <2>0, <2>1, <2>3, CompileFits DEF Cell, Wired
    <3>2. p \notin Installed => Cell(p) = None
      BY DEF Cell
    <3>3. p \in Installed /\ Off(p) => Cell(p) = "disabled"
      BY DEF Cell
    <3> QED
      BY <2>1, <3>1, <3>2, <3>3 DEF Covers
  <2> QED
    BY <2>1, <2>2, <2>3
<1>3. LifeInv /\ SettleInv /\ [Next]_vars => SettleInv'
  BY SettleStep
<1> QED
  BY <1>1, <1>2, <1>3, LifeAlways, PTL DEF Spec

=============================================================================
