----------------------------- MODULE StopProofs -----------------------------
(***************************************************************************)
(* Proofs about a person's stop: for any repositories, clients, commands   *)
(* and calls, a finished stop lasts until somebody resumes, a finished     *)
(* resume leaves nothing, no call under a stop is allowed and none is      *)
(* refused without one (RepoStop, StopHook).                               *)
(***************************************************************************)
EXTENDS StopHook, TLAPS

\* Every stop of a place that people write has one scope: stop.json holds one.
OneScope == \A p \in Places : \A s, t \in StopScopes(p) : s = t

Stopping == {"write", "entry"}
Resuming == {"read", "recheck", "look", "unlink", "unregister"}

\* What a command that runs was started to do, and where that has led it.
OnCourse(c) ==
  /\ job[c] \in Jobs /\ ~job[c].agent
  /\ job[c].kind = "stop" <=> pc[c] \in Stopping
  /\ job[c].kind = "resume" <=> pc[c] \in Resuming
  /\ pc[c] \in {"write", "read", "recheck", "unlink"} => job[c].place \in Repos

\* A command that none of the other kind has run beside finds the files as it,
\* or another of its kind, has left them.
Alone(c) ==
  /\ Others(job[c].kind, job[c].place) = {}
  /\ job[c].place \in Repos =>
       /\ pc[c] = "entry" => stopFile[job[c].place] # NoStop
       /\ pc[c] \in {"look", "unregister"} => stopFile[job[c].place] = NoStop

Running(kind, p) == {c \in Commands : pc[c] # "idle" /\ job[c].place = p /\ job[c].kind = kind}

\* A stop's file, if it is there, says what somebody was to write in it.
Written(p, scope) == scope \in StopScopes(p) \cup {NoStop, "unreadable"}

\* A stop that was promised stands in both files, and nobody is lifting it.
Kept(p) ==
  promised[p] # {} =>
    /\ entry[p] # NoStop /\ (p \in Repos => stopFile[p] # NoStop)
    /\ Running("resume", p) = {}

\* A place that was resumed has no file, and nobody is stopping it.
Cleared(p) ==
  p \in resumed =>
    /\ entry[p] = NoStop /\ (p \in Repos => stopFile[p] = NoStop)
    /\ Running("stop", p) = {}

FilesOK ==
  /\ \A r \in Repos : Written(r, stopFile[r])
  /\ \A p \in Places : Written(p, entry[p])

StopInv ==
  /\ TypeOK /\ FilesOK
  /\ \A c \in Commands : pc[c] # "idle" => OnCourse(c) /\ (c \notin overlapped => Alone(c))
  /\ \A p \in Places : Kept(p) /\ Cleared(p)

\* With one scope per place, whom a promise holds is whom any stop there holds.
PromisedToAll == \A p \in Places : \A s \in StopScopes(p) : promised[p] \subseteq Reached(s)

-----------------------------------------------------------------------------

LEMMA Nulls ==
  /\ NoStop \notin Scope /\ Everywhere \notin Repos /\ Unknown \in Clients
  /\ Jobs \subseteq Job
BY ClientsAssumption, JobsAssumption DEF NoStop, Scope

LEMMA InitStop == Init => StopInv
<1> SUFFICES ASSUME Init PROVE StopInv
  OBVIOUS
<1> USE DEF Init
<1>1. stopFile \in [Repos -> Scope \cup {NoStop}] /\ FilesOK
  BY Nulls DEF FilesOK, Written, Places, NoStop, Everywhere
<1>2. TypeOK
  <2>1. entry \in [Places -> Scope \cup {NoStop}]
    BY <1>1
  <2>2. promised \in [Places -> SUBSET Clients]
    BY DEF Reached
  <2> QED
    BY <1>1, <2>1, <2>2, Nulls, BoundsAssumption DEF TypeOK, Stage
<1>3. \A c \in Commands : pc[c] = "idle"
  OBVIOUS
<1>4. \A p \in Places : Kept(p) /\ Cleared(p)
  <2> TAKE p \in Places
  <2>1. promised[p] # {} => entry[p] # NoStop
    BY DEF Reached, Covers
  <2> QED
    BY <2>1, <1>3 DEF Kept, Cleared, Running
<1> QED
  BY <1>1, <1>2, <1>3, <1>4 DEF StopInv

\* The files and the pc of a command after each of its steps are well formed.
LEMMA TypeStep ==
  ASSUME TypeOK, [Next]_vars
  PROVE  TypeOK'
<1> USE DEF TypeOK
<1>1. CASE UNCHANGED vars
  BY <1>1 DEF vars
<1>2. CASE Spoil
  BY <1>2 DEF Spoil, Scope
<1>3. ASSUME NEW c \in Commands, CommandStep(c)
      PROVE  TypeOK'
  <2>1. job[c] \in Job /\ job[c].place \in Places /\ job[c].scope \in Scope /\ Reached(job[c].scope) \subseteq Clients
    BY DEF Job, Reached
  <2>2. CASE Refused(c)
    BY <2>2, Nulls, BoundsAssumption DEF Refused, fileVars
  <2>3. CASE Begin(c)
    <3> PICK j \in Jobs : /\ job' = [job EXCEPT ![c] = j]
                          /\ pc' = [pc EXCEPT ![c] = FirstStage(j)]
                          /\ promised' = IF j.kind = "resume"
                                         THEN [promised EXCEPT ![j.place] = {}] ELSE promised
                          /\ overlapped' = (overlapped \ {c}) \cup Others(j.kind, j.place)
                               \cup (IF Others(j.kind, j.place) = {} THEN {} ELSE {c})
                          /\ resumed' = IF j.kind = "stop" THEN resumed \ {j.place} ELSE resumed
      BY <2>3 DEF Begin
    <3>1. j \in Job /\ FirstStage(j) \in Stage
      BY Nulls DEF FirstStage, Stage, Job
    <3>2. job' \in [Commands -> Job] /\ pc' \in [Commands -> Stage]
      BY <3>1
    <3>3. promised' \in [Places -> SUBSET Clients] /\ resumed' \subseteq Places
      OBVIOUS
    <3>4. overlapped' \subseteq Commands
      BY DEF Others
    <3>5. begun' \in 0 .. MaxCommands /\ UNCHANGED <<stopFile, entry>>
      BY <2>3, BoundsAssumption DEF Begin, fileVars
    <3> QED
      BY <3>2, <3>3, <3>4, <3>5
  <2>4. CASE WriteStop(c) \/ WriteFails(c) \/ EntryFails(c)
    BY <2>4, <2>1 DEF WriteStop, WriteFails, EntryFails, Go, Stage, fileVars
  <2>5. CASE WriteEntry(c)
    BY <2>5, <2>1 DEF WriteEntry, StopDone, Go, Stage
  <2>6. CASE ReadStop(c) \/ Recheck(c) \/ Look(c)
    BY <2>6, <2>1 DEF ReadStop, Recheck, Look, ResumeDone, Go, Stage, fileVars
  <2>7. CASE Unlink(c) \/ UnlinkFails(c)
    BY <2>7, <2>1 DEF Unlink, UnlinkFails, Go, Stage, fileVars
  <2>8. CASE Unregister(c) \/ UnregisterFails(c) \/ Crash(c)
    BY <2>8, <2>1 DEF Unregister, UnregisterFails, ResumeDone, Crash, Go, Stage, fileVars
  <2> QED
    BY <1>3, <2>2, <2>3, <2>4, <2>5, <2>6, <2>7, <2>8 DEF CommandStep
<1> QED
  BY <1>1, <1>2, <1>3 DEF Next

\* A step of c on its way leaves the other commands where they are, and adds
\* none to those at work.
LEMMA GoStep ==
  ASSUME TypeOK, NEW c \in Commands, NEW from, NEW to, Go(c, from, to), from # "idle"
  PROVE  /\ job' = job /\ overlapped' = overlapped /\ pc[c] = from /\ pc'[c] = to
         /\ \A d \in Commands \ {c} : pc'[d] = pc[d]
         /\ \A k, p : Others(k, p)' \subseteq Others(k, p) /\ Running(k, p)' \subseteq Running(k, p)
<1>1. /\ job' = job /\ overlapped' = overlapped /\ pc[c] = from /\ pc'[c] = to
      /\ \A d \in Commands \ {c} : pc'[d] = pc[d]
  BY DEF Go, TypeOK
<1>2. \A d \in Commands : pc'[d] # "idle" => pc[d] # "idle"
  BY <1>1
<1> QED
  BY <1>1, <1>2 DEF Others, Running

\* What the steps of a command have in common: the invariant but for its files.
LEMMA GoKeeps ==
  ASSUME StopInv, NEW c \in Commands, NEW from, NEW to, Go(c, from, to), from # "idle",
         TypeOK', FilesOK',
         to # "idle" => OnCourse(c)' /\ (c \notin overlapped => Alone(c)'),
         \A r \in Repos : stopFile'[r] # stopFile[r] => r = job[c].place,
         \A p \in Places : Kept(p)' /\ Cleared(p)',
         \A r \in Repos : stopFile[r] = NoStop /\ stopFile'[r] # NoStop => job[c].kind = "stop",
         \A r \in Repos : stopFile[r] # NoStop /\ stopFile'[r] = NoStop => job[c].kind = "resume"
  PROVE  StopInv'
<1>1. /\ job' = job /\ overlapped' = overlapped /\ pc[c] = from /\ pc'[c] = to
      /\ \A d \in Commands \ {c} : pc'[d] = pc[d]
      /\ \A k, p : Others(k, p)' \subseteq Others(k, p) /\ Running(k, p)' \subseteq Running(k, p)
  BY GoStep DEF StopInv
<1>2. ASSUME NEW d \in Commands, pc'[d] # "idle", d # c
      PROVE  OnCourse(d)' /\ (d \notin overlapped' => Alone(d)')
  <2>1. OnCourse(d)'
    BY <1>1, <1>2 DEF StopInv, OnCourse
  <2>2. ASSUME d \notin overlapped PROVE Alone(d)'
    <3>1. Alone(d) /\ OnCourse(d)
      BY <1>1, <1>2, <2>2 DEF StopInv
    <3>2. Others(job[d].kind, job[d].place)' = {} 
      BY <1>1, <3>1 DEF Alone
    <3>3. job[c].place = job[d].place => job[c].kind = job[d].kind
      BY <1>1, <3>1 DEF Alone, Others
    <3>4. job[d].kind = "stop" <=> pc[d] \in Stopping
      BY <3>1 DEF OnCourse
    <3>5. job[d].kind = "resume" <=> pc[d] \in Resuming
      BY <3>1 DEF OnCourse
    <3> QED
      BY <1>1, <1>2, <3>1, <3>2, <3>3, <3>4, <3>5 DEF Alone, Stopping, Resuming
  <2> QED
    BY <1>1, <2>1, <2>2
<1> QED
  BY <1>1, <1>2 DEF StopInv

LEMMA BeginKeeps ==
  ASSUME StopInv, TypeOK', NEW c \in Commands, Begin(c)
  PROVE  StopInv'
<1> PICK j \in Jobs : /\ ~j.agent
                      /\ job' = [job EXCEPT ![c] = j]
                      /\ pc' = [pc EXCEPT ![c] = FirstStage(j)]
                      /\ promised' = IF j.kind = "resume"
                                     THEN [promised EXCEPT ![j.place] = {}] ELSE promised
                      /\ overlapped' = (overlapped \ {c}) \cup Others(j.kind, j.place)
                           \cup (IF Others(j.kind, j.place) = {} THEN {} ELSE {c})
                      /\ resumed' = IF j.kind = "stop" THEN resumed \ {j.place} ELSE resumed
  BY DEF Begin
<1>1. /\ pc[c] = "idle" /\ stopFile' = stopFile /\ entry' = entry
      /\ job'[c] = j /\ pc'[c] = FirstStage(j)
      /\ \A d \in Commands \ {c} : job'[d] = job[d] /\ pc'[d] = pc[d]
  BY DEF Begin, fileVars, StopInv, TypeOK
<1>2. j.kind \in {"stop", "resume"} /\ j.place \in Places
  BY Nulls DEF Job
<1>3. FilesOK'
  BY <1>1 DEF StopInv, FilesOK, Written
<1>5. OnCourse(c)'
  BY <1>1, <1>2 DEF FirstStage, OnCourse, Stopping, Resuming
<1>6. c \notin overlapped' => Alone(c)'
  <2> SUFFICES ASSUME c \notin overlapped' PROVE Alone(c)'
    OBVIOUS
  <2>1. Others(j.kind, j.place) = {}
    OBVIOUS
  <2>2. Others(j.kind, j.place)' = {}
    BY <1>1, <2>1 DEF Others
  <2> QED
    BY <1>1, <1>2, <2>2 DEF Alone, FirstStage
<1>7. ASSUME NEW d \in Commands \ {c}, pc'[d] # "idle"
      PROVE  OnCourse(d)' /\ (d \notin overlapped' => Alone(d)')
  <2>1. OnCourse(d)'
    BY <1>1, <1>7 DEF StopInv, OnCourse
  <2>2. ASSUME d \notin overlapped' PROVE Alone(d)'
    <3>1. d \notin overlapped /\ Alone(d)
      BY <1>1, <1>7, <2>2 DEF StopInv
    <3>2. d \notin Others(j.kind, j.place)
      BY <2>2
    <3>3. ~(job[d].place = j.place /\ job[d].kind # j.kind)
      BY <1>1, <1>7, <3>2 DEF Others
    <3>4. Others(job[d].kind, job[d].place)' = {}
      BY <1>1, <3>1, <3>3 DEF Alone, Others
    <3> QED
      BY <1>1, <3>1, <3>4 DEF Alone
  <2> QED
    BY <2>1, <2>2
<1>8. ASSUME NEW p \in Places
      PROVE  Kept(p)' /\ Cleared(p)'
  <2>1. Kept(p) /\ Cleared(p)
    BY DEF StopInv
  <2>2. promised'[p] # {} => promised[p] # {} /\ ~(j.kind = "resume" /\ j.place = p)
    BY DEF StopInv, TypeOK
  <2>3. p \in resumed' => p \in resumed /\ ~(j.kind = "stop" /\ j.place = p)
    OBVIOUS
  <2>4. ASSUME NEW k, ~(j.kind = k /\ j.place = p), Running(k, p) = {}
        PROVE  Running(k, p)' = {}
    BY <1>1, <2>4 DEF Running
  <2>5. Kept(p)'
    BY <1>1, <2>1, <2>2, <2>4 DEF Kept
  <2>6. Cleared(p)'
    BY <1>1, <2>1, <2>3, <2>4 DEF Cleared
  <2> QED
    BY <2>5, <2>6
<1> QED
  BY <1>3, <1>5, <1>6, <1>7, <1>8 DEF StopInv

\* The steps of `chock stop` after it was begun.
LEMMA StopCommandKeeps ==
  ASSUME StopInv, TypeOK', NEW c \in Commands,
         WriteStop(c) \/ WriteFails(c) \/ WriteEntry(c) \/ EntryFails(c)
  PROVE  StopInv'
<1>1. job[c] \in Job /\ job[c].place \in Places
  BY DEF StopInv, TypeOK, Job
<1>2. CASE WriteStop(c)
  <2>1. Go(c, "write", "entry")
    BY <1>2 DEF WriteStop
  <2>2. OnCourse(c) /\ (c \notin overlapped => Alone(c))
    BY <2>1 DEF StopInv, Go
  <2> DEFINE r == job[c].place
  <2>3. /\ r \in Repos /\ job[c].kind = "stop" /\ job[c].scope \in StopScopes(r)
        /\ job[c].scope # NoStop
    <3>1. pc[c] = "write"
      BY <2>1 DEF Go
    <3>2. job[c] \in Jobs /\ ~job[c].agent /\ r \in Repos /\ job[c].kind = "stop"
      BY <2>2, <3>1 DEF OnCourse, Stopping
    <3>3. job[c].scope \in Scope
      BY <1>1 DEF Job
    <3> QED
      BY <3>2, <3>3, Nulls DEF StopScopes
  <2>4. stopFile' = [stopFile EXCEPT ![r] = job[c].scope] /\ UNCHANGED <<entry, promised, resumed>>
    BY <1>2 DEF WriteStop
  <2>5. stopFile'[r] = job[c].scope /\ \A q \in Repos \ {r} : stopFile'[q] = stopFile[q]
    BY <2>3, <2>4 DEF StopInv, TypeOK
  <2> HIDE DEF r
  <2>6. FilesOK'
    BY <2>3, <2>4, <2>5 DEF StopInv, FilesOK, Written
  <2>7. /\ job' = job /\ overlapped' = overlapped /\ pc[c] = "write" /\ pc'[c] = "entry"
        /\ \A k, p : Others(k, p)' \subseteq Others(k, p) /\ Running(k, p)' \subseteq Running(k, p)
    BY <2>1, GoStep DEF StopInv
  <2>8. OnCourse(c)' /\ (c \notin overlapped => Alone(c)')
    BY <2>2, <2>3, <2>5, <2>7 DEF OnCourse, Alone, Stopping, Resuming, r
  <2>9. ASSUME NEW p \in Places PROVE Kept(p)' /\ Cleared(p)'
    <3>1. Kept(p) /\ Cleared(p)
      BY DEF StopInv
    <3>2. p = r => p \notin resumed
      BY <2>3, <2>7, <3>1 DEF Cleared, Running, r
    <3>3. p \in Repos /\ stopFile[p] # NoStop => stopFile'[p] # NoStop
      BY <2>3, <2>5
    <3>4. Kept(p)'
      BY <2>4, <2>7, <3>1, <3>3 DEF Kept
    <3>5. Cleared(p)'
      BY <2>4, <2>5, <2>7, <3>1, <3>2 DEF Cleared
    <3> QED
      BY <3>4, <3>5
  <2> QED
    BY <2>1, <2>3, <2>5, <2>6, <2>8, <2>9, GoKeeps DEF r
<1>3. CASE WriteFails(c) \/ EntryFails(c)
  <2>1. \E from \in {"write", "entry"} : Go(c, from, "idle")
    BY <1>3 DEF WriteFails, EntryFails
  <2> PICK from \in {"write", "entry"} : Go(c, from, "idle")
    BY <2>1
  <2>2. UNCHANGED <<stopFile, entry, promised, resumed>>
    BY <1>3 DEF WriteFails, EntryFails, fileVars
  <2>3. \A k, p : Running(k, p)' \subseteq Running(k, p)
    BY GoStep DEF StopInv
  <2>4. FilesOK' /\ \A p \in Places : Kept(p)' /\ Cleared(p)'
    BY <2>2, <2>3 DEF StopInv, FilesOK, Written, Kept, Cleared
  <2> QED
    BY <2>2, <2>4, GoKeeps
<1>4. CASE WriteEntry(c)
  <2>1. Go(c, "entry", "idle")
    BY <1>4 DEF WriteEntry
  <2>2. OnCourse(c) /\ (c \notin overlapped => Alone(c)) /\ pc[c] = "entry"
    BY <2>1 DEF StopInv, Go
  <2> DEFINE q == job[c].place
  <2>3. /\ job[c].kind = "stop" /\ job[c].scope \in StopScopes(q) /\ job[c].scope # NoStop
    <3>1. job[c] \in Jobs /\ ~job[c].agent /\ job[c].kind = "stop"
      BY <2>2 DEF OnCourse, Stopping
    <3>2. job[c].scope \in Scope
      BY <1>1 DEF Job
    <3> QED
      BY <3>1, <3>2, Nulls DEF StopScopes
  <2>4. entry' = [entry EXCEPT ![q] = job[c].scope] /\ UNCHANGED <<stopFile, resumed>>
    BY <1>4 DEF WriteEntry
  <2>5. entry'[q] = job[c].scope /\ \A p \in Places \ {q} : entry'[p] = entry[p]
    BY <1>1, <2>4 DEF StopInv, TypeOK
  <2>6. /\ \A p \in Places \ {q} : promised'[p] = promised[p]
        /\ c \in overlapped => promised' = promised
    BY <1>4 DEF WriteEntry, StopDone, StopInv, TypeOK
  <2>7. FilesOK'
    BY <2>3, <2>4, <2>5 DEF StopInv, FilesOK, Written
  <2>8. /\ job' = job
        /\ \A k, p : Others(k, p)' \subseteq Others(k, p) /\ Running(k, p)' \subseteq Running(k, p)
    BY <2>1, GoStep DEF StopInv
  <2>9. c \notin overlapped => Running("resume", q) = {} /\ (q \in Repos => stopFile[q] # NoStop)
    BY <2>2, <2>3 DEF Alone, Others, Running
  <2>10. ASSUME NEW p \in Places PROVE Kept(p)' /\ Cleared(p)'
    <3>1. Kept(p) /\ Cleared(p)
      BY DEF StopInv
    <3>2. p = q => p \notin resumed
      BY <2>2, <2>3, <3>1 DEF Cleared, Running
    <3>3. Kept(p)'
      BY <2>3, <2>4, <2>5, <2>6, <2>8, <2>9, <3>1 DEF Kept
    <3>4. Cleared(p)'
      BY <2>4, <2>5, <2>8, <3>1, <3>2 DEF Cleared
    <3> QED
      BY <3>3, <3>4
  <2> QED
    BY <2>1, <2>4, <2>7, <2>10, GoKeeps
<1> QED
  BY <1>2, <1>3, <1>4

\* A resume that ends without clearing anything, or goes on without a write.
LEMMA QuietKeeps ==
  ASSUME StopInv, TypeOK', NEW c \in Commands, NEW from, NEW to,
         Go(c, from, to), from # "idle", UNCHANGED <<fileVars, promised, resumed>>,
         to # "idle" => OnCourse(c)' /\ (c \notin overlapped => Alone(c)')
  PROVE  StopInv'
<1>1. \A k, p : Running(k, p)' \subseteq Running(k, p)
  BY GoStep DEF StopInv
<1>2. FilesOK' /\ \A p \in Places : Kept(p)' /\ Cleared(p)'
  BY <1>1 DEF StopInv, FilesOK, Written, Kept, Cleared, fileVars
<1> QED
  BY <1>2, GoKeeps DEF fileVars

\* A resume that ends with both files gone, or was never alone.
LEMMA EndsCleared ==
  ASSUME StopInv, TypeOK', NEW c \in Commands, NEW from, Go(c, from, "idle"),
         from \in {"look", "unregister"}, ResumeDone(c), UNCHANGED <<stopFile, promised>>,
         \A p \in Places : p # job[c].place => entry'[p] = entry[p],
         entry'[job[c].place] = NoStop,
         entry[job[c].place] # NoStop => promised[job[c].place] = {}
  PROVE  StopInv'
<1>1. OnCourse(c) /\ (c \notin overlapped => Alone(c)) /\ pc[c] = from
  BY DEF StopInv, Go
<1>2. job[c].kind = "resume"
  BY <1>1 DEF OnCourse, Resuming
<1>3. /\ job' = job
      /\ \A k, p : Running(k, p)' \subseteq Running(k, p)
  BY GoStep DEF StopInv
<1>4. FilesOK'
  BY DEF StopInv, FilesOK, Written
<1>5. ASSUME NEW p \in Places PROVE Kept(p)' /\ Cleared(p)'
  <2>1. Kept(p) /\ Cleared(p)
    BY DEF StopInv
  <2>2. Kept(p)'
    BY <1>3, <2>1 DEF Kept
  <2>3. c \notin overlapped /\ p = job[c].place =>
          Running("stop", p) = {} /\ (p \in Repos => stopFile[p] = NoStop)
    BY <1>1, <1>2 DEF Alone, Others, Running
  <2>4. p \in resumed' => p \in resumed \/ (c \notin overlapped /\ p = job[c].place)
    BY DEF ResumeDone
  <2>5. entry[p] = NoStop => entry'[p] = NoStop
    OBVIOUS
  <2>6. Cleared(p)'
    BY <1>3, <2>1, <2>3, <2>4, <2>5 DEF Cleared
  <2> QED
    BY <2>2, <2>6
<1> QED
  BY <1>4, <1>5, GoKeeps

LEMMA ResumeCommandKeeps ==
  ASSUME StopInv, TypeOK', NEW c \in Commands,
         \/ ReadStop(c) \/ Recheck(c) \/ Look(c) \/ Unlink(c) \/ UnlinkFails(c)
         \/ Unregister(c) \/ UnregisterFails(c)
  PROVE  StopInv'
<1>1. job[c] \in Job /\ job[c].place \in Places
  BY DEF StopInv, TypeOK, Job
<1>2. ASSUME pc[c] \in Resuming
      PROVE  /\ OnCourse(c) /\ job[c].kind = "resume" /\ (c \notin overlapped => Alone(c))
             /\ promised[job[c].place] = {}
  <2>1. OnCourse(c) /\ job[c].kind = "resume" /\ (c \notin overlapped => Alone(c))
    BY <1>2 DEF StopInv, OnCourse, Resuming
  <2>2. c \in Running("resume", job[c].place)
    BY <1>2, <2>1 DEF Running, Resuming
  <2> QED
    BY <1>1, <2>1, <2>2 DEF StopInv, Kept
<1>3. CASE ReadStop(c) \/ Recheck(c)
  <2> PICK from \in {"read", "recheck"}, to \in {"recheck", "look", "unlink"} :
        /\ Go(c, from, to) /\ UNCHANGED <<fileVars, promised, resumed>>
        /\ to = "look" => stopFile[job[c].place] = NoStop
    BY <1>3 DEF ReadStop, Recheck
  <2>1. Go(c, from, to) /\ UNCHANGED <<fileVars, promised, resumed>>
    OBVIOUS
  <2>2. pc[c] = from /\ job' = job /\ pc'[c] = to
        /\ \A k, p : Others(k, p)' \subseteq Others(k, p)
    BY <2>1, GoStep DEF StopInv
  <2>3. OnCourse(c)' /\ (c \notin overlapped => Alone(c)')
    BY <1>2, <2>1, <2>2 DEF OnCourse, Alone, Stopping, Resuming, fileVars
  <2> QED
    BY <2>1, <2>3, QuietKeeps
<1>4. CASE Look(c)
  <2>1. pc[c] = "look"
    BY <1>4 DEF Look, Go
  <2>2. CASE entry[job[c].place] # NoStop
    <3>1. Go(c, "look", "unregister") /\ UNCHANGED <<fileVars, promised, resumed>>
      BY <1>4, <2>2 DEF Look
    <3>2. job' = job /\ pc'[c] = "unregister" /\ \A k, p : Others(k, p)' \subseteq Others(k, p)
      BY <3>1, GoStep DEF StopInv
    <3>3. OnCourse(c)' /\ (c \notin overlapped => Alone(c)')
      BY <1>2, <2>1, <3>1, <3>2 DEF OnCourse, Alone, Stopping, Resuming, fileVars
    <3> QED
      BY <3>1, <3>3, QuietKeeps
  <2>3. CASE entry[job[c].place] = NoStop
    <3>1. Go(c, "look", "idle") /\ ResumeDone(c) /\ UNCHANGED <<stopFile, entry, promised>>
      BY <1>4, <2>3 DEF Look, fileVars
    <3> QED
      BY <2>3, <3>1, EndsCleared
  <2> QED
    BY <2>2, <2>3
<1>5. CASE UnlinkFails(c) \/ UnregisterFails(c)
  <2> PICK from \in {"unlink", "unregister"} : Go(c, from, "idle")
    BY <1>5 DEF UnlinkFails, UnregisterFails
  <2>1. UNCHANGED <<fileVars, promised, resumed>>
    BY <1>5 DEF UnlinkFails, UnregisterFails
  <2> QED
    BY <2>1, QuietKeeps
<1>6. CASE Unlink(c)
  <2> DEFINE r == job[c].place
  <2>1. /\ Go(c, "unlink", "unregister") /\ UNCHANGED <<entry, promised, resumed>>
        /\ stopFile' = [stopFile EXCEPT ![r] = NoStop]
    BY <1>6 DEF Unlink
  <2>2. /\ job' = job /\ pc[c] = "unlink" /\ pc'[c] = "unregister"
        /\ \A k, p : Others(k, p)' \subseteq Others(k, p) /\ Running(k, p)' \subseteq Running(k, p)
    BY <2>1, GoStep DEF StopInv
  <2>3. r \in Repos /\ job[c].kind = "resume" /\ promised[r] = {}
    BY <1>2, <2>2 DEF OnCourse, Resuming
  <2>4. stopFile'[r] = NoStop /\ \A q \in Repos \ {r} : stopFile'[q] = stopFile[q]
    BY <2>1, <2>3 DEF StopInv, TypeOK
  <2> HIDE DEF r
  <2>5. OnCourse(c)' /\ (c \notin overlapped => Alone(c)')
    BY <1>2, <2>2, <2>3, <2>4 DEF OnCourse, Alone, Stopping, Resuming, r
  <2>6. FilesOK'
    BY <2>1, <2>4 DEF StopInv, FilesOK, Written
  <2>7. ASSUME NEW p \in Places PROVE Kept(p)' /\ Cleared(p)'
    <3>1. Kept(p) /\ Cleared(p)
      BY DEF StopInv
    <3>2. Kept(p)'
      BY <2>1, <2>2, <2>3, <2>4, <3>1 DEF Kept
    <3>3. Cleared(p)'
      BY <2>1, <2>2, <2>3, <2>4, <3>1 DEF Cleared
    <3> QED
      BY <3>2, <3>3
  <2> QED
    BY <2>1, <2>3, <2>4, <2>5, <2>6, <2>7, GoKeeps DEF r
<1>7. CASE Unregister(c)
  <2> DEFINE q == job[c].place
  <2>1. /\ Go(c, "unregister", "idle") /\ ResumeDone(c) /\ UNCHANGED <<stopFile, promised>>
        /\ entry' = [entry EXCEPT ![q] = NoStop]
    BY <1>7 DEF Unregister
  <2>2. entry'[q] = NoStop /\ \A p \in Places \ {q} : entry'[p] = entry[p]
    BY <1>1, <2>1 DEF StopInv, TypeOK
  <2>3. promised[q] = {}
    BY <1>2, <2>1 DEF Go, Resuming
  <2> QED
    BY <2>1, <2>2, <2>3, EndsCleared
<1> QED
  BY <1>3, <1>4, <1>5, <1>6, <1>7

LEMMA StopInvStep ==
  ASSUME StopInv, [Next]_vars
  PROVE  StopInv'
<1>1. TypeOK'
  BY TypeStep DEF StopInv
<1>2. CASE UNCHANGED vars
  BY <1>1, <1>2 DEF vars, StopInv, FilesOK, Written, OnCourse, Alone, Others, Running, Kept, Cleared
<1>3. CASE Spoil
  <2>1. UNCHANGED <<pc, job, promised, overlapped, resumed>>
    BY <1>3 DEF Spoil
  <2>2. \A r \in Repos : stopFile'[r] = stopFile[r] \/ (stopFile[r] # NoStop /\ stopFile'[r] = "unreadable")
    BY <1>3 DEF Spoil, StopInv, TypeOK
  <2>3. \A p \in Places : entry'[p] = entry[p] \/ (entry[p] # NoStop /\ entry'[p] = "unreadable")
    BY <1>3 DEF Spoil, StopInv, TypeOK
  <2>4. FilesOK'
    BY <2>2, <2>3 DEF StopInv, FilesOK, Written
  <2>5. \A c \in Commands : (OnCourse(c) => OnCourse(c)') /\ (Alone(c) => Alone(c)')
    BY <2>1, <2>2 DEF OnCourse, Alone, Others, NoStop
  <2>6. \A p \in Places : Kept(p)' /\ Cleared(p)'
    BY <2>1, <2>2, <2>3 DEF StopInv, Kept, Cleared, Running, NoStop
  <2> QED
    BY <1>1, <2>1, <2>4, <2>5, <2>6 DEF StopInv
<1>4. ASSUME NEW c \in Commands, CommandStep(c)
      PROVE  StopInv'
  <2>1. CASE Refused(c)
    <3>1. /\ pc[c] = "idle" /\ UNCHANGED <<stopFile, entry, pc, promised, overlapped, resumed>>
          /\ \A d \in Commands \ {c} : job'[d] = job[d]
      BY <2>1 DEF Refused, fileVars, StopInv, TypeOK
    <3>2. \A k, p : Others(k, p)' = Others(k, p) /\ Running(k, p)' = Running(k, p)
      BY <3>1 DEF Others, Running
    <3>3. \A d \in Commands : pc[d] # "idle" => job'[d] = job[d]
      BY <3>1
    <3>4. \A d \in Commands : pc[d] # "idle" => (OnCourse(d) => OnCourse(d)') /\ (Alone(d) => Alone(d)')
      BY <3>1, <3>2, <3>3 DEF OnCourse, Alone
    <3> QED
      BY <1>1, <3>1, <3>2, <3>4 DEF StopInv, FilesOK, Written, Kept, Cleared
  <2>2. CASE Crash(c)
    <3>1. Go(c, pc[c], "idle") /\ pc[c] # "idle" /\ UNCHANGED <<fileVars, promised, resumed>>
      BY <2>2 DEF Crash
    <3> QED
      BY <1>1, <3>1, QuietKeeps
  <2> QED
    BY <1>1, <1>4, <2>1, <2>2, BeginKeeps, StopCommandKeeps, ResumeCommandKeeps DEF CommandStep
<1> QED
  BY <1>2, <1>3, <1>4 DEF Next

LEMMA StopAlways == Spec => []StopInv
<1>1. StopInv /\ [Next]_vars => StopInv'
  BY StopInvStep
<1> QED
  BY <1>1, InitStop, PTL DEF Spec

-----------------------------------------------------------------------------

LEMMA PromiseStep ==
  ASSUME OneScope, StopInv, PromisedToAll, [Next]_vars
  PROVE  PromisedToAll'
<1>1. ASSUME NEW c \in Commands, WriteEntry(c)
      PROVE  PromisedToAll'
  <2>1. pc[c] = "entry" /\ StopDone(c)
    BY <1>1 DEF WriteEntry, Go
  <2>2. job[c] \in Jobs /\ ~job[c].agent /\ job[c].kind = "stop"
    BY <2>1 DEF StopInv, OnCourse, Stopping
  <2>3. job[c].scope \in StopScopes(job[c].place) /\ job[c].place \in Places
    BY <2>2, Nulls DEF StopScopes, Job
  <2>4. \A p \in Places : promised'[p] = promised[p]
          \/ (p = job[c].place /\ promised'[p] = promised[p] \cup Reached(job[c].scope))
    BY <2>1 DEF StopDone, StopInv, TypeOK
  <2> QED
    BY <2>3, <2>4 DEF PromisedToAll, OneScope
<1>2. ASSUME NEW c \in Commands, Begin(c)
      PROVE  PromisedToAll'
  <2>1. \A p \in Places : promised'[p] \subseteq promised[p]
    BY <1>2 DEF Begin, StopInv, TypeOK
  <2> QED
    BY <2>1 DEF PromisedToAll
<1>3. ASSUME UNCHANGED promised
      PROVE  PromisedToAll'
  BY <1>3 DEF PromisedToAll
<1>4. ASSUME NEW c \in Commands, CommandStep(c), ~WriteEntry(c), ~Begin(c)
      PROVE  UNCHANGED promised
  BY <1>4 DEF CommandStep, Refused, WriteStop, WriteFails, EntryFails, ReadStop, Recheck, Look, Unlink,
              UnlinkFails, Unregister, UnregisterFails, Crash
<1> QED
  BY <1>1, <1>2, <1>3, <1>4 DEF Next, Spoil, vars

LEMMA PromiseInit == ASSUME OneScope, Init PROVE PromisedToAll
<1> SUFFICES ASSUME NEW p \in Places, NEW s \in StopScopes(p)
             PROVE  promised[p] \subseteq Reached(s)
  BY DEF PromisedToAll
<1>1. promised[p] = Reached(entry[p])
  BY DEF Init
<1>2. entry[p] = NoStop \/ entry[p] \in StopScopes(p)
  BY DEF Init
<1>3. entry[p] \in StopScopes(p) => entry[p] = s
  BY DEF OneScope
<1>4. Reached(NoStop) = {}
  BY DEF Reached, Covers
<1> QED
  BY <1>1, <1>2, <1>3, <1>4

LEMMA PromiseHolds ==
  ASSUME StopInv, PromisedToAll
  PROVE  StopLastsUntilResume
<1>1. Reached("unreadable") = Clients
  BY DEF Reached, Covers, NoStop
<1>2. ASSUME NEW p \in Places, NEW s, Written(p, s), s # NoStop
      PROVE  promised[p] \subseteq Reached(s)
  BY <1>1, <1>2 DEF Written, PromisedToAll, StopInv, TypeOK
<1>3. ASSUME NEW p \in Places, promised[p] # {}
      PROVE  promised[p] \subseteq Reached(entry[p])
               /\ (p \in Repos => promised[p] \subseteq Reached(stopFile[p]))
  BY <1>2, <1>3 DEF StopInv, FilesOK, Kept
<1> QED
  BY <1>3 DEF StopLastsUntilResume

\* What a finished stop is to hold back is held by both of its files until a
\* resume begins (stop_main), whatever fails, is killed or is spoilt, as long
\* as the stops of one place have one scope.
THEOREM StopsLast ==
  ASSUME OneScope
  PROVE  Spec => []StopLastsUntilResume
<1>1. Init => PromisedToAll
  BY PromiseInit
<1>2. StopInv /\ PromisedToAll /\ [Next]_vars => PromisedToAll'
  BY PromiseStep
<1>3. StopInv /\ PromisedToAll => StopLastsUntilResume
  BY PromiseHolds
<1> QED
  BY <1>1, <1>2, <1>3, StopAlways, PTL DEF Spec

\* A resume that returned 0 has left neither file, until somebody stops again
\* (resume_main, _unregister).
THEOREM ResumesClear == Spec => []ResumeClears
<1>1. StopInv => ResumeClears
  BY DEF StopInv, TypeOK, Cleared, ResumeClears
<1> QED
  BY <1>1, StopAlways, PTL

-----------------------------------------------------------------------------
(* The hook that reads those files. *)

\* Where the hook is, it reads what the call can be refused for.
Looking ==
  /\ HookTypeOK
  /\ again => call.placed /\ ~call.git
  /\ hpc \in {"list", "entries"} => ~call.git
  /\ hpc = "files" => left \subseteq Reach(call)
  /\ hpc \in {"all", "entries"} /\ again => left \subseteq Reach(call)

\* The stops that are to refuse a call still hold, and are yet to be looked at.
Owing ==
  /\ \A p \in owed : p \in Reach(call) /\ call.client \in promised[p]
  /\ hpc = "files" /\ call.git => owed \subseteq left \cup {Everywhere}
  /\ hpc = "all" => owed \subseteq (IF call.git THEN {} ELSE left) \cup {Everywhere}
  /\ hpc = "entries" => owed \subseteq left
  /\ StoppedIsRefused

\* Every stop in force, or come suddenly, while the call is judged is noted.
Blaming ==
  /\ hpc \notin {"idle", "done"} => InForce(call) \cup Sudden \subseteq blame
  /\ RefusalHasItsStop

LEMMA RootsAreRepos == ASSUME NEW rs \in SUBSET Repos PROVE Roots(rs) \subseteq Repos
BY MainAssumption DEF Roots

LEMMA CallIsCall ==
  ASSUME NEW k \in Calls
  PROVE  /\ k.client \in Clients /\ k.near \subseteq Repos /\ k.named \subseteq Repos
         /\ k.placed \in BOOLEAN /\ k.git \in BOOLEAN
         /\ Roots(k.near) \subseteq Reach(k) /\ Everywhere \in Reach(k) /\ Reach(k) \subseteq Places
         /\ k.placed /\ ~k.git => Reach(k) = {Everywhere} \cup Roots(k.near \cup k.named)
         /\ ~k.placed /\ ~k.git => Reach(k) = Places
         /\ k.git => Reach(k) = {Everywhere} \cup Roots(k.near)
<1>1. /\ k.client \in Clients /\ k.near \subseteq Repos /\ k.named \subseteq Repos
      /\ k.placed \in BOOLEAN /\ k.git \in BOOLEAN
  BY CallsAssumption DEF Call
<1>2. Roots(k.near) \subseteq Repos /\ Roots(k.near \cup k.named) \subseteq Repos
  BY <1>1, RootsAreRepos
<1>3. Roots(k.near) \subseteq Roots(k.near \cup k.named)
  BY DEF Roots
<1> QED
  BY <1>1, <1>2, <1>3 DEF Reach, Places

LEMMA LookingStep ==
  ASSUME Looking, [HNext]_allVars
  PROVE  Looking'
<1> USE DEF Looking, HookTypeOK
<1>1. CASE UNCHANGED allVars
  BY <1>1 DEF allVars, vars, hookVars, callHistory, Reach
<1>2. CASE CommandRuns
  <2>1. InForce(call)' \subseteq Places /\ Sudden' \subseteq Places
    <3>1. InForce(call)' \subseteq Repos \cup Reach(call) /\ Sudden' \subseteq Reach(call)
      BY <1>2 DEF CommandRuns, hookVars, InForce, Sudden, Reach
    <3>2. Reach(call) \subseteq Places
      BY CallIsCall
    <3> QED
      BY <3>1, <3>2 DEF Places
  <2>2. owed' \subseteq Places /\ blame' \subseteq Places
    BY <1>2, <2>1 DEF CommandRuns
  <2> QED
    BY <1>2, <2>2 DEF CommandRuns, hookVars, Reach
<1>3. CASE MakeCall
  <2> PICK new \in Calls : /\ call' = new /\ left' = Roots(new.near)
                           /\ owed' = {p \in Reach(new) : new.client \in promised[p]}
                           /\ blame' = InForce(new)
    BY <1>3 DEF MakeCall
  <2>1. left' \subseteq Repos /\ owed' \subseteq Places /\ left' \subseteq Reach(new)
    BY CallIsCall, RootsAreRepos
  <2>2. blame' \subseteq Places
    BY CallIsCall DEF InForce
  <2>3. /\ hpc' = "files" /\ again' = FALSE /\ missing' = {} /\ verdict' = "none"
        /\ made' \in 0 .. MaxCalls
    BY <1>3, CallsAssumption DEF MakeCall
  <2> QED
    BY <2>1, <2>2, <2>3 DEF HookStage, Verdicts, Reach
<1>4. ASSUME NEW v \in Verdicts, NEW from, HookStep(from), Decide(v)
      PROVE  Looking'
  <2>1. hpc' = "done" /\ UNCHANGED <<call, again, left, missing, made, owed, blame>>
    BY <1>4 DEF HookStep, Decide, callHistory
  <2>2. left \subseteq Places
    BY DEF Places
  <2> QED
    BY <1>4, <2>1, <2>2 DEF HookStage, Decide
<1>13. ASSUME NEW from \in {"files", "entries"}, HookStep(from), NEW p \in left,
              Misses(p) \/ Proceed(from, left \ {p})
       PROVE  Looking'
  BY <1>13 DEF HookStep, Misses, Proceed, HookStage, callHistory, Reach
<1>5. ASSUME NEW from, HookStep(from), NEW v \in Verdicts, ~call.git, Registry(v)
      PROVE  Looking'
  <2>1. CASE Decide(v)
    BY <1>4, <1>5, <2>1
  <2>2. CASE Decide("overCap")
    BY <1>4, <1>5, <2>2 DEF Verdicts
  <2>3. CASE /\ ~again /\ call.placed
             /\ again' = TRUE /\ hpc' = "files" /\ left' = Roots(call.named)
             /\ missing' = {} /\ UNCHANGED verdict
    <3>1. Roots(call.named) \subseteq Repos
      BY CallIsCall, RootsAreRepos
    <3>2. Roots(call.named) \subseteq Reach(call)
      <4>1. Roots(call.named) \subseteq Roots(call.near \cup call.named)
        BY DEF Roots
      <4> QED
        BY <1>5, <2>3, <4>1, CallIsCall
    <3> QED
      BY <1>5, <2>3, <3>1, <3>2 DEF HookStep, HookStage, callHistory, Reach
  <2> QED
    BY <1>5, <2>1, <2>2, <2>3 DEF Registry
<1>6. CASE ReadStopFile
  <2> PICK r \in left : IF stopFile[r] = NoStop THEN Misses(r)
                        ELSE IF Covers(stopFile[r], call.client) THEN Decide("stopped")
                        ELSE Proceed("files", left \ {r})
    BY <1>6 DEF ReadStopFile
  <2>1. HookStep("files")
    BY <1>6 DEF ReadStopFile
  <2> QED
    BY <1>4, <1>13, <2>1 DEF Verdicts
<1>14. CASE LookForStopFile
  <2> PICK r \in missing : Decide("stopped") \/ Proceed("files", left \ {r})
    BY <1>14 DEF LookForStopFile
  <2>1. HookStep("files") /\ r \in left
    BY <1>14 DEF LookForStopFile
  <2> QED
    BY <1>4, <1>13, <2>1 DEF Verdicts
<1>7. CASE FilesRead
  <2>1. /\ hpc' \in {"all", "list"} /\ hpc = "files" /\ left' = {} /\ missing' = {}
        /\ UNCHANGED <<call, again, verdict, made, owed, blame>>
        /\ hpc' = "list" => ~call.git
    BY <1>7 DEF FilesRead, HookStep, Proceed, callHistory
  <2> QED
    BY <2>1 DEF HookStage, Reach
<1>8. CASE ListRegistry
  <2>1. Listed \subseteq Places
    BY DEF Listed
  <2>2. again => Listed \cap Roots(call.near \cup call.named) \subseteq Places \cap Reach(call)
    <3>1. call \in Calls /\ Roots(call.near \cup call.named) \subseteq Repos
      BY CallIsCall, RootsAreRepos
    <3> QED
      BY <3>1, CallIsCall
  <2>3. /\ UNCHANGED <<call, again, verdict, made, owed, blame>>
        /\ hpc = "list" /\ hpc' \in {"all", "entries"}
        /\ missing' = {}
        /\ left' = IF again THEN Listed \cap Roots(call.near \cup call.named)
                   ELSE Listed
    BY <1>8 DEF ListRegistry, HookStep, Proceed, callHistory
  <2>4. left' \subseteq Places /\ (again => left' \subseteq Reach(call)')
    BY <2>1, <2>2, <2>3 DEF Reach
  <2> QED
    BY <2>3, <2>4 DEF HookStage
<1>9. CASE ListFails
  BY <1>5, <1>9 DEF ListFails, HookStep, Verdicts
<1>10. CASE ReadEverywhere
  <2>1. HookStep("all")
    BY <1>10 DEF ReadEverywhere
  <2>2. CASE ~call.git /\ Proceed("entries", left)
    BY <2>1, <2>2 DEF HookStep, Proceed, HookStage, callHistory, Reach
  <2> QED
    BY <1>4, <1>10, <2>1, <2>2 DEF ReadEverywhere, Verdicts
<1>11. CASE ReadEntry
  <2> PICK p \in left : IF entry[p] = NoStop THEN Misses(p)
                        ELSE IF Covers(entry[p], call.client) THEN Registered
                        ELSE Proceed("entries", left \ {p})
    BY <1>11 DEF ReadEntry
  <2>1. HookStep("entries")
    BY <1>11 DEF ReadEntry
  <2>3. CASE Registered
    BY <1>5, <2>1, <2>3 DEF HookStep, Registered, Verdicts
  <2> QED
    BY <1>13, <2>1, <2>3
<1>15. CASE LookForEntry
  <2> PICK p \in missing : Registered \/ Proceed("entries", left \ {p})
    BY <1>15 DEF LookForEntry
  <2>1. HookStep("entries") /\ p \in left
    BY <1>15 DEF LookForEntry
  <2>3. CASE Registered
    BY <1>5, <2>1, <2>3 DEF HookStep, Registered, Verdicts
  <2> QED
    BY <1>13, <2>1, <2>3
<1>12. CASE EntriesRead
  BY <1>4, <1>12 DEF EntriesRead, Verdicts
<1> QED
  BY <1>1, <1>2, <1>3, <1>6, <1>7, <1>8, <1>9, <1>10, <1>11, <1>12, <1>14, <1>15 DEF HNext, Hook

\* What covers a client is a stop, and any stop everywhere covers all.
LEMMA CoversIsAStop == ASSUME NEW s, NEW c, Covers(s, c) PROVE s # NoStop
BY DEF Covers

LEMMA EverywhereIsAll ==
  ASSUME FilesOK, entry[Everywhere] # NoStop, NEW c
  PROVE  Covers(entry[Everywhere], c)
<1>1. entry[Everywhere] \in StopScopes(Everywhere) \cup {"unreadable"}
  BY DEF FilesOK, Written, Places
<1>2. StopScopes(Everywhere) \subseteq {"all"}
  BY JobsAssumption DEF StopScopes
<1> QED
  BY <1>1, <1>2 DEF Covers, NoStop

\* A stop the call is owed is in both files.
LEMMA OwedIsThere ==
  ASSUME StopLastsUntilResume, Looking, Owing, NEW p \in owed
  PROVE  /\ p \in Reach(call) /\ p \in Places /\ Covers(entry[p], call.client) /\ p \in Listed
         /\ p \in Repos => Covers(stopFile[p], call.client)
<1>1. p \in Reach(call) /\ call.client \in promised[p] /\ p \in Places
  BY DEF Owing, Looking, HookTypeOK
<1>2. call.client \in Reached(entry[p]) /\ (p \in Repos => call.client \in Reached(stopFile[p]))
  BY <1>1 DEF StopLastsUntilResume
<1> QED
  BY <1>1, <1>2, CoversIsAStop DEF Reached, Listed

LEMMA OwingStep ==
  ASSUME StopLastsUntilResume, Looking, Owing, [HNext]_allVars
  PROVE  Owing'
<1> USE DEF Owing, StoppedIsRefused
<1>0. call \in Calls
  BY DEF Looking, HookTypeOK
<1>1. CASE UNCHANGED allVars
  BY <1>1 DEF allVars, vars, hookVars, callHistory, Reach
<1>2. CASE CommandRuns
  BY <1>2 DEF CommandRuns, hookVars, Reach
<1>3. CASE MakeCall
  <2> PICK new \in Calls : /\ call' = new /\ left' = Roots(new.near)
                           /\ owed' = {p \in Reach(new) : new.client \in promised[p]}
    BY <1>3 DEF MakeCall
  <2>1. new.git => Reach(new) \subseteq left' \cup {Everywhere}
    BY CallIsCall
  <2> QED
    BY <1>3, <2>1 DEF MakeCall, vars, Reach
<1>4. ASSUME NEW v, v # "allow", NEW from, HookStep(from), Decide(v)
      PROVE  Owing'
  BY <1>4 DEF HookStep, Decide, callHistory, vars, Reach
<1>5. ASSUME NEW from, HookStep(from), NEW v, v # "allow", ~call.git, Registry(v)
      PROVE  Owing'
  <2>1. CASE Decide(v)
    BY <1>4, <1>5, <2>1
  <2>2. CASE Decide("overCap")
    BY <1>4, <1>5, <2>2
  <2>3. CASE hpc' = "files" /\ UNCHANGED verdict
    BY <1>5, <2>3 DEF HookStep, callHistory, vars, Reach
  <2> QED
    BY <1>5, <2>1, <2>2, <2>3 DEF Registry
<1>13. ASSUME NEW from \in {"files", "entries"}, HookStep(from), NEW p \in left,
              Misses(p) \/ (p \notin owed /\ Proceed(from, left \ {p}))
       PROVE  Owing'
  BY <1>13 DEF HookStep, Misses, Proceed, callHistory, vars, Reach
<1>6. CASE ReadStopFile
  <2> PICK r \in left : IF stopFile[r] = NoStop THEN Misses(r)
                        ELSE IF Covers(stopFile[r], call.client) THEN Decide("stopped")
                        ELSE Proceed("files", left \ {r})
    BY <1>6 DEF ReadStopFile
  <2>1. HookStep("files") /\ r \in Repos
    BY <1>6 DEF ReadStopFile, HookStep, Looking, HookTypeOK
  <2>2. ~Covers(stopFile[r], call.client) => r \notin owed
    BY <2>1, OwedIsThere
  <2> QED
    BY <1>4, <1>13, <2>1, <2>2
<1>14. CASE LookForStopFile
  <2> PICK r \in missing : IF stopFile[r] # NoStop THEN Decide("stopped")
                           ELSE Proceed("files", left \ {r})
    BY <1>14 DEF LookForStopFile
  <2>1. HookStep("files") /\ r \in Repos /\ r \in left
    BY <1>14 DEF LookForStopFile, HookStep, Looking, HookTypeOK
  <2>2. stopFile[r] = NoStop => r \notin owed
    BY <2>1, OwedIsThere, CoversIsAStop
  <2> QED
    BY <1>4, <1>13, <2>1, <2>2
<1>7. CASE FilesRead
  BY <1>7 DEF FilesRead, HookStep, Proceed, callHistory, vars, Reach
<1>8. CASE ListRegistry
  <2>1. /\ UNCHANGED <<vars, call, again, verdict, owed>> /\ hpc = "list"
        /\ hpc' = IF Everywhere \in Listed THEN "all" ELSE "entries"
        /\ left' = IF again THEN Listed \cap Roots(call.near \cup call.named)
                   ELSE Listed
    BY <1>8 DEF ListRegistry, HookStep, Proceed, callHistory
  <2>2. ~call.git /\ owed \subseteq Listed
    BY <2>1, OwedIsThere DEF Looking
  <2>3. again => owed \subseteq {Everywhere} \cup Roots(call.near \cup call.named)
    BY <1>0, <2>2, CallIsCall, OwedIsThere DEF Looking
  <2>4. owed \subseteq left' \cup (Listed \cap {Everywhere})
    BY <2>1, <2>2, <2>3
  <2> QED
    BY <2>1, <2>2, <2>4 DEF vars, Reach
<1>9. CASE ListFails
  <2>1. ~call.git
    BY <1>9 DEF ListFails, HookStep, Looking
  <2> QED
    BY <1>5, <1>9, <2>1 DEF ListFails
<1>10. CASE ReadEverywhere
  <2>1. HookStep("all")
    BY <1>10 DEF ReadEverywhere
  <2>2. entry[Everywhere] = NoStop => Everywhere \notin owed
    BY OwedIsThere, CoversIsAStop
  <2>3. CASE entry[Everywhere] = NoStop /\ call.git /\ Decide("allow")
    BY <2>1, <2>2, <2>3 DEF HookStep, Decide, callHistory, vars, Reach
  <2>4. CASE entry[Everywhere] = NoStop /\ ~call.git /\ Proceed("entries", left)
    BY <2>1, <2>2, <2>4 DEF HookStep, Proceed, callHistory, vars, Reach
  <2> QED
    BY <1>4, <1>10, <2>1, <2>3, <2>4 DEF ReadEverywhere
<1>11. CASE ReadEntry
  <2> PICK p \in left : IF entry[p] = NoStop THEN Misses(p)
                        ELSE IF Covers(entry[p], call.client) THEN Registered
                        ELSE Proceed("entries", left \ {p})
    BY <1>11 DEF ReadEntry
  <2>1. HookStep("entries") /\ ~call.git
    BY <1>11 DEF ReadEntry, HookStep, Looking
  <2>2. ~Covers(entry[p], call.client) => p \notin owed
    BY OwedIsThere
  <2> QED
    BY <1>5, <1>13, <2>1, <2>2 DEF Registered
<1>15. CASE LookForEntry
  <2> PICK p \in missing : IF entry[p] # NoStop THEN Registered
                           ELSE Proceed("entries", left \ {p})
    BY <1>15 DEF LookForEntry
  <2>1. HookStep("entries") /\ ~call.git /\ p \in left
    BY <1>15 DEF LookForEntry, HookStep, Looking, HookTypeOK
  <2>2. entry[p] = NoStop => p \notin owed
    BY OwedIsThere, CoversIsAStop
  <2> QED
    BY <1>5, <1>13, <2>1, <2>2 DEF Registered
<1>12. CASE EntriesRead
  BY <1>12 DEF EntriesRead, HookStep, Decide, callHistory, vars, Reach
<1> QED
  BY <1>1, <1>2, <1>3, <1>6, <1>7, <1>8, <1>9, <1>10, <1>11, <1>12, <1>14, <1>15 DEF HNext, Hook

LEMMA BlamingStep ==
  ASSUME FilesOK, Looking, Blaming, [HNext]_allVars
  PROVE  Blaming'
<1> USE DEF Blaming, RefusalHasItsStop
<1>0. call \in Calls /\ missing \subseteq left /\ (hpc = "files" => left \subseteq Repos)
  BY DEF Looking, HookTypeOK
<1>1. CASE UNCHANGED allVars
  BY <1>1 DEF allVars, vars, hookVars, callHistory, InForce, Sudden, Reach
<1>2. CASE CommandRuns
  BY <1>2 DEF CommandRuns, hookVars
<1>3. CASE MakeCall
  <2>1. blame' = InForce(call') /\ UNCHANGED <<stopFile, entry>> /\ verdict' = "none" /\ missing' = {}
    BY <1>3 DEF MakeCall, vars
  <2> QED
    BY <2>1 DEF InForce, Sudden, Reach
<1>4. ASSUME NEW from, HookStep(from)
      PROVE  /\ UNCHANGED <<call, blame>> /\ InForce(call)' = InForce(call) /\ hpc = from
             /\ UNCHANGED <<stopFile, entry>>
             /\ from \notin {"idle", "done"} => InForce(call) \cup Sudden \subseteq blame
  BY <1>4 DEF HookStep, callHistory, vars, InForce, Reach
<1>5. ASSUME NEW from, from \notin {"idle", "done"}, HookStep(from),
             NEW v, Decide(v), v = "stopped" => InForce(call) \cup Sudden # {}
      PROVE  Blaming'
  BY <1>4, <1>5 DEF Decide
<1>6. ASSUME NEW from, from \notin {"idle", "done"}, HookStep(from), NEW to, NEW files, Proceed(to, files)
      PROVE  Blaming'
  BY <1>4, <1>6 DEF Proceed, Sudden
<1>15. ASSUME NEW from \in {"files", "entries"}, HookStep(from), NEW p, Misses(p),
              IF from = "files" THEN stopFile[p] = NoStop ELSE entry[p] = NoStop
       PROVE  Blaming'
  <2>1. Sudden' = {}
    BY <1>4, <1>15 DEF Misses, Sudden
  <2> QED
    BY <1>4, <1>15, <2>1 DEF Misses
<1>7. ASSUME NEW from, from \notin {"idle", "done"}, HookStep(from), NEW v, Registry(v),
             v = "stopped" /\ (again \/ ~call.placed) => InForce(call) \cup Sudden # {}
      PROVE  Blaming'
  <2>1. CASE (again \/ ~call.placed) /\ Decide(v)
    BY <1>5, <1>7, <2>1
  <2>2. CASE Decide("overCap")
    BY <1>5, <1>7, <2>2
  <2>3. CASE UNCHANGED verdict /\ missing' = {}
    BY <1>4, <1>7, <2>3 DEF Sudden
  <2> QED
    BY <1>7, <2>1, <2>2, <2>3 DEF Registry
<1>8. CASE ReadStopFile
  <2> PICK r \in left : IF stopFile[r] = NoStop THEN Misses(r)
                        ELSE IF Covers(stopFile[r], call.client) THEN Decide("stopped")
                        ELSE Proceed("files", left \ {r})
    BY <1>8 DEF ReadStopFile
  <2>1. HookStep("files")
    BY <1>8 DEF ReadStopFile
  <2>2. r \in Repos \cap Reach(call)
    BY <1>0, <2>1 DEF HookStep, Looking
  <2>3. Covers(stopFile[r], call.client) => InForce(call) \cup Sudden # {}
    BY <2>2 DEF InForce
  <2> QED
    BY <1>5, <1>6, <1>15, <2>1, <2>3
<1>16. CASE LookForStopFile
  <2> PICK r \in missing : IF stopFile[r] # NoStop THEN Decide("stopped")
                           ELSE Proceed("files", left \ {r})
    BY <1>16 DEF LookForStopFile
  <2>1. HookStep("files")
    BY <1>16 DEF LookForStopFile
  <2>2. r \in Reach(call)
    BY <1>0, <2>1 DEF HookStep, Looking
  <2>3. stopFile[r] # NoStop => InForce(call) \cup Sudden # {}
    BY <2>1, <2>2 DEF Sudden, HookStep
  <2> QED
    BY <1>5, <1>6, <2>1, <2>3
<1>9. CASE FilesRead
  BY <1>6, <1>9 DEF FilesRead
<1>10. CASE ListRegistry
  BY <1>6, <1>10 DEF ListRegistry
<1>11. CASE ListFails
  BY <1>7, <1>11 DEF ListFails
<1>12. CASE ReadEverywhere
  <2>1. HookStep("all")
    BY <1>12 DEF ReadEverywhere
  <2>2. entry[Everywhere] # NoStop => Everywhere \in InForce(call)
    BY <1>0, EverywhereIsAll, CallIsCall DEF InForce
  <2> QED
    BY <1>5, <1>6, <1>12, <2>1, <2>2 DEF ReadEverywhere
<1>13. CASE ReadEntry
  <2> PICK p \in left : IF entry[p] = NoStop THEN Misses(p)
                        ELSE IF Covers(entry[p], call.client) THEN Registered
                        ELSE Proceed("entries", left \ {p})
    BY <1>13 DEF ReadEntry
  <2>1. HookStep("entries") /\ ~call.git /\ (again => p \in Reach(call)) /\ p \in Places
    BY <1>0, <1>13 DEF ReadEntry, HookStep, Looking, HookTypeOK
  <2>2. again \/ ~call.placed => p \in Reach(call)
    BY <1>0, <2>1, CallIsCall
  <2>3. Covers(entry[p], call.client) /\ (again \/ ~call.placed) => InForce(call) \cup Sudden # {}
    BY <2>2 DEF InForce
  <2> QED
    BY <1>6, <1>7, <1>15, <2>1, <2>3 DEF Registered
<1>17. CASE LookForEntry
  <2> PICK p \in missing : IF entry[p] # NoStop THEN Registered
                           ELSE Proceed("entries", left \ {p})
    BY <1>17 DEF LookForEntry
  <2>1. HookStep("entries") /\ ~call.git /\ (again => p \in Reach(call)) /\ p \in Places
    BY <1>0, <1>17 DEF LookForEntry, HookStep, Looking, HookTypeOK
  <2>2. again \/ ~call.placed => p \in Reach(call)
    BY <1>0, <2>1, CallIsCall
  <2>3. entry[p] # NoStop /\ (again \/ ~call.placed) => InForce(call) \cup Sudden # {}
    BY <2>1, <2>2 DEF Sudden, HookStep
  <2> QED
    BY <1>6, <1>7, <2>1, <2>3 DEF Registered
<1>14. CASE EntriesRead
  BY <1>5, <1>14 DEF EntriesRead
<1> QED
  BY <1>1, <1>2, <1>3, <1>8, <1>9, <1>10, <1>11, <1>12, <1>13, <1>14, <1>16, <1>17 DEF HNext, Hook

\* The hooks change no file: with them, commands are as they are alone.
LEMMA HooksOnlyRead == HSpec => Spec
<1>1. HInit => Init
  BY DEF HInit
<1>2. [HNext]_allVars => [Next]_vars
  BY DEF HNext, CommandRuns, Hook, MakeCall, ReadStopFile, LookForStopFile, FilesRead,
         ListRegistry, ListFails, ReadEverywhere, ReadEntry, LookForEntry, EntriesRead, HookStep, allVars
<1> QED
  BY <1>1, <1>2, PTL DEF HSpec, Spec

LEMMA HookStarts == HInit => Looking /\ Owing /\ Blaming
<1> SUFFICES ASSUME HInit PROVE Looking /\ Owing /\ Blaming
  OBVIOUS
<1>1. call \in Calls /\ MaxCalls \in Nat
  BY CallsAssumption DEF HInit
<1>2. /\ hpc = "idle" /\ again = FALSE /\ left = {} /\ missing = {} /\ verdict = "none"
      /\ made = 0
      /\ owed = {} /\ blame = {}
  BY DEF HInit
<1>3. Looking
  <2>1. made \in 0 .. MaxCalls
    BY <1>1, <1>2
  <2>2. HookTypeOK
    BY <1>1, <1>2, <2>1 DEF HookTypeOK, HookStage, Verdicts
  <2>3. hpc \notin {"list", "entries", "files", "all"} /\ ~again
    BY <1>2
  <2> QED
    BY <2>2, <2>3 DEF Looking
<1>4. Owing
  BY <1>2 DEF Owing, StoppedIsRefused
<1>5. Blaming
  BY <1>2 DEF Blaming, RefusalHasItsStop
<1> QED
  BY <1>3, <1>4, <1>5

LEMMA LookingAlways == HSpec => []Looking
<1>1. HInit => Looking
  BY HookStarts
<1>2. Looking /\ [HNext]_allVars => Looking'
  BY LookingStep
<1> QED
  BY <1>1, <1>2, PTL DEF HSpec

\* A call made after a stop that reaches it was finished, and judged before
\* anybody began to lift it, is not allowed (repo_stop_refusal, halt_git), as
\* long as the stops of one place have one scope.
THEOREM StoppedCallsAreRefused ==
  ASSUME OneScope
  PROVE  HSpec => []StoppedIsRefused
<1>1. HInit => Owing
  BY HookStarts
<1>2. StopLastsUntilResume /\ Looking /\ Owing /\ [HNext]_allVars => Owing'
  BY OwingStep
<1>3. Owing => StoppedIsRefused
  BY DEF Owing
<1>4. Spec => []StopLastsUntilResume
  BY StopsLast
<1> QED
  BY <1>1, <1>2, <1>3, <1>4, HooksOnlyRead, LookingAlways, PTL DEF HSpec

\* A call is refused as stopped only for a stop that stood in some file while it
\* was judged, covered its client and was in a place the call works in or names;
\* or for one written in such a place just between the hook's missing the file
\* and asking for it again (repo_stop_refusal, _halt_read_file).
THEOREM RefusalsHaveStops == HSpec => []RefusalHasItsStop
<1>1. HInit => Blaming
  BY HookStarts
<1>2. FilesOK /\ Looking /\ Blaming /\ [HNext]_allVars => Blaming'
  BY BlamingStep
<1>3. Blaming => RefusalHasItsStop
  BY DEF Blaming
<1>4. StopInv => FilesOK
  BY DEF StopInv
<1> QED
  BY <1>1, <1>2, <1>3, <1>4, StopAlways, HooksOnlyRead, LookingAlways, PTL DEF HSpec
\* The files, the commands and the hook always have their shape (stop_main,
\* resume_main, repo_stop_refusal).
THEOREM StopTypes == HSpec => [](TypeOK /\ HookTypeOK)
<1>1. StopInv => TypeOK
  BY DEF StopInv
<1>2. Looking => HookTypeOK
  BY DEF Looking
<1> QED
  BY <1>1, <1>2, StopAlways, HooksOnlyRead, LookingAlways, PTL

=============================================================================
