------------------------- MODULE DecisionLogProofs -------------------------
(***************************************************************************)
(* What holds of the decision log for any number of writers, any rotation  *)
(* threshold and any length.                                               *)
(***************************************************************************)
EXTENDS MCDecisionLog, VerifyLog, TLAPS

\* A line has a chain's fields exactly when its writer could read the line
\* before it.
LinkOK(w) ==
  /\ linked[w] => link[w].seq \in Nat
  /\ ~linked[w] => link[w] = Unlinked
  /\ pc[w] \in {"idle", "waiting", "rotate", "tail", "rotatedTail"} => ~linked[w]

TypeInv == TypeOK /\ \A w \in Writers : LinkOK(w)

-----------------------------------------------------------------------------
(***************************************************************************)
(* Lines and files.                                                        *)
(***************************************************************************)

LEMMA LineFields ==
  ASSUME NEW l \in Line
  PROVE  /\ l.id \in Nat /\ l.kind \in LineKind /\ l.prev \in Nat
         /\ l.seq \in Nat \cup {-1} /\ l.closed \in BOOLEAN
         /\ l # NoLine
BY DEF Line, LineKind, NoLine, GENESIS

LEMMA ClosedLine ==
  ASSUME NEW l \in Line
  PROVE  LET c == [l EXCEPT !.closed = TRUE]
         IN  /\ c \in Line /\ c.id = l.id /\ c.kind = l.kind
             /\ c.prev = l.prev /\ c.seq = l.seq /\ (l.closed => c = l)
<1> DEFINE c == [l EXCEPT !.closed = TRUE]
<1>1. CASE l \in [id : Nat, kind : {"chained"}, seq : Nat, prev : Nat,
                  closed : BOOLEAN]
  BY <1>1 DEF Line
<1>2. CASE l \in [id : Nat, kind : LineKind \ {"chained"}, seq : {-1},
                  prev : {GENESIS}, closed : BOOLEAN]
  BY <1>2 DEF Line
<1> QED
  BY <1>1, <1>2 DEF Line

LEMMA LastOfFile ==
  ASSUME NEW f \in Seq(Line)
  PROVE  /\ f = <<>> => LastLine(f) = NoLine
         /\ f # <<>> => /\ Len(f) \in 1 .. Len(f) /\ LastLine(f) = f[Len(f)]
                        /\ LastLine(f) \in Line
         /\ EndsTorn(f) \in BOOLEAN
BY LineFields DEF LastLine, Last, EndsTorn

\* The fields log_chain_after gives the next line of a file.
LEMMA ChainAfterType ==
  ASSUME NEW f \in Seq(Line)
  PROVE  /\ ChainAfter(LastLine(f)) \in [seq : Nat, prev : Nat]
         /\ f = <<>> => ChainAfter(LastLine(f)).prev = GENESIS
         /\ f # <<>> => ChainAfter(LastLine(f)).prev = f[Len(f)].id
<1>1. CASE f = <<>>
  BY <1>1, LastOfFile DEF ChainAfter, GENESIS
<1>2. CASE f # <<>>
  <2>1. LastLine(f) \in Line /\ LastLine(f) = f[Len(f)]
    BY <1>2, LastOfFile
  <2>2. LastLine(f) # NoLine /\ LineSeq(LastLine(f)) + 1 \in Nat
        /\ LastLine(f).id \in Nat
    BY <2>1, LineFields DEF LineSeq
  <2> QED
    BY <1>2, <2>1, <2>2 DEF ChainAfter
<1> QED
  BY <1>1, <1>2

LEMMA ClosedEnd ==
  ASSUME NEW f \in Seq(Line)
  PROVE  /\ CloseEnd(f) \in Seq(Line) /\ Len(CloseEnd(f)) = Len(f)
         /\ \A i \in 1 .. Len(f) : /\ CloseEnd(f)[i].id = f[i].id
                                   /\ CloseEnd(f)[i].kind = f[i].kind
                                   /\ CloseEnd(f)[i].prev = f[i].prev
                                   /\ CloseEnd(f)[i].seq = f[i].seq
         /\ ~EndsTorn(f) => CloseEnd(f) = f
<1>1. CASE f = <<>>
  BY <1>1 DEF CloseEnd
<1>2. CASE f # <<>>
  <2> DEFINE n == Len(f)
             c == [f[n] EXCEPT !.closed = TRUE]
  <2>1. n \in 1 .. Len(f) /\ f[n] \in Line
    BY <1>2
  <2>2. c \in Line /\ c.id = f[n].id /\ c.kind = f[n].kind /\ c.prev = f[n].prev
        /\ c.seq = f[n].seq /\ (f[n].closed => c = f[n])
    BY <2>1, ClosedLine
  <2> HIDE DEF c
  <2>3. CloseEnd(f) = [f EXCEPT ![n] = c]
    BY <1>2 DEF CloseEnd, c
  <2>4. CloseEnd(f) \in Seq(Line) /\ Len(CloseEnd(f)) = Len(f)
    BY <2>1, <2>2, <2>3
  <2>5. \A i \in 1 .. Len(f) : CloseEnd(f)[i] = IF i = n THEN c ELSE f[i]
    BY <2>1, <2>3
  <2>6. ~EndsTorn(f) => f[n].closed
    BY <1>2 DEF EndsTorn, Last
  <2>7. f[n].closed => CloseEnd(f) = f
    BY <2>1, <2>2, <2>3
  <2> QED
    BY <2>2, <2>4, <2>5, <2>6, <2>7
<1> QED
  BY <1>1, <1>2

-----------------------------------------------------------------------------
(***************************************************************************)
(* What a write does to a file.                                            *)
(***************************************************************************)

\* g is f after a write of w: each line keeps its identity but for the last,
\* which may be new, and is then chained only if w's link is and if it comes
\* after all of f.
Grown(w, f, g) ==
  /\ g \in Seq(Line) /\ Len(f) <= Len(g)
  /\ \A i \in 1 .. Len(g) :
       \/ i <= Len(f) /\ g[i].id = f[i].id /\ g[i].kind = f[i].kind
          /\ g[i].prev = f[i].prev /\ g[i].seq = f[i].seq
       \/ i = Len(g) /\ g[i].id = lastId + 1
          /\ (Chained(g[i]) => /\ linked[w] /\ i = Len(f) + 1
                               /\ g[i].prev = link[w].prev
                               /\ g[i].seq = link[w].seq)

LEMMA WrittenLines ==
  ASSUME TypeInv, NEW w \in Writers, NEW c \in BOOLEAN
  PROVE  /\ NewLine(w, c) \in Line /\ NewLine(w, c).id = lastId + 1
         /\ Chained(NewLine(w, c)) => /\ linked[w]
                                      /\ NewLine(w, c).prev = link[w].prev
                                      /\ NewLine(w, c).seq = link[w].seq
         /\ NewLine(w, c).closed = c
         /\ GarbageLine(c) \in Line /\ GarbageLine(c).id = lastId + 1
         /\ ~Chained(GarbageLine(c)) /\ GarbageLine(c).closed = c
<1>1. /\ lastId + 1 \in Nat /\ link[w] \in [seq : Nat \cup {-1}, prev : Nat]
      /\ linked[w] \in BOOLEAN /\ LinkOK(w)
  BY DEF TypeInv, TypeOK
<1>2. CASE linked[w]
  BY <1>1, <1>2
  DEF NewLine, GarbageLine, Line, LineKind, Chained, LinkOK, GENESIS
<1>3. CASE ~linked[w]
  BY <1>1, <1>3
  DEF NewLine, GarbageLine, Line, LineKind, Chained, LinkOK, Unlinked, GENESIS
<1> QED
  BY <1>1, <1>2, <1>3

LEMMA CloseEndGrows ==
  ASSUME NEW w \in Writers, NEW f \in Seq(Line)
  PROVE  Grown(w, f, CloseEnd(f))
BY ClosedEnd DEF Grown

LEMMA AddToGrows ==
  ASSUME TypeInv, NEW w \in Writers, NEW f \in Seq(Line), NEW l \in Line,
         l.id = lastId + 1,
         Chained(l) => linked[w] /\ l.prev = link[w].prev /\ l.seq = link[w].seq
  PROVE  Grown(w, f, AddTo(w, f, l))
<1>1. CASE EndsTorn(f) /\ ~torn[w]
  <2> DEFINE new == GarbageLine(l.closed)
             g == [f EXCEPT ![Len(f)] = new]
  <2>1. new \in Line /\ new.id = lastId + 1 /\ ~Chained(new)
    BY LineFields, WrittenLines
  <2>2. f # <<>> /\ Len(f) \in 1 .. Len(f)
    BY <1>1 DEF EndsTorn
  <2> HIDE DEF new
  <2>3. g \in Seq(Line) /\ Len(g) = Len(f)
    BY <2>1, <2>2
  <2>4. \A i \in 1 .. Len(g) : g[i] = IF i = Len(f) THEN new ELSE f[i]
    BY <2>2, <2>3
  <2>5. AddTo(w, f, l) = g
    BY <1>1 DEF AddTo, new
  <2> HIDE DEF g
  <2>6. Grown(w, f, g)
    BY <2>1, <2>2, <2>3, <2>4 DEF Grown
  <2> QED
    BY <2>5, <2>6
<1>2. CASE ~(EndsTorn(f) /\ ~torn[w])
  <2> DEFINE e == CloseEnd(f)
             g == Append(e, l)
  <2>1. /\ e \in Seq(Line) /\ Len(e) = Len(f)
        /\ \A i \in 1 .. Len(f) : e[i].id = f[i].id /\ e[i].kind = f[i].kind
                                  /\ e[i].prev = f[i].prev /\ e[i].seq = f[i].seq
    BY ClosedEnd
  <2> HIDE DEF e
  <2>2. /\ g \in Seq(Line) /\ Len(g) = Len(f) + 1 /\ g[Len(f) + 1] = l
        /\ \A i \in 1 .. Len(f) : g[i] = e[i]
    BY <2>1
  <2>3. AddTo(w, f, l) = g
    BY <1>2 DEF AddTo, e
  <2> QED
    BY <2>1, <2>2, <2>3 DEF Grown
<1> QED
  BY <1>1, <1>2

LEMMA SameIsGrown ==
  ASSUME NEW w \in Writers, NEW f \in Seq(Line)
  PROVE  Grown(w, f, f)
BY DEF Grown

\* Both files after a write, complete or short, wherever the descriptor points.
LEMMA WriteEffect ==
  ASSUME TypeInv, NEW w \in Writers, Write(w) \/ WriteShort(w)
  PROVE  /\ Grown(w, current, current') /\ Grown(w, rotated, rotated')
         /\ fd[w] # "current" => current' = current
         /\ fd[w] # "rotated" => rotated' = rotated
         /\ lastId' = lastId + 1 /\ present' = present /\ lock' = lock
         /\ pc' = [pc EXCEPT ![w] = "unlock"] /\ pc[w] = "write"
         /\ UNCHANGED ownVars
<1>1. current \in Seq(Line) /\ rotated \in Seq(Line) /\ Target(w) \in Seq(Line)
  BY DEF TypeInv, TypeOK, Target
<1>2. ASSUME NEW g, Grown(w, Target(w), g), Put(w, g)
      PROVE  /\ Grown(w, current, current') /\ Grown(w, rotated, rotated')
             /\ fd[w] # "current" => current' = current
             /\ fd[w] # "rotated" => rotated' = rotated
             /\ lastId' = lastId + 1 /\ present' = present
  <2>1. CASE fd[w] = "current"
    BY <1>1, <1>2, <2>1, SameIsGrown DEF Put, Target
  <2>2. CASE fd[w] = "rotated"
    BY <1>1, <1>2, <2>2, SameIsGrown DEF Put, Target
  <2>3. CASE fd[w] \notin {"current", "rotated"}
    BY <1>1, <1>2, <2>3, SameIsGrown DEF Put
  <2> QED
    BY <2>1, <2>2, <2>3
<1>3. Grown(w, Target(w), AddTo(w, Target(w), NewLine(w, TRUE)))
  BY <1>1, WrittenLines, AddToGrows
<1>4. Grown(w, Target(w), AddTo(w, Target(w), NewLine(w, FALSE)))
  BY <1>1, WrittenLines, AddToGrows
<1>5. Grown(w, Target(w), AddTo(w, Target(w), GarbageLine(FALSE)))
  BY <1>1, WrittenLines, AddToGrows
<1>6. Grown(w, Target(w), CloseEnd(Target(w)))
  BY <1>1, CloseEndGrows
<1>7. \E g : Grown(w, Target(w), g) /\ Put(w, g)
  <2>1. CASE Write(w)
    BY <1>3, <2>1 DEF Write
  <2>2. CASE WriteShort(w)
    BY <1>4, <1>5, <1>6, <2>2 DEF WriteShort
  <2> QED
    BY <2>1, <2>2
<1>8. /\ lock' = lock /\ pc' = [pc EXCEPT ![w] = "unlock"] /\ pc[w] = "write"
      /\ UNCHANGED ownVars
  BY DEF Write, WriteShort, Go
<1> QED
  BY <1>2, <1>7, <1>8

-----------------------------------------------------------------------------
(***************************************************************************)
(* Type correctness.                                                       *)
(***************************************************************************)

LEMMA LegacyLines ==
  /\ [i \in 1 .. Legacy |-> LegacyLine(i)] \in Seq(Line)
  /\ Len([i \in 1 .. Legacy |-> LegacyLine(i)]) = Legacy
<1>1. Legacy \in Nat
  BY BoundsAssumption
<1>2. \A i \in 1 .. Legacy : LegacyLine(i) \in Line
  BY <1>1 DEF LegacyLine, Line, LineKind
<1> QED
  BY <1>1, <1>2

LEMMA InitType == Init => TypeInv
<1> SUFFICES ASSUME Init PROVE TypeInv
  OBVIOUS
<1>1. Unlinked \in [seq : Nat \cup {-1}, prev : Nat]
  BY DEF Unlinked, GENESIS
<1>2. TypeOK
  BY <1>1, LegacyLines, BoundsAssumption DEF Init, TypeOK, Stage, File
<1>3. \A w \in Writers : LinkOK(w)
  BY DEF Init, LinkOK
<1> QED
  BY <1>2, <1>3 DEF TypeInv

\* A writer that leaves log_append keeps nothing.
LEMMA LeaveType ==
  ASSUME TypeInv, NEW w \in Writers, Leave(w), Release(w), UNCHANGED logVars
  PROVE  TypeInv'
<1>1. Unlinked \in [seq : Nat \cup {-1}, prev : Nat]
  BY DEF Unlinked, GENESIS
<1>2. TypeOK'
  BY <1>1 DEF TypeInv, TypeOK, Leave, Release, logVars, Stage, File
<1>3. ASSUME NEW v \in Writers PROVE LinkOK(v)'
  BY DEF TypeInv, TypeOK, LinkOK, Leave
<1> QED
  BY <1>2, <1>3 DEF TypeInv

LEMMA StepType ==
  ASSUME TypeInv, [Next]_vars
  PROVE  TypeInv'
<1> USE DEF TypeInv
<1>1. CASE UNCHANGED vars
  BY <1>1 DEF TypeOK, LinkOK, vars
<1>2. ASSUME NEW w \in Writers,
             Begin(w) \/ Acquire(w) \/ GiveUp(w) \/ KeepFile(w) \/ ReadEmptyTail(w)
      PROVE  TypeInv'
  <2>1. /\ UNCHANGED <<logVars, ownVars>> /\ lock' \in {lock, w}
        /\ pc[w] \in {"idle", "waiting", "rotate", "tail"}
        /\ \E s \in {"waiting", "rotate", "tail", "rotatedTail"} :
             pc' = [pc EXCEPT ![w] = s]
    BY <1>2 DEF Begin, Acquire, GiveUp, KeepFile, ReadEmptyTail, Go
  <2>2. TypeOK'
    BY <2>1 DEF TypeOK, logVars, ownVars, Stage
  <2>3. ASSUME NEW v \in Writers PROVE LinkOK(v)'
    BY <2>1 DEF TypeOK, LinkOK, ownVars
  <2> QED
    BY <2>2, <2>3
<1>3. ASSUME NEW w \in Writers, Rotate(w) PROVE TypeInv'
  <2> DEFINE moved == [v \in Writers |-> CASE fd[v] = "none" -> "none"
                                           [] fd[v] = "current" -> "rotated"
                                           [] OTHER -> "gone"]
  <2>1. TypeOK'
    <3>1. moved \in [Writers -> File]
      BY DEF File
    <3>2. fd' = moved
      BY <1>3 DEF Rotate
    <3> HIDE DEF moved
    <3>3. <<>> \in Seq(Line)
      OBVIOUS
    <3> QED
      BY <1>3, <3>1, <3>2, <3>3 DEF TypeOK, Rotate, Go, Stage
  <2>2. ASSUME NEW v \in Writers PROVE LinkOK(v)'
    BY <1>3 DEF TypeOK, LinkOK, Rotate, Go
  <2> QED
    BY <2>1, <2>2
<1>4. ASSUME NEW w \in Writers, ReadTail(w) \/ ReadRotatedTail(w)
      PROVE  TypeInv'
  <2>1. PICK f \in {current, rotated} :
          /\ link' = [link EXCEPT ![w] = ChainAfter(LastLine(f))]
          /\ linked' = [linked EXCEPT ![w] = TRUE]
          /\ pc' = [pc EXCEPT ![w] = "open"]
          /\ torn' \in {torn, [torn EXCEPT ![w] = EndsTorn(current)]}
          /\ UNCHANGED <<logVars, fd, lock>>
    BY <1>4 DEF ReadTail, ReadRotatedTail, Go
  <2>2. f \in Seq(Line) /\ EndsTorn(current) \in BOOLEAN
    BY LastOfFile DEF TypeOK
  <2>3. ChainAfter(LastLine(f)) \in [seq : Nat, prev : Nat]
    BY <2>2, ChainAfterType
  <2>4. TypeOK'
    BY <2>1, <2>2, <2>3 DEF TypeOK, logVars, Stage
  <2>5. ASSUME NEW v \in Writers PROVE LinkOK(v)'
    BY <2>1, <2>3 DEF TypeOK, LinkOK
  <2> QED
    BY <2>4, <2>5
<1>5. ASSUME NEW w \in Writers, ReadTailUnlocked(w) PROVE TypeInv'
  <2>1. EndsTorn(current) \in BOOLEAN
    BY LastOfFile DEF TypeOK
  <2>2. TypeOK'
    BY <1>5, <2>1 DEF TypeOK, ReadTailUnlocked, Go, logVars, Stage
  <2>3. ASSUME NEW v \in Writers PROVE LinkOK(v)'
    BY <1>5 DEF TypeOK, LinkOK, ReadTailUnlocked, Go
  <2> QED
    BY <2>2, <2>3
<1>6. ASSUME NEW w \in Writers, ReadFails(w) PROVE TypeInv'
  <2>1. TypeOK'
    BY <1>6 DEF TypeOK, ReadFails, logVars, Stage
  <2>2. ASSUME NEW v \in Writers PROVE LinkOK(v)'
    BY <1>6 DEF TypeOK, LinkOK, ReadFails
  <2> QED
    BY <2>1, <2>2
<1>7. ASSUME NEW w \in Writers, OpenLog(w) PROVE TypeInv'
  <2>1. TypeOK'
    BY <1>7 DEF TypeOK, OpenLog, Go, Stage, File
  <2>2. ASSUME NEW v \in Writers PROVE LinkOK(v)'
    BY <1>7 DEF TypeOK, LinkOK, OpenLog, Go
  <2> QED
    BY <2>1, <2>2
<1>8. ASSUME NEW w \in Writers, Write(w) \/ WriteShort(w) PROVE TypeInv'
  <2>1. /\ current' \in Seq(Line) /\ rotated' \in Seq(Line)
        /\ lastId' = lastId + 1 /\ present' = present /\ lock' = lock
        /\ pc' = [pc EXCEPT ![w] = "unlock"] /\ UNCHANGED ownVars
    BY <1>8, WriteEffect DEF Grown
  <2>2. TypeOK'
    BY <2>1 DEF TypeOK, ownVars, Stage
  <2>3. ASSUME NEW v \in Writers PROVE LinkOK(v)'
    BY <2>1 DEF TypeOK, LinkOK, ownVars
  <2> QED
    BY <2>2, <2>3
<1>9. ASSUME NEW w \in Writers, OpenFails(w) \/ Unlock(w) \/ Crash(w)
      PROVE  TypeInv'
  BY <1>9, LeaveType DEF OpenFails, Unlock, Crash
<1> QED
  BY <1>1, <1>2, <1>3, <1>4, <1>5, <1>6, <1>7, <1>8, <1>9
  DEF Next, Step, Quiet

\* Every state of the decision log, its files and its writers is of the shape
\* the model declares, whatever fails.
THEOREM TypeCorrect == Spec => []TypeOK
<1>1. TypeInv => TypeOK
  BY DEF TypeInv
<1> QED
  BY <1>1, InitType, StepType, PTL DEF Spec

-----------------------------------------------------------------------------
(***************************************************************************)
(* No fork.  Two chained lines with the same prev would need two writers   *)
(* that both read the same last line; the lock is what excludes it, also   *)
(* when other writers, tired of waiting, append between the read of the    *)
(* last line and the write after it.  The invariant orders the lines by    *)
(* their hashes' age: every chained line points past all chained lines     *)
(* before it.                                                              *)
(***************************************************************************)

\* Whose turn it is: only the lock's holder rotates, reads the rotated file or
\* chains its line, and the file it then has open is the log itself.
Turn(w) ==
  /\ linked[w] => lock = w /\ pc[w] \in {"open", "write", "unlock"}
  /\ pc[w] \in {"rotate", "rotatedTail"} => lock = w
  /\ linked[w] /\ pc[w] = "write" => fd[w] = "current"
  /\ fd[w] # "none" => pc[w] \in {"write", "unlock"}

LockInv == \A w \in Writers : Turn(w)

\* In file f, whose lines are no younger than m, hashes are in order and each
\* chained line points past the chained lines before it.
Rising(f, m) ==
  /\ \A i \in 1 .. Len(f) :
       f[i].id <= m /\ (Chained(f[i]) => f[i].prev < f[i].id)
  /\ \A i, j \in 1 .. Len(f) :
       i < j => /\ f[i].id < f[j].id
                /\ Chained(f[i]) /\ Chained(f[j]) => f[i].id <= f[j].prev

\* The chained lines of f come before the lines of g.
Before(f, g) ==
  \A i \in 1 .. Len(f) : \A j \in 1 .. Len(g) :
    Chained(f[i]) => /\ f[i].id < g[j].id
                     /\ Chained(g[j]) => f[i].id <= g[j].prev

\* Line p is past the chained lines of f.
Past(p, f) == \A i \in 1 .. Len(f) : Chained(f[i]) => f[i].id <= p

OrderInv ==
  /\ Rising(current, lastId) /\ Rising(rotated, lastId)
  /\ Before(rotated, current)
  /\ \A w \in Writers :
       /\ linked[w] /\ pc[w] \in {"open", "write"} =>
            /\ Past(link[w].prev, current) /\ Past(link[w].prev, rotated)
            /\ link[w].prev <= lastId
       /\ pc[w] = "rotatedTail" =>
            \A i \in 1 .. Len(current) : ~Chained(current[i])

ForkInv == TypeInv /\ LockInv /\ OrderInv

LEMMA GrownRises ==
  ASSUME TypeInv, NEW w \in Writers, NEW f \in Seq(Line), NEW g, Grown(w, f, g),
         Rising(f, lastId),
         linked[w] => Past(link[w].prev, f) /\ link[w].prev <= lastId
  PROVE  Rising(g, lastId + 1)
<1>1. lastId \in Nat /\ link[w].prev \in Nat /\ g \in Seq(Line)
  BY DEF TypeInv, TypeOK, Grown
<1>2. \A i \in 1 .. Len(g) :
        /\ g[i].id \in Nat /\ g[i].prev \in Nat
        /\ i <= Len(f) => f[i].id \in Nat /\ f[i].prev \in Nat
  <2> SUFFICES ASSUME NEW i \in 1 .. Len(g)
               PROVE  /\ g[i].id \in Nat /\ g[i].prev \in Nat
                      /\ i <= Len(f) => f[i].id \in Nat /\ f[i].prev \in Nat
    OBVIOUS
  <2>1. g[i] \in Line /\ (i <= Len(f) => f[i] \in Line)
    BY <1>1
  <2> QED
    BY <2>1, LineFields
<1> DEFINE old(i) == /\ i <= Len(f) /\ g[i].id = f[i].id /\ g[i].prev = f[i].prev
                     /\ Chained(g[i]) <=> Chained(f[i])
           new(i) == /\ i = Len(g) /\ g[i].id = lastId + 1
                     /\ Chained(g[i]) => linked[w] /\ g[i].prev = link[w].prev
<1>3. \A i \in 1 .. Len(g) : old(i) \/ new(i)
  BY DEF Grown, Chained
<1>4. ASSUME NEW i \in 1 .. Len(g)
      PROVE  g[i].id <= lastId + 1 /\ (Chained(g[i]) => g[i].prev < g[i].id)
  <2>1. CASE old(i)
    BY <1>1, <1>2, <2>1 DEF Rising
  <2>2. CASE new(i)
    BY <1>1, <2>2
  <2> QED
    BY <1>3, <2>1, <2>2
<1>5. ASSUME NEW i \in 1 .. Len(g), NEW j \in 1 .. Len(g), i < j
      PROVE  /\ g[i].id < g[j].id
             /\ Chained(g[i]) /\ Chained(g[j]) => g[i].id <= g[j].prev
  <2>1. old(i)
    BY <1>1, <1>3, <1>5
  <2>2. CASE old(j)
    BY <1>5, <2>1, <2>2 DEF Rising
  <2>3. CASE new(j)
    BY <1>1, <1>2, <2>1, <2>3 DEF Rising, Past
  <2> QED
    BY <1>3, <2>2, <2>3
<1> QED
  BY <1>4, <1>5 DEF Rising

LEMMA ForkInit == Init => ForkInv
<1> SUFFICES ASSUME Init PROVE ForkInv
  OBVIOUS
<1>1. TypeInv
  BY InitType
<1>2. LockInv
  BY DEF Init, LockInv, Turn
<1>3. /\ Len(current) = Legacy /\ rotated = <<>> /\ lastId = Legacy /\ Legacy \in Nat
      /\ \A i \in 1 .. Legacy : current[i].id = i /\ ~Chained(current[i])
  BY LegacyLines, BoundsAssumption DEF Init, LegacyLine, Chained
<1>4. OrderInv
  BY <1>3 DEF Init, OrderInv, Rising, Before
<1> QED
  BY <1>1, <1>2, <1>4 DEF ForkInv

LEMMA LockStep ==
  ASSUME TypeInv, LockInv, [Next]_vars
  PROVE  LockInv'
<1> USE DEF LockInv, Turn
<1>0. lock \in Writers \cup {NoWriter} /\ NoWriter \notin Writers
  BY WritersAssumption DEF TypeInv, TypeOK
<1>1. CASE UNCHANGED vars
  BY <1>1 DEF vars
<1>2. ASSUME NEW w \in Writers, NEW v \in Writers,
             Begin(w) \/ Acquire(w) \/ GiveUp(w) \/ KeepFile(w) \/ ReadEmptyTail(w)
      PROVE  Turn(v)'
  BY <1>0, <1>2
  DEF TypeInv, TypeOK, LinkOK, Begin, Acquire, GiveUp, KeepFile, ReadEmptyTail, Go, Held,
      ownVars
<1>3. ASSUME NEW w \in Writers, NEW v \in Writers, Rotate(w)
      PROVE  Turn(v)'
  <2>1. lock = w /\ lock' = lock /\ linked' = linked /\ ~linked[v]
    BY <1>3 DEF Rotate, Go, TypeInv, TypeOK, LinkOK
  <2>2. fd'[v] # "none" => fd[v] # "none"
    BY <1>3 DEF Rotate
  <2> QED
    BY <1>3, <2>1, <2>2 DEF Rotate, Go, TypeInv, TypeOK
<1>4. ASSUME NEW w \in Writers, NEW v \in Writers,
             ReadTail(w) \/ ReadRotatedTail(w) \/ ReadTailUnlocked(w) \/ ReadFails(w)
             \/ OpenLog(w)
      PROVE  Turn(v)'
  BY <1>4
  DEF TypeInv, TypeOK, LinkOK, ReadTail, ReadRotatedTail, ReadTailUnlocked, ReadFails, OpenLog,
      Go, Held
<1>5. ASSUME NEW w \in Writers, NEW v \in Writers, Write(w) \/ WriteShort(w)
      PROVE  Turn(v)'
  BY <1>5, WriteEffect DEF TypeInv, TypeOK, ownVars
<1>6. ASSUME NEW w \in Writers, NEW v \in Writers,
             OpenFails(w) \/ Unlock(w) \/ Crash(w)
      PROVE  Turn(v)'
  <2>1. Leave(w) /\ Release(w)
    BY <1>6 DEF OpenFails, Unlock, Crash
  <2> QED
    BY <2>1 DEF TypeInv, TypeOK, Leave, Release, Held
<1> QED
  BY <1>1, <1>2, <1>3, <1>4, <1>5, <1>6 DEF Next, Step, Quiet

\* A step that leaves the files alone keeps the order if it gives no writer a
\* link to write and sends none to the rotated file.
LEMMA OrderKept ==
  ASSUME TypeInv, OrderInv, NEW w \in Writers, UNCHANGED <<current, rotated, lastId>>,
         \A v \in Writers :
           /\ linked'[v] /\ pc'[v] \in {"open", "write"} =>
                linked[v] /\ pc[v] \in {"open", "write"} /\ link'[v] = link[v]
           /\ pc'[v] = "rotatedTail" => pc[v] = "rotatedTail" \/ current = <<>>
  PROVE  OrderInv'
BY DEF OrderInv

LEMMA OrderStep ==
  ASSUME ForkInv, [Next]_vars
  PROVE  OrderInv'
<1>0. /\ TypeInv /\ LockInv /\ OrderInv
      /\ current \in Seq(Line) /\ rotated \in Seq(Line)
  BY DEF ForkInv, TypeInv, TypeOK
<1>1. CASE UNCHANGED vars
  BY <1>0, <1>1 DEF OrderInv, vars
<1>2. ASSUME NEW w \in Writers,
             Begin(w) \/ Acquire(w) \/ GiveUp(w) \/ KeepFile(w) \/ ReadEmptyTail(w)
      PROVE  OrderInv'
  BY <1>0, <1>2, OrderKept
  DEF TypeInv, TypeOK, Begin, Acquire, GiveUp, KeepFile, ReadEmptyTail, Go, logVars,
      ownVars
<1>3. ASSUME NEW w \in Writers, ReadTailUnlocked(w) \/ ReadFails(w) \/ OpenLog(w)
      PROVE  OrderInv'
  BY <1>0, <1>3, OrderKept
  DEF TypeInv, TypeOK, LinkOK, ReadTailUnlocked, ReadFails, OpenLog, Go, logVars
<1>4. ASSUME NEW w \in Writers, OpenFails(w) \/ Unlock(w) \/ Crash(w)
      PROVE  OrderInv'
  <2>1. Leave(w) /\ UNCHANGED logVars
    BY <1>4 DEF OpenFails, Unlock, Crash
  <2> QED
    BY <1>0, <2>1, OrderKept DEF TypeInv, TypeOK, Leave, logVars
<1>5. ASSUME NEW w \in Writers, Rotate(w) PROVE OrderInv'
  <2>1. \A v \in Writers : ~linked[v]
    BY <1>0, <1>5 DEF LockInv, Turn, Rotate, Go, TypeInv, LinkOK
  <2>2. /\ current' = <<>> /\ rotated' = current /\ lastId' = lastId
        /\ linked' = linked
    BY <1>5 DEF Rotate
  <2>3. Rising(current', lastId') /\ Rising(rotated', lastId')
        /\ Before(rotated', current')
    BY <1>0, <2>2 DEF OrderInv, Rising, Before
  <2> QED
    BY <2>1, <2>2, <2>3 DEF OrderInv
<1>6. ASSUME NEW w \in Writers, ReadTail(w) \/ ReadRotatedTail(w)
      PROVE  OrderInv'
  <2>1. /\ UNCHANGED <<current, rotated, lastId>>
        /\ \A v \in Writers \ {w} :
             linked'[v] = linked[v] /\ link'[v] = link[v] /\ pc'[v] = pc[v]
        /\ pc'[w] = "open"
    BY <1>0, <1>6 DEF ReadTail, ReadRotatedTail, Go, logVars, TypeInv, TypeOK
  <2>2. Past(link'[w].prev, current) /\ Past(link'[w].prev, rotated)
        /\ link'[w].prev <= lastId
    <3>1. CASE ReadTail(w)
      <4>1. current # <<>> /\ link'[w] = ChainAfter(LastLine(current))
        BY <1>0, <3>1 DEF ReadTail, TypeInv, TypeOK
      <4>2. link'[w].prev = current[Len(current)].id /\ Len(current) \in 1 .. Len(current)
        BY <1>0, <4>1, ChainAfterType
      <4>3. \A i \in 1 .. Len(current) : current[i].id \in Nat
        BY <1>0, LineFields
      <4>4. \A i \in 1 .. Len(rotated) : rotated[i].id \in Nat
        BY <1>0, LineFields
      <4> QED
        BY <1>0, <4>2, <4>3, <4>4 DEF OrderInv, Rising, Before, Past
    <3>2. CASE ReadRotatedTail(w)
      <4>1. /\ pc[w] = "rotatedTail" /\ link'[w] = ChainAfter(LastLine(rotated))
            /\ lastId \in Nat
        BY <1>0, <3>2 DEF ReadRotatedTail, Go, TypeInv, TypeOK
      <4>2. Past(link'[w].prev, current)
        BY <1>0, <4>1 DEF OrderInv, Past
      <4>3. CASE rotated = <<>>
        <5>1. link'[w].prev = 0 /\ Len(rotated) = 0
          BY <1>0, <4>1, <4>3, ChainAfterType DEF GENESIS
        <5> QED
          BY <4>1, <4>2, <5>1 DEF Past
      <4>4. CASE rotated # <<>>
        <5>1. link'[w].prev = rotated[Len(rotated)].id
              /\ Len(rotated) \in 1 .. Len(rotated)
          BY <1>0, <4>1, <4>4, ChainAfterType
        <5>2. \A i \in 1 .. Len(rotated) : rotated[i].id \in Nat
          BY <1>0, LineFields
        <5> QED
          BY <1>0, <4>2, <5>1, <5>2 DEF OrderInv, Rising, Past
      <4> QED
        BY <4>3, <4>4
    <3> QED
      BY <1>6, <3>1, <3>2
  <2> QED
    BY <1>0, <2>1, <2>2 DEF OrderInv
<1>7. ASSUME NEW w \in Writers, Write(w) \/ WriteShort(w) PROVE OrderInv'
  <2>1. /\ Grown(w, current, current') /\ Grown(w, rotated, rotated')
        /\ fd[w] # "current" => current' = current
        /\ fd[w] # "rotated" => rotated' = rotated
        /\ lastId' = lastId + 1 /\ pc' = [pc EXCEPT ![w] = "unlock"] /\ pc[w] = "write"
        /\ link' = link /\ linked' = linked
    BY <1>0, <1>7, WriteEffect DEF ownVars
  <2>2. linked[w] => /\ Past(link[w].prev, current) /\ Past(link[w].prev, rotated)
                     /\ link[w].prev <= lastId /\ rotated' = rotated
    BY <1>0, <2>1 DEF OrderInv, LockInv, Turn
  <2>3. Rising(current', lastId') /\ Rising(rotated', lastId')
    BY <1>0, <2>1, <2>2, GrownRises DEF OrderInv
  <2>4. \* A line that is chained in the rotated file was so before.
        \A i \in 1 .. Len(rotated') : Chained(rotated'[i]) =>
          /\ i <= Len(rotated) /\ rotated'[i].id = rotated[i].id
          /\ Chained(rotated[i])
    BY <1>0, <2>1, <2>2 DEF Grown, Chained
  <2>5. Before(rotated', current')
    <3> SUFFICES ASSUME NEW i \in 1 .. Len(rotated'), NEW j \in 1 .. Len(current'),
                        Chained(rotated'[i])
                 PROVE  /\ rotated'[i].id < current'[j].id
                        /\ Chained(current'[j]) => rotated'[i].id <= current'[j].prev
      BY DEF Before
    <3>1. i \in 1 .. Len(rotated) /\ rotated'[i].id = rotated[i].id /\ Chained(rotated[i])
      BY <1>0, <2>4
    <3>2. rotated[i].id \in Nat /\ rotated[i].id <= lastId /\ lastId \in Nat
      BY <1>0, <3>1, LineFields DEF OrderInv, Rising, TypeInv, TypeOK
    <3>3. \/ /\ j \in 1 .. Len(current) /\ current'[j].id = current[j].id
             /\ current'[j].prev = current[j].prev
             /\ Chained(current'[j]) => Chained(current[j])
          \/ /\ current'[j].id = lastId + 1
             /\ Chained(current'[j]) => linked[w] /\ current'[j].prev = link[w].prev
      BY <1>0, <2>1 DEF Grown, Chained
    <3>4. CASE /\ j \in 1 .. Len(current) /\ current'[j].id = current[j].id
               /\ current'[j].prev = current[j].prev
               /\ Chained(current'[j]) => Chained(current[j])
      BY <1>0, <3>1, <3>4 DEF OrderInv, Before
    <3>5. CASE /\ current'[j].id = lastId + 1
               /\ Chained(current'[j]) => linked[w] /\ current'[j].prev = link[w].prev
      BY <2>2, <3>1, <3>2, <3>5 DEF Past
    <3> QED
      BY <3>3, <3>4, <3>5
  <2>6. ASSUME NEW v \in Writers, linked'[v], pc'[v] \in {"open", "write"}
        PROVE  /\ Past(link'[v].prev, current') /\ Past(link'[v].prev, rotated')
               /\ link'[v].prev <= lastId'
    <3>1. v # w /\ linked[v] /\ pc[v] \in {"open", "write"} /\ pc[v] # "unlock"
      BY <1>0, <2>1, <2>6 DEF TypeInv, TypeOK
    <3>2. ~linked[w]
      BY <1>0, <3>1 DEF LockInv, Turn
    <3>3. \A i \in 1 .. Len(current') : Chained(current'[i]) =>
            /\ i \in 1 .. Len(current) /\ current'[i].id = current[i].id
            /\ Chained(current[i])
      BY <1>0, <2>1, <3>2 DEF Grown, Chained
    <3>4. Past(link[v].prev, current) /\ Past(link[v].prev, rotated)
          /\ link[v].prev <= lastId /\ link[v].prev \in Nat /\ lastId \in Nat
      BY <1>0, <3>1 DEF OrderInv, TypeInv, TypeOK
    <3> QED
      BY <1>0, <2>1, <2>4, <3>3, <3>4 DEF Past
  <2>7. ASSUME NEW v \in Writers, pc'[v] = "rotatedTail"
        PROVE  \A i \in 1 .. Len(current') : ~Chained(current'[i])
    <3>1. pc[v] = "rotatedTail" /\ ~linked[w]
      BY <1>0, <2>1, <2>7 DEF LockInv, Turn, TypeInv, TypeOK
    <3> QED
      BY <1>0, <2>1, <3>1 DEF OrderInv, Grown, Chained
  <2> QED
    BY <2>3, <2>5, <2>6, <2>7 DEF OrderInv
<1> QED
  BY <1>1, <1>2, <1>3, <1>4, <1>5, <1>6, <1>7 DEF Next, Step, Quiet

LEMMA OrderedNeverForks ==
  ASSUME ForkInv
  PROVE  NeverForks
<1>1. /\ current \in Seq(Line) /\ rotated \in Seq(Line)
      /\ Rising(current, lastId) /\ Rising(rotated, lastId) /\ Before(rotated, current)
  BY DEF ForkInv, OrderInv, TypeInv, TypeOK
<1> DEFINE n == Len(rotated)
<1>2. /\ Len(Window) = n + Len(current) /\ DOMAIN Window = 1 .. Len(Window)
      /\ \A i \in 1 .. Len(Window) :
           Window[i] = IF i <= n THEN rotated[i] ELSE current[i - n]
  BY <1>1 DEF Window
<1>3. ASSUME NEW i \in DOMAIN Window, NEW j \in DOMAIN Window, i < j,
             Chained(Window[i]), Chained(Window[j])
      PROVE  Window[i].prev < Window[j].prev
  <2>1. /\ i \in Nat /\ j \in Nat /\ n \in Nat /\ Len(current) \in Nat
        /\ i >= 1 /\ j <= n + Len(current)
    BY <1>1, <1>2
  <2>2. /\ i <= n => i \in 1 .. n /\ Window[i] = rotated[i]
        /\ i > n => i - n \in 1 .. Len(current) /\ Window[i] = current[i - n]
        /\ j <= n => j \in 1 .. n /\ Window[j] = rotated[j]
        /\ j > n => j - n \in 1 .. Len(current) /\ Window[j] = current[j - n]
    <3> HIDE DEF n
    <3> QED
      BY <1>2, <1>3, <2>1
  <2>3. Window[i] \in Line /\ Window[j] \in Line
    BY <1>1, <2>1, <2>2
  <2>4. Window[i].id \in Nat /\ Window[i].prev \in Nat /\ Window[j].prev \in Nat
    BY <2>3, LineFields
  <2>5. Window[i].prev < Window[i].id
    <3>1. CASE i <= n
      BY <1>1, <1>3, <2>2, <3>1 DEF Rising
    <3>2. CASE i > n
      BY <1>1, <1>3, <2>2, <3>2 DEF Rising
    <3> QED
      BY <2>1, <3>1, <3>2
  <2>6. Window[i].id <= Window[j].prev
    <3>1. CASE j <= n
      BY <1>1, <1>3, <2>1, <2>2, <3>1 DEF Rising
    <3>2. CASE i > n
      BY <1>1, <1>3, <2>1, <2>2, <3>2 DEF Rising
    <3>3. CASE i <= n /\ j > n
      BY <1>1, <1>3, <2>1, <2>2, <3>3 DEF Before
    <3> QED
      BY <1>3, <2>1, <3>1, <3>2, <3>3
  <2> QED
    BY <2>4, <2>5, <2>6
<1>4. ASSUME NEW i \in DOMAIN Window, NEW j \in DOMAIN Window, i # j,
             Chained(Window[i]), Chained(Window[j])
      PROVE  Window[i].prev # Window[j].prev
  <2>1. i \in Nat /\ j \in Nat
    BY <1>1, <1>2
  <2>2. Window[i] \in Line /\ Window[j] \in Line
    BY <1>1, <1>2
  <2>3. Window[i].prev \in Nat /\ Window[j].prev \in Nat
    BY <2>2, LineFields
  <2>4. CASE i < j
    BY <1>3, <1>4, <2>3, <2>4
  <2>5. CASE j < i
    BY <1>3, <1>4, <2>3, <2>5
  <2> QED
    BY <1>4, <2>1, <2>4, <2>5
<1> QED
  BY <1>4 DEF NeverForks

\* tests/test_decision_log_chain_routes.py, "never fork": whatever times out,
\* tears, crashes, or cannot be read, opened or moved, and however many writers
\* there are, no two chained lines of the two files follow the same line.
THEOREM NoForkEver == Spec => []NeverForks
<1>1. ForkInv /\ [Next]_vars => ForkInv'
  BY StepType, LockStep, OrderStep DEF ForkInv
<1>2. ForkInv => NeverForks
  BY OrderedNeverForks
<1> QED
  BY <1>1, <1>2, ForkInit, PTL DEF Spec

-----------------------------------------------------------------------------
(***************************************************************************)
(* A break has its cause in view.  What an unlocked writer, a torn write   *)
(* or an unreadable log leaves is never a chained line, so two chained     *)
(* lines that stand next to each other are linked: the second was written  *)
(* by a lock holder who read the first, and nothing came between.          *)
(***************************************************************************)

\* Link k is the one of a line that follows line l, if l is chained.
After(k, l) == Chained(l) => k.prev = l.id /\ k.seq = l.seq + 1

Joined(f) == \A i \in 2 .. Len(f) : Chained(f[i]) => After(f[i], f[i - 1])

\* A link about to be written follows the last line there is by now.
Fresh(w) ==
  linked[w] /\ pc[w] \in {"open", "write"} =>
    /\ current # <<>> => After(link[w], current[Len(current)])
    /\ current = <<>> /\ rotated # <<>> => After(link[w], rotated[Len(rotated)])

JoinInv ==
  /\ Joined(current) /\ Joined(rotated)
  /\ current # <<>> /\ rotated # <<>> /\ Chained(current[1]) =>
       After(current[1], rotated[Len(rotated)])
  /\ \A w \in Writers : Fresh(w)

BreakInv == ForkInv /\ JoinInv

LEMMA ChainAfterFollows ==
  ASSUME NEW f \in Seq(Line), f # <<>>
  PROVE  After(ChainAfter(LastLine(f)), f[Len(f)])
<1>1. LastLine(f) \in Line /\ LastLine(f) = f[Len(f)]
  BY LastOfFile
<1>2. LastLine(f) # NoLine
  BY <1>1, LineFields
<1> QED
  BY <1>1, <1>2 DEF ChainAfter, After, LineSeq, Chained

LEMMA GrownJoins ==
  ASSUME NEW w \in Writers, NEW f \in Seq(Line), NEW g, Grown(w, f, g), Joined(f),
         linked[w] /\ f # <<>> => After(link[w], f[Len(f)])
  PROVE  Joined(g)
<1> SUFFICES ASSUME NEW i \in 2 .. Len(g), Chained(g[i]), Chained(g[i - 1])
             PROVE  g[i].prev = g[i - 1].id /\ g[i].seq = g[i - 1].seq + 1
  BY DEF Joined, After
<1>1. Len(f) \in Nat /\ Len(g) \in Nat /\ i - 1 \in 1 .. Len(g) /\ i \in 1 .. Len(g)
  BY DEF Grown
<1>2. /\ i - 1 <= Len(f) /\ g[i - 1].id = f[i - 1].id /\ g[i - 1].kind = f[i - 1].kind
      /\ g[i - 1].seq = f[i - 1].seq
  BY <1>1 DEF Grown
<1>3. CASE /\ i <= Len(f) /\ g[i].kind = f[i].kind /\ g[i].prev = f[i].prev
           /\ g[i].seq = f[i].seq
  <2>1. i \in 2 .. Len(f) /\ Chained(f[i]) /\ Chained(f[i - 1])
    BY <1>1, <1>2, <1>3 DEF Chained
  <2> QED
    BY <1>2, <1>3, <2>1 DEF Joined, After
<1>4. CASE /\ linked[w] /\ i = Len(f) + 1
           /\ g[i].prev = link[w].prev /\ g[i].seq = link[w].seq
  <2>1. f # <<>> /\ i - 1 = Len(f) /\ Chained(f[Len(f)])
    BY <1>1, <1>2, <1>4 DEF Chained
  <2> QED
    BY <1>2, <1>4, <2>1 DEF After
<1> QED
  BY <1>1, <1>3, <1>4 DEF Grown

LEMMA JoinStart == Init => JoinInv
<1> SUFFICES ASSUME Init PROVE JoinInv
  OBVIOUS
<1>1. /\ Len(current) = Legacy /\ rotated = <<>> /\ Legacy \in Nat
      /\ \A i \in 1 .. Legacy : ~Chained(current[i])
  BY LegacyLines, BoundsAssumption DEF Init, LegacyLine, Chained
<1> QED
  BY <1>1 DEF Init, JoinInv, Joined, Fresh

\* A step that leaves the files alone and gives no writer a link to write.
LEMMA JoinKept ==
  ASSUME JoinInv, UNCHANGED <<current, rotated>>,
         \A v \in Writers :
           linked'[v] /\ pc'[v] \in {"open", "write"} =>
             linked[v] /\ pc[v] \in {"open", "write"} /\ link'[v] = link[v]
  PROVE  JoinInv'
BY DEF JoinInv, Joined, Fresh, After

LEMMA JoinStep ==
  ASSUME BreakInv, [Next]_vars
  PROVE  JoinInv'
<1>0. /\ TypeInv /\ LockInv /\ OrderInv /\ JoinInv
      /\ current \in Seq(Line) /\ rotated \in Seq(Line)
  BY DEF BreakInv, ForkInv, TypeInv, TypeOK
<1>1. CASE UNCHANGED vars
  BY <1>0, <1>1, JoinKept DEF vars
<1>2. ASSUME NEW w \in Writers,
             Begin(w) \/ Acquire(w) \/ GiveUp(w) \/ KeepFile(w) \/ ReadEmptyTail(w)
      PROVE  JoinInv'
  BY <1>0, <1>2, JoinKept
  DEF TypeInv, TypeOK, Begin, Acquire, GiveUp, KeepFile, ReadEmptyTail, Go, logVars,
      ownVars
<1>3. ASSUME NEW w \in Writers, ReadTailUnlocked(w) \/ ReadFails(w) \/ OpenLog(w)
      PROVE  JoinInv'
  BY <1>0, <1>3, JoinKept
  DEF TypeInv, TypeOK, LinkOK, ReadTailUnlocked, ReadFails, OpenLog, Go, logVars
<1>4. ASSUME NEW w \in Writers, OpenFails(w) \/ Unlock(w) \/ Crash(w)
      PROVE  JoinInv'
  <2>1. Leave(w) /\ UNCHANGED logVars
    BY <1>4 DEF OpenFails, Unlock, Crash
  <2> QED
    BY <1>0, <2>1, JoinKept DEF TypeInv, TypeOK, Leave, logVars
<1>5. ASSUME NEW w \in Writers, Rotate(w) PROVE JoinInv'
  <2>1. \A v \in Writers : ~linked[v]
    BY <1>0, <1>5 DEF LockInv, Turn, Rotate, Go, TypeInv, LinkOK
  <2>2. current' = <<>> /\ rotated' = current /\ linked' = linked
    BY <1>5 DEF Rotate
  <2>3. Joined(current') /\ Joined(rotated')
    BY <1>0, <2>2 DEF JoinInv, Joined
  <2> QED
    BY <2>1, <2>2, <2>3 DEF JoinInv, Joined, Fresh
<1>6. ASSUME NEW w \in Writers, ReadTail(w) \/ ReadRotatedTail(w)
      PROVE  JoinInv'
  <2>1. /\ UNCHANGED <<current, rotated>>
        /\ \A v \in Writers \ {w} :
             linked'[v] = linked[v] /\ link'[v] = link[v] /\ pc'[v] = pc[v]
    BY <1>0, <1>6 DEF ReadTail, ReadRotatedTail, Go, logVars, TypeInv, TypeOK
  <2>2. /\ current # <<>> => After(link'[w], current[Len(current)])
        /\ current = <<>> /\ rotated # <<>> => After(link'[w], rotated[Len(rotated)])
    <3>1. CASE ReadTail(w)
      BY <1>0, <3>1, ChainAfterFollows DEF ReadTail, TypeInv, TypeOK
    <3>2. CASE ReadRotatedTail(w)
      <4>1. /\ pc[w] = "rotatedTail" /\ link'[w] = ChainAfter(LastLine(rotated))
        BY <1>0, <3>2 DEF ReadRotatedTail, Go, TypeInv, TypeOK
      <4>2. current # <<>> => ~Chained(current[Len(current)])
        BY <1>0, <4>1 DEF OrderInv
      <4> QED
        BY <1>0, <4>1, <4>2, ChainAfterFollows DEF After
    <3> QED
      BY <1>6, <3>1, <3>2
  <2> QED
    BY <1>0, <2>1, <2>2 DEF JoinInv, Joined, Fresh, After
<1>7. ASSUME NEW w \in Writers, Write(w) \/ WriteShort(w) PROVE JoinInv'
  <2>1. /\ Grown(w, current, current') /\ Grown(w, rotated, rotated')
        /\ fd[w] # "rotated" => rotated' = rotated
        /\ pc' = [pc EXCEPT ![w] = "unlock"] /\ pc[w] = "write"
        /\ link' = link /\ linked' = linked
    BY <1>0, <1>7, WriteEffect DEF ownVars
  <2>2. linked[w] => rotated' = rotated
    BY <1>0, <2>1 DEF LockInv, Turn
  <2>3. linked[w] => /\ current # <<>> => After(link[w], current[Len(current)])
                     /\ current = <<>> /\ rotated # <<>> =>
                          After(link[w], rotated[Len(rotated)])
    BY <1>0, <2>1 DEF JoinInv, Fresh
  <2>4. Joined(current')
    BY <1>0, <2>1, <2>3, GrownJoins DEF JoinInv
  <2>5. Joined(rotated')
    <3>1. CASE linked[w]
      BY <1>0, <2>2, <3>1 DEF JoinInv
    <3>2. CASE ~linked[w]
      BY <1>0, <2>1, <3>2, GrownJoins DEF JoinInv
    <3> QED
      BY <3>1, <3>2
  <2>6. \* A chained last line of the rotated file was its last line before.
        rotated' # <<>> /\ Chained(rotated'[Len(rotated')]) =>
          /\ rotated # <<>> /\ Chained(rotated[Len(rotated)])
          /\ rotated'[Len(rotated')].id = rotated[Len(rotated)].id
          /\ rotated'[Len(rotated')].seq = rotated[Len(rotated)].seq
    <3>1. CASE rotated' = rotated
      BY <3>1
    <3>2. CASE ~linked[w]
      BY <1>0, <2>1, <3>2 DEF Grown, Chained
    <3> QED
      BY <2>2, <3>1, <3>2
  <2>7. ASSUME current' # <<>>, rotated' # <<>>, Chained(current'[1])
        PROVE  After(current'[1], rotated'[Len(rotated')])
    <3> SUFFICES ASSUME Chained(rotated'[Len(rotated')])
                 PROVE  /\ current'[1].prev = rotated[Len(rotated)].id
                        /\ current'[1].seq = rotated[Len(rotated)].seq + 1
      BY <2>6, <2>7 DEF After
    <3>1. 1 \in 1 .. Len(current')
      BY <2>1, <2>7 DEF Grown
    <3>2. CASE /\ 1 <= Len(current) /\ current'[1].kind = current[1].kind
               /\ current'[1].prev = current[1].prev /\ current'[1].seq = current[1].seq
      <4>1. current # <<>> /\ Chained(current[1])
        BY <2>7, <3>2 DEF Chained
      <4> QED
        BY <1>0, <2>6, <2>7, <3>2, <4>1 DEF JoinInv, After
    <3>3. CASE /\ linked[w] /\ 1 = Len(current) + 1
               /\ current'[1].prev = link[w].prev /\ current'[1].seq = link[w].seq
      <4>1. current = <<>>
        BY <1>0, <3>3
      <4> QED
        BY <2>3, <2>6, <2>7, <3>3, <4>1 DEF After
    <3> QED
      BY <2>1, <2>7, <3>1, <3>2, <3>3 DEF Grown
  <2>8. ASSUME NEW v \in Writers, linked'[v], pc'[v] \in {"open", "write"}
        PROVE  Fresh(v)'
    <3>1. v # w /\ linked[v] /\ pc[v] \in {"open", "write"} /\ pc[v] # "unlock"
      BY <1>0, <2>1, <2>8 DEF TypeInv, TypeOK
    <3>2. ~linked[w]
      BY <1>0, <3>1 DEF LockInv, Turn
    <3>3. current' # <<>> /\ Chained(current'[Len(current')]) =>
            /\ current # <<>> /\ Chained(current[Len(current)])
            /\ current'[Len(current')].id = current[Len(current)].id
            /\ current'[Len(current')].seq = current[Len(current)].seq
      BY <1>0, <2>1, <3>2 DEF Grown, Chained
    <3>4. current' = <<>> => current = <<>>
      BY <1>0, <2>1 DEF Grown
    <3>5. link'[v] = link[v] /\ Fresh(v)
      BY <1>0, <2>1 DEF JoinInv
    <3> QED
      BY <2>6, <3>1, <3>3, <3>4, <3>5 DEF Fresh, After
  <2>9. ASSUME NEW v \in Writers PROVE Fresh(v)'
    BY <2>8 DEF Fresh
  <2> QED
    BY <2>4, <2>5, <2>7, <2>9 DEF JoinInv
<1> QED
  BY <1>1, <1>2, <1>3, <1>4, <1>5, <1>6, <1>7 DEF Next, Step, Quiet

LEMMA JoinedIsAccountedFor ==
  ASSUME BreakInv
  PROVE  BreakIsAccountedFor
<1>1. /\ current \in Seq(Line) /\ rotated \in Seq(Line) /\ JoinInv
  BY DEF BreakInv, ForkInv, TypeInv, TypeOK
<1> SUFFICES ASSUME \A i \in DOMAIN Window : Chained(Window[i])
             PROVE  Intact(Window)
  BY DEF BreakIsAccountedFor
<1> DEFINE n == Len(rotated)
<1>2. /\ Len(Window) = n + Len(current) /\ DOMAIN Window = 1 .. Len(Window)
      /\ n \in Nat /\ Len(current) \in Nat
      /\ \A i \in 1 .. n : Window[i] = rotated[i]
      /\ \A i \in 1 .. Len(current) : Window[n + i] = current[i]
  BY <1>1 DEF Window
<1> HIDE DEF n
<1>3. ASSUME NEW i \in 2 .. Len(Window)
      PROVE  Window[i].prev = Window[i - 1].id /\ Window[i].seq = Window[i - 1].seq + 1
  <2>0. Chained(Window[i]) /\ Chained(Window[i - 1])
    BY <1>2
  <2>1. CASE i <= n
    <3>1. i \in 2 .. Len(rotated) /\ Window[i] = rotated[i]
          /\ Window[i - 1] = rotated[i - 1]
      BY <1>2, <2>1 DEF n
    <3> QED
      BY <1>1, <2>0, <3>1 DEF JoinInv, Joined, After
  <2>2. CASE i = n + 1
    <3>1. /\ 1 \in 1 .. Len(current) /\ n \in 1 .. n /\ Len(rotated) = n
      BY <1>2, <2>2 DEF n
    <3>2. /\ Window[i] = current[1] /\ Window[i - 1] = rotated[Len(rotated)]
          /\ current # <<>> /\ rotated # <<>>
      BY <1>2, <2>2, <3>1
    <3> QED
      BY <1>1, <2>0, <3>2 DEF JoinInv, After
  <2>3. CASE i > n + 1
    <3> DEFINE j == i - n
    <3>1. j \in 2 .. Len(current) /\ j \in 1 .. Len(current) /\ j - 1 \in 1 .. Len(current)
          /\ i = n + j /\ i - 1 = n + (j - 1)
      BY <1>2, <2>3
    <3> HIDE DEF j
    <3>2. Window[i] = current[j] /\ Window[i - 1] = current[j - 1]
      BY <1>2, <3>1
    <3> QED
      BY <1>1, <2>0, <3>1, <3>2 DEF JoinInv, Joined, After
  <2> QED
    BY <1>2, <2>1, <2>2, <2>3
<1>4. ASSUME NEW i \in DOMAIN Window
      PROVE  StepBreak(Window, i) = "none"
  <2>1. Chained(Window[i]) /\ i \in 1 .. Len(Window)
    BY <1>2
  <2>2. i > 1 => Chained(Window[i - 1])
    BY <1>2, <2>1
  <2>3. Begun(Window, i) => i > 1
    BY <2>1 DEF Begun
  <2>4. LinkBreak(Window, i) = "none"
    BY <1>3, <2>1, <2>2, <2>3 DEF LinkBreak, LineSeq, Chained
  <2> QED
    BY <2>1, <2>4 DEF StepBreak, Chained
<1> QED
  BY <1>4 DEF Intact, Breaks

\* Whatever times out, tears, crashes, or cannot be read, opened or moved: as
\* long as every line of the two files looks well formed and chained,
\* `chock status --verify-log` finds no break.  A break there is has a line that
\* is not chained to show for it (log_append writes `unchained` without the lock).
THEOREM BreaksAreAccountedFor == Spec => []BreakIsAccountedFor
<1>1. BreakInv /\ [Next]_vars => BreakInv'
  BY StepType, LockStep, OrderStep, JoinStep DEF BreakInv, ForkInv
<1>2. Init => BreakInv
  BY ForkInit, JoinStart DEF BreakInv
<1>3. BreakInv => BreakIsAccountedFor
  BY JoinedIsAccountedFor
<1> QED
  BY <1>1, <1>2, <1>3, PTL DEF Spec

-----------------------------------------------------------------------------
(***************************************************************************)
(* Torn lines.  As long as no writer went on without the lock, or without  *)
(* a last line it could not read, the lock's holder alone is between the   *)
(* lock and its release, and what it saw of the log's end is still so when *)
(* it writes.                                                              *)
(***************************************************************************)

Alone(w) ==
  /\ pc[w] \notin {"idle", "waiting"} => lock = w
  /\ pc[w] \in {"open", "write"} => linked[w] /\ torn[w] = EndsTorn(current)
  /\ pc[w] \notin {"open", "write", "unlock"} => ~torn[w]
  /\ pc[w] = "rotatedTail" => current = <<>>

\* When a torn end is seen as one, its line keeps its bytes.
LEMMA SeenEndIsKept ==
  ASSUME NEW w \in Writers, NEW f \in Seq(Line), EndsTorn(f),
         torn[w] = EndsTorn(f), NEW l \in Line
  PROVE  /\ AddTo(w, f, l)[Len(f)].id = f[Len(f)].id
         /\ CloseEnd(f)[Len(f)].id = f[Len(f)].id
<1>1. Len(f) \in 1 .. Len(f)
  BY DEF EndsTorn
<1>2. AddTo(w, f, l) = Append(CloseEnd(f), l)
  BY DEF AddTo
<1>3. CloseEnd(f) \in Seq(Line) /\ Len(CloseEnd(f)) = Len(f)
  BY ClosedEnd
<1>4. Append(CloseEnd(f), l)[Len(f)] = CloseEnd(f)[Len(f)]
  BY <1>1, <1>3
<1> QED
  BY <1>1, <1>2, <1>4, ClosedEnd

LEMMA AloneStep ==
  ASSUME ForkInv, \A w \in Writers : Alone(w), [Next]_vars,
         \A w \in Writers : ~Bypasses(w)
  PROVE  \A w \in Writers : Alone(w)'
<1>0. /\ TypeInv /\ LockInv /\ current \in Seq(Line) /\ NoWriter \notin Writers
      /\ \A w \in Writers : Alone(w)
  BY WritersAssumption DEF ForkInv, TypeInv, TypeOK
<1>1. CASE UNCHANGED vars
  BY <1>0, <1>1 DEF Alone, vars
<1>2. ASSUME NEW w \in Writers, NEW v \in Writers,
             Begin(w) \/ Acquire(w) \/ KeepFile(w) \/ ReadEmptyTail(w)
      PROVE  Alone(v)'
  <2>1. /\ UNCHANGED <<logVars, ownVars>>
        /\ lock' = lock \/ (lock = NoWriter /\ lock' = w)
    BY <1>2 DEF Begin, Acquire, KeepFile, ReadEmptyTail
  <2>2. pc'[v] \notin {"idle", "waiting"} => lock' = v
    BY <1>0, <1>2, <2>1
    DEF Begin, Acquire, KeepFile, ReadEmptyTail, Go, Alone, TypeInv, TypeOK, Held
  <2>3. /\ pc'[v] \in {"open", "write"} => pc'[v] = pc[v]
        /\ pc'[v] = "rotatedTail" => pc'[v] = pc[v] \/ current = <<>>
        /\ pc'[v] \notin {"open", "write", "unlock"} =>
             pc[v] \notin {"open", "write", "unlock"}
    BY <1>0, <1>2
    DEF Begin, Acquire, KeepFile, ReadEmptyTail, Go, TypeInv, TypeOK
  <2> QED
    BY <1>0, <2>1, <2>2, <2>3 DEF Alone, logVars, ownVars
<1>3. ASSUME NEW w \in Writers, NEW v \in Writers, Rotate(w) PROVE Alone(v)'
  <2>1. /\ lock = w /\ current' = <<>> /\ pc' = [pc EXCEPT ![w] = "tail"]
        /\ UNCHANGED <<lock, link, linked, torn>> /\ pc[w] = "rotate"
    BY <1>0, <1>3 DEF Rotate, Go, Alone
  <2>2. v # w => pc[v] \in {"idle", "waiting"}
    BY <1>0, <2>1 DEF Alone, TypeInv, TypeOK
  <2> QED
    BY <1>0, <2>1, <2>2 DEF Alone, TypeInv, TypeOK
<1>4. ASSUME NEW w \in Writers, NEW v \in Writers, ReadTail(w) \/ ReadRotatedTail(w)
      PROVE  Alone(v)'
  <2>1. /\ lock = w /\ pc' = [pc EXCEPT ![w] = "open"] /\ UNCHANGED <<current, lock>>
        /\ linked' = [linked EXCEPT ![w] = TRUE]
        /\ v # w => torn'[v] = torn[v] /\ pc'[v] = pc[v]
    BY <1>0, <1>4
    DEF ReadTail, ReadRotatedTail, Go, Alone, TypeInv, TypeOK, logVars
  <2>2. torn'[w] = EndsTorn(current)
    <3>1. CASE ReadTail(w)
      BY <1>0, <3>1 DEF ReadTail, TypeInv, TypeOK
    <3>2. CASE ReadRotatedTail(w)
      BY <1>0, <3>2 DEF ReadRotatedTail, Go, Alone, EndsTorn, TypeInv, TypeOK
    <3> QED
      BY <1>4, <3>1, <3>2
  <2> QED
    BY <1>0, <2>1, <2>2 DEF Alone, TypeInv, TypeOK
<1>5. ASSUME NEW w \in Writers, NEW v \in Writers, OpenLog(w) PROVE Alone(v)'
  BY <1>0, <1>5 DEF OpenLog, Go, Alone, TypeInv, TypeOK
<1>6. ASSUME NEW w \in Writers, NEW v \in Writers, Write(w) \/ WriteShort(w)
      PROVE  Alone(v)'
  <2>1. /\ pc[w] = "write" /\ pc' = [pc EXCEPT ![w] = "unlock"]
        /\ lock' = lock /\ UNCHANGED ownVars
    BY <1>0, <1>6, WriteEffect
  <2>2. v # w => pc[v] \in {"idle", "waiting"}
    BY <1>0, <2>1 DEF Alone, TypeInv, TypeOK
  <2> QED
    BY <1>0, <2>1, <2>2 DEF Alone, TypeInv, TypeOK, ownVars
<1>7. ASSUME NEW w \in Writers, NEW v \in Writers,
             OpenFails(w) \/ Unlock(w) \/ Crash(w)
      PROVE  Alone(v)'
  <2>1. Leave(w) /\ Release(w) /\ UNCHANGED logVars /\ pc[w] # "idle"
    BY <1>7 DEF OpenFails, Unlock, Crash
  <2> QED
    BY <1>0, <2>1 DEF Alone, Leave, Release, Held, TypeInv, TypeOK, logVars
<1>8. ASSUME NEW w \in Writers
      PROVE  ~GiveUp(w) /\ ~ReadTailUnlocked(w) /\ ~ReadFails(w)
  <2>1. ~GiveUp(w)
    BY DEF GiveUp, Go, Bypasses, ForkInv, TypeInv, TypeOK
  <2>2. ~ReadTailUnlocked(w)
    BY <1>0 DEF ReadTailUnlocked, Go, Held, Alone
  <2>3. ~ReadFails(w)
    BY <1>0 DEF ReadFails, Bypasses, TypeInv, TypeOK
  <2> QED
    BY <2>1, <2>2, <2>3
<1> QED
  BY <1>1, <1>2, <1>3, <1>4, <1>5, <1>6, <1>7, <1>8 DEF Next, Step, Quiet

LEMMA AloneKeepsTorn ==
  ASSUME ForkInv, \A w \in Writers : Alone(w), [Next]_vars,
         \A w \in Writers : ~Bypasses(w),
         EndsTorn(current), Len(current) \in DOMAIN current'
  PROVE  current'[Len(current)].id = current[Len(current)].id
<1>0. /\ TypeInv /\ LockInv /\ current \in Seq(Line)
  BY DEF ForkInv, TypeInv, TypeOK
<1>1. CASE UNCHANGED current
  BY <1>1
<1>2. ASSUME NEW w \in Writers, Rotate(w) PROVE FALSE
  <2>1. DOMAIN current' = {}
    BY <1>2 DEF Rotate
  <2> QED
    BY <2>1
<1>3. ASSUME NEW w \in Writers, Write(w) \/ WriteShort(w)
      PROVE  current'[Len(current)].id = current[Len(current)].id
  <2>1. linked[w] /\ torn[w] = EndsTorn(current) /\ fd[w] = "current"
    BY <1>0, <1>3 DEF Write, WriteShort, Go, Alone, LockInv, Turn
  <2>2. Target(w) = current
    BY <2>1 DEF Target
  <2>3. \E f \in {CloseEnd(current), AddTo(w, current, NewLine(w, TRUE)),
                  AddTo(w, current, NewLine(w, FALSE)),
                  AddTo(w, current, GarbageLine(FALSE))} : current' = f
    BY <1>3, <2>1, <2>2 DEF Write, WriteShort, Put
  <2>4. /\ NewLine(w, TRUE) \in Line /\ NewLine(w, FALSE) \in Line
        /\ GarbageLine(FALSE) \in Line
    BY <1>0, WrittenLines
  <2> QED
    BY <1>0, <2>1, <2>3, <2>4, SeenEndIsKept
<1> QED
  BY <1>1, <1>2, <1>3
  DEF Next, Step, Quiet, vars, Begin, Acquire, GiveUp, KeepFile, ReadTail,
      ReadEmptyTail, ReadRotatedTail, ReadTailUnlocked, ReadFails, OpenLog, OpenFails,
      Unlock, Crash, logVars

TornInv == ForkInv /\ (~bypassed => \A w \in Writers : Alone(w))

\* _log_line: "a torn last line (no newline) is closed, never joined".  As long
\* as every writer had the lock and could read the last line, no later write
\* changes the bytes of a torn line, however many writers there are and whatever
\* crashes or tears again.
THEOREM TornLinesAreKept == MCSpec => TornNeverJoined
<1>1. MCInit => TornInv
  <2> SUFFICES ASSUME MCInit PROVE TornInv
    OBVIOUS
  <2>1. ForkInv
    BY ForkInit DEF MCInit
  <2>2. \A w \in Writers : Alone(w)
    BY DEF MCInit, Init, Alone
  <2> QED
    BY <2>1, <2>2 DEF TornInv
<1>2. TornInv /\ [MCNext]_mcVars => TornInv'
  <2> SUFFICES ASSUME TornInv, [MCNext]_mcVars PROVE TornInv'
    OBVIOUS
  <2>1. [Next]_vars
    BY DEF MCNext, mcVars
  <2>2. ForkInv'
    BY <2>1, StepType, LockStep, OrderStep DEF TornInv, ForkInv
  <2>3. ASSUME ~bypassed' PROVE \A w \in Writers : Alone(w)'
    <3>1. CASE MCNext
      <4>1. ~bypassed /\ \A w \in Writers : ~Bypasses(w)
        BY <2>3, <3>1 DEF MCNext
      <4> QED
        BY <2>1, <4>1, AloneStep DEF TornInv
    <3>2. CASE UNCHANGED mcVars
      BY <2>3, <3>2 DEF TornInv, Alone, mcVars, vars
    <3> QED
      BY <3>1, <3>2
  <2> QED
    BY <2>2, <2>3 DEF TornInv
<1>3. TornInv /\ [MCNext]_mcVars =>
        [~bypassed' =>
           \A n \in {Len(current)} : EndsTorn(current) /\ n \in DOMAIN current'
             => current'[n].id = current[n].id]_mcVars
  <2> SUFFICES ASSUME TornInv, MCNext, ~bypassed', EndsTorn(current),
                      Len(current) \in DOMAIN current'
               PROVE  current'[Len(current)].id = current[Len(current)].id
    OBVIOUS
  <2>1. ~bypassed /\ \A w \in Writers : ~Bypasses(w)
    BY DEF MCNext
  <2> QED
    BY <2>1, AloneKeepsTorn DEF TornInv, MCNext
<1> QED
  BY <1>1, <1>2, <1>3, PTL DEF MCSpec, TornNeverJoined

-----------------------------------------------------------------------------
(***************************************************************************)
(* The log implements the append-only chain when no writer gives up on the *)
(* lock, no write stops short and no read of the last line fails; crashes, *)
(* failed opens and failed rotations are allowed.                          *)
(***************************************************************************)

\* What may still go wrong.
OnlyHarmless == Faults \subseteq {"crash", "open", "rename"}

\* The lock's holder is the only writer between the lock and its release, and
\* the link it holds is to the last line there is.
Turns(w) ==
  /\ pc[w] \notin {"idle", "waiting"} => lock = w
  /\ ~torn[w]
  /\ pc[w] \in {"open", "write"} =>
       linked[w] /\ link[w] = ChainAfter(LastLine(Window))
  /\ pc[w] = "rotatedTail" => current = <<>>

AllClosed(f) == \A i \in 1 .. Len(f) : f[i].closed

ChainInv ==
  /\ ForkInv
  /\ AllClosed(current)
  /\ \A w \in Writers : Turns(w)

-----------------------------------------------------------------------------
(***************************************************************************)
(* The two files as one sequence.                                          *)
(***************************************************************************)

LEMMA WindowOf ==
  ASSUME NEW f \in Seq(Line), NEW g \in Seq(Line)
  PROVE  /\ f \o g \in Seq(Line)
         /\ Len(f \o g) = Len(f) + Len(g)
         /\ g # <<>> => LastLine(f \o g) = LastLine(g)
         /\ g = <<>> => f \o g = f
         /\ f = <<>> => f \o g = g
         /\ \A l \in Line : f \o Append(g, l) = Append(f \o g, l)
         /\ g = SubSeq(f \o g, Len(f) + 1, Len(f \o g))
<1>1. f \o g \in Seq(Line) /\ Len(f \o g) = Len(f) + Len(g)
  OBVIOUS
<1>2. ASSUME g # <<>> PROVE LastLine(f \o g) = LastLine(g)
  <2>1. f \o g # <<>> /\ Len(g) \in 1 .. Len(g)
    BY <1>1, <1>2
  <2>2. (f \o g)[Len(f) + Len(g)] = g[Len(g)]
    BY <1>2
  <2> QED
    BY <1>1, <1>2, <2>1, <2>2 DEF LastLine, Last
<1>3. g = <<>> => f \o g = f
  OBVIOUS
<1>4. f = <<>> => f \o g = g
  OBVIOUS
<1>5. ASSUME NEW l \in Line PROVE f \o Append(g, l) = Append(f \o g, l)
  OBVIOUS
<1>6. g = SubSeq(f \o g, Len(f) + 1, Len(f \o g))
  OBVIOUS
<1> QED
  BY <1>1, <1>2, <1>3, <1>4, <1>5, <1>6

LEMMA ClosedNotTorn ==
  ASSUME NEW f \in Seq(Line), AllClosed(f)
  PROVE  ~EndsTorn(f)
BY DEF AllClosed, EndsTorn, Last

LEMMA AppendCloses ==
  ASSUME NEW f \in Seq(Line), AllClosed(f), NEW l \in Line, l.closed = TRUE
  PROVE  AllClosed(Append(f, l))
<1>1. \A i \in 1 .. Len(f) + 1 :
        Append(f, l)[i] = IF i <= Len(f) THEN f[i] ELSE l
  OBVIOUS
<1>2. Len(Append(f, l)) = Len(f) + 1
  OBVIOUS
<1> HIDE DEF AllClosed
<1>3. \A i \in 1 .. Len(f) + 1 : Append(f, l)[i].closed
  BY <1>1 DEF AllClosed
<1> QED
  BY <1>2, <1>3 DEF AllClosed

\* A complete write of a line to a log whose lines are all closed.
LEMMA CleanWrite ==
  ASSUME ChainInv, NEW w \in Writers, Write(w)
  PROVE  /\ linked[w] /\ link[w] = ChainAfter(LastLine(Window))
         /\ current' = Append(current, NewLine(w, TRUE)) /\ rotated' = rotated
         /\ Window' = Append(Window, NewLine(w, TRUE))
         /\ NewLine(w, TRUE) \in Line
<1>1. /\ current \in Seq(Line) /\ rotated \in Seq(Line) /\ TypeInv
      /\ pc[w] = "write" /\ linked[w] /\ link[w] = ChainAfter(LastLine(Window))
      /\ fd[w] = "current"
  BY DEF ChainInv, ForkInv, TypeInv, TypeOK, Turns, LockInv, Turn, Write, Go
<1>2. NewLine(w, TRUE) \in Line
  BY <1>1, WrittenLines
<1>3. AddTo(w, current, NewLine(w, TRUE)) = Append(current, NewLine(w, TRUE))
  <2>1. ~EndsTorn(current)
    BY <1>1, ClosedNotTorn DEF ChainInv
  <2>2. CloseEnd(current) = current
    BY <1>1, <2>1, ClosedEnd
  <2> QED
    BY <2>1, <2>2 DEF AddTo
<1>4. current' = Append(current, NewLine(w, TRUE)) /\ rotated' = rotated
  BY <1>1, <1>3 DEF Write, Put, Target
<1>5. Window' = Append(Window, NewLine(w, TRUE))
  BY <1>1, <1>2, <1>4, WindowOf DEF Window
<1> QED
  BY <1>1, <1>2, <1>4, <1>5

-----------------------------------------------------------------------------

LEMMA ChainInit == Init => ChainInv
<1> SUFFICES ASSUME Init PROVE ChainInv
  OBVIOUS
<1>1. ForkInv
  BY ForkInit
<1>2. AllClosed(current)
  BY LegacyLines, BoundsAssumption DEF Init, AllClosed, LegacyLine
<1>3. \A w \in Writers : Turns(w)
  BY DEF Init, Turns
<1> QED
  BY <1>1, <1>2, <1>3 DEF ChainInv

LEMMA ChainStep ==
  ASSUME OnlyHarmless, ChainInv, [Next]_vars
  PROVE  ChainInv'
<1>0. /\ TypeInv /\ LockInv /\ ForkInv' /\ AllClosed(current)
      /\ current \in Seq(Line) /\ rotated \in Seq(Line)
      /\ \A w \in Writers : Turns(w)
      /\ "timeout" \notin Faults /\ "unreadable" \notin Faults /\ "tear" \notin Faults
  BY StepType, LockStep, OrderStep
  DEF ChainInv, ForkInv, TypeInv, TypeOK, OnlyHarmless
<1>1. CASE UNCHANGED vars
  BY <1>0, <1>1 DEF ChainInv, Turns, AllClosed, Window, vars
<1>2. ASSUME NEW w \in Writers,
             Begin(w) \/ Acquire(w) \/ KeepFile(w) \/ ReadEmptyTail(w)
      PROVE  ChainInv'
  <2>1. UNCHANGED <<logVars, ownVars>> /\ Window' = Window
    BY <1>2 DEF Begin, Acquire, KeepFile, ReadEmptyTail, logVars, Window
  <2>2. ASSUME NEW v \in Writers PROVE Turns(v)'
    <3> USE <1>0, <1>2, <2>1, WritersAssumption
    <3>1. lock' = lock \/ (lock = NoWriter /\ lock' = w)
      BY DEF Begin, Acquire, KeepFile, ReadEmptyTail
    <3>2. pc'[v] \notin {"idle", "waiting"} => lock' = v
      BY <3>1
      DEF Begin, Acquire, KeepFile, ReadEmptyTail, Go, Turns, TypeInv, TypeOK, Held
    <3>3. /\ pc'[v] \in {"open", "write"} => pc'[v] = pc[v]
          /\ pc'[v] = "rotatedTail" => pc'[v] = pc[v] \/ current = <<>>
      BY DEF Begin, Acquire, KeepFile, ReadEmptyTail, Go, TypeInv, TypeOK
    <3> QED
      BY <3>2, <3>3 DEF Turns, logVars, ownVars
  <2> QED
    BY <1>0, <2>1, <2>2 DEF ChainInv, AllClosed, logVars
<1>3. ASSUME NEW w \in Writers, Rotate(w) PROVE ChainInv'
  <2>1. /\ lock = w /\ current' = <<>> /\ pc' = [pc EXCEPT ![w] = "tail"]
        /\ UNCHANGED <<lock, link, linked, torn>>
    BY <1>0, <1>3 DEF Rotate, Go, Turns
  <2>2. ASSUME NEW v \in Writers PROVE Turns(v)'
    BY <1>0, <2>1 DEF Turns, TypeInv, TypeOK
  <2> QED
    BY <1>0, <2>1, <2>2 DEF ChainInv, AllClosed
<1>4. ASSUME NEW w \in Writers, ReadTail(w) \/ ReadRotatedTail(w)
      PROVE  ChainInv'
  <2>1. /\ lock = w /\ pc' = [pc EXCEPT ![w] = "open"] /\ UNCHANGED <<logVars, lock>>
        /\ linked' = [linked EXCEPT ![w] = TRUE]
        /\ \A v \in Writers \ {w} : link'[v] = link[v] /\ ~torn'[v]
        /\ Window' = Window
    BY <1>0, <1>4
    DEF ReadTail, ReadRotatedTail, Go, Turns, TypeInv, TypeOK, logVars, Window
  <2>2. link'[w] = ChainAfter(LastLine(Window))
    <3>1. CASE ReadTail(w)
      BY <1>0, <3>1, WindowOf DEF ReadTail, TypeInv, TypeOK, Window
    <3>2. CASE ReadRotatedTail(w)
      <4>1. current = <<>>
        BY <1>0, <3>2 DEF ReadRotatedTail, Go, Turns
      <4>2. Window = rotated
        BY <1>0, <4>1, WindowOf DEF Window
      <4> QED
        BY <1>0, <3>2, <4>2 DEF ReadRotatedTail, TypeInv, TypeOK
    <3> QED
      BY <1>4, <3>1, <3>2
  <2>3. ~torn'[w]
    <3>1. ~EndsTorn(current)
      BY <1>0, ClosedNotTorn
    <3> QED
      BY <1>0, <1>4, <3>1 DEF ReadTail, ReadRotatedTail, Turns, TypeInv, TypeOK
  <2>4. ASSUME NEW v \in Writers PROVE Turns(v)'
    BY <1>0, <2>1, <2>2, <2>3 DEF Turns, TypeInv, TypeOK, logVars
  <2> QED
    BY <1>0, <2>1, <2>4 DEF ChainInv, AllClosed, logVars
<1>5. ASSUME NEW w \in Writers, OpenLog(w) PROVE ChainInv'
  <2>1. /\ UNCHANGED <<current, rotated, lock, link, linked, torn>>
        /\ pc[w] = "open" /\ pc' = [pc EXCEPT ![w] = "write"] /\ Window' = Window
    BY <1>5 DEF OpenLog, Go, Window
  <2>2. ASSUME NEW v \in Writers PROVE Turns(v)'
    BY <1>0, <2>1 DEF Turns, TypeInv, TypeOK
  <2> QED
    BY <1>0, <2>1, <2>2 DEF ChainInv, AllClosed
<1>6. ASSUME NEW w \in Writers, Write(w) PROVE ChainInv'
  <2>1. /\ current' = Append(current, NewLine(w, TRUE)) /\ NewLine(w, TRUE) \in Line
        /\ NewLine(w, TRUE).closed = TRUE
    BY <1>0, <1>6, CleanWrite, WrittenLines
  <2>2. AllClosed(current)'
    BY <1>0, <2>1, AppendCloses DEF AllClosed
  <2>3. /\ pc[w] = "write" /\ pc' = [pc EXCEPT ![w] = "unlock"]
        /\ UNCHANGED <<lock, link, linked, torn>>
    BY <1>6 DEF Write, Go, ownVars
  <2>4. ASSUME NEW v \in Writers PROVE Turns(v)'
    BY <1>0, <2>3 DEF Turns, TypeInv, TypeOK
  <2> QED
    BY <1>0, <2>2, <2>4 DEF ChainInv
<1>7. ASSUME NEW w \in Writers, OpenFails(w) \/ Unlock(w) \/ Crash(w)
      PROVE  ChainInv'
  <2>1. Leave(w) /\ Release(w) /\ UNCHANGED logVars /\ Window' = Window
    BY <1>7 DEF OpenFails, Unlock, Crash, logVars, Window
  <2>2. ASSUME NEW v \in Writers PROVE Turns(v)'
    BY <1>0, <2>1 DEF Turns, Leave, Release, Held, TypeInv, TypeOK, logVars
  <2> QED
    BY <1>0, <2>1, <2>2 DEF ChainInv, AllClosed, logVars
<1>8. ASSUME NEW w \in Writers
      PROVE  ~GiveUp(w) /\ ~ReadTailUnlocked(w) /\ ~ReadFails(w) /\ ~WriteShort(w)
  BY <1>0 DEF GiveUp, ReadTailUnlocked, ReadFails, WriteShort, Turns, Go, Held
<1> QED
  BY <1>1, <1>2, <1>3, <1>4, <1>5, <1>6, <1>7, <1>8 DEF Next, Step, Quiet

-----------------------------------------------------------------------------

\* The abstract specification and this one speak of the same lines.
LEMMA SameLines ==
  /\ Chain!Line = Line
  /\ \A l : Chain!Chained(l) <=> Chained(l)
  /\ \A f : Chain!ChainAfter(Chain!LastLine(f)) = ChainAfter(LastLine(f))
<1>1. Chain!Line = Line
  BY DEF Chain!Line, Line, Chain!LineKind, LineKind, Chain!GENESIS, GENESIS
<1>2. \A l : Chain!Chained(l) <=> Chained(l)
  BY DEF Chain!Chained, Chained
<1>3. \A l : Chain!ChainAfter(l) = ChainAfter(l)
  BY DEF Chain!ChainAfter, ChainAfter, Chain!NoLine, NoLine, Chain!LineSeq, LineSeq,
         Chain!GENESIS, GENESIS
<1>4. \A f : Chain!LastLine(f) = LastLine(f)
  BY DEF Chain!LastLine, LastLine, Chain!NoLine, NoLine, Chain!GENESIS, GENESIS, Chain!Last, Last
<1> QED
  BY <1>1, <1>2, <1>3, <1>4

LEMMA InitRefines == Init => Chain!Init
<1> SUFFICES ASSUME Init PROVE Chain!Init
  OBVIOUS
<1>1. Window = [i \in 1 .. Legacy |-> LegacyLine(i)]
  BY LegacyLines, WindowOf DEF Init, Window
<1> QED
  BY <1>1, LegacyLines, BoundsAssumption, SameLines DEF Chain!Init, LegacyLine

LEMMA StepRefines ==
  ASSUME OnlyHarmless, ChainInv, [Next]_vars
  PROVE  [Chain!Next]_Window
<1>0. /\ current \in Seq(Line) /\ rotated \in Seq(Line) /\ TypeInv
      /\ \A w \in Writers : Turns(w)
      /\ "timeout" \notin Faults /\ "unreadable" \notin Faults /\ "tear" \notin Faults
  BY DEF ChainInv, ForkInv, TypeInv, TypeOK, OnlyHarmless
<1>1. CASE UNCHANGED <<current, rotated>>
  BY <1>1 DEF Window
<1>2. ASSUME NEW w \in Writers, Rotate(w) PROVE [Chain!Next]_Window
  <2>1. current # <<>> /\ Len(current) >= 1 /\ current' = <<>> /\ rotated' = current
    BY <1>0, <1>2, BoundsAssumption DEF Rotate
  <2>2. Window' = current
    BY <1>0, <2>1, WindowOf DEF Window
  <2>3. CASE rotated = <<>>
    BY <1>0, <2>2, <2>3, WindowOf DEF Window
  <2>4. CASE rotated # <<>>
    <3>1. Len(rotated) \in 1 .. Len(Window) - 1
      BY <1>0, <2>1, <2>4, WindowOf DEF Window
    <3>2. Window' = SubSeq(Window, Len(rotated) + 1, Len(Window))
      BY <1>0, <2>2, WindowOf DEF Window
    <3> QED
      BY <3>1, <3>2 DEF Chain!Next, Chain!DropOldest
  <2> QED
    BY <2>3, <2>4
<1>3. ASSUME NEW w \in Writers, Write(w) PROVE [Chain!Next]_Window
  <2> DEFINE new == NewLine(w, TRUE)
  <2>1. /\ linked[w] /\ link[w] = ChainAfter(LastLine(Window))
        /\ Window' = Append(Window, new) /\ new \in Line
    BY <1>3, CleanWrite
  <2>2. /\ Chained(new) /\ new.id = lastId + 1
        /\ [seq |-> new.seq, prev |-> new.prev] = link[w]
    BY <1>0, <2>1 DEF NewLine, Chained, TypeInv, TypeOK
  <2> HIDE DEF new
  <2>3. Window \in Seq(Line)
    BY <1>0, WindowOf DEF Window
  <2>4. Window' # <<>> /\ Last(Window') = new
    BY <2>1, <2>3 DEF Last
  <2>5. ASSUME NEW i \in DOMAIN Window PROVE Window[i].id # new.id
    <3>1. Window[i].id <= lastId
      BY <1>0 DEF ChainInv, ForkInv, OrderInv, Rising, Window
    <3>2. Window[i].id \in Nat /\ lastId \in Nat
      BY <1>0, <2>3, LineFields DEF TypeInv, TypeOK
    <3> QED
      BY <2>2, <3>1, <3>2
  <2> QED
    BY <2>1, <2>2, <2>4, <2>5, SameLines
    DEF Chain!Next, Chain!AppendLine, Chain!Follows, Chain!Last, Last
<1>4. ASSUME NEW w \in Writers
      PROVE  ~GiveUp(w) /\ ~ReadTailUnlocked(w) /\ ~ReadFails(w) /\ ~WriteShort(w)
  BY <1>0 DEF GiveUp, ReadTailUnlocked, ReadFails, WriteShort, Turns, Go, Held
<1> QED
  BY <1>1, <1>2, <1>3, <1>4
  DEF Next, Step, Quiet, vars, Begin, Acquire, KeepFile, ReadTail, ReadEmptyTail,
      ReadRotatedTail, OpenLog, OpenFails, Unlock, Crash, logVars

\* docs/decision-log.md, "Hash chain": seen from outside, the two files are the
\* append-only chain, for any number of writers and any rotation threshold.
THEOREM LogImplementsChain ==
  ASSUME OnlyHarmless
  PROVE  Spec => ImplementsChain
<1>1. ChainInv /\ [Next]_vars => ChainInv'
  BY ChainStep
<1>2. ChainInv /\ [Next]_vars => [Chain!Next]_Window
  BY StepRefines
<1> QED
  BY <1>1, <1>2, ChainInit, InitRefines, PTL DEF Spec, ImplementsChain, Chain!Spec

\* (The small sets of lines that the walk's own runs draw from play no part.)
Promise == INSTANCE LogWalkProofs
           WITH lines <- Window, Ids <- Nat \ {0}, Seqs <- Nat, MaxLen <- 0

\* The walk of the promise is the walk of the verifier.
LEMMA SameWalk ==
  /\ Promise!Line = Line
  /\ \A l : Promise!Chained(l) <=> Chained(l)
  /\ \A f : Promise!Intact(f) <=> Intact(f)
  /\ \A f, q : Promise!HashAt(f, q) = HashAt(f, q)
<1>0. Promise!Line = Line /\ \A l : Promise!Chained(l) <=> Chained(l)
  BY DEF Promise!Line, Line, Promise!LineKind, LineKind, Promise!GENESIS, GENESIS,
         Promise!Chained, Chained
<1>1. \A f, i : Promise!Begun(f, i) <=> Begun(f, i)
  BY DEF Promise!Begun, Begun, Promise!Chained, Chained
<1>2. \A l : Promise!LineSeq(l) = LineSeq(l)
  BY DEF Promise!LineSeq, LineSeq
<1>3. \A f, i : Promise!LinkBreak(f, i) = LinkBreak(f, i)
  BY <1>1, <1>2 DEF Promise!LinkBreak, LinkBreak
<1>4. \A f, i : Promise!StepBreak(f, i) = StepBreak(f, i)
  BY <1>1, <1>3 DEF Promise!StepBreak, StepBreak
<1>5. \A f : Promise!Intact(f) <=> Intact(f)
  BY <1>4 DEF Promise!Breaks, Breaks, Promise!Intact, Intact
<1>6. ASSUME NEW f, NEW q PROVE Promise!HashAt(f, q) = HashAt(f, q)
  <2> DEFINE there == {i \in DOMAIN f : /\ Promise!Begun(f, i + 1)
                                        /\ Promise!LineSeq(f[i]) = q}
             here == {i \in DOMAIN f : Begun(f, i + 1) /\ LineSeq(f[i]) = q}
  <2>1. there = here
    BY <1>1, <1>2
  <2>2. \A S : Promise!Max(S) = Max(S)
    BY DEF Promise!Max, Max
  <2>3. HashAt(f, q) = IF here = {} THEN GENESIS ELSE f[Max(here)].id
    BY DEF HashAt
  <2>4. Promise!HashAt(f, q) = IF there = {} THEN GENESIS
                               ELSE f[Promise!Max(there)].id
    BY DEF Promise!HashAt, Promise!GENESIS, GENESIS
  <2> HIDE DEF there, here
  <2> QED
    BY <2>1, <2>2, <2>3, <2>4
<1> QED
  BY <1>0, <1>5, <1>6

LEMMA PromiseKept ==
  ASSUME OnlyHarmless
  PROVE  Spec => Promise!Spec
<1>1. Chain!Init => Promise!Init
  BY DEF Chain!Init, Promise!Init, Chain!Line, Promise!Line, Chain!LineKind,
         Promise!LineKind, Chain!GENESIS, Promise!GENESIS
<1>2. Chain!Next => Promise!Next
  <2>1. \A l : Chain!Follows(l) => Promise!Follows(l)
    BY DEF Chain!Follows, Promise!Follows, Chain!Line, Promise!Line, Chain!LineKind,
           Promise!LineKind, Chain!GENESIS, Promise!GENESIS, Chain!Chained,
           Promise!Chained, Chain!ChainAfter, Promise!ChainAfter, Chain!LastLine,
           Promise!LastLine, Chain!NoLine, Promise!NoLine, Chain!LineSeq,
           Promise!LineSeq, Chain!Last, Promise!Last
  <2> QED
    BY <2>1 DEF Chain!Next, Promise!Next, Chain!AppendLine, Promise!AppendLine,
                Chain!DropOldest, Promise!DropOldest, Chain!Last, Promise!Last
<1>3. Spec => Chain!Spec
  BY LogImplementsChain DEF ImplementsChain
<1> QED
  BY <1>1, <1>2, <1>3, PTL DEF Chain!Spec, Promise!Spec

LEMMA SmallIsFine == Promise!SmallAssumption
BY DEF Promise!SmallAssumption, Promise!GENESIS

\* `chock status --verify-log` finds the two files one unbroken chain in every
\* state, because the chain they implement is one.
THEOREM LogIsIntact ==
  ASSUME OnlyHarmless
  PROVE  Spec => []ChainIntact
<1>1. Promise!Spec => []Promise!AlwaysIntact
  BY SmallIsFine, Promise!AppendOnlyChainIsIntact
<1>2. Promise!AlwaysIntact <=> ChainIntact
  BY SameWalk DEF Promise!AlwaysIntact, ChainIntact
<1>3. Spec => Promise!Spec
  BY PromiseKept
<1> QED
  BY <1>1, <1>2, <1>3, PTL

\* What the log is in every state: the writers' invariant, and the chain's.
WindowInv == ChainInv /\ Promise!ChainInv

LEMMA LogIsLinked ==
  ASSUME OnlyHarmless
  PROVE  Spec => []WindowInv
<1>1. Promise!Spec => []Promise!ChainInv
  BY SmallIsFine, Promise!ChainInvHolds
<1>2. Spec => Promise!Spec
  BY PromiseKept
<1>3. ChainInv /\ [Next]_vars => ChainInv'
  BY ChainStep
<1>4. Spec => []ChainInv
  BY <1>3, ChainInit, PTL DEF Spec
<1> QED
  BY <1>1, <1>2, <1>4, PTL DEF WindowInv

-----------------------------------------------------------------------------
(***************************************************************************)
(* The verifier beside the writers.  It reads two files one after the      *)
(* other without the lock; what it relies on is that, short of a rotation, *)
(* the rotated file stays as it was and the log only grows.                *)
(***************************************************************************)

\* The line with this seq and hash is in s, or has left it with older lines.
KnownIn(s, seq, id) ==
  \/ \E i \in 1 .. Len(s) : Chained(s[i]) /\ s[i].seq = seq /\ s[i].id = id
  \/ s # <<>> /\ s[1].id > id

\* The rotated file is the older one, and a log that has lines, or is about to
\* get one, is there.
FilesInv ==
  /\ \A i \in 1 .. Len(rotated) : \A j \in 1 .. Len(current) :
       rotated[i].id < current[j].id
  /\ current # <<>> => present
  /\ \A w \in Writers : pc[w] = "write" => present

Heads == [seq : Nat \cup {-1}, id : Nat]

\* Whatever the verifier has read or printed stood in the log.
SeenInv ==
  /\ vlines \in Seq(Line)
  /\ vhead \in Heads /\ kept \in Heads
  /\ \A i \in 1 .. Len(vlines) :
       Chained(vlines[i]) => KnownIn(Window, vlines[i].seq, vlines[i].id)
  /\ vhead # NoHead => KnownIn(Window, vhead.seq, vhead.id)
  /\ kept # NoHead => KnownIn(Window, kept.seq, kept.id)

\* What the verifier has found so far, if no rotation came between.
WalkedInv ==
  /\ vpc = "lookCurrent" => "current" \notin vfiles
  /\ ~raced =>
       /\ vpc \in {"lookCurrent", "readRotated", "readCurrent"} =>
            ("rotated" \in vfiles <=> rotated # <<>>)
       /\ vpc \in {"readRotated", "readCurrent"} /\ "current" \in vfiles => present
       /\ vpc = "readCurrent" => vlines = rotated
       /\ vpc = "done" => vbreak = "none"

VerifyInv == FilesInv /\ SeenInv /\ WalkedInv

\* What a step of a writer does to the two files.
Appends ==
  \E n \in Line : /\ current' = Append(current, n) /\ rotated' = rotated
                  /\ Window' = Append(Window, n) /\ n.id = lastId + 1
                  /\ present' = present
                  /\ \E w \in Writers : pc[w] = "write"

Rotates ==
  /\ current # <<>> /\ rotated' = current /\ current' = <<>> /\ Window' = current
  /\ ~present'

LeavesFiles ==
  current' = current /\ rotated' = rotated /\ Window' = Window /\ (present => present')

LEMMA LogSteps ==
  ASSUME OnlyHarmless, ChainInv, [Next]_vars
  PROVE  Appends \/ Rotates \/ LeavesFiles
<1>0. /\ current \in Seq(Line) /\ rotated \in Seq(Line) /\ TypeInv
      /\ \A w \in Writers : Turns(w)
      /\ "timeout" \notin Faults /\ "unreadable" \notin Faults /\ "tear" \notin Faults
  BY DEF ChainInv, ForkInv, TypeInv, TypeOK, OnlyHarmless
<1>1. CASE UNCHANGED <<current, rotated>> /\ (present => present')
  BY <1>1 DEF LeavesFiles, Window
<1>2. ASSUME NEW w \in Writers, Rotate(w) PROVE Rotates
  <2>1. current # <<>> /\ current' = <<>> /\ rotated' = current /\ ~present'
    BY <1>0, <1>2, BoundsAssumption DEF Rotate
  <2>2. Window' = current
    BY <1>0, <2>1, WindowOf DEF Window
  <2> QED
    BY <2>1, <2>2 DEF Rotates
<1>3. ASSUME NEW w \in Writers, Write(w) PROVE Appends
  <2>1. /\ NewLine(w, TRUE) \in Line /\ NewLine(w, TRUE).id = lastId + 1
        /\ current' = Append(current, NewLine(w, TRUE)) /\ rotated' = rotated
        /\ Window' = Append(Window, NewLine(w, TRUE))
    BY <1>0, <1>3, CleanWrite, WrittenLines
  <2>2. present' = present /\ pc[w] = "write"
    BY <1>0, <1>3, WriteEffect
  <2> QED
    BY <2>1, <2>2 DEF Appends
<1>4. ASSUME NEW w \in Writers
      PROVE  ~GiveUp(w) /\ ~ReadTailUnlocked(w) /\ ~ReadFails(w) /\ ~WriteShort(w)
  BY <1>0 DEF GiveUp, ReadTailUnlocked, ReadFails, WriteShort, Turns, Go, Held
<1> QED
  BY <1>1, <1>2, <1>3, <1>4
  DEF Next, Step, Quiet, vars, Begin, Acquire, KeepFile, ReadTail, ReadEmptyTail,
      ReadRotatedTail, OpenLog, OpenFails, Unlock, Crash, logVars

LEMMA FilesStep ==
  ASSUME OnlyHarmless, ChainInv, FilesInv, [Next]_vars
  PROVE  FilesInv'
<1>0. /\ current \in Seq(Line) /\ rotated \in Seq(Line) /\ TypeInv /\ LockInv
      /\ Rising(rotated, lastId) /\ lastId \in Nat
      /\ \A w \in Writers : Turns(w)
      /\ Appends \/ Rotates \/ LeavesFiles
  BY LogSteps DEF ChainInv, ForkInv, OrderInv, TypeInv, TypeOK
<1>1. \A i \in 1 .. Len(rotated') : \A j \in 1 .. Len(current') :
        rotated'[i].id < current'[j].id
  <2>1. CASE Appends
    <3>1. PICK n \in Line : /\ current' = Append(current, n) /\ rotated' = rotated
                            /\ n.id = lastId + 1
      BY <2>1 DEF Appends
    <3>2. /\ Len(current') = Len(current) + 1 /\ current'[Len(current) + 1] = n
          /\ \A j \in 1 .. Len(current) : current'[j] = current[j]
      BY <1>0, <3>1
    <3>3. \A i \in 1 .. Len(rotated) : rotated[i].id <= lastId /\ rotated[i].id \in Nat
      BY <1>0, LineFields DEF Rising
    <3> SUFFICES ASSUME NEW i \in 1 .. Len(rotated), NEW j \in 1 .. Len(current) + 1
                 PROVE  rotated[i].id < current'[j].id
      BY <3>1, <3>2
    <3>4. CASE j <= Len(current)
      BY <3>2, <3>4 DEF FilesInv
    <3>5. CASE j = Len(current) + 1
      BY <1>0, <3>1, <3>2, <3>3, <3>5
    <3> QED
      BY <1>0, <3>4, <3>5
  <2>2. CASE Rotates
    BY <2>2 DEF Rotates
  <2>3. CASE LeavesFiles
    BY <2>3 DEF LeavesFiles, FilesInv
  <2> QED
    BY <1>0, <2>1, <2>2, <2>3
<1>2. \* Only the lock's holder rotates, and opens the log itself.
      ASSUME NEW v \in Writers, pc'[v] = "write" PROVE present'
  <2>1. CASE pc[v] = "write"
    <3>1. lock = v
      BY <1>0, <2>1 DEF Turns
    <3>2. ASSUME NEW w \in Writers, Rotate(w) PROVE FALSE
      BY <1>0, <2>1, <3>1, <3>2 DEF Rotate, Go, Turns
    <3>3. present
      BY <2>1 DEF FilesInv
    <3> QED
      BY <1>0, <3>2, <3>3, WriteEffect
      DEF Next, Step, Quiet, vars, Begin, Acquire, GiveUp, KeepFile, ReadTail,
          ReadEmptyTail, ReadRotatedTail, ReadTailUnlocked, ReadFails, OpenLog,
          OpenFails, Unlock, Crash, logVars
  <2>2. CASE pc[v] # "write"
    <3>1. \E w \in Writers : OpenLog(w)
      BY <1>0, <1>2, <2>2
      DEF Next, Step, Quiet, vars, Begin, Acquire, GiveUp, Rotate, KeepFile, ReadTail,
          ReadEmptyTail, ReadRotatedTail, ReadTailUnlocked, ReadFails, Write,
          WriteShort, OpenFails, Unlock, Crash, Leave, Go, TypeInv, TypeOK
    <3> QED
      BY <3>1 DEF OpenLog
  <2> QED
    BY <2>1, <2>2
<1>3. current' # <<>> => present'
  BY <1>0 DEF Appends, Rotates, LeavesFiles, FilesInv
<1> QED
  BY <1>1, <1>2, <1>3 DEF FilesInv

LEMMA KnownAppend ==
  ASSUME NEW s \in Seq(Line), NEW n \in Line, NEW seq, NEW id, KnownIn(s, seq, id)
  PROVE  KnownIn(Append(s, n), seq, id)
<1> DEFINE t == Append(s, n)
<1>1. /\ t \in Seq(Line) /\ Len(t) = Len(s) + 1
      /\ \A i \in 1 .. Len(s) : t[i] = s[i]
  OBVIOUS
<1> HIDE DEF t
<1>2. t # <<>>
  BY <1>1
<1>3. CASE \E i \in 1 .. Len(s) : Chained(s[i]) /\ s[i].seq = seq /\ s[i].id = id
  BY <1>1, <1>3 DEF KnownIn, t
<1>4. CASE s # <<>> /\ s[1].id > id
  <2>1. t[1] = s[1]
    BY <1>1, <1>4
  <2> QED
    BY <1>2, <1>4, <2>1 DEF KnownIn, t
<1> QED
  BY <1>3, <1>4 DEF KnownIn

\* What is known of the log stays known.
LEMMA KnownStays ==
  ASSUME ChainInv, FilesInv, Appends \/ Rotates \/ LeavesFiles,
         NEW seq, NEW id \in Nat, KnownIn(Window, seq, id)
  PROVE  KnownIn(Window', seq, id)
<1>0. /\ current \in Seq(Line) /\ rotated \in Seq(Line) /\ Window \in Seq(Line)
      /\ Len(Window) = Len(rotated) + Len(current)
      /\ \A i \in 1 .. Len(rotated) : Window[i] = rotated[i]
      /\ \A i \in 1 .. Len(current) : Window[Len(rotated) + i] = current[i]
  BY DEF ChainInv, ForkInv, TypeInv, TypeOK, Window
<1>1. CASE Appends
  <2>1. PICK n \in Line : Window' = Append(Window, n)
    BY <1>1 DEF Appends
  <2> QED
    BY <1>0, <2>1, KnownAppend
<1>2. CASE Rotates
  <2>1. /\ Window' = current /\ 1 \in 1 .. Len(current) /\ current # <<>>
    BY <1>0, <1>2 DEF Rotates
  <2>2. ASSUME NEW i \in 1 .. Len(rotated), rotated[i].id >= id
        PROVE  current[1].id > id
    <3>1. rotated[i].id < current[1].id
      BY <2>1 DEF FilesInv
    <3>2. rotated[i].id \in Nat /\ current[1].id \in Nat
      BY <1>0, <2>1, LineFields
    <3> QED
      BY <2>2, <3>1, <3>2
  <2>3. CASE \E i \in 1 .. Len(Window) :
               Chained(Window[i]) /\ Window[i].seq = seq /\ Window[i].id = id
    <3>1. PICK i \in 1 .. Len(Window) :
            Chained(Window[i]) /\ Window[i].seq = seq /\ Window[i].id = id
      BY <2>3
    <3>2. CASE i <= Len(rotated)
      BY <1>0, <2>1, <2>2, <3>1, <3>2 DEF KnownIn
    <3>3. CASE i > Len(rotated)
      <4>1. PICK j \in 1 .. Len(current) : i = Len(rotated) + j
        <5>1. i - Len(rotated) \in 1 .. Len(current)
              /\ i = Len(rotated) + (i - Len(rotated))
          BY <1>0, <3>3
        <5> QED
          BY <5>1
      <4> QED
        BY <1>0, <2>1, <3>1, <4>1 DEF KnownIn
    <3> QED
      BY <1>0, <3>2, <3>3
  <2>4. CASE Window # <<>> /\ Window[1].id > id
    <3>1. CASE rotated = <<>>
      <4>1. Window = current
        BY <1>0, <3>1, WindowOf DEF Window
      <4> QED
        BY <2>1, <2>4, <4>1 DEF KnownIn
    <3>2. CASE rotated # <<>>
      <4>1. 1 \in 1 .. Len(rotated) /\ rotated[1].id > id /\ rotated[1].id \in Nat
        BY <1>0, <2>4, <3>2, LineFields
      <4> QED
        BY <2>1, <2>2, <4>1 DEF KnownIn
    <3> QED
      BY <3>1, <3>2
  <2> QED
    BY <2>3, <2>4 DEF KnownIn
<1>3. CASE LeavesFiles
  BY <1>3 DEF LeavesFiles
<1> QED
  BY <1>1, <1>2, <1>3

LEMMA HeadIsLast ==
  ASSUME NEW s \in Seq(Line), HeadOf(s) # NoHead
  PROVE  /\ s # <<>> /\ Chained(s[Len(s)])
         /\ HeadOf(s) = [seq |-> s[Len(s)].seq, id |-> s[Len(s)].id]
         /\ HeadOf(s) \in Heads
<1>1. /\ Intact(s) /\ HeadOf(s) = [seq |-> LineSeq(Last(s)), id |-> Last(s).id]
      /\ \E i \in DOMAIN s : Chained(s[i])
  BY DEF HeadOf
<1>2. PICK i \in 1 .. Len(s) : Chained(s[i])
  BY <1>1
<1>3. Len(s) \in 1 .. Len(s) /\ s # <<>> /\ Last(s) = s[Len(s)] /\ s[Len(s)] \in Line
  BY <1>2 DEF Last
<1>4. StepBreak(s, Len(s)) = "none"
  BY <1>1, <1>3 DEF Intact, Breaks
<1>5. Chained(s[Len(s)])
  <2>1. s[Len(s)].kind \in LineKind
    BY <1>3, LineFields
  <2>2. i = Len(s) \/ Begun(s, Len(s))
    BY <1>2, <1>3 DEF Begun
  <2> QED
    BY <1>2, <1>4, <2>1, <2>2 DEF StepBreak, LineKind, Chained
<1>6. s[Len(s)].seq \in Nat \cup {-1} /\ s[Len(s)].id \in Nat
  BY <1>3, LineFields
<1> QED
  BY <1>1, <1>3, <1>5, <1>6 DEF LineSeq, Chained, Heads

\* A window that is well linked is intact, and so is its first part.
LEMMA PartsAreIntact ==
  ASSUME WindowInv
  PROVE  Intact(Window) /\ Intact(rotated)
<1>1. /\ current \in Seq(Line) /\ rotated \in Seq(Line) /\ Window \in Seq(Line)
      /\ Len(rotated) <= Len(Window) /\ Promise!WellLinked(Window)
      /\ \A i \in 1 .. Len(rotated) : Window[i] = rotated[i]
  BY DEF WindowInv, ChainInv, ForkInv, TypeInv, TypeOK, Window, Promise!ChainInv
<1>2. Promise!WellLinked(rotated)
  <2>1. \A i \in 1 .. Len(rotated) : i \in 1 .. Len(Window) /\ Window[i] = rotated[i]
    BY <1>1
  <2>2. \A i \in 2 .. Len(rotated) :
          i \in 2 .. Len(Window) /\ Window[i - 1] = rotated[i - 1]
    BY <1>1
  <2>3. \A i \in 1 .. Len(rotated) : rotated[i].kind \in {"chained", "unchained"}
    BY <1>1, <2>1 DEF Promise!WellLinked
  <2>4. ASSUME NEW i \in 1 .. Len(rotated), NEW j \in 1 .. Len(rotated), i < j,
               Promise!Chained(rotated[i])
        PROVE  Promise!Chained(rotated[j])
    BY <1>1, <2>1, <2>4 DEF Promise!WellLinked, Promise!Chained
  <2>5. ASSUME NEW i \in 2 .. Len(rotated), Promise!Chained(rotated[i])
        PROVE  /\ rotated[i].prev = rotated[i - 1].id
               /\ rotated[i].seq = Promise!LineSeq(rotated[i - 1]) + 1
    <3>1. /\ i \in 2 .. Len(Window) /\ Window[i - 1] = rotated[i - 1]
          /\ Window[i] = rotated[i]
      BY <2>1, <2>2
    <3>2. Promise!Chained(Window[i])
      BY <2>5, <3>1
    <3> QED
      BY <1>1, <3>1, <3>2 DEF Promise!WellLinked
  <2> QED
    BY <2>3, <2>4, <2>5 DEF Promise!WellLinked
<1> QED
  BY <1>1, <1>2, SmallIsFine, SameWalk, Promise!WellLinkedIsIntact

LEMMA VerifyStart == VInit => VerifyInv
<1> SUFFICES ASSUME VInit PROVE VerifyInv
  OBVIOUS
<1>1. /\ Len(current) = Legacy /\ rotated = <<>> /\ Legacy \in Nat
      /\ present = (Legacy > 0) /\ current \in Seq(Line)
  BY LegacyLines, BoundsAssumption DEF VInit, Init
<1>2. FilesInv
  <2>1. Len(rotated) = 0
    BY <1>1
  <2>2. current # <<>> => present
    <3>1. ASSUME current # <<>> PROVE Len(current) # 0
      BY <1>1, <3>1
    <3>2. Legacy # 0 => Legacy > 0
      BY <1>1
    <3> QED
      BY <1>1, <3>1, <3>2
  <2>3. \A w \in Writers : pc[w] = "idle"
    BY DEF VInit, Init
  <2> QED
    BY <2>1, <2>2, <2>3 DEF FilesInv
<1>3. NoHead \in Heads
  BY DEF NoHead, Heads, GENESIS
<1>4. SeenInv
  BY <1>3 DEF SeenInv, VInit
<1>5. WalkedInv
  BY DEF WalkedInv, VInit
<1> QED
  BY <1>2, <1>4, <1>5 DEF VerifyInv

\* The verifier waits while a writer takes a step.
LEMMA WriterKeepsVerify ==
  ASSUME OnlyHarmless, WindowInv, VerifyInv, [Next]_vars, UNCHANGED verifyVars,
         ~raced' => ~raced /\ (vpc \in {"idle", "done"} \/ ~present \/ present')
  PROVE  VerifyInv'
<1>0. ChainInv /\ FilesInv /\ SeenInv /\ WalkedInv
  BY DEF WindowInv, VerifyInv
<1>1. FilesInv'
  BY <1>0, FilesStep
<1>2. Appends \/ Rotates \/ LeavesFiles
  BY <1>0, LogSteps
<1>3. \A seq : \A id \in Nat : KnownIn(Window, seq, id) => KnownIn(Window', seq, id)
  BY <1>0, <1>2, KnownStays
<1>4. SeenInv'
  <2>1. \A i \in 1 .. Len(vlines) : vlines[i].id \in Nat
    BY <1>0, LineFields DEF SeenInv
  <2>2. vhead.id \in Nat /\ kept.id \in Nat
    BY <1>0 DEF SeenInv, Heads
  <2> QED
    BY <1>0, <1>3, <2>1, <2>2 DEF SeenInv, verifyVars
<1>5. WalkedInv'
  <2>1. CASE Rotates
    <3>1. present /\ ~present'
      BY <1>0, <2>1 DEF Rotates, FilesInv
    <3> QED
      BY <1>0, <3>1 DEF WalkedInv, verifyVars
  <2>2. CASE Appends
    BY <1>0, <2>2 DEF WalkedInv, verifyVars, Appends
  <2>3. CASE LeavesFiles
    BY <1>0, <2>3 DEF WalkedInv, verifyVars, LeavesFiles
  <2> QED
    BY <1>2, <2>1, <2>2, <2>3
<1> QED
  BY <1>1, <1>4, <1>5 DEF VerifyInv

LEMMA VerifierKeepsVerify ==
  ASSUME WindowInv, VerifyInv, VerifierStep
  PROVE  VerifyInv'
<1>0. /\ FilesInv /\ SeenInv /\ WalkedInv
      /\ current \in Seq(Line) /\ rotated \in Seq(Line)
  BY DEF WindowInv, ChainInv, ForkInv, TypeInv, TypeOK, VerifyInv
<1>1. UNCHANGED vars /\ Window' = Window /\ FilesInv'
  BY <1>0
  DEF VerifierStep, LookRotated, LookCurrent, ReadRotated, ReadCurrent, KeepHead, vars,
      Window, FilesInv
<1>2. ASSUME NEW i \in 1 .. Len(rotated), Chained(rotated[i])
      PROVE  KnownIn(Window, rotated[i].seq, rotated[i].id)
  <2>1. i \in 1 .. Len(Window) /\ Window[i] = rotated[i]
    BY <1>0 DEF Window
  <2> QED
    BY <1>2, <2>1 DEF KnownIn
<1>3. ASSUME NEW i \in 1 .. Len(current), Chained(current[i])
      PROVE  KnownIn(Window, current[i].seq, current[i].id)
  <2>1. /\ Len(rotated) + i \in 1 .. Len(Window)
        /\ Window[Len(rotated) + i] = current[i]
    BY <1>0 DEF Window
  <2> QED
    BY <1>3, <2>1 DEF KnownIn
<1>4. NoHead \in Heads
  BY DEF NoHead, Heads, GENESIS
<1>5. CASE LookRotated
  <2>1. SeenInv'
    BY <1>0, <1>1, <1>4, <1>5 DEF LookRotated, Reset, SeenInv
  <2>2. WalkedInv'
    BY <1>0, <1>1, <1>5 DEF LookRotated, Reset, WalkedInv, vars
  <2> QED
    BY <1>1, <2>1, <2>2 DEF VerifyInv
<1>6. CASE LookCurrent
  <2>1. SeenInv'
    BY <1>0, <1>1, <1>6 DEF LookCurrent, SeenInv
  <2>2. WalkedInv'
    BY <1>0, <1>1, <1>6 DEF LookCurrent, WalkedInv, vars
  <2> QED
    BY <1>1, <2>1, <2>2 DEF VerifyInv
<1>7. CASE ReadRotated
  <2>1. vlines' \in {rotated, <<>>} /\ <<>> \in Seq(Line)
        /\ vhead' = vhead /\ kept' = kept
    BY <1>7 DEF ReadRotated
  <2>2. SeenInv'
    <3>1. CASE vlines' = rotated
      BY <1>0, <1>1, <1>2, <2>1, <3>1 DEF SeenInv
    <3>2. CASE vlines' = <<>>
      BY <1>0, <1>1, <2>1, <3>2 DEF SeenInv
    <3> QED
      BY <2>1, <3>1, <3>2
  <2>3. WalkedInv'
    BY <1>0, <1>1, <1>7 DEF ReadRotated, WalkedInv, vars
  <2> QED
    BY <1>1, <2>2, <2>3 DEF VerifyInv
<1>8. CASE ReadCurrent
  <2> DEFINE listed == "current" \in vfiles
             read == IF listed THEN vlines \o current ELSE vlines
  <2>1. /\ vpc = "readCurrent" /\ vpc' = "done" /\ vlines' = read
        /\ Conclude(read, listed /\ ~present) /\ raced' = raced /\ kept' = kept
    BY <1>8 DEF ReadCurrent
  <2>2. read \in Seq(Line) /\ vlines \in Seq(Line)
    BY <1>0 DEF SeenInv
  <2>3. ASSUME NEW i \in 1 .. Len(read), Chained(read[i])
        PROVE  KnownIn(Window, read[i].seq, read[i].id)
    <3>1. \/ \E j \in 1 .. Len(vlines) : read[i] = vlines[j]
          \/ \E j \in 1 .. Len(current) : read[i] = current[j]
      <4>1. CASE ~listed
        BY <2>3, <4>1
      <4>2. CASE listed /\ i <= Len(vlines)
        <5>1. i \in 1 .. Len(vlines) /\ read[i] = vlines[i]
          BY <1>0, <2>2, <4>2
        <5> QED
          BY <5>1
      <4>3. CASE listed /\ i > Len(vlines)
        <5>1. /\ i - Len(vlines) \in 1 .. Len(current)
              /\ read[i] = current[i - Len(vlines)]
          BY <1>0, <2>2, <4>3
        <5> QED
          BY <5>1
      <4> QED
        BY <2>2, <4>1, <4>2, <4>3
    <3> QED
      BY <1>0, <1>3, <2>3, <3>1 DEF SeenInv
  <2> HIDE DEF read
  <2>4. vhead' \in {NoHead, HeadOf(read)}
    BY <2>1 DEF Conclude
  <2>5. vhead' \in Heads
    BY <1>4, <2>2, <2>4, HeadIsLast
  <2>6. ASSUME vhead' # NoHead PROVE KnownIn(Window, vhead'.seq, vhead'.id)
    <3>1. /\ read # <<>> /\ Chained(read[Len(read)])
          /\ vhead' = [seq |-> read[Len(read)].seq, id |-> read[Len(read)].id]
      BY <2>2, <2>4, <2>6, HeadIsLast
    <3>2. Len(read) \in 1 .. Len(read)
      BY <2>2, <3>1
    <3> QED
      BY <2>3, <3>1, <3>2
  <2>7. SeenInv'
    BY <1>0, <1>1, <2>1, <2>2, <2>3, <2>5, <2>6 DEF SeenInv
  <2>8. ASSUME ~raced PROVE vbreak' = "none"
    <3>1. vlines = rotated /\ (listed => present)
      BY <1>0, <2>1, <2>8 DEF WalkedInv
    <3>2. read = Window \/ read = rotated
      BY <3>1 DEF read, Window
    <3>3. Intact(read)
      BY <3>2, PartsAreIntact
    <3> QED
      BY <2>1, <3>1, <3>3 DEF Conclude, FirstBreak
  <2>9. WalkedInv'
    BY <2>1, <2>8 DEF WalkedInv
  <2> QED
    BY <1>1, <2>7, <2>9 DEF VerifyInv
<1>9. CASE KeepHead
  <2>1. SeenInv'
    BY <1>0, <1>1, <1>9 DEF KeepHead, SeenInv
  <2>2. WalkedInv'
    BY <1>0, <1>1, <1>9 DEF KeepHead, WalkedInv, vars
  <2> QED
    BY <1>1, <2>1, <2>2 DEF VerifyInv
<1> QED
  BY <1>5, <1>6, <1>7, <1>8, <1>9 DEF VerifierStep

LEMMA VerifyInvHolds ==
  ASSUME OnlyHarmless
  PROVE  VSpec => [](WindowInv /\ VerifyInv)
<1>1. WindowInv /\ VerifyInv /\ [VNext]_allVars => VerifyInv'
  <2> SUFFICES ASSUME WindowInv, VerifyInv, [VNext]_allVars PROVE VerifyInv'
    OBVIOUS
  <2>1. CASE WriterStep
    <3>1. ~raced' => ~raced /\ (vpc \in {"idle", "done"} \/ ~present \/ present')
      BY <2>1 DEF WriterStep
    <3> QED
      BY <2>1, <3>1, WriterKeepsVerify DEF WriterStep
  <2>2. CASE VerifierStep
    BY <2>2, VerifierKeepsVerify
  <2>3. CASE UNCHANGED allVars
    <3>1. ~raced' => ~raced /\ (~present \/ present')
      BY <2>3 DEF allVars, vars
    <3> QED
      BY <2>3, <3>1, WriterKeepsVerify DEF allVars
  <2> QED
    BY <2>1, <2>2, <2>3 DEF VNext
<1>2. VInit => Init
  BY DEF VInit
<1>3. [VNext]_allVars => [Next]_vars
  BY DEF VNext, WriterStep, VerifierStep, LookRotated, LookCurrent, ReadRotated,
         ReadCurrent, KeepHead, allVars
<1>4. Spec => []WindowInv
  BY LogIsLinked
<1>5. VInit => VerifyInv
  BY VerifyStart
<1> QED
  BY <1>1, <1>2, <1>3, <1>4, <1>5, PTL DEF Spec, VSpec

\* docs/decision-log.md: "History that is missing or rotated away is not a
\* break".  However many writers append, crash and rotate while the verifier reads
\* the two files one after the other, a walk that no rotation overtook reports no
\* break.
THEOREM OnlyOvertakenWalksBreak ==
  ASSUME OnlyHarmless
  PROVE  VSpec => []BreakOnlyIfOvertaken
<1>1. VerifyInv => BreakOnlyIfOvertaken
  BY DEF VerifyInv, WalkedInv, BreakOnlyIfOvertaken
<1>2. VSpec => [](WindowInv /\ VerifyInv)
  BY VerifyInvHolds
<1> QED
  BY <1>1, <1>2, PTL

\* --head: a head somebody kept is confirmed by the log as it stands until its
\* line has left with the rotated file, also if the walk that printed it was
\* overtaken by rotations.
THEOREM KeptHeadsAgeOut ==
  ASSUME OnlyHarmless
  PROVE  VSpec => []KeptHeadOnlyAgesOut
<1>1. WindowInv /\ VerifyInv => KeptHeadOnlyAgesOut
  <2> SUFFICES ASSUME WindowInv, VerifyInv, kept # NoHead,
                      ~(Window # <<>> /\ Window[1].id > kept.id)
               PROVE  HeadConfirmed(Window, kept)
    BY DEF KeptHeadOnlyAgesOut
  <2>1. /\ Window \in Seq(Line) /\ Promise!SeqsRise(Window)
        /\ current \in Seq(Line) /\ rotated \in Seq(Line)
        /\ Rising(current, lastId) /\ Rising(rotated, lastId)
    BY SameWalk
    DEF WindowInv, Promise!ChainInv, ChainInv, ForkInv, OrderInv, TypeInv, TypeOK, Window
  <2>2. PICK i \in 1 .. Len(Window) :
          Chained(Window[i]) /\ Window[i].seq = kept.seq /\ Window[i].id = kept.id
    BY DEF VerifyInv, SeenInv, KnownIn
  <2>3. HashAt(Window, kept.seq) = kept.id
    <3>1. Promise!HashAt(Window, Promise!LineSeq(Window[i])) = Window[i].id
      BY <2>1, <2>2, SmallIsFine, SameWalk, Promise!HeadFound
    <3>2. Promise!LineSeq(Window[i]) = kept.seq
      BY <2>2 DEF Promise!LineSeq, Chained
    <3> QED
      BY <2>2, <3>1, <3>2, SameWalk
  <2>4. kept.id # GENESIS
    <3>1. Window[i] \in Line
      BY <2>1
    <3>2. Window[i].prev < Window[i].id
      <4>1. CASE i <= Len(rotated)
        <5>1. i \in 1 .. Len(rotated) /\ Window[i] = rotated[i]
          BY <2>1, <4>1 DEF Window
        <5> QED
          BY <2>1, <2>2, <5>1 DEF Rising
      <4>2. CASE i > Len(rotated)
        <5>1. /\ i - Len(rotated) \in 1 .. Len(current)
              /\ Window[i] = current[i - Len(rotated)]
          BY <2>1, <4>2 DEF Window
        <5> QED
          BY <2>1, <2>2, <5>1 DEF Rising
      <4> QED
        BY <2>1, <4>1, <4>2
    <3> QED
      BY <2>2, <3>1, <3>2, LineFields DEF GENESIS
  <2>5. Intact(Window)
    BY PartsAreIntact
  <2> QED
    BY <2>3, <2>4, <2>5 DEF HeadConfirmed
<1>2. VSpec => [](WindowInv /\ VerifyInv)
  BY VerifyInvHolds
<1> QED
  BY <1>1, <1>2, PTL

=============================================================================
