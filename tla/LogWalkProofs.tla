--------------------------- MODULE LogWalkProofs ---------------------------
(***************************************************************************)
(* The verifier's walk.  It decides what it is meant to decide, for lines  *)
(* in any order and number; and the append-only chain, to which lines are  *)
(* only added after their predecessor and which only loses its oldest      *)
(* lines, never shows it a break.                                          *)
(***************************************************************************)
EXTENDS MCLogChain, TLAPS

\* What the walk, which sees two lines at a time, relies on: lines without
\* chain fields come first, then chained lines, each after the one before it.
WellLinked(s) ==
  /\ \A i \in 1 .. Len(s) : s[i].kind \in {"chained", "unchained"}
  /\ \A i, j \in 1 .. Len(s) : i < j /\ Chained(s[i]) => Chained(s[j])
  /\ \A i \in 2 .. Len(s) : Chained(s[i]) =>
       s[i].prev = s[i - 1].id /\ s[i].seq = LineSeq(s[i - 1]) + 1

\* The seqs of chained lines tell the lines apart.
SeqsRise(s) ==
  \A i, j \in 1 .. Len(s) : i < j /\ Chained(s[i]) /\ Chained(s[j]) => s[i].seq < s[j].seq

ChainInv == lines \in Seq(Line) /\ WellLinked(lines) /\ SeqsRise(lines)

-----------------------------------------------------------------------------

\* verify() finds no break in lines that are well linked.
LEMMA WellLinkedIsIntact ==
  ASSUME NEW s \in Seq(Line), WellLinked(s)
  PROVE  Intact(s)
<1>1. SUFFICES ASSUME NEW i \in 1 .. Len(s)
               PROVE  StepBreak(s, i) = "none"
  BY DEF Intact, Breaks
<1>2. CASE s[i].kind = "unchained"
  <2>1. ~Begun(s, i)
    BY <1>2 DEF WellLinked, Begun, Chained
  <2> QED
    BY <1>2, <2>1 DEF StepBreak
<1>3. CASE s[i].kind = "chained"
  <2>1. i > 1 => s[i].prev = s[i - 1].id /\ s[i].seq = LineSeq(s[i - 1]) + 1
    BY <1>3 DEF WellLinked, Chained
  <2>2. Begun(s, i) => i > 1
    BY DEF Begun
  <2>3. LinkBreak(s, i) = "none"
    BY <2>1, <2>2 DEF LinkBreak
  <2> QED
    BY <1>3, <2>3 DEF StepBreak
<1> QED
  BY <1>2, <1>3 DEF WellLinked

\* A line whose fields are log_chain_after's of the last line keeps the lines
\* well linked.
LEMMA AppendKeepsLinks ==
  ASSUME NEW s \in Seq(Line), WellLinked(s), NEW n \in Line, Chained(n),
         [seq |-> n.seq, prev |-> n.prev] = ChainAfter(LastLine(s))
  PROVE  /\ Append(s, n) \in Seq(Line) /\ WellLinked(Append(s, n))
         /\ SeqsRise(s) => SeqsRise(Append(s, n))
<1> DEFINE t == Append(s, n)
<1>1. /\ t \in Seq(Line) /\ Len(t) = Len(s) + 1
      /\ \A i \in 1 .. Len(s) : t[i] = s[i]
      /\ t[Len(s) + 1] = n
  OBVIOUS
<1>2. ASSUME s # <<>>
      PROVE  /\ Len(s) >= 1 /\ LastLine(s) = s[Len(s)]
             /\ n.prev = s[Len(s)].id /\ n.seq = LineSeq(s[Len(s)]) + 1
  <2>1. Len(s) >= 1 /\ LastLine(s) = s[Len(s)] /\ s[Len(s)] \in Line
    BY <1>2 DEF LastLine, Last
  <2>2. s[Len(s)] # NoLine
    BY <2>1 DEF Line, LineKind, NoLine
  <2> QED
    BY <2>1, <2>2 DEF ChainAfter
<1>3. \A i \in 1 .. Len(t) : t[i].kind \in {"chained", "unchained"}
  BY <1>1 DEF WellLinked, Chained
<1>4. ASSUME NEW i \in 1 .. Len(t), NEW j \in 1 .. Len(t), i < j, Chained(t[i])
      PROVE  Chained(t[j])
  <2>1. CASE j <= Len(s)
    <3>1. i \in 1 .. Len(s) /\ j \in 1 .. Len(s) /\ t[i] = s[i] /\ t[j] = s[j]
      BY <1>1, <1>4, <2>1
    <3> QED
      BY <1>4, <3>1 DEF WellLinked
  <2>2. CASE j = Len(s) + 1
    BY <1>1, <2>2
  <2> QED
    BY <1>1, <2>1, <2>2
<1>5. ASSUME NEW i \in 2 .. Len(t), Chained(t[i])
      PROVE  t[i].prev = t[i - 1].id /\ t[i].seq = LineSeq(t[i - 1]) + 1
  <2>1. CASE i <= Len(s)
    BY <1>1, <1>5, <2>1 DEF WellLinked
  <2>2. CASE i = Len(s) + 1
    BY <1>1, <1>2, <2>2
  <2> QED
    BY <1>1, <2>1, <2>2
<1>6. ASSUME SeqsRise(s), NEW i \in 1 .. Len(t), NEW j \in 1 .. Len(t), i < j,
             Chained(t[i]), Chained(t[j])
      PROVE  t[i].seq < t[j].seq
  <2>1. CASE j <= Len(s)
    <3>1. i \in 1 .. Len(s) /\ j \in 1 .. Len(s) /\ t[i] = s[i] /\ t[j] = s[j]
      BY <1>1, <1>6, <2>1
    <3> QED
      BY <1>6, <3>1 DEF SeqsRise
  <2>2. CASE j = Len(s) + 1
    <3>1. /\ i \in 1 .. Len(s) /\ Len(s) \in 1 .. Len(s) /\ Chained(s[i]) /\ t[j] = n
          /\ t[i] = s[i]
      BY <1>1, <1>6, <2>2
    <3>2. Chained(s[Len(s)]) /\ s[i] \in Line /\ s[Len(s)] \in Line
      BY <3>1 DEF WellLinked
    <3>3. s[i].seq \in Nat /\ s[Len(s)].seq \in Nat
      BY <3>1, <3>2 DEF Line, LineKind, Chained
    <3>4. s[i].seq <= s[Len(s)].seq
      BY <1>6, <3>1, <3>2, <3>3 DEF SeqsRise
    <3>5. n.seq = s[Len(s)].seq + 1
      BY <1>2, <3>1, <3>2 DEF LineSeq, Chained
    <3> QED
      BY <3>1, <3>3, <3>4, <3>5
  <2> QED
    BY <1>1, <2>1, <2>2
<1>7. WellLinked(t)
  BY <1>1, <1>3, <1>4, <1>5 DEF WellLinked
<1>8. SeqsRise(s) => SeqsRise(t)
  BY <1>6 DEF SeqsRise
<1> QED
  BY <1>1, <1>7, <1>8

\* What is left when the oldest lines go is well linked.
LEMMA DropKeepsLinks ==
  ASSUME NEW s \in Seq(Line), WellLinked(s), NEW k \in 1 .. Len(s) - 1
  PROVE  /\ SubSeq(s, k + 1, Len(s)) \in Seq(Line)
         /\ WellLinked(SubSeq(s, k + 1, Len(s)))
         /\ SeqsRise(s) => SeqsRise(SubSeq(s, k + 1, Len(s)))
<1> DEFINE t == SubSeq(s, k + 1, Len(s))
<1>1. /\ t \in Seq(Line) /\ Len(t) = Len(s) - k
      /\ \A i \in 1 .. Len(t) : t[i] = s[i + k]
  OBVIOUS
<1>2. \A i \in 1 .. Len(t) : t[i].kind \in {"chained", "unchained"}
  BY <1>1 DEF WellLinked
<1>3. \A i, j \in 1 .. Len(t) : i < j /\ Chained(t[i]) => Chained(t[j])
  BY <1>1 DEF WellLinked
<1>4. ASSUME NEW i \in 2 .. Len(t), Chained(t[i])
      PROVE  t[i].prev = t[i - 1].id /\ t[i].seq = LineSeq(t[i - 1]) + 1
  <2>1. /\ t[i] = s[i + k] /\ t[i - 1] = s[(i + k) - 1]
        /\ i + k \in 2 .. Len(s)
    BY <1>1
  <2> QED
    BY <1>4, <2>1 DEF WellLinked
<1>5. ASSUME SeqsRise(s), NEW i \in 1 .. Len(t), NEW j \in 1 .. Len(t), i < j,
             Chained(t[i]), Chained(t[j])
      PROVE  t[i].seq < t[j].seq
  <2>1. /\ t[i] = s[i + k] /\ t[j] = s[j + k] /\ i + k < j + k
        /\ i + k \in 1 .. Len(s) /\ j + k \in 1 .. Len(s)
    BY <1>1, <1>5
  <2> QED
    BY <1>5, <2>1 DEF SeqsRise
<1>6. WellLinked(t)
  BY <1>1, <1>2, <1>3, <1>4 DEF WellLinked
<1>7. SeqsRise(s) => SeqsRise(t)
  BY <1>5 DEF SeqsRise
<1> QED
  BY <1>1, <1>6, <1>7

-----------------------------------------------------------------------------

LEMMA ChainInvHolds == Spec => []ChainInv
<1>1. Init => ChainInv
  <2> SUFFICES ASSUME Init PROVE ChainInv
    OBVIOUS
  <2>1. lines \in Seq(Line) /\ \A i \in 1 .. Len(lines) : lines[i].kind = "unchained"
    BY DEF Init
  <2> QED
    BY <2>1 DEF ChainInv, WellLinked, SeqsRise, Chained
<1>2. ChainInv /\ [Next]_lines => ChainInv'
  <2> SUFFICES ASSUME ChainInv, [Next]_lines PROVE ChainInv'
    OBVIOUS
  <2> USE DEF ChainInv
  <2>1. CASE AppendLine
    <3>1. /\ Last(lines') \in Line /\ Chained(Last(lines'))
          /\ [seq |-> Last(lines').seq, prev |-> Last(lines').prev]
               = ChainAfter(LastLine(lines))
      BY <2>1 DEF AppendLine, Follows
    <3> QED
      BY <2>1, <3>1, AppendKeepsLinks DEF AppendLine
  <2>2. CASE DropOldest
    BY <2>2, DropKeepsLinks DEF DropOldest
  <2>3. CASE UNCHANGED lines
    BY <2>3 DEF WellLinked, SeqsRise
  <2> QED
    BY <2>1, <2>2, <2>3 DEF Next
<1> QED
  BY <1>1, <1>2, PTL DEF Spec

\* docs/decision-log.md, "Hash chain": whatever was appended and whatever left
\* with the rotated file, `chock status --verify-log` finds no break.
THEOREM AppendOnlyChainIsIntact == Spec => []AlwaysIntact
<1>1. ChainInv => AlwaysIntact
  BY WellLinkedIsIntact DEF ChainInv, AlwaysIntact
<1> QED
  BY <1>1, ChainInvHolds, PTL

-----------------------------------------------------------------------------
(***************************************************************************)
(* The walk against what it is meant to decide, for every sequence of      *)
(* lines.  Both see a sequence through its prefixes, so the proof goes by  *)
(* appending to it.                                                        *)
(***************************************************************************)

LEMMA AnyLineIsLine ==
  AnyLine \subseteq Line /\ \A l \in AnyLine : l.id # GENESIS
<1> SUFFICES ASSUME NEW l \in AnyLine
             PROVE  l \in Line /\ l.id # GENESIS
  OBVIOUS
<1>1. CASE l \in [id : Ids, kind : {"chained"}, seq : Seqs,
                  prev : Ids \cup {GENESIS}, closed : {TRUE}]
  <2>0. /\ l = [id |-> l.id, kind |-> l.kind, seq |-> l.seq, prev |-> l.prev,
                closed |-> l.closed]
        /\ l.id \in Ids /\ l.kind = "chained" /\ l.seq \in Seqs
        /\ l.prev \in Ids \cup {0} /\ l.closed = TRUE
    BY <1>1 DEF GENESIS
  <2>1. l \in [id : Nat, kind : {"chained"}, seq : Nat, prev : Nat, closed : BOOLEAN]
    <3>1. Ids \subseteq Nat /\ Seqs \subseteq Nat
      BY SmallAssumption
    <3>2. l.id \in Nat /\ l.seq \in Nat /\ l.prev \in Nat
      BY <2>0, <3>1
    <3> QED
      BY <2>0, <3>2
  <2> QED
    BY <1>1, <2>1, SmallAssumption DEF Line
<1>2. CASE l \in [id : Ids, kind : {"unchained", "garbage"}, seq : {-1},
                  prev : {GENESIS}, closed : {TRUE}]
  <2>1. l \in [id : Nat, kind : LineKind \ {"chained"}, seq : {-1}, prev : {GENESIS},
               closed : BOOLEAN]
    BY <1>2, SmallAssumption DEF LineKind
  <2> QED
    BY <1>2, <2>1, SmallAssumption DEF Line
<1> QED
  BY <1>1, <1>2 DEF AnyLine

LEMMA LineType ==
  ASSUME NEW l \in Line
  PROVE  /\ l.id \in Nat /\ l.prev \in Nat /\ l.kind \in LineKind
         /\ Chained(l) => l.seq \in Nat /\ LineSeq(l) = l.seq
         /\ ~Chained(l) => LineSeq(l) = -1
BY DEF Line, LineKind, GENESIS, Chained, LineSeq

\* One step of the walk that reports nothing.
LEMMA QuietStep ==
  ASSUME NEW s \in Seq(Line), NEW i \in 1 .. Len(s), StepBreak(s, i) = "none"
  PROVE  /\ s[i].kind # "garbage"
         /\ Begun(s, i) => Chained(s[i])
         /\ Chained(s[i]) => /\ i > 1 => s[i].prev = s[i - 1].id
                             /\ Begun(s, i) /\ Chained(s[i - 1]) =>
                                  s[i].seq = s[i - 1].seq + 1
<1>1. s[i] \in Line
  OBVIOUS
<1>2. s[i].kind \in LineKind
  BY <1>1, LineType
<1>3. s[i].kind # "garbage" /\ (Begun(s, i) => Chained(s[i]))
  BY <1>2 DEF StepBreak, LineKind, Chained
<1>4. ASSUME Chained(s[i])
      PROVE  /\ i > 1 => s[i].prev = s[i - 1].id
             /\ Begun(s, i) /\ Chained(s[i - 1]) => s[i].seq = s[i - 1].seq + 1
  <2>1. LinkBreak(s, i) = "none"
    BY <1>4 DEF StepBreak, Chained
  <2>2. i > 1 => s[i].prev = s[i - 1].id
    BY <2>1 DEF LinkBreak
  <2>3. ASSUME Begun(s, i), Chained(s[i - 1])
        PROVE  s[i].seq = s[i - 1].seq + 1
    <3>1. i - 1 \in 1 .. Len(s)
      BY <2>3 DEF Begun
    <3>2. s[i - 1] \in Line
      BY <3>1
    <3>3. LineSeq(s[i - 1]) = s[i - 1].seq /\ s[i - 1].seq \in Nat
      BY <2>3, <3>2, LineType
    <3> QED
      BY <2>1, <2>3, <3>3 DEF LinkBreak
  <2> QED
    BY <2>2, <2>3
<1> QED
  BY <1>3, <1>4

LEMMA IntactSteps ==
  ASSUME NEW s \in Seq(Line)
  PROVE  Intact(s) <=> \A i \in 1 .. Len(s) : StepBreak(s, i) = "none"
BY DEF Intact, Breaks

LEMMA WellChainedIsIntact ==
  ASSUME NEW s \in Seq(Line), WellChained(s)
  PROVE  Intact(s)
<1>1. PICK k \in 0 .. Len(s) :
        /\ \A i \in 1 .. k : s[i].kind = "unchained"
        /\ \A i \in k + 1 .. Len(s) : Chained(s[i])
        /\ \A i \in k + 1 .. Len(s) : i > 1 => s[i].prev = s[i - 1].id
        /\ \A i \in k + 2 .. Len(s) : s[i].seq = s[i - 1].seq + 1
  BY DEF WellChained
<1> SUFFICES ASSUME NEW i \in 1 .. Len(s)
             PROVE  StepBreak(s, i) = "none"
  BY IntactSteps
<1>2. Begun(s, i) => i >= k + 2
  <2> SUFFICES ASSUME NEW j \in 1 .. i - 1, Chained(s[j])
               PROVE  i >= k + 2
    BY DEF Begun
  <2>1. j > k
    BY <1>1 DEF Chained
  <2> QED
    BY <2>1
<1>3. CASE i <= k
  BY <1>1, <1>2, <1>3 DEF StepBreak
<1>4. CASE i > k
  <2>1. i \in k + 1 .. Len(s) /\ Chained(s[i])
    BY <1>1, <1>4
  <2>2. ASSUME Begun(s, i)
        PROVE  s[i].seq = LineSeq(s[i - 1]) + 1
    <3>1. i \in k + 2 .. Len(s) /\ i - 1 \in k + 1 .. Len(s)
      BY <1>2, <2>2
    <3> QED
      BY <1>1, <3>1 DEF LineSeq, Chained
  <2>3. LinkBreak(s, i) = "none"
    BY <1>1, <2>1, <2>2 DEF LinkBreak
  <2> QED
    BY <2>1, <2>3 DEF StepBreak, Chained
<1> QED
  BY <1>3, <1>4

\* Appending to a sequence leaves the walk of what was there as it was.
LEMMA WalkOfAppend ==
  ASSUME NEW s \in Seq(Line), NEW n \in Line, Intact(Append(s, n))
  PROVE  Intact(s)
<1> DEFINE t == Append(s, n)
<1>1. /\ t \in Seq(Line) /\ Len(t) = Len(s) + 1
      /\ \A i \in 1 .. Len(s) : t[i] = s[i]
      /\ Intact(t)
  OBVIOUS
<1> HIDE DEF t
<1> SUFFICES ASSUME NEW i \in 1 .. Len(s)
             PROVE  StepBreak(s, i) = "none"
  BY IntactSteps
<1>2. StepBreak(t, i) = "none"
  BY <1>1, IntactSteps
<1>3. t[i] = s[i] /\ \A j \in 1 .. i - 1 : t[j] = s[j]
  BY <1>1
<1>4. Begun(t, i) <=> Begun(s, i)
  BY <1>3 DEF Begun
<1>5. i > 1 => t[i - 1] = s[i - 1]
  BY <1>3
<1>6. Begun(s, i) => i > 1
  BY DEF Begun
<1>7. LinkBreak(t, i) = LinkBreak(s, i)
  BY <1>3, <1>4, <1>5, <1>6 DEF LinkBreak
<1> QED
  BY <1>2, <1>3, <1>4, <1>7 DEF StepBreak

LEMMA AppendWalks ==
  ASSUME NEW s \in Seq(Line), NEW n \in Line, Intact(Append(s, n)),
         WellChained(s), SeqsRise(s)
  PROVE  WellChained(Append(s, n)) /\ SeqsRise(Append(s, n))
<1> DEFINE t == Append(s, n)
           m == Len(s)
<1>1. /\ t \in Seq(Line) /\ Len(t) = m + 1 /\ t[m + 1] = n /\ m \in Nat
      /\ \A i \in 1 .. m : t[i] = s[i]
      /\ Intact(t)
  OBVIOUS
<1> HIDE DEF t, m
<1>2. StepBreak(t, m + 1) = "none"
  BY <1>1, IntactSteps
<1>3. PICK k \in 0 .. m :
        /\ \A i \in 1 .. k : s[i].kind = "unchained"
        /\ \A i \in k + 1 .. m : Chained(s[i])
        /\ \A i \in k + 1 .. m : i > 1 => s[i].prev = s[i - 1].id
        /\ \A i \in k + 2 .. m : s[i].seq = s[i - 1].seq + 1
  BY DEF WellChained, m
<1>4. /\ n.kind # "garbage" /\ (Begun(t, m + 1) => Chained(n))
      /\ Chained(n) => /\ m + 1 > 1 => n.prev = t[m].id
                       /\ Begun(t, m + 1) /\ Chained(t[m]) => n.seq = t[m].seq + 1
  BY <1>1, <1>2, QuietStep
<1>5. k < m => Begun(t, m + 1) /\ Chained(t[m])
  <2> SUFFICES ASSUME k < m PROVE Begun(t, m + 1) /\ Chained(t[m])
    OBVIOUS
  <2>1. m \in k + 1 .. m /\ m \in 1 .. m /\ m \in 1 .. (m + 1) - 1
    BY <1>1
  <2>2. Chained(t[m])
    BY <1>1, <1>3, <2>1
  <2> QED
    BY <2>1, <2>2 DEF Begun
<1>6. CASE Chained(n)
  <2>1. \A i \in 1 .. k : t[i].kind = "unchained"
    BY <1>1, <1>3
  <2>2. \A i \in k + 1 .. m + 1 : Chained(t[i])
    BY <1>1, <1>3, <1>6
  <2>3. ASSUME NEW i \in k + 1 .. m + 1, i > 1
        PROVE  t[i].prev = t[i - 1].id
    <3>1. CASE i = m + 1
      BY <1>1, <1>4, <1>6, <2>3, <3>1
    <3>2. CASE i < m + 1
      <4>1. i \in k + 1 .. m /\ t[i] = s[i] /\ t[i - 1] = s[i - 1]
        BY <1>1, <2>3, <3>2
      <4> QED
        BY <1>3, <2>3, <4>1
    <3> QED
      BY <1>1, <3>1, <3>2
  <2>4. ASSUME NEW i \in k + 2 .. m + 1
        PROVE  t[i].seq = t[i - 1].seq + 1
    <3>1. CASE i = m + 1
      BY <1>1, <1>4, <1>5, <1>6, <3>1
    <3>2. CASE i < m + 1
      <4>1. i \in k + 2 .. m /\ t[i] = s[i] /\ t[i - 1] = s[i - 1]
        BY <1>1, <3>2
      <4> QED
        BY <1>3, <4>1
    <3> QED
      BY <1>1, <3>1, <3>2
  <2>5. k \in 0 .. Len(t) /\ Len(t) = m + 1
    BY <1>1
  <2>6. WellChained(t)
    BY <2>1, <2>2, <2>3, <2>4, <2>5 DEF WellChained
  <2>7. ASSUME NEW i \in 1 .. Len(t), NEW j \in 1 .. Len(t), i < j,
               Chained(t[i]), Chained(t[j])
        PROVE  t[i].seq < t[j].seq
    <3>1. CASE j <= m
      <4>1. i \in 1 .. m /\ j \in 1 .. m /\ t[i] = s[i] /\ t[j] = s[j]
        BY <1>1, <2>7, <3>1
      <4> QED
        BY <2>7, <4>1 DEF SeqsRise, m
    <3>2. CASE j = m + 1
      <4>1. i \in 1 .. m /\ m \in 1 .. m /\ t[i] = s[i] /\ t[m] = s[m] /\ t[j] = n
        BY <1>1, <2>7, <3>2
      <4>2. i > k
        BY <1>3, <2>7, <4>1 DEF Chained
      <4>3. Chained(s[m]) /\ n.seq = s[m].seq + 1
        BY <1>4, <1>5, <1>6, <4>1, <4>2
      <4>4. s[i] \in Line /\ s[m] \in Line
        BY <4>1 DEF m
      <4>5. s[i].seq \in Nat /\ s[m].seq \in Nat
        BY <2>7, <4>1, <4>3, <4>4, LineType
      <4>6. s[i].seq <= s[m].seq
        <5>1. CASE i = m
          BY <4>5, <5>1
        <5>2. CASE i < m
          <6>1. i \in 1 .. Len(s) /\ m \in 1 .. Len(s) /\ Chained(s[i])
            BY <2>7, <4>1 DEF m
          <6> QED
            BY <4>3, <4>5, <5>2, <6>1 DEF SeqsRise
        <5> QED
          BY <4>1, <5>1, <5>2
      <4> QED
        BY <4>1, <4>3, <4>5, <4>6
    <3> QED
      BY <1>1, <3>1, <3>2
  <2>8. SeqsRise(t)
    BY <2>7 DEF SeqsRise
  <2> QED
    BY <2>6, <2>8 DEF t
<1>7. CASE ~Chained(n)
  <2>1. k = m /\ n.kind = "unchained"
    BY <1>1, <1>4, <1>5, <1>7, LineType DEF LineKind, Chained
  <2>2. \A i \in 1 .. m + 1 : t[i].kind = "unchained"
    BY <1>1, <1>3, <2>1
  <2>3. WellChained(t)
    BY <1>1, <2>2 DEF WellChained
  <2>4. SeqsRise(t)
    BY <1>1, <2>2 DEF SeqsRise, Chained
  <2> QED
    BY <2>3, <2>4 DEF t
<1> QED
  BY <1>6, <1>7

WalkInv ==
  /\ lines \in Seq(AnyLine)
  /\ Intact(lines) => WellChained(lines) /\ SeqsRise(lines)

LEMMA WalkInvHolds == AnySpec => []WalkInv
<1>1. AnyInit => WalkInv
  BY DEF AnyInit, WalkInv, WellChained, SeqsRise
<1>2. WalkInv /\ [AnyNext]_lines => WalkInv'
  <2> SUFFICES ASSUME WalkInv, [AnyNext]_lines PROVE WalkInv'
    OBVIOUS
  <2>1. CASE UNCHANGED lines
    BY <2>1 DEF WalkInv, WellChained, SeqsRise, Intact, Breaks, StepBreak, LinkBreak,
                Begun
  <2>2. ASSUME NEW new \in AnyLine, lines' = Append(lines, new) PROVE WalkInv'
    <3>1. lines \in Seq(AnyLine) /\ lines \in Seq(Line) /\ new \in Line
      BY AnyLineIsLine DEF WalkInv
    <3>2. Append(lines, new) \in Seq(AnyLine)
      BY <3>1
    <3>3. Intact(Append(lines, new)) => WellChained(Append(lines, new))
                                        /\ SeqsRise(Append(lines, new))
      BY <3>1, WalkOfAppend, AppendWalks DEF WalkInv
    <3> QED
      BY <2>2, <3>2, <3>3 DEF WalkInv
  <2> QED
    BY <2>1, <2>2 DEF AnyNext
<1> QED
  BY <1>1, <1>2, PTL DEF AnySpec

LEMMA LinesAreLines ==
  ASSUME WalkInv
  PROVE  lines \in Seq(Line) /\ \A i \in 1 .. Len(lines) : lines[i].id # GENESIS
BY AnyLineIsLine DEF WalkInv

\* The walk, which looks at one line and the one before it, finds no break
\* exactly in the logs that are well chained as a whole, of any length
\* (gatelog_chain._step).
THEOREM WalkDecides == AnySpec => []IntactMeansWellChained
<1>1. WalkInv => IntactMeansWellChained
  <2> SUFFICES ASSUME WalkInv PROVE IntactMeansWellChained
    OBVIOUS
  <2>1. WellChained(lines) => Intact(lines)
    BY LinesAreLines, WellChainedIsIntact
  <2> QED
    BY <2>1 DEF WalkInv, IntactMeansWellChained
<1> QED
  BY <1>1, WalkInvHolds, PTL

-----------------------------------------------------------------------------
(***************************************************************************)
(* Changes to a log, and kept heads.                                       *)
(***************************************************************************)

LEMMA RemoveAtIs ==
  ASSUME NEW s \in Seq(Line), NEW i \in 1 .. Len(s)
  PROVE  /\ RemoveAt(s, i) \in Seq(Line) /\ Len(RemoveAt(s, i)) = Len(s) - 1
         /\ \A k \in 1 .. Len(s) - 1 :
              RemoveAt(s, i)[k] = IF k < i THEN s[k] ELSE s[k + 1]
<1> DEFINE a == SubSeq(s, 1, i - 1)
           b == SubSeq(s, i + 1, Len(s))
<1>1. a \in Seq(Line) /\ Len(a) = i - 1 /\ \A k \in 1 .. i - 1 : a[k] = s[k]
  OBVIOUS
<1>2. b \in Seq(Line) /\ Len(b) = Len(s) - i /\ \A k \in 1 .. Len(s) - i : b[k] = s[k + i]
  OBVIOUS
<1>3. RemoveAt(s, i) = a \o b
  BY DEF RemoveAt
<1> HIDE DEF a, b
<1>4. a \o b \in Seq(Line) /\ Len(a \o b) = Len(s) - 1
  <2>1. a \in Seq(Line) /\ b \in Seq(Line)
    BY <1>1, <1>2
  <2>2. a \o b \in Seq(Line) /\ Len(a \o b) = Len(a) + Len(b)
    BY <2>1
  <2> QED
    BY <1>1, <1>2, <2>2
<1>5. ASSUME NEW k \in 1 .. Len(s) - 1
      PROVE  /\ k < i => (a \o b)[k] = s[k]
             /\ k >= i => (a \o b)[k] = s[k + 1]
  <2>1. ASSUME k < i PROVE (a \o b)[k] = s[k]
    BY <1>1, <1>2, <2>1
  <2>2. ASSUME k >= i PROVE (a \o b)[k] = s[k + 1]
    <3>1. k - (i - 1) \in 1 .. Len(s) - i /\ (k - (i - 1)) + i = k + 1
      BY <2>2
    <3>2. (a \o b)[k] = b[k - (i - 1)]
      BY <1>1, <1>2, <2>2
    <3>3. b[k - (i - 1)] = s[(k - (i - 1)) + i]
      BY <1>2, <3>1
    <3> QED
      BY <2>2, <3>1, <3>2, <3>3
  <2> QED
    BY <2>1, <2>2
<1>6. ASSUME NEW k \in 1 .. Len(s) - 1
      PROVE  RemoveAt(s, i)[k] = IF k < i THEN s[k] ELSE s[k + 1]
  <2>1. k < i \/ k >= i
    OBVIOUS
  <2> QED
    BY <1>3, <1>5, <2>1
<1> QED
  BY <1>3, <1>4, <1>6

LEMMA InsertAtIs ==
  ASSUME NEW s \in Seq(Line), NEW i \in 1 .. Len(s), NEW e \in Line
  PROVE  /\ InsertAt(s, i, e) \in Seq(Line) /\ Len(InsertAt(s, i, e)) = Len(s) + 1
         /\ InsertAt(s, i, e)[i] = e /\ InsertAt(s, i, e)[i + 1] = s[i]
<1> DEFINE a == SubSeq(s, 1, i - 1)
           b == SubSeq(s, i, Len(s))
           c == a \o <<e>>
<1>1. a \in Seq(Line) /\ Len(a) = i - 1
  OBVIOUS
<1>2. b \in Seq(Line) /\ Len(b) = Len(s) - i + 1 /\ b[1] = s[i]
  OBVIOUS
<1>3. InsertAt(s, i, e) = c \o b
  BY DEF InsertAt
<1> HIDE DEF a, b
<1>4. c \in Seq(Line) /\ Len(c) = i /\ c[i] = e
  BY <1>1
<1> HIDE DEF c
<1>5. c \o b \in Seq(Line) /\ Len(c \o b) = Len(s) + 1
  BY <1>2, <1>4
<1>6. (c \o b)[i] = e /\ (c \o b)[i + 1] = s[i]
  BY <1>2, <1>4
<1> QED
  BY <1>3, <1>5, <1>6

\* A chained line that does not follow the line before it is a break.
LEMMA WrongPrevBreaks ==
  ASSUME NEW s \in Seq(Line), NEW i \in 2 .. Len(s), Chained(s[i]),
         s[i].prev # s[i - 1].id
  PROVE  ~Intact(s)
<1>1. StepBreak(s, i) = "prev" /\ i \in 1 .. Len(s)
  BY DEF StepBreak, LinkBreak, Chained
<1> QED
  BY <1>1, IntactSteps

\* Two neighbours that change places do not follow each other.
LEMMA SwapBreaks ==
  ASSUME NEW s \in Seq(Line), Intact(s), DistinctIds(s), NEW i \in 1 .. Len(s) - 1,
         Chained(s[i + 1])
  PROVE  ~Intact([s EXCEPT ![i] = s[i + 1], ![i + 1] = s[i]])
<1> DEFINE t == [s EXCEPT ![i] = s[i + 1], ![i + 1] = s[i]]
<1>1. i \in 1 .. Len(s) /\ i + 1 \in 1 .. Len(s) /\ s[i] \in Line /\ s[i + 1] \in Line
  OBVIOUS
<1>2. /\ t \in Seq(Line) /\ Len(t) = Len(s)
      /\ t[i] = s[i + 1] /\ t[i + 1] = s[i]
      /\ \A j \in 1 .. Len(s) : j < i => t[j] = s[j]
  BY <1>1
<1> HIDE DEF t
<1> SUFFICES ASSUME Intact(t) PROVE FALSE
  BY DEF t
<1>3. StepBreak(s, i) = "none" /\ StepBreak(s, i + 1) = "none"
  BY <1>1, IntactSteps
<1>4. StepBreak(t, i + 1) = "none" /\ StepBreak(t, i) = "none"
  BY <1>1, <1>2, IntactSteps
<1>5. Begun(t, i + 1)
  BY <1>1, <1>2 DEF Begun
<1>6. Chained(s[i]) /\ s[i].prev = s[i + 1].id /\ s[i].seq = s[i + 1].seq + 1
  <2>1. /\ Begun(t, i + 1) => Chained(t[i + 1])
        /\ Chained(t[i + 1]) =>
             /\ i + 1 > 1 => t[i + 1].prev = t[(i + 1) - 1].id
             /\ Begun(t, i + 1) /\ Chained(t[(i + 1) - 1]) =>
                  t[i + 1].seq = t[(i + 1) - 1].seq + 1
    BY <1>1, <1>2, <1>4, QuietStep
  <2>2. (i + 1) - 1 = i /\ i + 1 > 1
    OBVIOUS
  <2> QED
    BY <1>2, <1>5, <2>1, <2>2
<1>7. s[i + 1].seq = s[i].seq + 1
  <2>1. Chained(s[i + 1]) /\ Begun(s, i + 1) /\ Chained(s[(i + 1) - 1]) =>
          s[i + 1].seq = s[(i + 1) - 1].seq + 1
    BY <1>1, <1>3, QuietStep
  <2>2. Begun(s, i + 1)
    BY <1>1, <1>6 DEF Begun
  <2>3. (i + 1) - 1 = i
    OBVIOUS
  <2> QED
    BY <1>6, <2>1, <2>2, <2>3
<1>8. s[i].seq \in Nat /\ s[i + 1].seq \in Nat
  BY <1>1, <1>6, LineType
<1> QED
  BY <1>6, <1>7, <1>8

LEMMA ChangeBreaks ==
  ASSUME NEW s \in Seq(Line), Intact(s), DistinctIds(s), NEW i \in 1 .. Len(s) - 1,
         Chained(s[i + 1])
  PROVE  /\ \A new \in Line : new.id # s[i].id => ~Intact([s EXCEPT ![i] = new])
         /\ i > 1 => ~Intact(RemoveAt(s, i))
         /\ \A new \in Line :
              new.id \notin {s[j].id : j \in DOMAIN s} => ~Intact(InsertAt(s, i + 1, new))
         /\ ~Intact([s EXCEPT ![i] = s[i + 1], ![i + 1] = s[i]])
<1>1. i \in 1 .. Len(s) /\ i + 1 \in 1 .. Len(s) /\ DOMAIN s = 1 .. Len(s)
      /\ (i + 1) - 1 = i
  OBVIOUS
<1>2. s[i + 1].prev = s[i].id
  <2>1. StepBreak(s, i + 1) = "none"
    BY <1>1, IntactSteps
  <2>2. Chained(s[i + 1]) /\ i + 1 > 1 => s[i + 1].prev = s[(i + 1) - 1].id
    BY <1>1, <2>1, QuietStep
  <2> QED
    BY <1>1, <2>2
<1>3. ASSUME NEW new \in Line, new.id # s[i].id
      PROVE  ~Intact([s EXCEPT ![i] = new])
  <2> DEFINE t == [s EXCEPT ![i] = new]
  <2>1. /\ t \in Seq(Line) /\ i + 1 \in 2 .. Len(t) /\ t[i + 1] = s[i + 1]
        /\ t[(i + 1) - 1] = new
    BY <1>1
  <2> HIDE DEF t
  <2>2. ~Intact(t)
    BY <1>2, <1>3, <2>1, WrongPrevBreaks
  <2> QED
    BY <2>2 DEF t
<1>4. ASSUME i > 1 PROVE ~Intact(RemoveAt(s, i))
  <2> DEFINE t == RemoveAt(s, i)
  <2>1. /\ t \in Seq(Line) /\ Len(t) = Len(s) - 1
        /\ \A k \in 1 .. Len(s) - 1 : t[k] = IF k < i THEN s[k] ELSE s[k + 1]
    BY <1>1, RemoveAtIs
  <2> HIDE DEF t
  <2>2. i \in 2 .. Len(t) /\ t[i] = s[i + 1] /\ t[i - 1] = s[i - 1]
    BY <1>4, <2>1
  <2>3. s[i - 1].id # s[i].id
    BY <1>1, <1>4 DEF DistinctIds
  <2>4. ~Intact(t)
    BY <1>2, <2>1, <2>2, <2>3, WrongPrevBreaks
  <2> QED
    BY <2>4 DEF t
<1>5. ASSUME NEW new \in Line, new.id \notin {s[j].id : j \in DOMAIN s}
      PROVE  ~Intact(InsertAt(s, i + 1, new))
  <2> DEFINE t == InsertAt(s, i + 1, new)
  <2>1. /\ t \in Seq(Line) /\ Len(t) = Len(s) + 1
        /\ t[i + 1] = new /\ t[(i + 1) + 1] = s[i + 1]
    BY <1>1, InsertAtIs
  <2> HIDE DEF t
  <2>2. (i + 1) + 1 \in 2 .. Len(t) /\ ((i + 1) + 1) - 1 = i + 1
    BY <1>1, <2>1
  <2>3. new.id # s[i].id
    BY <1>1, <1>5
  <2>4. ~Intact(t)
    BY <1>2, <2>1, <2>2, <2>3, WrongPrevBreaks
  <2> QED
    BY <2>4 DEF t
<1> QED
  BY <1>3, <1>4, <1>5, SwapBreaks

\* docs/decision-log.md: "An edited, deleted, inserted or reordered line breaks
\* the link of the line after it", in a log of any length.
THEOREM ChangesAreBreaks == AnySpec => []ChangeIsABreak
<1>1. WalkInv => ChangeIsABreak
  <2> SUFFICES ASSUME WalkInv, Intact(lines), DistinctIds(lines),
                      NEW i \in 1 .. Len(lines) - 1, Chained(lines[i + 1])
               PROVE  /\ \A new \in AnyLine :
                           new.id # lines[i].id => ~Intact([lines EXCEPT ![i] = new])
                      /\ i > 1 => ~Intact(RemoveAt(lines, i))
                      /\ \A new \in AnyLine :
                           new.id \notin {lines[j].id : j \in DOMAIN lines}
                             => ~Intact(InsertAt(lines, i + 1, new))
                      /\ ~Intact([lines EXCEPT ![i] = lines[i + 1],
                                               ![i + 1] = lines[i]])
    BY DEF ChangeIsABreak
  <2>1. lines \in Seq(Line) /\ AnyLine \subseteq Line
    BY LinesAreLines, AnyLineIsLine
  <2> QED
    BY <2>1, ChangeBreaks
<1> QED
  BY <1>1, WalkInvHolds, PTL

LEMMA MaxOfOne ==
  ASSUME NEW i \in Int
  PROVE  Max({i}) = i
BY DEF Max

LEMMA HeadFound ==
  ASSUME NEW s \in Seq(Line), SeqsRise(s), NEW i \in 1 .. Len(s), Chained(s[i])
  PROVE  HashAt(s, LineSeq(s[i])) = s[i].id
<1> DEFINE q == LineSeq(s[i])
           with == {k \in DOMAIN s : Begun(s, k + 1) /\ LineSeq(s[k]) = q}
<1>1. \A k \in 1 .. Len(s) : s[k] \in Line
  OBVIOUS
<1>2. q = s[i].seq /\ q \in Nat
  BY <1>1, LineType
<1>3. i \in with
  BY DEF Begun
<1>4. ASSUME NEW k \in with PROVE k = i
  <2>1. k \in 1 .. Len(s) /\ LineSeq(s[k]) = q
    OBVIOUS
  <2>2. Chained(s[k]) /\ s[k].seq = q
    BY <1>1, <1>2, <2>1, LineType
  <2> QED
    BY <1>2, <2>1, <2>2 DEF SeqsRise
<1>5. with = {i}
  BY <1>3, <1>4
<1>6. HashAt(s, q) = IF with = {} THEN GENESIS ELSE s[Max(with)].id
  BY DEF HashAt
<1> HIDE DEF with
<1> QED
  BY <1>5, <1>6, MaxOfOne

\* A head of an intact log is confirmed in it by its seq and hash, and in no
\* log that no longer holds that line (gatelog_chain._head_check).
THEOREM HeadsNameLines == AnySpec => []HeadNamesItsLine
<1>1. WalkInv => HeadNamesItsLine
  <2> SUFFICES ASSUME WalkInv, NEW i \in DOMAIN lines, Intact(lines),
                      Chained(lines[i])
               PROVE  LET head == [seq |-> LineSeq(lines[i]), id |-> lines[i].id]
                      IN /\ HeadConfirmed(lines, head)
                         /\ ~HeadConfirmed(RemoveAt(lines, i), head)
    BY DEF HeadNamesItsLine
  <2> DEFINE head == [seq |-> LineSeq(lines[i]), id |-> lines[i].id]
             t == RemoveAt(lines, i)
  <2>0. i \in 1 .. Len(lines)
    BY DEF WalkInv
  <2>1. /\ lines \in Seq(Line) /\ SeqsRise(lines) /\ lines[i].id # GENESIS
        /\ \A k \in 1 .. Len(lines) : lines[k] \in Line
    BY <2>0, LinesAreLines DEF WalkInv
  <2>2. HeadConfirmed(lines, head)
    BY <2>0, <2>1, HeadFound DEF HeadConfirmed
  <2>3. HashAt(t, head.seq) = GENESIS
    <3>1. /\ t \in Seq(Line) /\ Len(t) = Len(lines) - 1
          /\ \A k \in 1 .. Len(lines) - 1 :
               t[k] = IF k < i THEN lines[k] ELSE lines[k + 1]
      BY <2>0, <2>1, RemoveAtIs
    <3>2. head.seq = lines[i].seq /\ head.seq \in Nat
      BY <2>0, <2>1, LineType
    <3> HIDE DEF t, head
    <3>3. ASSUME NEW k \in 1 .. Len(t), LineSeq(t[k]) = head.seq PROVE FALSE
      <4>1. PICK j \in 1 .. Len(lines) : j # i /\ t[k] = lines[j]
        <5>1. CASE k < i
          BY <2>0, <3>1, <5>1
        <5>2. CASE k >= i
          BY <2>0, <3>1, <5>2
        <5> QED
          BY <2>0, <3>1, <5>1, <5>2
      <4>2. Chained(lines[j]) /\ lines[j].seq = lines[i].seq
        BY <2>1, <3>2, <3>3, <4>1, LineType
      <4> QED
        BY <2>0, <2>1, <3>2, <4>1, <4>2 DEF SeqsRise
    <3>4. {k \in DOMAIN t : Begun(t, k + 1) /\ LineSeq(t[k]) = head.seq} = {}
      BY <3>1, <3>3
    <3> QED
      BY <3>4 DEF HashAt
  <2>4. ~HeadConfirmed(t, head)
    BY <2>1, <2>3 DEF HeadConfirmed
  <2> QED
    BY <2>2, <2>4
<1> QED
  BY <1>1, WalkInvHolds, PTL

=============================================================================
