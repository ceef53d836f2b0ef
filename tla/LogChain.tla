------------------------------ MODULE LogChain ------------------------------
(***************************************************************************)
(* The hash chain of the decision log: what a writer puts in a line so     *)
(* that it follows the line before it (gate/runner/chain.py), and how      *)
(* `chock status --verify-log` walks the lines back (gatelog_chain.py).    *)
(*                                                                         *)
(* A line is abstracted to the facts the chain depends on.  `id` stands    *)
(* for the sha256 of the line's exact bytes: two lines have the same id    *)
(* only if they have the same bytes.  The fields the writer stamps besides *)
(* the chain's are left out.                                               *)
(***************************************************************************)
EXTENDS Integers, Sequences, FiniteSetsExt, SequencesExt

\* The `prev` of the first line a log ever had: 64 zeros, no line's hash.
GENESIS == 0

\* What `kind` a line is to a reader: a JSON object with both chain keys, one
\* without (or with `unchained`), or bytes that are no JSON at all.
LineKind == {"chained", "unchained", "garbage"}

\* `closed`: a newline ends it.  Only a chained line has a seq and a prev.
Line ==
  [id : Nat, kind : {"chained"}, seq : Nat, prev : Nat, closed : BOOLEAN]
  \cup [id : Nat, kind : LineKind \ {"chained"}, seq : {-1}, prev : {GENESIS},
        closed : BOOLEAN]

NoLine == [id |-> GENESIS, kind |-> "none", seq |-> -1, prev |-> GENESIS,
           closed |-> TRUE]

Unlinked == [seq |-> -1, prev |-> GENESIS]

-----------------------------------------------------------------------------
(***************************************************************************)
(* The writer's side.                                                      *)
(***************************************************************************)

LastLine(file) == IF file = <<>> THEN NoLine ELSE Last(file)

EndsTorn(file) == file # <<>> /\ ~Last(file).closed

LineSeq(line) == IF line.kind = "chained" THEN line.seq ELSE -1

\* A slip to be noticed: the new line repeats the last line's seq.
SameSeqAfter(last) ==
  IF last = NoLine THEN [seq |-> 0, prev |-> GENESIS]
                   ELSE [seq |-> LineSeq(last), prev |-> last.id]

ChainAfter(last) ==
  IF last = NoLine THEN [seq |-> 0, prev |-> GENESIS]
                   ELSE [seq |-> LineSeq(last) + 1, prev |-> last.id]

-----------------------------------------------------------------------------
(***************************************************************************)
(* The verifier's side.  `lines` is what the walk reads, the rotated       *)
(* file's lines first.                                                     *)
(***************************************************************************)

Chained(line) == line.kind = "chained"

\* `chain.start` is set: a chained line was met before line i.
Begun(lines, i) == \E j \in 1 .. i - 1 : Chained(lines[j])

\* Slips to be noticed: the walk wants its first line to follow the genesis
\* hash; the walk compares seqs only.
LinkBreakAtStart(lines, i) ==
  IF lines[i].prev # (IF i = 1 THEN GENESIS ELSE lines[i - 1].id) THEN "prev"
  ELSE "none"

LinkBreakBySeq(lines, i) ==
  IF /\ Begun(lines, i)
     /\ LineSeq(lines[i - 1]) >= 0
     /\ lines[i].seq # LineSeq(lines[i - 1]) + 1 THEN "seq"
  ELSE "none"

\* What is wrong with the link of lines[i] to the line before it.
LinkBreak(lines, i) ==
  IF i > 1 /\ lines[i].prev # lines[i - 1].id THEN "prev"
  ELSE IF /\ Begun(lines, i)
          /\ LineSeq(lines[i - 1]) >= 0
          /\ lines[i].seq # LineSeq(lines[i - 1]) + 1 THEN "seq"
  ELSE "none"

\* The break one step of the walk reports, or "none".
StepBreak(lines, i) ==
  CASE lines[i].kind = "garbage" -> "not-json"
    [] lines[i].kind = "unchained" ->
         IF Begun(lines, i) THEN "unchained" ELSE "none"
    [] lines[i].kind = "chained" -> LinkBreak(lines, i)

Breaks(lines) == {i \in DOMAIN lines : StepBreak(lines, i) # "none"}

Intact(lines) == Breaks(lines) = {}

FirstBreak(lines) ==
  IF Intact(lines) THEN "none" ELSE StepBreak(lines, Min(Breaks(lines)))

NoHead == [seq |-> -1, id |-> GENESIS]

\* The head an intact walk prints: its last line's seq and hash.
HeadOf(lines) ==
  IF Intact(lines) /\ \E i \in DOMAIN lines : Chained(lines[i])
  THEN [seq |-> LineSeq(Last(lines)), id |-> Last(lines).id]
  ELSE NoHead

\* A slip to be noticed: the walk's first chained line is not recorded.
HashAfterStart(lines, seq) ==
  LET with == {i \in DOMAIN lines : Begun(lines, i) /\ LineSeq(lines[i]) = seq}
  IN IF with = {} THEN GENESIS ELSE lines[Max(with)].id

\* `chain.seqs`: the seqs the walk met with the lines that carry them; a later
\* line with the same seq replaces an earlier one.
HashAt(lines, seq) ==
  LET with == {i \in DOMAIN lines : /\ Begun(lines, i + 1)
                                    /\ LineSeq(lines[i]) = seq}
  IN IF with = {} THEN GENESIS ELSE lines[Max(with)].id

HeadConfirmed(lines, head) ==
  Intact(lines) /\ head.id # GENESIS /\ HashAt(lines, head.seq) = head.id

=============================================================================
