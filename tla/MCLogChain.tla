----------------------------- MODULE MCLogChain -----------------------------
(***************************************************************************)
(* The verifier's walk against what it is meant to decide, over every      *)
(* sequence of at most MaxLen lines with small ids and seqs.               *)
(***************************************************************************)
EXTENDS AppendOnlyChain

CONSTANTS Ids, Seqs, MaxLen

ASSUME SmallAssumption ==
  Ids \subseteq Nat \ {GENESIS} /\ Seqs \subseteq Nat /\ MaxLen \in Nat

AnyLine ==
  [id : Ids, kind : {"chained"}, seq : Seqs, prev : Ids \cup {GENESIS},
   closed : {TRUE}]
  \cup [id : Ids, kind : {"unchained", "garbage"}, seq : {-1}, prev : {GENESIS},
        closed : {TRUE}]

AnyInit == lines = <<>>

\* Any line comes next, whether or not a log could grow by it.
AnyNext == Len(lines) < MaxLen /\ \E new \in AnyLine : lines' = Append(lines, new)

AnySpec == AnyInit /\ [][AnyNext]_lines

-----------------------------------------------------------------------------

\* Lines without chain fields, then chained lines each naming the hash of the
\* line before it and the seq after that of the chained line before it.
WellChained(w) ==
  \E k \in 0 .. Len(w) :
    /\ \A i \in 1 .. k : w[i].kind = "unchained"
    /\ \A i \in k + 1 .. Len(w) : Chained(w[i])
    /\ \A i \in k + 1 .. Len(w) : i > 1 => w[i].prev = w[i - 1].id
    /\ \A i \in k + 2 .. Len(w) : w[i].seq = w[i - 1].seq + 1

\* The walk, which looks at one line and the one before it, finds no break
\* exactly in the logs that are well chained as a whole (gatelog_chain._step).
IntactMeansWellChained == Intact(lines) <=> WellChained(lines)

DistinctIds(w) == \A i, j \in DOMAIN w : i # j => w[i].id # w[j].id

\* docs/decision-log.md: "An edited, deleted, inserted or reordered line breaks
\* the link of the line after it": of a log that walks as intact, no change to
\* a line that a chained line follows walks as intact.
ChangeIsABreak ==
  Intact(lines) /\ DistinctIds(lines) =>
    \A i \in 1 .. Len(lines) - 1 : Chained(lines[i + 1]) =>
      /\ \A new \in AnyLine :
           new.id # lines[i].id => ~Intact([lines EXCEPT ![i] = new])
      /\ i > 1 => ~Intact(RemoveAt(lines, i))
      /\ \A new \in AnyLine :
           new.id \notin {lines[j].id : j \in DOMAIN lines}
             => ~Intact(InsertAt(lines, i + 1, new))
      /\ ~Intact([lines EXCEPT ![i] = lines[i + 1], ![i + 1] = lines[i]])

\* A head of an intact log is confirmed in it by its seq and hash, and in no
\* log that no longer holds that line (gatelog_chain._head_check).
HeadNamesItsLine ==
  \A i \in DOMAIN lines :
    LET head == [seq |-> LineSeq(lines[i]), id |-> lines[i].id]
    IN Intact(lines) /\ Chained(lines[i]) =>
         /\ HeadConfirmed(lines, head)
         /\ DistinctIds(lines) => ~HeadConfirmed(RemoveAt(lines, i), head)

=============================================================================
