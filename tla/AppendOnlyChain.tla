-------------------------- MODULE AppendOnlyChain --------------------------
(***************************************************************************)
(* What the decision log promises a reader (docs/decision-log.md, "Hash    *)
(* chain"): one sequence of lines that grows at its end by lines chained   *)
(* to their predecessor, and that only ever loses its oldest lines.  Lines *)
(* written before chaining existed come first.                             *)
(***************************************************************************)
EXTENDS LogChain

VARIABLE lines

Init ==
  /\ lines \in Seq(Line)
  /\ \A i \in DOMAIN lines : lines[i].kind = "unchained"

\* `new` is chained after the last line and is no line the log already has.
Follows(new) ==
  /\ new \in Line /\ Chained(new)
  /\ [seq |-> new.seq, prev |-> new.prev] = ChainAfter(LastLine(lines))
  /\ \A i \in DOMAIN lines : lines[i].id # new.id

AppendLine ==
  /\ lines' # <<>>
  /\ Follows(Last(lines'))
  /\ lines' = Append(lines, Last(lines'))

\* The rotated file is replaced by the one that was current.
DropOldest ==
  \E k \in 1 .. Len(lines) - 1 : lines' = SubSeq(lines, k + 1, Len(lines))

Next == AppendLine \/ DropOldest

Spec == Init /\ [][Next]_lines

\* The promise the verifier relies on.
AlwaysIntact == Intact(lines)

=============================================================================
