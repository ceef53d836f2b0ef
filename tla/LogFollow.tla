----------------------------- MODULE LogFollow -----------------------------
(***************************************************************************)
(* `chock status --only log --follow` (gatelog_read.follow): a reader that *)
(* polls the current log file and remembers, by name, how far it has read, *)
(* while the writers append to the file and rotate it away.                *)
(*                                                                         *)
(* Every line is one unit long, so an offset counts lines.  The writers'   *)
(* locking and chaining is DecisionLog's subject: here they only append,   *)
(* and move a full file out of the way.                                    *)
(***************************************************************************)
EXTENDS Integers, Sequences, SequencesExt

CONSTANTS
  RotateAt,  \* a file of more than this many lines is rotated away
  MaxLines   \* bound: lines ever written

ASSUME BoundsAssumption == RotateAt \in Nat \ {0} /\ MaxLines \in Nat \ {0}

VARIABLES
  file,     \* the current file's lines, numbered in the order of writing
  present,  \* whether the current file exists
  written,  \* how many lines were ever written
  fpc,      \* where the follower is
  offset,   \* how far it has read the file of that name; 0 when it has no entry
  size,     \* the size it took before opening the file
  start,    \* where it will read from
  printed,  \* the lines it has printed, in order
  before    \* history: the lines written before it started

fileVars == <<file, present, written>>
readVars == <<offset, size, start, printed, before>>
followVars == <<file, present, written, fpc, offset, size, start, printed,
                before>>

FStage == {"start", "sleep", "stat", "open", "dead"}

FollowInit ==
  /\ file = <<>> /\ present = FALSE /\ written = 0
  /\ fpc = "start" /\ offset = 0 /\ size = 0 /\ start = 0 /\ printed = <<>>
  /\ before = 0

-----------------------------------------------------------------------------

\* A writer moves a full log away (the lock's holder, before it writes).
RotateFile ==
  /\ Len(file) > RotateAt
  /\ written < MaxLines
  /\ file' = <<>> /\ present' = FALSE
  /\ UNCHANGED <<written, fpc, readVars>>

WriteLine ==
  /\ written < MaxLines
  /\ file' = Append(file, written + 1)
  /\ present' = TRUE
  /\ written' = written + 1
  /\ UNCHANGED <<fpc, readVars>>

\* Before the loop: the file's size where it exists, so that only what is
\* written from now on is printed.
StartFollowing ==
  /\ fpc = "start"
  /\ fpc' = "sleep"
  /\ offset' = Len(file)
  /\ before' = written
  /\ UNCHANGED <<fileVars, size, start, printed>>

\* `paths` lists the file only when it exists; a poll without it does nothing.
Poll ==
  /\ fpc = "sleep"
  /\ present
  /\ fpc' = "stat"
  /\ UNCHANGED <<fileVars, readVars>>

\* A file that shrank was rotated: the current file started again.
Stat ==
  /\ fpc = "stat" /\ present
  /\ fpc' = "open"
  /\ size' = Len(file)
  /\ start' = IF Len(file) < offset THEN 0 ELSE offset
  /\ UNCHANGED <<fileVars, offset, printed, before>>

\* What one read returns: up to the size that was taken.
Chunk == SubSeq(file, start + 1, IF size < Len(file) THEN size ELSE Len(file))

\* Slips to be noticed: what was written after the stat is printed, and again
\* by the next poll; the offset is moved to the end of the file as it is now.
ReadToEnd ==
  /\ fpc = "open" /\ present
  /\ fpc' = "sleep"
  /\ printed' = printed \o SubSeq(file, start + 1, Len(file))
  /\ offset' = size
  /\ UNCHANGED <<fileVars, size, start, before>>

SkipToEnd ==
  /\ fpc = "open" /\ present
  /\ fpc' = "sleep"
  /\ printed' = printed \o Chunk
  /\ offset' = Len(file)
  /\ UNCHANGED <<fileVars, size, start, before>>

\* The file by that name is opened again and read up to the size taken; what
\* was read is printed and the offset moves past it.
Read ==
  /\ fpc = "open" /\ present
  /\ fpc' = "sleep"
  /\ printed' = printed \o Chunk
  /\ offset' = start + Len(Chunk)
  /\ UNCHANGED <<fileVars, size, start, before>>

\* The name is gone between the listing and the stat, or before the open: the
\* FileNotFoundError is nobody's to catch and ends the command.
FileVanished ==
  /\ fpc \in {"stat", "open"} /\ ~present
  /\ fpc' = "dead"
  /\ UNCHANGED <<fileVars, readVars>>

Follower == StartFollowing \/ Poll \/ Stat \/ Read \/ FileVanished

FollowNext == RotateFile \/ WriteLine \/ Follower

FollowSpec == FollowInit /\ [][FollowNext]_followVars

\* The follower polls again every FOLLOW_INTERVAL.
FollowFairSpec == FollowSpec /\ WF_followVars(Follower)

-----------------------------------------------------------------------------

FollowTypeOK ==
  /\ file \in Seq(1 .. MaxLines) /\ present \in BOOLEAN
  /\ written \in 0 .. MaxLines
  /\ fpc \in FStage
  /\ offset \in 0 .. MaxLines /\ size \in 0 .. MaxLines
  /\ start \in 0 .. offset /\ before \in 0 .. written
  /\ printed \in Seq(1 .. MaxLines)

\* Whatever rotates under the reader, it prints no line twice and none out of
\* the order they were written in.
PrintedOnceInOrder ==
  \A i, j \in DOMAIN printed : i < j => printed[i] < printed[j]

\* The place the follower goes on from, and whether every record of the file up
\* to there was printed or older than the follower.
Place == IF fpc = "open" THEN start ELSE offset
NothingLeftBehind ==
  /\ Place <= Len(file)
  /\ \A i \in 1 .. Place : file[i] <= before \/ file[i] \in ToSet(printed)

\* "Print each new record ... as it is written": a record written after the
\* follower started is printed, unless it leaves the file before that or the
\* follower ends, where the follower's place is in the file it is reading.  (A
\* new file that has already grown past the place hides its first lines.)
LineAheadIsPrinted ==
  \A n \in 1 .. MaxLines :
    (fpc # "start" /\ n > before /\ n \in ToSet(file) /\ NothingLeftBehind)
      ~> (n \in ToSet(printed) \/ n \notin ToSet(file) \/ fpc = "dead")

=============================================================================
