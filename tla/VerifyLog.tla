----------------------------- MODULE VerifyLog -----------------------------
(***************************************************************************)
(* `chock status --verify-log` (gatelog_chain.py) run while hooks append   *)
(* and rotate.  It takes no lock: it looks which of the two files exist,   *)
(* then reads the rotated one, then the current one, and walks what it     *)
(* read as one chain.  A person may keep the head it prints.               *)
(***************************************************************************)
EXTENDS DecisionLog

VARIABLES
  vpc,     \* where the verifier is
  vfiles,  \* the files `chains` found
  vlines,  \* the lines read so far
  vbreak,  \* the first break of the finished walk, or "none"
  vhead,   \* the head of the finished walk
  kept,    \* the head somebody kept
  raced    \* history: the log was rotated since the verifier began

verifyVars == <<vpc, vfiles, vlines, vbreak, vhead, kept>>
allVars == <<vars, verifyVars, raced>>

VInit ==
  /\ Init
  /\ vpc = "idle" /\ vfiles = {} /\ vlines = <<>>
  /\ vbreak = "none" /\ vhead = NoHead
  /\ kept = NoHead /\ raced = FALSE

Reset ==
  /\ vlines' = <<>> /\ vbreak' = "none" /\ vhead' = NoHead /\ raced' = FALSE

LookRotated ==
  /\ vpc \in {"idle", "done"}
  /\ vpc' = "lookCurrent"
  /\ vfiles' = IF rotated = <<>> THEN {} ELSE {"rotated"}
  /\ Reset
  /\ UNCHANGED <<vars, kept>>

LookCurrent ==
  /\ vpc = "lookCurrent"
  /\ vpc' = "readRotated"
  /\ vfiles' = vfiles \cup (IF present THEN {"current"} ELSE {})
  /\ UNCHANGED <<vars, vlines, vbreak, vhead, kept, raced>>

ReadRotated ==
  /\ vpc = "readRotated"
  /\ vpc' = "readCurrent"
  /\ vlines' = IF "rotated" \in vfiles THEN rotated ELSE <<>>
  /\ UNCHANGED <<vars, vfiles, vbreak, vhead, kept, raced>>

\* The rotated file's break comes first; then a current file that is gone by
\* now; then whatever the current file's own lines show.
Conclude(lines, missing) ==
  /\ vbreak' = IF missing /\ Intact(vlines) THEN "unreadable" ELSE FirstBreak(lines)
  /\ vhead' = IF missing THEN NoHead ELSE HeadOf(lines)

ReadCurrent ==
  /\ vpc = "readCurrent"
  /\ vpc' = "done"
  /\ LET listed == "current" \in vfiles
         lines == IF listed THEN vlines \o current ELSE vlines
     IN  vlines' = lines /\ Conclude(lines, listed /\ ~present)
  /\ UNCHANGED <<vars, vfiles, kept, raced>>

\* A person keeps the head that was printed.
KeepHead ==
  /\ vpc = "done" /\ vhead # NoHead /\ kept # vhead
  /\ kept' = vhead
  /\ UNCHANGED <<vars, vpc, vfiles, vlines, vbreak, vhead, raced>>

VerifierStep ==
  LookRotated \/ LookCurrent \/ ReadRotated \/ ReadCurrent \/ KeepHead

WriterStep ==
  /\ Next
  /\ raced' = (raced \/ (vpc \notin {"idle", "done"} /\ present /\ ~present'))
  /\ UNCHANGED verifyVars

VNext == WriterStep \/ VerifierStep

VSpec == VInit /\ [][VNext]_allVars

-----------------------------------------------------------------------------

\* docs/decision-log.md: "History that is missing or rotated away is not a
\* break".  A walk that no rotation overtook reports none, although it reads the
\* files one after the other while lines are added, unless a writer went on
\* without the lock.  (One that was overtaken may report one.)
BreakOnlyIfOvertaken == vpc = "done" /\ ~raced => vbreak = "none"

\* --head: a head somebody kept is confirmed by the log as it stands until its
\* line has left with the rotated file; later appends, crashes and rotations
\* do not lose it earlier.
KeptHeadOnlyAgesOut ==
  kept # NoHead => \/ HeadConfirmed(Window, kept)
                   \/ Window # <<>> /\ Window[1].id > kept.id

=============================================================================
