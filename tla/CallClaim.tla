----------------------------- MODULE CallClaim -----------------------------
(***************************************************************************)
(* `log_write` (gate/runner/journal.py): which of the hooks that judge one *)
(* tool call write a line.  A client starts one hook per policy; a plain   *)
(* allow is written by the one that creates the call's claim file, a       *)
(* finding by the hook that made it.  Where the client gives the call no   *)
(* id, each hook names the claim file by the second in which it looked at  *)
(* the clock.  How a line gets into the file is DecisionLog's subject:     *)
(* here appending is one step that may fail.                               *)
(***************************************************************************)
EXTENDS Integers

CONSTANTS
  Hooks,         \* the hook processes
  Calls,         \* the tool calls they judge
  CallOf,        \* the call each hook judges
  KeyOf,         \* what each call is known by: its tool_use_id or, without
                 \* one, session and target, which two calls may share
  Timed,         \* the keys without an id, whose claim names add the second
  Pruners,       \* the claim names whose creation prunes old claims
  Timeout,       \* the client's timeout for the hooks of a call
  ClaimSeconds,  \* how long a claim is kept (LOG_CLAIM_SECONDS)
  MaxTime,       \* bound: the clock
  Faults         \* claim: no claim file can be made; append: the line cannot
                 \* be appended; crash: the hook is killed

Levels == {"off", "info", "debug"}
Keys == {KeyOf[c] : c \in Calls}
NoTime == -1
Stamps == {NoTime} \cup 0 .. MaxTime
Names == Keys \X Stamps

ASSUME InputAssumption ==
  /\ CallOf \in [Hooks -> Calls]
  /\ Timed \subseteq Keys
  /\ Pruners \subseteq Names
  /\ Faults \subseteq {"claim", "append", "crash"}
ASSUME TimeAssumption ==
  /\ Timeout \in Nat /\ ClaimSeconds \in Nat /\ MaxTime \in Nat
  /\ Timeout <= ClaimSeconds  \* "a claim outlives every hook of its call"

VARIABLES
  level,    \* the log level in force
  now,      \* the clock
  began,    \* when the client made each call, NoTime before
  claims,   \* the claim files: when each was made, NoTime where there is none
  pc,       \* where each hook is
  stamp,    \* the second a hook put into its claim's name, NoTime if none
  verdict,  \* what it judged: allow, or a finding that is logged as one
  named,    \* whether its line still names its policy
  log,      \* the hooks whose line was appended, with the line's fields
  unclaimed \* history: the hooks whose claim file could not be made

vars == <<level, now, began, claims, pc, stamp, verdict, named, log, unclaimed>>

Stage == {"ready", "judged", "claim", "append", "done", "failed", "dead"}
Verdicts == {"allow", "fires"}

Key(h) == KeyOf[CallOf[h]]
Name(h) == <<Key(h), stamp[h]>>

Init ==
  /\ level \in Levels
  /\ now = 0
  /\ began = [c \in Calls |-> NoTime]
  /\ claims = [n \in Names |-> NoTime]
  /\ pc = [h \in Hooks |-> "ready"]
  /\ stamp = [h \in Hooks |-> NoTime]
  /\ verdict = [h \in Hooks |-> "allow"]
  /\ named = [h \in Hooks |-> TRUE]
  /\ log = {}
  /\ unclaimed = {}

-----------------------------------------------------------------------------

\* The clock moves; a hook its client has waited Timeout for has been killed.
Tick ==
  /\ now < MaxTime
  /\ now' = now + 1
  /\ pc' = [h \in Hooks |->
              IF began[CallOf[h]] # NoTime /\ now' - began[CallOf[h]] > Timeout
                 /\ pc[h] \notin {"done", "failed"}
              THEN "dead" ELSE pc[h]]
  /\ UNCHANGED <<level, began, claims, stamp, verdict, named, log, unclaimed>>

MakeCall(c) ==
  /\ began[c] = NoTime
  /\ began' = [began EXCEPT ![c] = now]
  /\ UNCHANGED <<level, now, claims, pc, stamp, verdict, named, log, unclaimed>>

\* A hook has judged its call and calls log_write.
Judge(h) ==
  /\ pc[h] = "ready" /\ began[CallOf[h]] # NoTime
  /\ pc' = [pc EXCEPT ![h] = "judged"]
  /\ \E v \in Verdicts : verdict' = [verdict EXCEPT ![h] = v]
  /\ UNCHANGED <<level, now, began, claims, stamp, named, log, unclaimed>>

Admitted == level = "debug" \/ level = "info"

\* The level is off: nothing is written.  (An agent's allowed action carries
\* its target, so at info it is admitted like a finding.)
NotAdmitted(h) ==
  /\ pc[h] = "judged" /\ ~Admitted
  /\ pc' = [pc EXCEPT ![h] = "done"]
  /\ UNCHANGED <<level, now, began, claims, stamp, verdict, named, log, unclaimed>>

\* A finding is no plain allow: it is written whatever the claim.
WriteFinding(h) ==
  /\ pc[h] = "judged" /\ Admitted /\ verdict[h] = "fires"
  /\ pc' = [pc EXCEPT ![h] = "append"]
  /\ UNCHANGED <<level, now, began, claims, stamp, verdict, named, log, unclaimed>>

\* A plain allow: the hook works out the name of its call's claim file, from the
\* clock where the call has no id.  It makes the file a moment later.
NameClaim(h) ==
  /\ pc[h] = "judged" /\ Admitted /\ verdict[h] = "allow"
  /\ pc' = [pc EXCEPT ![h] = "claim"]
  /\ stamp' = [stamp EXCEPT ![h] = IF Key(h) \in Timed THEN now ELSE NoTime]
  /\ UNCHANGED <<level, now, began, claims, verdict, named, log, unclaimed>>

\* A slip to be noticed: a claim is pruned while a hook of its call still runs.
KeptTooShort(n) == IF claims[n] # NoTime /\ claims[n] <= now - ClaimSeconds
                   THEN NoTime ELSE claims[n]

\* The claims left after the pruning that creating one may set off.
Kept(n) == IF claims[n] # NoTime /\ claims[n] < now - ClaimSeconds
           THEN NoTime ELSE claims[n]

\* O_EXCL: this hook made the call's claim file; its line names no policy.
Claim(h) ==
  /\ pc[h] = "claim" /\ claims[Name(h)] = NoTime
  /\ claims' = [n \in Names |-> IF n = Name(h) THEN now
                                ELSE IF Name(h) \in Pruners THEN Kept(n)
                                ELSE claims[n]]
  /\ named' = [named EXCEPT ![h] = FALSE]
  /\ pc' = [pc EXCEPT ![h] = "append"]
  /\ UNCHANGED <<level, now, began, stamp, verdict, log, unclaimed>>

\* A slip to be noticed: every plain allow loses its policy's name.
ClaimedNameless(h) ==
  /\ pc[h] = "claim" /\ claims[Name(h)] # NoTime
  /\ pc' = [pc EXCEPT ![h] = IF level = "info" THEN "done" ELSE "append"]
  /\ named' = [named EXCEPT ![h] = FALSE]
  /\ UNCHANGED <<level, now, began, claims, stamp, verdict, log, unclaimed>>

\* The claim is another hook's: nothing to write at info, its own at debug.
Claimed(h) ==
  /\ pc[h] = "claim" /\ claims[Name(h)] # NoTime
  /\ pc' = [pc EXCEPT ![h] = IF level = "info" THEN "done" ELSE "append"]
  /\ UNCHANGED <<level, now, began, claims, stamp, verdict, named, log, unclaimed>>

\* A slip to be noticed: a claim that cannot be made counts as another hook's.
ClaimFailsQuietly(h) ==
  /\ "claim" \in Faults
  /\ pc[h] = "claim"
  /\ unclaimed' = unclaimed \cup {h}
  /\ pc' = [pc EXCEPT ![h] = "done"]
  /\ UNCHANGED <<level, now, began, claims, stamp, verdict, named, log>>

\* No claim file can be made: "a duplicate line beats a lost one".
ClaimFails(h) ==
  /\ "claim" \in Faults
  /\ pc[h] = "claim"
  /\ named' = [named EXCEPT ![h] = FALSE]
  /\ unclaimed' = unclaimed \cup {h}
  /\ pc' = [pc EXCEPT ![h] = "append"]
  /\ UNCHANGED <<level, now, began, claims, stamp, verdict, log>>

AppendLine(h) ==
  /\ pc[h] = "append"
  /\ log' = log \cup {[hook |-> h, key |-> Key(h), stamp |-> stamp[h],
                       verdict |-> verdict[h], named |-> named[h]]}
  /\ pc' = [pc EXCEPT ![h] = "done"]
  /\ UNCHANGED <<level, now, began, claims, stamp, verdict, named, unclaimed>>

\* log_append raises; the hook's callers let the decision stand.
AppendFails(h) ==
  /\ "append" \in Faults
  /\ pc[h] = "append"
  /\ pc' = [pc EXCEPT ![h] = "failed"]
  /\ UNCHANGED <<level, now, began, claims, stamp, verdict, named, log, unclaimed>>

Crash(h) ==
  /\ "crash" \in Faults
  /\ pc[h] \in {"ready", "judged", "claim", "append"} /\ began[CallOf[h]] # NoTime
  /\ pc' = [pc EXCEPT ![h] = "dead"]
  /\ UNCHANGED <<level, now, began, claims, stamp, verdict, named, log, unclaimed>>

Step(h) ==
  \/ Judge(h) \/ NotAdmitted(h) \/ WriteFinding(h) \/ NameClaim(h)
  \/ Claim(h) \/ Claimed(h) \/ ClaimFails(h) \/ AppendLine(h) \/ AppendFails(h)

Next ==
  \/ Tick
  \/ \E c \in Calls : MakeCall(c)
  \/ \E h \in Hooks : Step(h) \/ Crash(h)

Spec == Init /\ [][Next]_vars

-----------------------------------------------------------------------------

TypeOK ==
  /\ level \in Levels
  /\ now \in 0 .. MaxTime
  /\ began \in [Calls -> {NoTime} \cup 0 .. MaxTime]
  /\ claims \in [Names -> Stamps]
  /\ pc \in [Hooks -> Stage]
  /\ stamp \in [Hooks -> Stamps]
  /\ verdict \in [Hooks -> Verdicts]
  /\ named \in [Hooks -> BOOLEAN]
  /\ log \subseteq [hook : Hooks, key : Keys, stamp : Stamps,
                    verdict : Verdicts, named : BOOLEAN]
  /\ unclaimed \subseteq Hooks

\* Two lines of one call, as far as chock can tell: under one id, of calls made at
\* one time (a client does not give an id twice), or, without an id, written by
\* hooks that named their claim in the same second.
Together(k) == \A c, d \in {e \in Calls : KeyOf[e] = k} : began[c] = began[d]
OfOneCall(l, m) ==
  /\ l.key = m.key
  /\ IF l.key \in Timed THEN l.stamp = m.stamp ELSE Together(l.key)

\* The lines of hooks that had a claim file to go by: a hook that can make none
\* adds its own ("a duplicate line beats a lost one").
ByClaim == {l \in log : l.hook \notin unclaimed}

\* At info the allow of a call is one line however many hooks race to write it,
\* claims being pruned meanwhile (docs/decision-log.md, "Levels").  A call without
\* an id whose hooks come to the claim in different seconds has a line for each.
AllowIsOneLine ==
  level = "info" =>
    \A l, m \in ByClaim :
      l.verdict = "allow" /\ m.verdict = "allow" /\ OfOneCall(l, m) => l = m

\* A plain allow names no policy; at debug every hook of a call but the one that
\* made the claim still writes its own line, naming its policy, as a finding's
\* line always does.
OnlyTheClaimantIsNameless ==
  /\ \A l \in log : l.verdict = "fires" => l.named
  /\ \A l, m \in ByClaim : ~l.named /\ ~m.named /\ OfOneCall(l, m) => l = m

\* A call that some hook let through has its line, or the hook that wrote for
\* all who go by the claim is about to append it, or it failed or was killed
\* there.  (That last case is a lost line: the claim outlives the hook that made
\* it, and no other hook of the call writes.)
HooksOf(n) == {h \in Hooks : Name(h) = n}
PlainLines(n) == {l \in log : <<l.key, l.stamp>> = n /\ l.verdict = "allow"}
LetThrough(n) == \E h \in HooksOf(n) : verdict[h] = "allow" /\ pc[h] = "done"
AllowIsLogged ==
  \A n \in Names :
    (level # "off" /\ LetThrough(n))
      => \/ PlainLines(n) # {}
         \/ \E h \in HooksOf(n) : ~named[h] /\ pc[h] \in {"append", "failed", "dead"}

=============================================================================
