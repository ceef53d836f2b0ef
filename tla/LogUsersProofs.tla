--------------------------- MODULE LogUsersProofs ---------------------------
(***************************************************************************)
(* The two users of the decision log that take no lock: the hooks of one   *)
(* call, which settle by a claim file which of them writes the allow, and  *)
(* the follower, which polls a file that is rotated under it.  For any     *)
(* number of hooks, calls and lines.                                       *)
(***************************************************************************)
EXTENDS CallClaim, LogFollow, TLAPS

\* The lines in the log are those of hooks that are done, as they left them.
LineOf(h) == [hook |-> h, key |-> Key(h), stamp |-> stamp[h], verdict |-> verdict[h],
              named |-> named[h]]

Written(h) == LineOf(h) \in log

\* The hooks that made their call's claim file.
Claimants == {h \in Hooks : ~named[h] /\ h \notin unclaimed}

ClaimTypeInv ==
  /\ level \in Levels
  /\ now \in 0 .. MaxTime
  /\ began \in [Calls -> {NoTime} \cup Nat]
  /\ claims \in [Names -> {NoTime} \cup Nat]
  /\ pc \in [Hooks -> Stage]
  /\ stamp \in [Hooks -> Stamps]
  /\ verdict \in [Hooks -> Verdicts]
  /\ named \in [Hooks -> BOOLEAN]
  /\ unclaimed \subseteq Hooks
  /\ \A c \in Calls : began[c] <= now

\* A hook that runs is within the client's timeout.
InTimeInv ==
  \A h \in Hooks :
    /\ pc[h] \in {"judged", "claim", "append"} => began[CallOf[h]] # NoTime
    /\ pc[h] \in {"ready", "judged", "claim", "append"} /\ began[CallOf[h]] # NoTime
         => now <= began[CallOf[h]] + Timeout

\* A hook looks at the clock while its call is judged, and only for a call that
\* has no id.
StampInv ==
  \A h \in Hooks :
    /\ pc[h] \in {"ready", "judged"} => stamp[h] = NoTime
    /\ pc[h] = "claim" /\ Key(h) \in Timed => stamp[h] # NoTime
    /\ stamp[h] # NoTime => /\ Key(h) \in Timed
                            /\ began[CallOf[h]] # NoTime
                            /\ began[CallOf[h]] <= stamp[h] /\ stamp[h] <= now

\* What a hook's line says follows from what it judged and claimed.
LineInv ==
  /\ \A h \in Hooks :
       /\ pc[h] \in {"ready", "judged", "claim"} => named[h]
       /\ verdict[h] = "fires" => named[h]
       /\ pc[h] = "claim" => verdict[h] = "allow"
       /\ ~named[h] /\ Key(h) \in Timed => stamp[h] # NoTime
       /\ ~named[h] /\ pc[h] = "done" => Written(h)
       /\ level = "info" /\ verdict[h] = "allow" /\ pc[h] = "append" => ~named[h]
  /\ \A l \in log :
       /\ l.hook \in Hooks /\ l = LineOf(l.hook) /\ pc[l.hook] = "done"
       /\ level = "info" /\ l.verdict = "allow" => ~l.named

\* The time from which the hooks that go by a claim of this name run.
Since(h) == IF stamp[h] = NoTime THEN began[CallOf[h]] ELSE stamp[h]

\* A claim stands, or it was made so long ago that no hook of its name runs.
StandsInv ==
  \A h \in Claimants :
    /\ began[CallOf[h]] # NoTime
    /\ \/ claims[Name(h)] # NoTime /\ claims[Name(h)] >= Since(h)
       \/ now > Since(h) + ClaimSeconds

\* Two hooks that made a claim of the same name judged calls of different times.
ApartInv ==
  \A g, h \in Claimants : g # h /\ Name(g) = Name(h) => Since(g) # Since(h)

\* Behind a claim, and behind an allow that went without a line, is a hook that
\* wrote or was to write for those of its name.
BehindInv ==
  /\ \A n \in Names : claims[n] # NoTime => \E g \in HooksOf(n) : ~named[g]
  /\ \A h \in Hooks :
       level # "off" /\ verdict[h] = "allow" /\ pc[h] = "done"
         => Written(h) \/ \E g \in HooksOf(Name(h)) : ~named[g]

ClaimInv ==
  /\ ClaimTypeInv /\ InTimeInv /\ StampInv /\ LineInv
  /\ StandsInv /\ ApartInv /\ BehindInv

-----------------------------------------------------------------------------

LEMMA KeyType == \A h \in Hooks : CallOf[h] \in Calls /\ Key(h) \in Keys
BY InputAssumption DEF Key, Keys

LEMMA NameType ==
  ASSUME stamp \in [Hooks -> Stamps]
  PROVE  \A h \in Hooks : Name(h) \in Names
BY KeyType DEF Name, Names

LEMMA ClaimStart == Init => ClaimInv
<1> SUFFICES ASSUME Init PROVE ClaimInv
  OBVIOUS
<1>1. ClaimTypeInv
  BY KeyType, TimeAssumption DEF Init, ClaimTypeInv, NoTime, Stage, Verdicts, Stamps
<1>2. InTimeInv /\ StampInv
  BY KeyType DEF Init, InTimeInv, StampInv
<1>3. Claimants = {} /\ LineInv
  BY DEF Init, Claimants, LineInv
<1>4. StandsInv /\ ApartInv
  BY <1>3 DEF StandsInv, ApartInv
<1>5. BehindInv
  BY DEF Init, BehindInv
<1> QED
  BY <1>1, <1>2, <1>3, <1>4, <1>5 DEF ClaimInv

\* A step of one hook, or its end, leaves the other hooks as they were.
LEMMA OneHookMoves ==
  ASSUME ClaimTypeInv, NEW h \in Hooks, Step(h) \/ Crash(h)
  PROVE  /\ UNCHANGED <<level, now, began>>
         /\ \A g \in Hooks : g # h => /\ pc'[g] = pc[g] /\ verdict'[g] = verdict[g]
                                      /\ named'[g] = named[g] /\ stamp'[g] = stamp[g]
         /\ \/ pc[h] = "judged" /\ stamp' = [stamp EXCEPT ![h] = IF Key(h) \in Timed
                                                                 THEN now ELSE NoTime]
               /\ pc'[h] = "claim" /\ named' = named
            \/ stamp' = stamp /\ pc'[h] # "claim"
<1>1. UNCHANGED <<level, now, began>>
  BY DEF Step, Crash, Judge, NotAdmitted, WriteFinding, NameClaim, Claim, Claimed,
         ClaimFails, AppendLine, AppendFails
<1>2. \A g \in Hooks : g # h => pc'[g] = pc[g] /\ verdict'[g] = verdict[g]
  BY DEF Step, Crash, Judge, NotAdmitted, WriteFinding, NameClaim, Claim, Claimed,
         ClaimFails, AppendLine, AppendFails, ClaimTypeInv
<1>3. \A g \in Hooks : g # h => named'[g] = named[g] /\ stamp'[g] = stamp[g]
  BY DEF Step, Crash, Judge, NotAdmitted, WriteFinding, NameClaim, Claim, Claimed,
         ClaimFails, AppendLine, AppendFails, ClaimTypeInv
<1>4. \/ pc[h] = "judged" /\ stamp' = [stamp EXCEPT ![h] = IF Key(h) \in Timed
                                                           THEN now ELSE NoTime]
         /\ pc'[h] = "claim" /\ named' = named
      \/ stamp' = stamp /\ pc'[h] # "claim"
  BY DEF Step, Crash, Judge, NotAdmitted, WriteFinding, NameClaim, Claim, Claimed,
         ClaimFails, AppendLine, AppendFails, ClaimTypeInv
<1> QED
  BY <1>1, <1>2, <1>3, <1>4

\* What the clock does to the hooks: some of those that run are killed.
LEMMA TickEffect ==
  ASSUME ClaimTypeInv, Tick
  PROVE  /\ UNCHANGED <<level, began, claims, stamp, verdict, named, log, unclaimed>>
         /\ now' = now + 1 /\ now' \in 0 .. MaxTime
         /\ \A h \in Hooks :
              /\ pc'[h] \in {pc[h], "dead"} /\ pc'[h] \in Stage
              /\ pc[h] = "done" => pc'[h] = "done"
              /\ pc'[h] \in {"ready", "judged", "claim", "append"}
                   => pc'[h] = pc[h] /\ ~(began[CallOf[h]] # NoTime
                                            /\ now' - began[CallOf[h]] > Timeout)
BY TimeAssumption DEF Tick, ClaimTypeInv, Stage

\* The parts of the invariant that a step of any action keeps, one by one.
LEMMA TimeStep ==
  ASSUME ClaimInv, [Next]_vars
  PROVE  ClaimTypeInv' /\ InTimeInv' /\ StampInv'
<1>0. ClaimTypeInv /\ InTimeInv /\ StampInv /\ LineInv /\ Timeout \in Nat
  BY TimeAssumption DEF ClaimInv
<1>1. CASE Tick
  <2>1. ClaimTypeInv'
    <3>1. pc' \in [Hooks -> Stage] /\ \A c \in Calls : began[c] <= now'
      BY <1>0, <1>1, TickEffect DEF Tick, ClaimTypeInv, NoTime
    <3> QED
      BY <1>0, <1>1, <3>1, TickEffect DEF ClaimTypeInv
  <2>2. InTimeInv'
    <3> SUFFICES ASSUME NEW h \in Hooks,
                        pc'[h] \in {"ready", "judged", "claim", "append"}
                 PROVE  /\ pc'[h] \in {"judged", "claim", "append"}
                             => began[CallOf[h]] # NoTime
                        /\ began[CallOf[h]] # NoTime
                             => now' <= began[CallOf[h]] + Timeout
      BY <1>1 DEF InTimeInv, Tick
    <3>1. /\ pc'[h] = pc[h]
          /\ ~(began[CallOf[h]] # NoTime /\ now' - began[CallOf[h]] > Timeout)
      BY <1>0, <1>1, TickEffect
    <3>2. CallOf[h] \in Calls /\ began[CallOf[h]] \in {NoTime} \cup Nat /\ now' \in Nat
      BY <1>0, <1>1, KeyType, TickEffect, TimeAssumption DEF ClaimTypeInv
    <3> QED
      BY <1>0, <3>1, <3>2 DEF InTimeInv, NoTime
  <2>3. StampInv'
    <3> SUFFICES ASSUME NEW h \in Hooks
                 PROVE  /\ pc'[h] \in {"ready", "judged"} => stamp[h] = NoTime
                        /\ pc'[h] = "claim" /\ Key(h) \in Timed => stamp[h] # NoTime
                        /\ stamp[h] # NoTime => /\ Key(h) \in Timed
                                                /\ began[CallOf[h]] # NoTime
                                                /\ began[CallOf[h]] <= stamp[h]
                                                /\ stamp[h] <= now'
      BY <1>0, <1>1, TickEffect DEF StampInv, Key
    <3>1. stamp[h] \in Stamps /\ now' = now + 1 /\ now \in Nat
      BY <1>0, <1>1, TickEffect, TimeAssumption DEF ClaimTypeInv
    <3>2. /\ stamp[h] # NoTime => stamp[h] <= now
          /\ pc'[h] \in {"ready", "judged", "claim"} => pc'[h] = pc[h]
      BY <1>0, <1>1, TickEffect DEF StampInv
    <3>3. stamp[h] # NoTime => stamp[h] <= now'
      BY <3>1, <3>2, TimeAssumption DEF Stamps, NoTime
    <3> QED
      BY <1>0, <3>2, <3>3 DEF StampInv
  <2> QED
    BY <2>1, <2>2, <2>3
<1>2. ASSUME NEW c \in Calls, MakeCall(c) PROVE ClaimTypeInv' /\ InTimeInv' /\ StampInv'
  <2>1. ClaimTypeInv'
    BY <1>0, <1>2, TimeAssumption DEF MakeCall, ClaimTypeInv, NoTime
  <2>2. /\ \A h \in Hooks : CallOf[h] \in Calls /\ began[CallOf[h]] \in {NoTime} \cup Nat
        /\ now \in Nat
    BY <1>0, KeyType, TimeAssumption DEF ClaimTypeInv
  <2>3. \A h \in Hooks : began'[CallOf[h]] = IF CallOf[h] = c THEN now
                                             ELSE began[CallOf[h]]
    BY <1>0, <1>2, <2>2 DEF MakeCall, ClaimTypeInv
  <2>4. InTimeInv'
    BY <1>0, <1>2, <2>2, <2>3 DEF MakeCall, InTimeInv, NoTime
  <2>5. \A h \in Hooks : stamp[h] # NoTime => began'[CallOf[h]] = began[CallOf[h]]
    BY <1>0, <1>2, <2>3 DEF MakeCall, StampInv
  <2>6. StampInv'
    BY <1>0, <1>2, <2>5 DEF MakeCall, StampInv, Key
  <2> QED
    BY <2>1, <2>4, <2>6
<1>3. ASSUME NEW h \in Hooks, Step(h) \/ Crash(h)
      PROVE  ClaimTypeInv' /\ InTimeInv' /\ StampInv'
  <2>1. UNCHANGED <<level, now, began>>
    BY <1>0, <1>3, OneHookMoves
  <2>2. ClaimTypeInv'
    <3>1. pc' \in [Hooks -> Stage] /\ unclaimed' \subseteq Hooks
      BY <1>0, <1>3
      DEF Step, Crash, Judge, NotAdmitted, WriteFinding, NameClaim, Claim, Claimed,
          ClaimFails, AppendLine, AppendFails, ClaimTypeInv, Stage
    <3>2. verdict' \in [Hooks -> Verdicts] /\ named' \in [Hooks -> BOOLEAN]
      BY <1>0, <1>3
      DEF Step, Crash, Judge, NotAdmitted, WriteFinding, NameClaim, Claim, Claimed,
          ClaimFails, AppendLine, AppendFails, ClaimTypeInv
    <3>3. claims' \in [Names -> {NoTime} \cup Nat]
      BY <1>0, <1>3, TimeAssumption
      DEF Step, Crash, Judge, NotAdmitted, WriteFinding, NameClaim, Claim, Claimed,
          ClaimFails, AppendLine, AppendFails, ClaimTypeInv, Kept
    <3>4. stamp' \in [Hooks -> Stamps]
      BY <1>0, <1>3, OneHookMoves DEF ClaimTypeInv, Stamps
    <3> QED
      BY <1>0, <2>1, <3>1, <3>2, <3>3, <3>4 DEF ClaimTypeInv
  <2>3. /\ \A g \in Hooks : g # h => pc'[g] = pc[g] /\ stamp'[g] = stamp[g]
        /\ pc'[h] \in {"judged", "claim", "append"} =>
             pc[h] \in {"ready", "judged", "claim", "append"} /\ began[CallOf[h]] # NoTime
        /\ pc'[h] # "ready" /\ (pc'[h] = "judged" => pc[h] = "ready")
    <3>1. /\ pc'[h] \in {"judged", "claim", "append"} =>
               pc[h] \in {"ready", "judged", "claim", "append"}
                 /\ began[CallOf[h]] # NoTime
          /\ pc'[h] # "ready" /\ (pc'[h] = "judged" => pc[h] = "ready")
      BY <1>0, <1>3
      DEF Step, Crash, Judge, NotAdmitted, WriteFinding, NameClaim, Claim, Claimed,
          ClaimFails, AppendLine, AppendFails, ClaimTypeInv, InTimeInv
    <3> QED
      BY <1>0, <1>3, <3>1, OneHookMoves
  <2>4. InTimeInv'
    BY <1>0, <2>1, <2>3 DEF InTimeInv
  <2>5. StampInv'
    <3> SUFFICES ASSUME NEW g \in Hooks
                 PROVE  /\ pc'[g] \in {"ready", "judged"} => stamp'[g] = NoTime
                        /\ pc'[g] = "claim" /\ Key(g) \in Timed => stamp'[g] # NoTime
                        /\ stamp'[g] # NoTime => /\ Key(g) \in Timed
                                                 /\ began[CallOf[g]] # NoTime
                                                 /\ began[CallOf[g]] <= stamp'[g]
                                                 /\ stamp'[g] <= now
      BY <2>1 DEF StampInv, Key
    <3>1. CASE g = h /\ pc'[h] # "claim"
      <4>1. stamp'[h] = stamp[h]
        BY <1>0, <1>3, <3>1, OneHookMoves DEF ClaimTypeInv
      <4> QED
        BY <1>0, <2>3, <3>1, <4>1 DEF StampInv
    <3>2. CASE g = h /\ pc'[h] = "claim"
      <4>1. /\ pc[h] = "judged"
            /\ stamp'[h] = IF Key(h) \in Timed THEN now ELSE NoTime
        BY <1>0, <1>3, <3>2, OneHookMoves DEF ClaimTypeInv
      <4>2. began[CallOf[h]] # NoTime /\ began[CallOf[h]] <= now
        BY <1>0, <4>1, KeyType DEF InTimeInv, ClaimTypeInv
      <4> QED
        BY <1>0, <3>2, <4>1, <4>2, TimeAssumption DEF ClaimTypeInv, NoTime
    <3>3. CASE g # h
      BY <1>0, <2>3, <3>3 DEF StampInv
    <3> QED
      BY <3>1, <3>2, <3>3
  <2> QED
    BY <2>2, <2>4, <2>5
<1>4. CASE UNCHANGED vars
  BY <1>0, <1>4 DEF vars, ClaimTypeInv, InTimeInv, StampInv, Key
<1> QED
  BY <1>1, <1>2, <1>3, <1>4 DEF Next

LEMMA LineStep ==
  ASSUME ClaimInv, [Next]_vars
  PROVE  LineInv'
<1>0. ClaimTypeInv /\ StampInv /\ LineInv
  BY DEF ClaimInv
<1>1. CASE Tick
  <2>1. \A h \in Hooks : LineOf(h)' = LineOf(h) /\ Written(h)' = Written(h)
    BY <1>0, <1>1, TickEffect DEF LineOf, Written, Key
  <2>2. \A h \in Hooks : /\ pc'[h] \in {"ready", "judged", "claim", "append"} => pc'[h] = pc[h]
                         /\ pc'[h] = "done" <=> pc[h] = "done"
    BY <1>0, <1>1, TickEffect
  <2>3. UNCHANGED <<level, verdict, named, stamp, log>>
    BY <1>0, <1>1, TickEffect
  <2>4. \A h \in Hooks :
          /\ pc'[h] \in {"ready", "judged", "claim"} => named[h]
          /\ pc'[h] = "claim" => verdict[h] = "allow"
          /\ ~named[h] /\ pc'[h] = "done" => Written(h)'
          /\ level = "info" /\ verdict[h] = "allow" /\ pc'[h] = "append" => ~named[h]
    BY <1>0, <2>1, <2>2 DEF LineInv
  <2> QED
    BY <1>0, <2>1, <2>2, <2>3, <2>4 DEF LineInv, Key
<1>2. ASSUME NEW c \in Calls, MakeCall(c) PROVE LineInv'
  BY <1>0, <1>2 DEF MakeCall, LineInv, LineOf, Written, Key
<1>3. ASSUME NEW h \in Hooks, Step(h) \/ Crash(h) PROVE LineInv'
  <2>1. /\ level' = level
        /\ \A g \in Hooks : g # h => /\ pc'[g] = pc[g] /\ verdict'[g] = verdict[g]
                                     /\ named'[g] = named[g] /\ stamp'[g] = stamp[g]
    BY <1>0, <1>3, OneHookMoves
  <2>2. /\ pc[h] # "done"
        /\ pc'[h] \in {"ready", "judged", "claim"} => named'[h]
        /\ verdict'[h] = "fires" => named'[h]
        /\ pc'[h] = "claim" => verdict'[h] = "allow"
        /\ level = "info" /\ verdict'[h] = "allow" /\ pc'[h] = "append" => ~named'[h]
    <3>1. /\ pc[h] # "done"
          /\ pc'[h] = "claim" => verdict'[h] = "allow"
          /\ level = "info" /\ verdict'[h] = "allow" /\ pc'[h] = "append" => ~named'[h]
      BY <1>0, <1>3
      DEF Step, Crash, Judge, NotAdmitted, WriteFinding, NameClaim, Claim, Claimed,
          ClaimFails, AppendLine, AppendFails, ClaimTypeInv, LineInv, Stage
    <3>2. /\ pc'[h] \in {"ready", "judged", "claim"} => named'[h]
          /\ verdict'[h] = "fires" => named'[h]
      BY <1>0, <1>3
      DEF Step, Crash, Judge, NotAdmitted, WriteFinding, NameClaim, Claim, Claimed,
          ClaimFails, AppendLine, AppendFails, ClaimTypeInv, LineInv, Stage
    <3> QED
      BY <3>1, <3>2
  <2>3. \/ log' = log \cup {LineOf(h)} /\ pc'[h] = "done" /\ pc[h] = "append"
           /\ verdict'[h] = verdict[h] /\ named'[h] = named[h] /\ stamp'[h] = stamp[h]
        \/ log' = log /\ (~named'[h] => pc'[h] # "done")
    BY <1>0, <1>3
    DEF Step, Crash, Judge, NotAdmitted, WriteFinding, NameClaim, Claim, Claimed,
        ClaimFails, AppendLine, AppendFails, ClaimTypeInv, LineInv, LineOf
  <2>4. ~named'[h] /\ Key(h) \in Timed => stamp'[h] # NoTime
    <3>1. ~named'[h] => stamp' = stamp /\ (~named[h] \/ pc[h] = "claim")
      BY <1>0, <1>3
      DEF Step, Crash, Judge, NotAdmitted, WriteFinding, NameClaim, Claim, Claimed,
          ClaimFails, AppendLine, AppendFails, ClaimTypeInv, LineInv
    <3> QED
      BY <1>0, <3>1 DEF LineInv, StampInv
  <2>5. ASSUME NEW g \in Hooks, g # h
        PROVE  LineOf(g)' = LineOf(g) /\ (Written(g) => Written(g)')
    BY <2>1, <2>3, <2>5 DEF LineOf, Written, Key
  <2>6. ASSUME log' = log \cup {LineOf(h)} /\ verdict'[h] = verdict[h]
               /\ named'[h] = named[h] /\ stamp'[h] = stamp[h]
        PROVE  LineOf(h)' = LineOf(h) /\ Written(h)'
    BY <2>6 DEF LineOf, Written, Key
  <2>7. ASSUME NEW g \in Hooks
        PROVE  /\ pc'[g] \in {"ready", "judged", "claim"} => named'[g]
               /\ verdict'[g] = "fires" => named'[g]
               /\ pc'[g] = "claim" => verdict'[g] = "allow"
               /\ ~named'[g] /\ Key(g)' \in Timed => stamp'[g] # NoTime
               /\ ~named'[g] /\ pc'[g] = "done" => Written(g)'
               /\ level' = "info" /\ verdict'[g] = "allow" /\ pc'[g] = "append"
                    => ~named'[g]
    <3>0. Key(g)' = Key(g)
      BY DEF Key
    <3>1. CASE g = h
      BY <2>1, <2>2, <2>3, <2>4, <2>6, <3>0, <3>1
    <3>2. CASE g # h
      BY <1>0, <2>1, <2>5, <2>7, <3>0, <3>2 DEF LineInv
    <3> QED
      BY <3>1, <3>2
  <2>8. ASSUME NEW l \in log'
        PROVE  /\ l.hook \in Hooks /\ l = LineOf(l.hook)' /\ pc'[l.hook] = "done"
               /\ level' = "info" /\ l.verdict = "allow" => ~l.named
    <3>1. CASE l \in log
      <4>1. l.hook \in Hooks /\ l.hook # h
        BY <1>0, <2>2, <3>1 DEF LineInv
      <4> QED
        BY <1>0, <2>1, <2>5, <3>1, <4>1 DEF LineInv
    <3>2. CASE l \notin log
      <4>1. /\ l = LineOf(h) /\ pc'[h] = "done" /\ pc[h] = "append"
            /\ LineOf(h)' = LineOf(h)
        BY <2>3, <2>6, <2>8, <3>2
      <4>2. l.hook = h /\ l.verdict = verdict[h] /\ l.named = named[h]
        BY <4>1 DEF LineOf
      <4> QED
        BY <1>0, <2>1, <4>1, <4>2 DEF LineInv
    <3> QED
      BY <3>1, <3>2
  <2> QED
    BY <2>7, <2>8 DEF LineInv
<1>4. CASE UNCHANGED vars
  BY <1>0, <1>4 DEF vars, LineInv, LineOf, Written, Key
<1> QED
  BY <1>1, <1>2, <1>3, <1>4 DEF Next

\* A hook that makes the claim file finds every earlier claim of that name too
\* old to be of a call made at the same time as its own.
LEMMA ClaimStep ==
  ASSUME ClaimInv, NEW h \in Hooks, Claim(h)
  PROVE  StandsInv' /\ ApartInv'
<1>0. /\ ClaimTypeInv /\ InTimeInv /\ StampInv /\ LineInv /\ StandsInv /\ ApartInv
      /\ Timeout \in Nat /\ ClaimSeconds \in Nat /\ Timeout <= ClaimSeconds
  BY TimeAssumption DEF ClaimInv
<1>1. /\ UNCHANGED <<now, began, stamp, unclaimed>>
      /\ pc[h] = "claim" /\ claims[Name(h)] = NoTime
      /\ claims' = [n \in Names |-> IF n = Name(h) THEN now
                                    ELSE IF Name(h) \in Pruners THEN Kept(n)
                                    ELSE claims[n]]
      /\ named' = [named EXCEPT ![h] = FALSE]
  BY DEF Claim
<1>2. Claimants' \subseteq Claimants \cup {h} /\ h \notin Claimants
      /\ Claimants' \subseteq Hooks /\ Claimants \subseteq Hooks
  BY <1>0, <1>1 DEF Claimants, ClaimTypeInv, LineInv
<1>3. \A g \in Hooks : /\ Name(g) \in Names /\ claims[Name(g)] \in {NoTime} \cup Nat
                       /\ Since(g) \in {NoTime} \cup Nat
  <2>1. \A g \in Hooks : Name(g) \in Names /\ claims[Name(g)] \in {NoTime} \cup Nat
    BY <1>0, NameType DEF ClaimTypeInv
  <2>2. \A g \in Hooks : stamp[g] \in Stamps /\ began[CallOf[g]] \in {NoTime} \cup Nat
    BY <1>0, KeyType DEF ClaimTypeInv
  <2>3. Stamps \subseteq {NoTime} \cup Nat
    BY TimeAssumption DEF Stamps
  <2>4. \A g \in Hooks : Since(g) \in {NoTime} \cup Nat
    BY <2>2, <2>3 DEF Since
  <2> QED
    BY <2>1, <2>4
<1>4. \A g \in Hooks : Since(g)' = Since(g) /\ Name(g)' = Name(g)
  BY <1>1 DEF Since, Name, Key
<1>5. /\ began[CallOf[h]] # NoTime /\ now \in Nat
      /\ Since(h) <= now /\ now <= Since(h) + Timeout
  <2>1. /\ began[CallOf[h]] \in Nat /\ began[CallOf[h]] # NoTime
        /\ began[CallOf[h]] <= now /\ now <= began[CallOf[h]] + Timeout /\ now \in Nat
    BY <1>0, <1>1, KeyType, TimeAssumption DEF ClaimTypeInv, InTimeInv
  <2>2. stamp[h] \in Stamps
    BY <1>0 DEF ClaimTypeInv
  <2>3. stamp[h] # NoTime => began[CallOf[h]] <= stamp[h] /\ stamp[h] <= now
    BY <1>0 DEF StampInv
  <2> QED
    BY <1>0, <2>1, <2>2, <2>3, TimeAssumption DEF Since, Stamps, NoTime
<1>6. StandsInv'
  <2> SUFFICES ASSUME NEW g \in Claimants'
               PROVE  /\ began[CallOf[g]] # NoTime
                      /\ \/ claims'[Name(g)] # NoTime /\ claims'[Name(g)] >= Since(g)
                         \/ now > Since(g) + ClaimSeconds
    BY <1>1, <1>2, <1>4 DEF StandsInv
  <2>1. g \in Hooks
    BY <1>2
  <2>2. began[CallOf[g]] # NoTime
    BY <1>0, <1>2, <1>5 DEF StandsInv
  <2>3. CASE Name(g) = Name(h)
    <3>1. claims'[Name(g)] = now
      BY <1>1, <1>3, <2>1, <2>3
    <3>2. Since(g) <= now
      <4>1. began[CallOf[g]] \in {NoTime} \cup Nat /\ began[CallOf[g]] <= now
        BY <1>0, <2>1, KeyType DEF ClaimTypeInv
      <4>2. stamp[g] # NoTime => stamp[g] <= now
        BY <1>0, <2>1 DEF StampInv
      <4> QED
        BY <4>1, <4>2 DEF Since
    <3> QED
      BY <1>5, <2>2, <3>1, <3>2 DEF NoTime
  <2>4. CASE Name(g) # Name(h)
    <3>1. g \in Claimants
      BY <1>2, <2>4
    <3>2. \/ claims'[Name(g)] = claims[Name(g)]
          \/ claims[Name(g)] # NoTime /\ claims[Name(g)] < now - ClaimSeconds
      <4>1. claims'[Name(g)] = claims[Name(g)] \/ claims'[Name(g)] = Kept(Name(g))
        BY <1>1, <1>3, <2>1, <2>4
      <4>2. \/ Kept(Name(g)) = claims[Name(g)]
            \/ claims[Name(g)] # NoTime /\ claims[Name(g)] < now - ClaimSeconds
        BY DEF Kept
      <4> QED
        BY <4>1, <4>2
    <3>3. \/ claims[Name(g)] # NoTime /\ claims[Name(g)] >= Since(g)
          \/ now > Since(g) + ClaimSeconds
      BY <1>0, <3>1 DEF StandsInv
    <3> QED
      BY <1>0, <1>3, <1>5, <2>1, <2>2, <3>2, <3>3 DEF NoTime
  <2> QED
    BY <2>3, <2>4
<1>7. ASSUME NEW g \in Claimants, Name(g) = Name(h)
      PROVE  Since(g) # Since(h)
  <2>1. now > Since(g) + ClaimSeconds
    BY <1>0, <1>1, <1>7 DEF StandsInv
  <2> QED
    BY <1>0, <1>2, <1>3, <1>5, <2>1 DEF NoTime
<1>8. ApartInv'
  <2> SUFFICES ASSUME NEW f \in Claimants', NEW g \in Claimants', f # g, Name(f) = Name(g)
               PROVE  Since(f) # Since(g)
    BY <1>2, <1>4 DEF ApartInv
  <2>1. CASE f \in Claimants /\ g \in Claimants
    BY <1>0, <2>1 DEF ApartInv
  <2>2. CASE f = h \/ g = h
    BY <1>2, <1>7, <2>2
  <2> QED
    BY <1>2, <2>1, <2>2
<1> QED
  BY <1>6, <1>8

LEMMA ClaimsStep ==
  ASSUME ClaimInv, [Next]_vars
  PROVE  StandsInv' /\ ApartInv'
<1>0. /\ ClaimTypeInv /\ StampInv /\ LineInv /\ StandsInv /\ ApartInv /\ ClaimSeconds \in Nat
      /\ Claimants \subseteq Hooks
      /\ \A h \in Hooks : /\ CallOf[h] \in Calls
                          /\ began[CallOf[h]] \in {NoTime} \cup Nat
                          /\ stamp[h] \in Stamps
  BY TimeAssumption, KeyType DEF ClaimInv, ClaimTypeInv, Claimants
<1>1. CASE Tick
  <2>1. /\ Claimants' = Claimants /\ now' = now + 1 /\ now \in Nat
        /\ UNCHANGED <<claims, began, stamp>>
    BY <1>0, <1>1, TickEffect, TimeAssumption DEF Claimants, ClaimTypeInv
  <2>2. \A h \in Hooks : Since(h)' = Since(h) /\ Name(h)' = Name(h)
                         /\ Since(h) \in {NoTime} \cup Nat
    BY <1>0, <2>1, TimeAssumption DEF Since, Name, Key, Stamps, NoTime
  <2>3. StandsInv'
    BY <1>0, <2>1, <2>2 DEF StandsInv, NoTime
  <2> QED
    BY <1>0, <2>1, <2>2, <2>3 DEF ApartInv
<1>2. ASSUME NEW c \in Calls, MakeCall(c) PROVE StandsInv' /\ ApartInv'
  <2>1. Claimants' = Claimants /\ UNCHANGED <<now, claims, stamp>>
    BY <1>2 DEF MakeCall, Claimants
  <2>2. \A h \in Claimants : began'[CallOf[h]] = began[CallOf[h]]
    <3> SUFFICES ASSUME NEW h \in Claimants PROVE CallOf[h] # c
      BY <1>0, <1>2 DEF MakeCall, ClaimTypeInv
    <3> QED
      BY <1>0, <1>2 DEF MakeCall, StandsInv
  <2>3. \A h \in Claimants : Since(h)' = Since(h) /\ Name(h)' = Name(h)
    BY <2>1, <2>2 DEF Since, Name, Key
  <2> QED
    BY <1>0, <2>1, <2>2, <2>3 DEF StandsInv, ApartInv
<1>3. ASSUME NEW h \in Hooks, Claim(h) PROVE StandsInv' /\ ApartInv'
  BY <1>3, ClaimStep
<1>4. ASSUME NEW h \in Hooks, (Step(h) /\ ~Claim(h)) \/ Crash(h)
      PROVE  StandsInv' /\ ApartInv'
  <2>1. /\ UNCHANGED <<now, began>>
        /\ \A g \in Hooks : g # h => stamp'[g] = stamp[g]
        /\ stamp' = stamp \/ pc[h] = "judged"
    BY <1>0, <1>4, OneHookMoves
  <2>2. /\ UNCHANGED claims
        /\ \/ UNCHANGED <<named, unclaimed>>
           \/ /\ named' = [named EXCEPT ![h] = FALSE] /\ named[h]
              /\ unclaimed' = unclaimed \cup {h}
    BY <1>0, <1>4
    DEF Step, Crash, Judge, NotAdmitted, WriteFinding, NameClaim, Claimed, ClaimFails,
        AppendLine, AppendFails, LineInv
  <2>3. Claimants' = Claimants
    BY <1>0, <2>2 DEF ClaimTypeInv, Claimants
  <2>4. \A g \in Claimants : Since(g)' = Since(g) /\ Name(g)' = Name(g)
    <3>1. \A g \in Claimants : pc[g] # "judged"
      BY <1>0 DEF Claimants, LineInv
    <3>2. \A g \in Claimants : stamp'[g] = stamp[g]
      BY <1>0, <2>1, <3>1
    <3> QED
      BY <2>1, <3>2 DEF Since, Name, Key
  <2> QED
    BY <1>0, <2>1, <2>2, <2>3, <2>4 DEF StandsInv, ApartInv
<1>5. CASE UNCHANGED vars
  BY <1>0, <1>5 DEF vars, StandsInv, ApartInv, Name, Key, Since, Claimants
<1> QED
  BY <1>1, <1>2, <1>3, <1>4, <1>5 DEF Next

LEMMA BehindStep ==
  ASSUME ClaimInv, [Next]_vars
  PROVE  BehindInv'
<1>0. ClaimTypeInv /\ StampInv /\ LineInv /\ BehindInv
  BY DEF ClaimInv
<1>1. CASE Tick
  <2>1. \A h \in Hooks : Written(h)' = Written(h) /\ (pc'[h] = "done" => pc[h] = "done")
    BY <1>0, <1>1, TickEffect DEF LineOf, Written, Key
  <2>2. UNCHANGED <<level, claims, stamp, verdict, named>>
    BY <1>0, <1>1, TickEffect
  <2> QED
    BY <1>0, <2>1, <2>2 DEF BehindInv, HooksOf, Name, Key
<1>2. ASSUME NEW c \in Calls, MakeCall(c) PROVE BehindInv'
  BY <1>0, <1>2 DEF MakeCall, BehindInv, HooksOf, Name, Key, LineOf, Written
<1>3. ASSUME NEW h \in Hooks, Step(h) \/ Crash(h) PROVE BehindInv'
  <2>1. /\ level' = level
        /\ \A g \in Hooks : g # h => /\ pc'[g] = pc[g] /\ verdict'[g] = verdict[g]
                                     /\ named'[g] = named[g] /\ stamp'[g] = stamp[g]
    BY <1>0, <1>3, OneHookMoves
  <2>2. log \subseteq log' /\ (~named[h] => ~named'[h] /\ stamp'[h] = stamp[h])
    <3>1. log \subseteq log' /\ (~named[h] => ~named'[h])
      BY <1>0, <1>3
      DEF Step, Crash, Judge, NotAdmitted, WriteFinding, NameClaim, Claim, Claimed,
          ClaimFails, AppendLine, AppendFails, ClaimTypeInv
    <3>2. ~named[h] => stamp'[h] = stamp[h]
      BY <1>0, <1>3, OneHookMoves DEF LineInv
    <3> QED
      BY <3>1, <3>2
  <2>3. \A g \in Hooks : g # h => (Written(g) => Written(g)') /\ Name(g)' = Name(g)
    BY <2>1, <2>2 DEF LineOf, Written, Name, Key
  <2>4. ~named[h] => Name(h)' = Name(h)
    BY <2>2 DEF Name, Key
  <2>5. ASSUME NEW n, \E g \in HooksOf(n) : ~named[g]
        PROVE  \E g \in HooksOf(n)' : ~named'[g]
    <3>1. PICK g \in Hooks : Name(g) = n /\ ~named[g]
      BY <2>5 DEF HooksOf
    <3>2. Name(g)' = n /\ ~named'[g]
      BY <2>1, <2>2, <2>3, <2>4, <3>1
    <3> QED
      BY <3>2 DEF HooksOf
  <2>6. \A n \in Names : claims'[n] # NoTime =>
          claims[n] # NoTime \/ (n = Name(h)' /\ ~named'[h])
    <3>1. CASE Claim(h)
      <4>1. Name(h)' = Name(h) /\ ~named'[h]
        BY <1>0, <3>1 DEF Claim, ClaimTypeInv, Name, Key
      <4> QED
        BY <1>0, <3>1, <4>1 DEF Claim, Kept
    <3>2. CASE ~Claim(h)
      BY <1>3, <3>2
      DEF Step, Crash, Judge, NotAdmitted, WriteFinding, NameClaim, Claimed,
          ClaimFails, AppendLine, AppendFails
    <3> QED
      BY <3>1, <3>2
  <2>7. level # "off" /\ verdict'[h] = "allow" /\ pc'[h] = "done" =>
          Written(h)' \/ (claims[Name(h)] # NoTime /\ Name(h)' = Name(h))
    <3>1. level # "off" /\ pc'[h] = "done" => AppendLine(h) \/ Claimed(h)
      BY <1>0, <1>3
      DEF Step, Crash, Judge, NotAdmitted, Admitted, WriteFinding, NameClaim, Claim,
          ClaimFails, AppendFails, ClaimTypeInv, Levels
    <3>2. AppendLine(h) => Written(h)'
      BY DEF AppendLine, Written, LineOf, Key
    <3>3. Claimed(h) => claims[Name(h)] # NoTime /\ Name(h)' = Name(h)
      BY DEF Claimed, Name, Key
    <3> QED
      BY <3>1, <3>2, <3>3
  <2>8. \A n \in Names : claims'[n] # NoTime => \E g \in HooksOf(n)' : ~named'[g]
    <3> SUFFICES ASSUME NEW n \in Names, claims'[n] # NoTime
                 PROVE  \E g \in HooksOf(n)' : ~named'[g]
      OBVIOUS
    <3>1. CASE claims[n] # NoTime
      BY <1>0, <2>5, <3>1 DEF BehindInv
    <3>2. CASE n = Name(h)' /\ ~named'[h]
      BY <3>2 DEF HooksOf
    <3> QED
      BY <2>6, <3>1, <3>2
  <2>9. ASSUME NEW g \in Hooks,
               level # "off" /\ verdict'[g] = "allow" /\ pc'[g] = "done"
        PROVE  Written(g)' \/ \E f \in HooksOf(Name(g))' : ~named'[f]
    <3>1. CASE g = h
      <4>1. CASE Written(h)'
        BY <3>1, <4>1
      <4>2. CASE claims[Name(h)] # NoTime /\ Name(h)' = Name(h)
        <5>1. \E f \in HooksOf(Name(h)) : ~named[f]
          BY <1>0, <4>2, NameType DEF BehindInv, ClaimTypeInv
        <5>2. PICK n : n = Name(h)
          OBVIOUS
        <5>3. \E f \in HooksOf(n)' : ~named'[f]
          BY <2>5, <5>1, <5>2
        <5> QED
          BY <3>1, <4>2, <5>2, <5>3 DEF HooksOf
      <4> QED
        BY <2>7, <2>9, <3>1, <4>1, <4>2
    <3>2. CASE g # h
      <4>1. Written(g) \/ \E f \in HooksOf(Name(g)) : ~named[f]
        BY <1>0, <2>1, <2>9, <3>2 DEF BehindInv
      <4>2. PICK n : n = Name(g)
        OBVIOUS
      <4>3. (\E f \in HooksOf(n) : ~named[f]) => \E f \in HooksOf(n)' : ~named'[f]
        BY <2>5
      <4> QED
        BY <2>3, <3>2, <4>1, <4>2, <4>3 DEF HooksOf
    <3> QED
      BY <3>1, <3>2
  <2> QED
    BY <2>1, <2>8, <2>9 DEF BehindInv
<1>4. CASE UNCHANGED vars
  BY <1>0, <1>4 DEF vars, BehindInv, HooksOf, Name, Key, LineOf, Written
<1> QED
  BY <1>1, <1>2, <1>3, <1>4 DEF Next

LEMMA ClaimInvHolds == Spec => []ClaimInv
<1>1. ClaimInv /\ [Next]_vars => ClaimInv'
  BY TimeStep, LineStep, ClaimsStep, BehindStep DEF ClaimInv
<1> QED
  BY <1>1, ClaimStart, PTL DEF Spec

-----------------------------------------------------------------------------

\* Hooks that go by one claim made one claim between them.
LEMMA OneClaimant ==
  ASSUME ClaimInv, NEW l \in ByClaim, NEW m \in ByClaim, ~l.named, ~m.named,
         OfOneCall(l, m)
  PROVE  l = m
<1>1. /\ l.hook \in Hooks /\ l = LineOf(l.hook)
      /\ m.hook \in Hooks /\ m = LineOf(m.hook)
  BY DEF ClaimInv, LineInv, ByClaim
<1> DEFINE g == l.hook
           h == m.hook
<1>2. /\ l.key = Key(g) /\ l.stamp = stamp[g] /\ l.named = named[g]
      /\ m.key = Key(h) /\ m.stamp = stamp[h] /\ m.named = named[h]
  BY <1>1 DEF LineOf
<1>3. g \in Claimants /\ h \in Claimants /\ Key(g) = Key(h)
  BY <1>1, <1>2 DEF Claimants, ByClaim, OfOneCall
<1>4. stamp[g] = stamp[h] /\ Since(g) = Since(h)
  <2>1. CASE Key(g) \in Timed
    <3>1. stamp[g] = stamp[h]
      BY <1>2, <1>3, <2>1 DEF OfOneCall
    <3>2. stamp[g] # NoTime
      BY <1>1, <1>2, <2>1 DEF ClaimInv, LineInv
    <3> QED
      BY <3>1, <3>2 DEF Since
  <2>2. CASE Key(g) \notin Timed
    <3>1. stamp[g] = NoTime /\ stamp[h] = NoTime
      BY <1>1, <1>3, <2>2 DEF ClaimInv, StampInv
    <3>2. began[CallOf[g]] = began[CallOf[h]]
      BY <1>1, <1>2, <1>3, <2>2, KeyType DEF OfOneCall, Together, Key
    <3> QED
      BY <3>1, <3>2 DEF Since
  <2> QED
    BY <2>1, <2>2
<1>5. g = h
  BY <1>3, <1>4 DEF ClaimInv, ApartInv, Name
<1> QED
  BY <1>1, <1>5

\* docs/decision-log.md, "Levels": at info the allow of a call is one line
\* however many of its hooks race for the claim file while claims are pruned, and
\* without an id one for each second in which they came to it; what it takes is
\* that no hook outlives its claim (Timeout <= ClaimSeconds).
THEOREM AllowsShareALine == Spec => []AllowIsOneLine
<1>1. ClaimInv => AllowIsOneLine
  <2> SUFFICES ASSUME ClaimInv, level = "info", NEW l \in ByClaim, NEW m \in ByClaim,
                      l.verdict = "allow", m.verdict = "allow", OfOneCall(l, m)
               PROVE  l = m
    BY DEF AllowIsOneLine
  <2>1. ~l.named /\ ~m.named
    BY DEF ByClaim, ClaimInv, LineInv
  <2> QED
    BY <2>1, OneClaimant
<1> QED
  BY <1>1, ClaimInvHolds, PTL

\* A finding's line names its policy, and of the plain allows of one call at
\* debug only the line of the hook that made the claim file does not.
THEOREM ClaimantIsNameless == Spec => []OnlyTheClaimantIsNameless
<1>1. ClaimInv => OnlyTheClaimantIsNameless
  <2> SUFFICES ASSUME ClaimInv PROVE OnlyTheClaimantIsNameless
    OBVIOUS
  <2>1. ASSUME NEW l \in log, l.verdict = "fires" PROVE l.named
    <3>1. l.hook \in Hooks /\ l = LineOf(l.hook)
      BY DEF ClaimInv, LineInv
    <3>2. l.verdict = verdict[l.hook] /\ l.named = named[l.hook]
      BY <3>1 DEF LineOf
    <3> QED
      BY <2>1, <3>1, <3>2 DEF ClaimInv, LineInv
  <2> QED
    BY <2>1, OneClaimant DEF OnlyTheClaimantIsNameless
<1> QED
  BY <1>1, ClaimInvHolds, PTL

\* An allow that some hook of a call let pass is in the log, unless the hook that
\* took it on itself has yet to append, failed to, or was killed before it could.
THEOREM AllowsAreLogged == Spec => []AllowIsLogged
<1>1. ClaimInv => AllowIsLogged
  <2> SUFFICES ASSUME ClaimInv, NEW n \in Names, level # "off", LetThrough(n),
                      ~\E h \in HooksOf(n) :
                         ~named[h] /\ pc[h] \in {"append", "failed", "dead"}
               PROVE  PlainLines(n) # {}
    BY DEF AllowIsLogged
  <2>1. PICK h \in Hooks : Name(h) = n /\ verdict[h] = "allow" /\ pc[h] = "done"
    BY DEF LetThrough, HooksOf
  <2>2. PICK g \in Hooks : Name(g) = n /\ verdict[g] = "allow" /\ Written(g)
    <3>1. CASE Written(h)
      BY <2>1, <3>1
    <3>2. CASE ~Written(h)
      <4>1. PICK g \in HooksOf(n) : ~named[g]
        BY <2>1, <3>2 DEF ClaimInv, BehindInv
      <4>2. g \in Hooks /\ Name(g) = n /\ pc[g] \in Stage /\ verdict[g] \in Verdicts
        BY DEF HooksOf, ClaimInv, ClaimTypeInv
      <4>3. pc[g] = "done" /\ verdict[g] = "allow" /\ Written(g)
        BY <4>1, <4>2 DEF ClaimInv, LineInv, Stage, Verdicts
      <4> QED
        BY <4>2, <4>3
    <3> QED
      BY <3>1, <3>2
  <2>3. LineOf(g) \in PlainLines(n)
    BY <2>2 DEF LineOf, PlainLines, Written, Name
  <2> QED
    BY <2>3
<1> QED
  BY <1>1, ClaimInvHolds, PTL

-----------------------------------------------------------------------------
(***************************************************************************)
(* The follower.                                                           *)
(***************************************************************************)

Increasing(s) == \A i, j \in 1 .. Len(s) : i < j => s[i] < s[j]

\* Where the follower may read on from: past p are lines younger than all it has
\* printed, and a file too short for p has no other.
Fresh(p) ==
  \A j \in 1 .. Len(file) : (j > p \/ p > Len(file)) =>
    \A i \in 1 .. Len(printed) : printed[i] < file[j]

FollowInv ==
  /\ file \in Seq(Nat) /\ printed \in Seq(Nat)
  /\ written \in Nat /\ offset \in Nat /\ size \in Nat /\ start \in Nat
  /\ Increasing(file) /\ Increasing(printed)
  /\ \A j \in 1 .. Len(file) : file[j] <= written
  /\ \A i \in 1 .. Len(printed) : printed[i] <= written
  /\ fpc = "start" => printed = <<>>
  /\ Fresh(offset)
  /\ fpc = "open" => Fresh(start) /\ start <= size

\* What the follower reads are the lines from its place on.
LEMMA ChunkLines ==
  ASSUME FollowInv, fpc = "open"
  PROVE  /\ Chunk \in Seq(Nat)
         /\ start + Len(Chunk) <= Len(file) \/ Chunk = <<>>
         /\ \A i \in 1 .. Len(Chunk) : /\ start + i \in 1 .. Len(file)
                                       /\ Chunk[i] = file[start + i]
<1> DEFINE m == IF size < Len(file) THEN size ELSE Len(file)
<1>1. /\ file \in Seq(Nat) /\ size \in Nat /\ start \in Nat /\ Len(file) \in Nat
      /\ m \in Nat /\ m <= Len(file) /\ Chunk = SubSeq(file, start + 1, m)
  BY DEF FollowInv, Chunk
<1> HIDE DEF m
<1>2. CASE start >= m
  <2>1. Chunk = <<>>
    BY <1>1, <1>2
  <2> QED
    BY <2>1
<1>3. CASE start < m
  <2>1. /\ Chunk \in Seq(Nat) /\ Len(Chunk) = m - start
        /\ \A i \in 1 .. m - start : Chunk[i] = file[start + i]
    BY <1>1, <1>3
  <2> QED
    BY <1>1, <1>3, <2>1
<1> QED
  BY <1>1, <1>2, <1>3

LEMMA ReadKeepsOrder ==
  ASSUME FollowInv, Read
  PROVE  FollowInv'
<1>0. /\ file \in Seq(Nat) /\ printed \in Seq(Nat) /\ offset \in Nat /\ start \in Nat
      /\ Increasing(file) /\ Increasing(printed) /\ Fresh(start)
      /\ fpc = "open" /\ UNCHANGED <<file, written, size, start>> /\ fpc' = "sleep"
      /\ printed' = printed \o Chunk /\ offset' = start + Len(Chunk)
  BY DEF FollowInv, Read, fileVars
<1>1. /\ Chunk \in Seq(Nat)
      /\ start + Len(Chunk) <= Len(file) \/ Chunk = <<>>
      /\ \A i \in 1 .. Len(Chunk) : /\ start + i \in 1 .. Len(file)
                                    /\ Chunk[i] = file[start + i]
  BY <1>0, ChunkLines
<1> HIDE DEF Chunk
<1>2. /\ printed' \in Seq(Nat) /\ Len(printed') = Len(printed) + Len(Chunk)
      /\ \A i \in 1 .. Len(printed) : printed'[i] = printed[i]
      /\ \A i \in 1 .. Len(Chunk) : printed'[Len(printed) + i] = Chunk[i]
  BY <1>0, <1>1
<1>3. ASSUME NEW i \in 1 .. Len(printed')
      PROVE  \/ i \in 1 .. Len(printed) /\ printed'[i] = printed[i]
             \/ /\ i > Len(printed) /\ i - Len(printed) \in 1 .. Len(Chunk)
                /\ start + (i - Len(printed)) \in 1 .. Len(file)
                /\ printed'[i] = file[start + (i - Len(printed))]
  <2>1. CASE i <= Len(printed)
    BY <1>0, <1>2, <2>1
  <2>2. CASE i > Len(printed)
    <3> DEFINE j == i - Len(printed)
    <3>1. j \in 1 .. Len(Chunk) /\ i = Len(printed) + j
      BY <1>0, <1>1, <1>2, <2>2
    <3>2. printed'[Len(printed) + j] = Chunk[j] /\ Chunk[j] = file[start + j]
          /\ start + j \in 1 .. Len(file)
      BY <1>1, <1>2, <3>1
    <3> QED
      BY <2>2, <3>1, <3>2
  <2> QED
    BY <1>0, <2>1, <2>2
<1>4. \A i \in 1 .. Len(printed) : \A j \in 1 .. Len(file) :
        j > start => printed[i] < file[j]
  BY <1>0 DEF Fresh
<1>5. Increasing(printed')
  <2> SUFFICES ASSUME NEW i \in 1 .. Len(printed'), NEW j \in 1 .. Len(printed'), i < j
               PROVE  printed'[i] < printed'[j]
    BY DEF Increasing
  <2>1. CASE j \in 1 .. Len(printed)
    BY <1>0, <1>3, <2>1 DEF Increasing
  <2>2. CASE i \in 1 .. Len(printed) /\ j > Len(printed)
    <3>1. /\ start + (j - Len(printed)) \in 1 .. Len(file)
          /\ printed'[j] = file[start + (j - Len(printed))]
          /\ start + (j - Len(printed)) > start /\ printed'[i] = printed[i]
      BY <1>0, <1>3, <2>2
    <3> QED
      BY <1>4, <2>2, <3>1
  <2>3. CASE i > Len(printed) /\ j > Len(printed)
    <3>1. /\ start + (i - Len(printed)) \in 1 .. Len(file)
          /\ printed'[i] = file[start + (i - Len(printed))]
      BY <1>3, <2>3
    <3>2. /\ start + (j - Len(printed)) \in 1 .. Len(file)
          /\ printed'[j] = file[start + (j - Len(printed))]
      BY <1>3, <2>3
    <3>3. start + (i - Len(printed)) < start + (j - Len(printed))
      BY <1>0
    <3> QED
      BY <1>0, <3>1, <3>2, <3>3 DEF Increasing
  <2> QED
    BY <1>0, <2>1, <2>2, <2>3
<1>6. \A i \in 1 .. Len(printed') : printed'[i] <= written
  BY <1>0, <1>3 DEF FollowInv
<1>7. Fresh(offset)'
  <2> SUFFICES ASSUME NEW j \in 1 .. Len(file), j > offset' \/ offset' > Len(file),
                      NEW i \in 1 .. Len(printed')
               PROVE  printed'[i] < file[j]
    BY <1>0 DEF Fresh
  <2>1. CASE Chunk = <<>>
    <3>1. Len(printed') = Len(printed) /\ offset' = start
      BY <1>0, <1>2, <2>1
    <3> QED
      BY <1>0, <1>2, <3>1 DEF Fresh
  <2>2. CASE Chunk # <<>>
    <3>1. offset' <= Len(file) /\ j > start + Len(Chunk)
      BY <1>0, <1>1, <2>2
    <3>2. CASE i \in 1 .. Len(printed)
      BY <1>0, <1>1, <1>2, <1>4, <3>1, <3>2
    <3>3. CASE i \notin 1 .. Len(printed)
      <4>1. /\ start + (i - Len(printed)) \in 1 .. Len(file)
            /\ printed'[i] = file[start + (i - Len(printed))]
            /\ i - Len(printed) <= Len(Chunk)
        BY <1>1, <1>3, <3>3
      <4>2. start + (i - Len(printed)) < j
        BY <1>0, <1>1, <3>1, <4>1
      <4> QED
        BY <1>0, <4>1, <4>2 DEF Increasing
    <3> QED
      BY <3>2, <3>3
  <2> QED
    BY <2>1, <2>2
<1> QED
  BY <1>0, <1>1, <1>2, <1>5, <1>6, <1>7 DEF FollowInv

LEMMA FollowStep ==
  ASSUME FollowInv, [FollowNext]_followVars
  PROVE  FollowInv'
<1>0. /\ file \in Seq(Nat) /\ printed \in Seq(Nat) /\ written \in Nat
      /\ offset \in Nat /\ start \in Nat /\ size \in Nat
  BY DEF FollowInv
<1>1. CASE RotateFile
  <2>1. Len(file') = 0 /\ file' \in Seq(Nat) /\ UNCHANGED <<written, fpc, readVars>>
    BY <1>1 DEF RotateFile
  <2> QED
    BY <2>1 DEF FollowInv, Fresh, Increasing, readVars
<1>2. CASE WriteLine
  <2>1. /\ file' \in Seq(Nat) /\ Len(file') = Len(file) + 1
        /\ \A j \in 1 .. Len(file) : file'[j] = file[j]
        /\ file'[Len(file) + 1] = written + 1
    BY <1>0, <1>2 DEF WriteLine
  <2>2. /\ written' = written + 1 /\ UNCHANGED <<fpc, offset, size, start, printed>>
    BY <1>2 DEF WriteLine, readVars
  <2>3. \A j \in 1 .. Len(file') :
          \/ j \in 1 .. Len(file) /\ file'[j] = file[j]
          \/ j = Len(file) + 1 /\ file'[j] = written + 1
    BY <1>0, <2>1
  <2>4. Increasing(file')
    BY <1>0, <2>3 DEF FollowInv, Increasing
  <2>5. \A j \in 1 .. Len(file') : file'[j] <= written'
    BY <1>0, <2>2, <2>3 DEF FollowInv
  <2>6. \A p \in Nat : Fresh(p) => Fresh(p)'
    <3> SUFFICES ASSUME NEW p \in Nat, Fresh(p),
                        NEW j \in 1 .. Len(file'), j > p \/ p > Len(file'),
                        NEW i \in 1 .. Len(printed)
                 PROVE  printed[i] < file'[j]
      BY <2>2 DEF Fresh
    <3>1. CASE j = Len(file) + 1
      <4>1. file'[j] = written + 1 /\ printed[i] <= written /\ printed[i] \in Nat
        BY <1>0, <2>1, <3>1 DEF FollowInv
      <4> QED
        BY <1>0, <4>1
    <3>2. CASE j # Len(file) + 1
      <4>1. j \in 1 .. Len(file) /\ file'[j] = file[j] /\ (j > p \/ p > Len(file))
        BY <1>0, <2>1, <2>3, <3>2
      <4> QED
        BY <4>1 DEF Fresh
    <3> QED
      BY <3>1, <3>2
  <2>7. \A i \in 1 .. Len(printed') : printed'[i] <= written'
    BY <1>0, <2>2 DEF FollowInv
  <2> QED
    BY <1>0, <2>1, <2>2, <2>4, <2>5, <2>6, <2>7 DEF FollowInv
<1>3. CASE StartFollowing
  <2>1. /\ UNCHANGED <<file, written, size, start, printed>> /\ fpc' = "sleep"
        /\ offset' = Len(file) /\ printed = <<>>
    BY <1>3 DEF StartFollowing, FollowInv, fileVars
  <2>2. Len(printed') = 0
    BY <2>1
  <2> QED
    BY <1>0, <2>1, <2>2 DEF FollowInv, Fresh, Increasing
<1>4. CASE Poll \/ FileVanished
  BY <1>4 DEF Poll, FileVanished, fileVars, readVars, FollowInv, Fresh, Increasing
<1>5. CASE Stat
  <2>1. /\ UNCHANGED <<file, written, offset, printed>> /\ fpc' = "open"
        /\ size' = Len(file) /\ size' \in Nat
        /\ start' = IF Len(file) < offset THEN 0 ELSE offset
    BY <1>0, <1>5 DEF Stat, fileVars
  <2>2. start' \in Nat /\ start' <= size'
    BY <1>0, <2>1
  <2>3. Fresh(start)'
    BY <1>0, <2>1 DEF FollowInv, Fresh
  <2>4. Fresh(offset)'
    BY <2>1 DEF FollowInv, Fresh
  <2> QED
    BY <1>0, <2>1, <2>2, <2>3, <2>4 DEF FollowInv
<1>6. CASE Read
  BY <1>6, ReadKeepsOrder
<1>7. CASE UNCHANGED followVars
  BY <1>7 DEF followVars, FollowInv, Fresh, Increasing
<1> QED
  BY <1>1, <1>2, <1>3, <1>4, <1>5, <1>6, <1>7 DEF FollowNext, Follower

\* However the file is rotated and grows between the follower's stat, its open
\* and its read, it prints no line twice and none before an older one.
THEOREM FollowerPrintsInOrder == FollowSpec => []PrintedOnceInOrder
<1>1. FollowInit => FollowInv
  <2> SUFFICES ASSUME FollowInit PROVE FollowInv
    OBVIOUS
  <2>1. /\ file = <<>> /\ printed = <<>> /\ Len(file) = 0 /\ Len(printed) = 0
        /\ <<>> \in Seq(Nat)
    BY DEF FollowInit
  <2> QED
    BY <2>1 DEF FollowInit, FollowInv, Fresh, Increasing
<1>2. FollowInv /\ [FollowNext]_followVars => FollowInv'
  BY FollowStep
<1>3. FollowInv => PrintedOnceInOrder
  <2> SUFFICES ASSUME FollowInv PROVE PrintedOnceInOrder
    OBVIOUS
  <2>1. DOMAIN printed = 1 .. Len(printed) /\ Increasing(printed)
    BY DEF FollowInv
  <2> QED
    BY <2>1 DEF Increasing, PrintedOnceInOrder
<1> QED
  BY <1>1, <1>2, <1>3, PTL DEF FollowSpec

=============================================================================
