------------------------------ MODULE HookProofs ------------------------------
(***************************************************************************)
(* What the hooks of many policies promise, for any policies and any room: *)
(* - one hook's members (MultiHook), whatever their deadlines and children:*)
(*   what the client is told is never milder than a member decided, the    *)
(*   members a person hears on the hook's own streams were late, and the   *)
(*   trees that outlive the process are those the last kill could not see; *)
(* - the Stop hooks of one turn (StopReentry), whatever the earlier turns  *)
(*   left in their ledger: no policy refuses more often than the cap while *)
(*   its records are kept, and none lets the turn go before.               *)
(***************************************************************************)
EXTENDS MultiHook, StopReentry, WellFoundedInduction, TLAPS

-----------------------------------------------------------------------------
(* One hook and its members.                                               *)

\* The members whose threads the main thread is done with.
Joined == IF main = "join" THEN {m \in Members : m < at}
          ELSE IF main \in {"load", "start"} THEN {} ELSE Members

\* A thread hands over what its member decided, and nothing before.
HandsOver(m) ==
  /\ thread[m] = "recorded" => judged[m] \in Verdict /\ record[m] = judged[m]
  /\ thread[m] \in {"stored", "done"} =>
       judged[m] \in Verdict /\ slot[m].verdict = judged[m]
  /\ slot[m].done <=> thread[m] = "done"
  /\ m \notin on => thread[m] = "off"

\* What the join made of a member: a refusal, or its own settled verdict.
Heard(m) ==
  heard[m] = Deny \/ (thread[m] = "done" /\ heard[m] = Settle(judged[m]))

Answered(m) == thread[m] = "done" /\ judged[m] \in Verdict /\ Settle(judged[m]) <= answer

SoftInv ==
  /\ TypeOK
  /\ \A m \in Members : HandsOver(m)
  /\ main \in {"load", "start"} => at = 1 /\ \A m \in Members : thread[m] = "off"
  /\ main \in {"join", "end", "log"} =>
       \A m \in Joined : heard[m] \in Verdict /\ (m \in on => Heard(m))
  /\ answer \in {Allow, Warn, Ask} => \A m \in on : Answered(m)

\* While the streams are set aside nobody writes to them; afterwards every
\* member that may still write was late.
StreamInv ==
  /\ captured <=> main \in {"start", "join"}
  /\ \A m \in Joined : thread[m] \in {"off", "done"} \/ m \in late
  /\ leaked \subseteq late

TreeInv ==
  main \in {"flush", "gone"} =>
    \A m \in Members : child[m] \in {"new", "live"} => m \in young

HookInv == SoftInv /\ StreamInv /\ TreeInv

-----------------------------------------------------------------------------

\* A nonempty set of verdicts has a strictest one.
LEMMA StrictestIsAbove ==
  ASSUME NEW vs \in SUBSET Verdict, vs # {}
  PROVE  Strictest(vs) \in vs /\ \A w \in vs : w <= Strictest(vs)
<1>1. \E v \in vs : \A w \in vs : w <= v
  <2>1. CASE 3 \in vs
    BY <2>1 DEF Verdict, Allow, Deny
  <2>2. CASE 3 \notin vs /\ 2 \in vs
    BY <2>2 DEF Verdict, Allow, Deny
  <2>3. CASE 3 \notin vs /\ 2 \notin vs /\ 1 \in vs
    BY <2>3 DEF Verdict, Allow, Deny
  <2>4. CASE 3 \notin vs /\ 2 \notin vs /\ 1 \notin vs
    <3>1. \A w \in vs : w = 0
      BY <2>4 DEF Verdict, Allow, Deny
    <3>2. PICK v \in vs : TRUE
      OBVIOUS
    <3> QED
      BY <3>1, <3>2
  <2> QED
    BY <2>1, <2>2, <2>3, <2>4
<1> QED
  BY <1>1 DEF Strictest

LEMMA SettleKeepsVerdicts ==
  ASSUME NEW v \in Verdict
  PROVE  Settle(v) \in Verdict
BY DEF Settle, Verdict, Allow, Deny, Ask

-----------------------------------------------------------------------------

LEMMA HookInit == Init => HookInv
<1> SUFFICES ASSUME Init PROVE HookInv
  OBVIOUS
<1> USE MultiAssumption DEF Init
<1>1. TypeOK
  <2>1. main \in Stage /\ at \in 1 .. N + 1 /\ clock \in 0 .. MaxTime
    BY DEF Stage
  <2>2. slot \in [Members -> [verdict : Verdict \cup {NoVerdict}, done : BOOLEAN]]
    BY DEF NoSlot
  <2>3. deadline \in [Members -> 0 .. 2 * MaxTime] /\ born \in [Members -> 0 .. MaxChildren]
    OBVIOUS
  <2> QED
    BY <2>1, <2>2, <2>3 DEF TypeOK
<1>2. SoftInv
  BY <1>1 DEF SoftInv, HandsOver, NoSlot, NoVerdict, Allow, Warn, Ask, Joined
<1>3. StreamInv /\ TreeInv
  BY DEF StreamInv, TreeInv, Joined
<1> QED
  BY <1>2, <1>3 DEF HookInv

-----------------------------------------------------------------------------

LEMMA TypeStep ==
  ASSUME HookInv, [Next]_vars
  PROVE  TypeOK'
<1> USE MultiAssumption
<1>0. TypeOK /\ \A m \in Members : HandsOver(m)
  BY DEF HookInv, SoftInv
<1> USE DEF TypeOK, mainVars, threadVars, Goes, Stage
<1>1. CASE LoadFails
  BY <1>0, <1>1 DEF LoadFails, Deny, Verdict, Allow
<1>2. CASE Load
  BY <1>0, <1>2 DEF Load
<1>3. CASE StartThreads
  BY <1>0, <1>3 DEF StartThreads
<1>4. CASE Join
  <2>1. at \in Members /\ at' \in 1 .. N + 1
    BY <1>0, <1>4 DEF Join, Members
  <2>2. slot[at].done => Settle(slot[at].verdict) \in Verdict
    BY <1>0, <2>1, SettleKeepsVerdicts DEF HandsOver
  <2>3. heard' \in [Members -> Verdict \cup {NoVerdict}]
    BY <1>0, <1>4, <2>1, <2>2 DEF Join, Verdict, Allow, Deny
  <2>4. late' \subseteq Members
    BY <1>0, <1>4, <2>1 DEF Join
  <2> QED
    BY <1>0, <1>4, <2>1, <2>3, <2>4 DEF Join
<1>5. CASE Restore
  BY <1>0, <1>5 DEF Restore
<1>6. CASE EndTrees
  BY <1>0, <1>6 DEF EndTrees, KillLiveTrees
<1>7. CASE Log
  <2>1. at \in Members /\ at' \in 1 .. N + 1
    BY <1>0, <1>7 DEF Log, Members
  <2>2. logged' \in [Members -> Verdict \cup {NoVerdict}]
    BY <1>0, <1>7, <2>1 DEF Log
  <2> QED
    BY <1>0, <1>7, <2>1, <2>2 DEF Log
<1>8. CASE Combine
  <2>1. {heard[m] : m \in Members} \in SUBSET Verdict
    BY <1>8 DEF Combine, HookInv, SoftInv, Joined
  <2>2. {heard[m] : m \in Members} # {}
    <3>1. 1 \in Members
      BY DEF Members
    <3> QED
      BY <3>1
  <2>3. answer' \in Verdict
    BY <1>8, <2>1, <2>2, StrictestIsAbove DEF Combine
  <2> QED
    BY <1>0, <1>8, <2>3 DEF Combine
<1>9. CASE Raises
  <2>1. answer' \in Verdict
    BY <1>9 DEF Raises, Deny, Verdict, Allow
  <2>2. late' \subseteq Members
    BY <1>0, <1>9 DEF Raises
  <2> QED
    BY <1>0, <1>9, <2>1, <2>2 DEF Raises
<1>10. CASE Leave
  BY <1>0, <1>10 DEF Leave, KillLiveTrees
<1>11. CASE Flush
  BY <1>0, <1>11 DEF Flush
<1>12. ASSUME NEW m \in Members, Thread(m) PROVE TypeOK'
  <2> USE <1>0 DEF Turns
  <2>0. Spoken \subseteq Verdict /\ {Ask, Deny} \subseteq Verdict
    BY DEF Verdict, Allow, Ask, Deny
  <2>1. CASE SetDeadline(m)
    <3>1. clock + Allowed[m] \in 0 .. 2 * MaxTime
      OBVIOUS
    <3>2. deadline' \in [Members -> 0 .. 2 * MaxTime]
      BY <2>1, <3>1 DEF SetDeadline
    <3> QED
      BY <2>1, <3>2 DEF SetDeadline
  <2>2. CASE Spawn(m)
    <3>1. born' \in [Members -> 0 .. MaxChildren]
      BY <2>2 DEF Spawn
    <3> QED
      BY <2>2, <3>1 DEF Spawn
  <2>3. CASE Track(m)
    BY <2>3 DEF Track
  <2>4. CASE ChildEnds(m)
    <3>1. judged' \in [Members -> Verdict \cup {NoVerdict}] /\ record' \in [Members -> Verdict \cup {NoVerdict}]
      BY <2>4, <2>0 DEF ChildEnds, Judged
    <3>2. leaked' \subseteq Members
      BY <2>4 DEF ChildEnds, Says
    <3>3. thread' \in [Members -> {"off", "start", "run", "child", "recorded", "stored", "done"}]
      BY <2>4 DEF ChildEnds
    <3> QED
      BY <2>4, <3>1, <3>2, <3>3 DEF ChildEnds
  <2>5. CASE ChildFails(m)
    <3>1. judged' \in [Members -> Verdict \cup {NoVerdict}] /\ record' \in [Members -> Verdict \cup {NoVerdict}]
      BY <2>5, <2>0 DEF ChildFails, Judged
    <3>2. leaked' \subseteq Members
      BY <2>5 DEF ChildFails, Says
    <3> QED
      BY <2>5, <3>1, <3>2 DEF ChildFails
  <2>6. CASE Decide(m)
    BY <2>6, <2>0 DEF Decide, Judged
  <2>7. CASE Exits(m)
    BY <2>7, <2>0 DEF Exits
  <2>8. CASE Store(m)
    BY <2>8 DEF Store
  <2>9. CASE Done(m)
    BY <2>9 DEF Done
  <2> QED
    BY <1>12, <2>1, <2>2, <2>3, <2>4, <2>5, <2>6, <2>7, <2>8, <2>9 DEF Thread
<1>13. CASE Tick
  BY <1>0, <1>13 DEF Tick
<1>14. CASE UNCHANGED vars
  BY <1>0, <1>14 DEF vars
<1> QED
  BY <1>1, <1>2, <1>3, <1>4, <1>5, <1>6, <1>7, <1>8, <1>9, <1>10, <1>11, <1>12, <1>13, <1>14
     DEF Next, Main, Finished

-----------------------------------------------------------------------------

\* No step of a thread is mistaken for another's, and what it hands over is
\* its member's decision.
LEMMA HandStep ==
  ASSUME HookInv, [Next]_vars, NEW m \in Members
  PROVE  HandsOver(m)'
<1> USE DEF mainVars, threadVars, Goes, HandsOver
<1>0. TypeOK /\ HandsOver(m)
  BY DEF HookInv, SoftInv
<1>1. CASE StartThreads
  BY <1>0, <1>1 DEF StartThreads, HookInv, SoftInv, TypeOK
<1>2. ASSUME UNCHANGED <<on, thread, judged, record, slot>> PROVE HandsOver(m)'
  BY <1>0, <1>2
<1>3. CASE LoadFails \/ Load \/ Join \/ Restore \/ EndTrees \/ Log \/ Combine \/ Raises
             \/ Leave \/ Flush \/ Tick \/ UNCHANGED vars
  BY <1>2, <1>3 DEF LoadFails, Load, Join, Restore, EndTrees, Log, Combine, Raises, Leave,
                    Flush, Tick, vars
<1>4. ASSUME NEW d \in Members, Thread(d) PROVE HandsOver(m)'
  <2> USE <1>0 DEF Turns, TypeOK
  <2>0. Spoken \subseteq Verdict /\ {Ask, Deny} \subseteq Verdict
    BY MultiAssumption DEF Verdict, Allow, Ask, Deny
  <2>1. CASE SetDeadline(d)
    BY <2>1 DEF SetDeadline
  <2>2. CASE Spawn(d)
    BY <2>2 DEF Spawn
  <2>3. CASE Track(d)
    BY <2>3 DEF Track
  <2>4. CASE ChildEnds(d)
    BY <2>0, <2>4 DEF ChildEnds, Judged
  <2>5. CASE ChildFails(d)
    BY <2>0, <2>5 DEF ChildFails, Judged
  <2>6. CASE Decide(d)
    BY <2>0, <2>6 DEF Decide, Judged
  <2>7. CASE Exits(d)
    BY <2>0, <2>7 DEF Exits
  <2>8. CASE Store(d)
    BY <2>8 DEF Store
  <2>9. CASE Done(d)
    BY <2>9 DEF Done
  <2> QED
    BY <1>4, <2>1, <2>2, <2>3, <2>4, <2>5, <2>6, <2>7, <2>8, <2>9 DEF Thread
<1> QED
  BY <1>1, <1>3, <1>4 DEF Next, Main, Finished

\* A thread that is done stays so, and its member decides no more.
LEMMA DoneIsDone ==
  ASSUME HookInv, [Next]_vars, NEW m \in Members, thread[m] = "done"
  PROVE  thread'[m] = "done" /\ judged'[m] = judged[m]
<1> USE DEF mainVars, threadVars, Goes, Turns
<1>0. TypeOK
  BY DEF HookInv, SoftInv
<1>1. CASE StartThreads
  BY <1>1 DEF StartThreads, HookInv, SoftInv
<1>2. CASE LoadFails \/ Load \/ Join \/ Restore \/ EndTrees \/ Log \/ Combine \/ Raises
             \/ Leave \/ Flush \/ Tick \/ UNCHANGED vars
  BY <1>2 DEF LoadFails, Load, Join, Restore, EndTrees, Log, Combine, Raises, Leave,
              Flush, Tick, vars
<1>3. ASSUME NEW d \in Members, Thread(d) PROVE thread'[m] = "done" /\ judged'[m] = judged[m]
  <2>1. d = m => Track(d)
    BY <1>3 DEF Thread, SetDeadline, Spawn, ChildEnds, ChildFails, Decide, Exits, Store, Done
  <2>2. CASE Track(d)
    BY <2>2 DEF Track
  <2>3. CASE d # m
    BY <1>0, <1>3, <2>3
       DEF TypeOK, Thread, SetDeadline, Spawn, Track, ChildEnds, ChildFails, Decide, Exits,
           Store, Done, Judged
  <2> QED
    BY <2>1, <2>2, <2>3
<1> QED
  BY <1>1, <1>2, <1>3 DEF Next, Main, Finished

\* The members' threads touch nothing of the main thread's.
LEMMA ThreadsKeepMain ==
  ASSUME NEW m \in Members, Thread(m)
  PROVE  UNCHANGED mainVars
BY DEF Thread, SetDeadline, Spawn, Track, ChildEnds, ChildFails, Decide, Exits, Store, Done

\* Before the threads are started none of them is anywhere.
LEMMA UnstartedStep ==
  ASSUME HookInv, [Next]_vars, main' \in {"load", "start"}
  PROVE  at' = 1 /\ \A m \in Members : thread'[m] = "off"
<1> USE DEF mainVars, threadVars, Goes
<1>1. CASE LoadFails \/ Load \/ Tick \/ UNCHANGED vars
  BY <1>1 DEF LoadFails, Load, Tick, vars, HookInv, SoftInv
<1>2. CASE StartThreads \/ Join \/ Restore \/ EndTrees \/ Log \/ Combine \/ Raises \/ Leave \/ Flush
  BY <1>2 DEF StartThreads, Join, Restore, EndTrees, Log, Combine, Raises, Leave, Flush
<1>3. ASSUME NEW d \in Members, Thread(d) PROVE UNCHANGED thread
  <2>1. main \in {"load", "start"}
    BY <1>3, ThreadsKeepMain
  <2>2. thread[d] = "off"
    BY <2>1 DEF HookInv, SoftInv
  <2> QED
    BY <1>3, <2>2 DEF Thread, SetDeadline, Spawn, Track, ChildEnds, ChildFails, Decide, Exits,
                            Store, Done, Turns
<1> QED
  <2>1. (\E d \in Members : Thread(d)) => main \in {"load", "start"} /\ UNCHANGED <<thread, at>>
    BY <1>3, ThreadsKeepMain
  <2> QED
    BY <1>1, <1>2, <2>1 DEF Next, Main, Finished, HookInv, SoftInv

\* What the main thread heard of a member is a verdict, and nothing milder than
\* the member's own.
LEMMA HeardStep ==
  ASSUME HookInv, [Next]_vars, main' \in {"join", "end", "log"}, NEW m \in Joined'
  PROVE  heard'[m] \in Verdict /\ (m \in on' => Heard(m)')
<1> USE DEF mainVars, threadVars, Goes
<1>0. m \in Members /\ TypeOK /\ HandsOver(m)
  BY DEF Joined, HookInv, SoftInv
<1>1. thread[m] = "done" => thread'[m] = "done" /\ judged'[m] = judged[m]
  BY <1>0, DoneIsDone
<1>2. ASSUME main \in {"join", "end", "log"}, m \in Joined, UNCHANGED <<heard, on, canAsk>>
      PROVE  heard'[m] \in Verdict /\ (m \in on' => Heard(m)')
  <2>1. heard[m] \in Verdict /\ (m \in on => Heard(m))
    BY <1>2 DEF HookInv, SoftInv
  <2> QED
    BY <1>1, <1>2, <2>1 DEF Heard, Settle
<1>3. CASE UNCHANGED mainVars
  BY <1>2, <1>3 DEF Joined
<1>4. CASE Tick \/ UNCHANGED vars \/ \E d \in Members : Thread(d)
  <2>1. UNCHANGED mainVars
    BY <1>4, ThreadsKeepMain DEF Tick, vars
  <2> QED
    BY <1>3, <2>1
<1>5. CASE StartThreads
  BY <1>0, <1>5 DEF StartThreads, Joined, HookInv, SoftInv, TypeOK, Members
<1>6. CASE Join
  <2>1. main = "join" /\ at \in Members /\ at' = at + 1 /\ m < at' /\ main' = "join"
    BY <1>0, <1>6 DEF Join, Joined, TypeOK, Members
  <2>2. CASE m = at
    <3>1. heard'[m] = IF Over(m) THEN Allow
                      ELSE IF slot[m].done THEN Settle(slot[m].verdict) ELSE Deny
      BY <1>0, <1>6, <2>2 DEF Join, TypeOK
    <3>2. slot[m].done => thread[m] = "done" /\ slot[m].verdict = judged[m] /\ judged[m] \in Verdict
      BY <1>0 DEF HandsOver
    <3>3. UNCHANGED <<thread, judged, on, canAsk>>
      BY <1>6 DEF Join
    <3>4. heard'[m] \in Verdict
      BY <3>1, <3>2, SettleKeepsVerdicts DEF Verdict, Allow, Deny
    <3> QED
      BY <3>1, <3>2, <3>3, <3>4 DEF Heard, Over, Settle
  <2>3. CASE m # at
    <3>1. m \in Joined /\ heard'[m] = heard[m] /\ UNCHANGED <<on, canAsk, thread, judged>>
      BY <1>0, <1>6, <2>1, <2>3 DEF Join, Joined, TypeOK, Members
    <3>2. heard[m] \in Verdict /\ (m \in on => Heard(m))
      BY <2>1, <3>1 DEF HookInv, SoftInv
    <3> QED
      BY <3>1, <3>2 DEF Heard, Settle
  <2> QED
    BY <2>2, <2>3
<1>7. CASE Restore
  <2>1. m \in Joined /\ main = "join"
    BY <1>0, <1>7, MultiAssumption DEF Restore, Joined, TypeOK, Members
  <2> QED
    BY <1>2, <1>7, <2>1 DEF Restore
<1>8. CASE EndTrees \/ Log
  BY <1>0, <1>2, <1>8 DEF EndTrees, Log, Joined
<1>9. CASE LoadFails \/ Load \/ Combine \/ Raises \/ Leave \/ Flush
  BY <1>9 DEF LoadFails, Load, Combine, Raises, Leave, Flush
<1> QED
  BY <1>4, <1>5, <1>6, <1>7, <1>8, <1>9 DEF Next, Main, Finished

\* Answered with anything but a refusal, the call had every member's decision.
LEMMA AnswerStep ==
  ASSUME HookInv, [Next]_vars, answer' \in {Allow, Warn, Ask}, NEW m \in on'
  PROVE  Answered(m)'
<1> USE DEF mainVars, threadVars, Goes
<1>0. TypeOK /\ on' = on /\ canAsk' = canAsk /\ m \in Members
  <2>1. TypeOK
    BY DEF HookInv, SoftInv
  <2>2. UNCHANGED <<on, canAsk>>
    BY ThreadsKeepMain
       DEF Next, Main, Load, StartThreads, Join, Restore, EndTrees, Log, Combine, Leave, Flush,
           LoadFails, Raises, Tick, Finished, vars
  <2> QED
    BY <2>1, <2>2 DEF TypeOK
<1>1. thread[m] = "done" => thread'[m] = "done" /\ judged'[m] = judged[m]
  BY <1>0, DoneIsDone
<1>2. CASE answer' = answer
  <2>1. Answered(m)
    BY <1>0, <1>2 DEF HookInv, SoftInv
  <2> QED
    BY <1>0, <1>1, <1>2, <2>1 DEF Answered, Settle
<1>3. CASE Combine
  <2>1. Joined = Members /\ main = "log" /\ UNCHANGED <<heard, thread, judged>>
    BY <1>3 DEF Combine, Joined
  <2>2. {heard[k] : k \in Members} \in SUBSET Verdict
    BY <2>1 DEF HookInv, SoftInv
  <2>3. answer' \in Verdict /\ heard[m] <= answer' /\ heard[m] \in Verdict
    <3>1. heard[m] \in {heard[k] : k \in Members}
      BY <1>0
    <3> QED
      BY <1>3, <2>2, <3>1, StrictestIsAbove DEF Combine
  <2>4. heard[m] # Deny
    BY <2>3 DEF Verdict, Allow, Warn, Ask, Deny
  <2>5. thread[m] = "done" /\ heard[m] = Settle(judged[m])
    BY <1>0, <2>1, <2>4 DEF HookInv, SoftInv, Heard
  <2>6. judged[m] \in Verdict
    BY <1>0, <2>5 DEF HookInv, SoftInv, HandsOver
  <2> QED
    BY <1>0, <2>1, <2>3, <2>5, <2>6 DEF Answered, Settle
<1>4. CASE LoadFails \/ Raises
  BY <1>4 DEF LoadFails, Raises, Allow, Warn, Ask, Deny
<1>5. CASE Load \/ StartThreads \/ Join \/ Restore \/ EndTrees \/ Log \/ Leave \/ Flush \/ Tick
             \/ UNCHANGED vars \/ \E d \in Members : Thread(d)
  <2>1. answer' = answer
    BY <1>5, ThreadsKeepMain
       DEF Load, StartThreads, Join, Restore, EndTrees, Log, Leave, Flush, Tick, vars
  <2> QED
    BY <1>2, <2>1
<1> QED
  BY <1>3, <1>4, <1>5 DEF Next, Main, Finished

\* The process's streams are set aside from the start of the threads to their
\* last join; a thread that goes on after that was late.
LEMMA StreamStep ==
  ASSUME HookInv, [Next]_vars
  PROVE  StreamInv'
<1> USE DEF mainVars, threadVars, Goes
<1>0. TypeOK /\ StreamInv /\ \A m \in Members : HandsOver(m)
  BY DEF HookInv, SoftInv
<1>1. CASE Load \/ LoadFails
  BY <1>0, <1>1 DEF Load, LoadFails, StreamInv, Joined, HookInv, SoftInv
<1>2. CASE StartThreads
  BY <1>0, <1>2 DEF StartThreads, StreamInv, Joined, HookInv, SoftInv, TypeOK, Members
<1>3. CASE Join
  <2>1. main = "join" /\ main' = "join" /\ at \in Members /\ at' = at + 1 /\ late \subseteq late'
    BY <1>0, <1>3 DEF Join, TypeOK, Members
  <2>2. UNCHANGED <<thread, captured, leaked>>
    BY <1>3 DEF Join
  <2>3. ASSUME NEW m \in Joined' PROVE thread[m] \in {"off", "done"} \/ m \in late'
    <3>1. CASE m = at
      BY <1>0, <1>3, <2>1, <3>1 DEF Join, Over, HandsOver
    <3>2. CASE m # at
      BY <1>0, <2>1, <2>3, <3>2 DEF Joined, StreamInv, TypeOK, Members
    <3> QED
      BY <3>1, <3>2
  <2> QED
    BY <1>0, <2>1, <2>2, <2>3 DEF StreamInv
<1>4. CASE Restore
  <2>1. Joined = Joined'
    BY <1>0, <1>4, MultiAssumption DEF Restore, Joined, TypeOK, Members
  <2> QED
    BY <1>0, <1>4, <2>1 DEF Restore, StreamInv
<1>5. CASE EndTrees \/ Log \/ Combine \/ Leave \/ Flush
  BY <1>0, <1>5 DEF EndTrees, Log, Combine, Leave, Flush, StreamInv, Joined
<1>6. CASE Raises
  <2>1. ASSUME NEW m \in Members PROVE thread[m] \in {"off", "done"} \/ m \in late'
    BY <1>0, <1>6 DEF Raises, HandsOver
  <2> QED
    BY <1>0, <1>6, <2>1 DEF Raises, StreamInv, Joined
<1>7. CASE Tick \/ UNCHANGED vars
  BY <1>0, <1>7 DEF Tick, vars, StreamInv, Joined
<1>8. ASSUME NEW d \in Members, Thread(d) PROVE StreamInv'
  <2>1. UNCHANGED mainVars
    BY <1>8, ThreadsKeepMain
  <2>2. \A m \in Members : thread[m] \in {"off", "done"} => thread'[m] = thread[m]
    BY <1>0, <1>8 DEF TypeOK, Thread, SetDeadline, Spawn, Track, ChildEnds, ChildFails, Decide, Exits,
                      Store, Done, Turns
  <2>3. leaked' = leaked \/ (leaked' = leaked \cup {d} /\ ~captured /\ thread[d] = "child")
    BY <1>8 DEF Thread, SetDeadline, Spawn, Track, ChildEnds, ChildFails, Decide, Exits,
                Store, Done, Says, Turns
  <2>4. ~captured /\ thread[d] = "child" => d \in late
    BY <1>0, <1>8 DEF StreamInv, Joined, HookInv, SoftInv
  <2> QED
    BY <1>0, <2>1, <2>2, <2>3, <2>4 DEF StreamInv, Joined
<1> QED
  BY <1>1, <1>2, <1>3, <1>4, <1>5, <1>6, <1>7, <1>8 DEF Next, Main, Finished

\* Every tree alive when the process leaves is one the last kill passed by.
LEMMA TreeStep ==
  ASSUME HookInv, [Next]_vars
  PROVE  TreeInv'
<1> USE DEF mainVars, threadVars, Goes
<1>0. TypeOK /\ TreeInv
  BY DEF HookInv, SoftInv
<1>1. CASE Leave
  BY <1>0, <1>1 DEF Leave, KillLiveTrees, TreeInv, TypeOK
<1>2. CASE Flush
  BY <1>0, <1>2 DEF Flush, TreeInv
<1>3. CASE Load \/ LoadFails \/ StartThreads \/ Join \/ Restore \/ EndTrees \/ Log \/ Combine \/ Raises
  BY <1>3 DEF Load, LoadFails, StartThreads, Join, Restore, EndTrees, Log, Combine, Raises, TreeInv
<1>4. CASE Tick \/ UNCHANGED vars
  BY <1>0, <1>4 DEF Tick, vars, TreeInv
<1>5. ASSUME NEW d \in Members, Thread(d) PROVE TreeInv'
  <2>1. main' = main
    BY <1>5, ThreadsKeepMain
  <2>2. CASE Spawn(d)
    BY <1>0, <2>1, <2>2 DEF Spawn, Turns, TreeInv, TypeOK
  <2>3. CASE Track(d)
    BY <1>0, <2>1, <2>3 DEF Track, TreeInv, TypeOK
  <2>4. CASE ChildEnds(d) \/ ChildFails(d)
    BY <1>0, <2>1, <2>4 DEF ChildEnds, ChildFails, TreeInv, TypeOK
  <2>5. CASE SetDeadline(d) \/ Decide(d) \/ Exits(d) \/ Store(d) \/ Done(d)
    BY <1>0, <2>1, <2>5 DEF SetDeadline, Decide, Exits, Store, Done, TreeInv
  <2> QED
    BY <1>5, <2>2, <2>3, <2>4, <2>5 DEF Thread
<1> QED
  BY <1>1, <1>2, <1>3, <1>4, <1>5 DEF Next, Main, Finished

LEMMA HookStep == HookInv /\ [Next]_vars => HookInv'
<1> SUFFICES ASSUME HookInv, [Next]_vars PROVE HookInv'
  OBVIOUS
<1>1. TypeOK' /\ (\A m \in Members : HandsOver(m)')
  BY TypeStep, HandStep
<1>2. \A m \in Joined' : main' \in {"join", "end", "log"} =>
        heard'[m] \in Verdict /\ (m \in on' => Heard(m)')
  BY HeardStep
<1>3. answer' \in {Allow, Warn, Ask} => \A m \in on' : Answered(m)'
  BY AnswerStep
<1>4. SoftInv'
  BY <1>1, <1>2, <1>3, UnstartedStep DEF SoftInv
<1> QED
  BY <1>4, StreamStep, TreeStep DEF HookInv

LEMMA HookAlways == Spec => []HookInv
BY HookInit, HookStep, PTL DEF Spec

-----------------------------------------------------------------------------

\* The hook's state keeps its type, whatever order its threads run in.
THEOREM HookTypes == Spec => []TypeOK
<1>1. HookInv => TypeOK
  BY DEF HookInv, SoftInv
<1> QED
  BY <1>1, HookAlways, PTL

\* However late, silent or broken its members are, a hook never tells the
\* client anything milder than one of them decided (run_members, combine).
THEOREM HookNeverSoftens == Spec => []NothingIsSoftened
<1>1. HookInv => NothingIsSoftened
  <2> SUFFICES ASSUME HookInv, answer \in {Allow, Warn, Ask}, NEW m \in on
               PROVE  judged[m] # NoVerdict /\ Settle(judged[m]) <= answer
    BY DEF NothingIsSoftened
  <2>1. Answered(m)
    BY DEF HookInv, SoftInv
  <2> QED
    BY <2>1 DEF Answered, Verdict, NoVerdict, Allow, Deny
<1> QED
  BY <1>1, HookAlways, PTL

\* A member that writes to the hook's own streams was found late, after the
\* last join had put the streams back.
THEOREM OnlyLateMembersLeak == Spec => []OnlyTheLateSpeakUp
<1>1. HookInv => OnlyTheLateSpeakUp
  BY DEF HookInv, StreamInv, OnlyTheLateSpeakUp
<1> QED
  BY <1>1, HookAlways, PTL

\* The trees left by a hook that is gone are those kill_live_trees could not
\* have in its table.
THEOREM TreesAreEnded == Spec => []OnlyYoungTreesSurvive
<1>1. HookInv => OnlyYoungTreesSurvive
  BY DEF HookInv, TreeInv, OnlyYoungTreesSurvive
<1> QED
  BY <1>1, HookAlways, PTL

-----------------------------------------------------------------------------
(* The Stop hooks of a turn: what a ledger says of a policy.               *)

LEMMA LeastOf ==
  ASSUME NEW T, T \subseteq Nat, T # {}
  PROVE  \E x \in T : \A y \in T : x <= y
<1> DEFINE R == {ss \in Nat \X Nat : ss[1] < ss[2]}
<1>1. IsWellFoundedOn(R, Nat)
  BY NatLessThanWellFounded DEF OpToRel
<1>2. PICK x \in T : \A y \in T : ~ (<<y, x>> \in R)
  <2> HIDE DEF R
  <2> QED
    BY <1>1, WFMin
<1>3. ASSUME NEW y \in T PROVE x <= y
  <2>1. <<y, x>> \in Nat \X Nat /\ x \in Nat /\ y \in Nat
    OBVIOUS
  <2>2. ~ (y < x)
    BY <1>2, <2>1
  <2> QED
    BY <2>1, <2>2
<1> QED
  BY <1>3

LEMMA GreatestOf ==
  ASSUME NEW n \in Nat, NEW T, T \subseteq 1 .. n, T # {}
  PROVE  Max(T) \in T /\ \A y \in T : Max(T) >= y
<1> DEFINE U == {u \in Nat : \E t \in T : u = n - t}
<1>0. \A t \in T : t \in Nat /\ n - t \in Nat
  OBVIOUS
<1>1. U \subseteq Nat /\ U # {} /\ \A t \in T : n - t \in U
  BY <1>0
<1>2. PICK x \in U : \A y \in U : x <= y
  <2> HIDE DEF U
  <2> QED
    BY <1>1, LeastOf
<1>3. PICK t \in T : x = n - t
  OBVIOUS
<1>4. ASSUME NEW y \in T PROVE t >= y
  <2>1. x <= n - y
    BY <1>0, <1>1, <1>2
  <2> QED
    BY <1>0, <1>3, <2>1
<1>5. \E m \in T : \A y \in T : m >= y
  BY <1>4
<1> QED
  BY <1>5, Zenon DEF Max

\* The newest record of a policy is one of its records.
LEMMA NewestIsMine ==
  ASSUME NEW lines \in Seq(Line), NEW p, Mine(p, lines) # {}
  PROVE  \E i \in Mine(p, lines) : /\ Newest(p, lines) = lines[i] /\ i \in DOMAIN lines
                                   /\ lines[i] \in Line /\ lines[i].reentry \in Nat
<1> DEFINE M == Mine(p, lines)
<1>1. M \subseteq 1 .. Len(lines) /\ Len(lines) \in Nat /\ M # {}
  BY DEF Mine
<1>2. Max(M) \in M
  <2> HIDE DEF M
  <2> QED
    BY <1>1, GreatestOf
<1>3. Max(M) \in DOMAIN lines /\ lines[Max(M)] \in Line
  BY <1>1, <1>2
<1>4. lines[Max(M)].reentry \in Nat
  BY <1>3 DEF Line
<1> QED
  BY <1>2, <1>3, <1>4 DEF Newest

LEMMA ChainedHasMine == ASSUME NEW p, NEW lines, Chained(p, lines) PROVE Mine(p, lines) # {}
BY DEF Chained

\* The record that p is counted from: where its chain begins, in this turn, or, for a
\* policy that left no record at a stop of it, earlier.
Whence(p, lines, a) ==
  /\ a \in Mine(p, lines) /\ Begins(lines[a])
  /\ \A i, j \in Mine(p, lines) :
       (a <= i /\ i < j /\ \A k \in Mine(p, lines) : k <= i \/ j <= k)
         => lines[j].reentry = lines[i].reentry + 1
  /\ lines[a].made = turn \/ (~client.turnIds /\ p \in lost)
Counts(p, lines) == \E a \in DOMAIN lines : Whence(p, lines, a)

LEMMA CountsChained ==
  ASSUME NEW p, NEW lines \in Seq(Line), Counts(p, lines)
  PROVE  Chained(p, lines) /\ Mine(p, lines) # {} /\ Newest(p, lines).reentry \in Nat
<1>1. Chained(p, lines)
  BY DEF Counts, Whence, Chained
<1> QED
  BY <1>1, ChainedHasMine, NewestIsMine

\* A record of another policy changes nothing for p.
LEMMA OthersRecord ==
  ASSUME NEW p, NEW l \in Seq(Line), NEW r \in Line, r.policy # p, Counts(p, l)
  PROVE  Counts(p, Append(l, r)) /\ Newest(p, Append(l, r)) = Newest(p, l)
<1> DEFINE m == Append(l, r)
<1>1. /\ \A i \in DOMAIN l : i \in DOMAIN m /\ m[i] = l[i]
      /\ \A i \in DOMAIN m : i \in DOMAIN l \/ m[i] = r
  OBVIOUS
<1> HIDE DEF m
<1>2. Mine(p, m) = Mine(p, l) /\ \A i \in Mine(p, l) : m[i] = l[i] /\ i \in DOMAIN m
  BY <1>1 DEF Mine
<1>3. Counts(p, m)
  <2>1. PICK a \in DOMAIN l : Whence(p, l, a)
    BY DEF Counts
  <2>2. Whence(p, m, a) /\ a \in DOMAIN m
    BY <1>2, <2>1 DEF Whence
  <2> QED
    BY <2>2 DEF Counts
<1>4. Max(Mine(p, l)) \in Mine(p, l)
  <2>1. Mine(p, l) \subseteq 1 .. Len(l) /\ Len(l) \in Nat
    BY DEF Mine
  <2> QED
    BY <2>1, CountsChained, GreatestOf
<1>5. Newest(p, m) = Newest(p, l)
  BY <1>2, <1>4 DEF Newest
<1> QED
  BY <1>3, <1>5 DEF m

\* A record of p's own is its newest, and p is counted if it begins or follows.
LEMMA OwnRecord ==
  ASSUME NEW p, NEW l \in Seq(Line), NEW r \in Line, r.policy = p, client.turnIds => r.turn = turn,
         \/ Begins(r) /\ r.made = turn
         \/ Counts(p, l) /\ r.reentry = Newest(p, l).reentry + 1
  PROVE  Counts(p, Append(l, r)) /\ Newest(p, Append(l, r)) = r
<1> DEFINE m == Append(l, r)
           n == Len(l) + 1
<1>1. /\ n \in DOMAIN m /\ m[n] = r /\ n \in Nat /\ Len(l) \in Nat /\ DOMAIN m = 1 .. n
      /\ DOMAIN l = 1 .. Len(l) /\ m \in Seq(Line)
      /\ \A i \in DOMAIN l : m[i] = l[i]
  OBVIOUS
<1> HIDE DEF m
<1>2. Mine(p, m) = Mine(p, l) \cup {n} /\ Mine(p, l) \subseteq 1 .. Len(l)
  BY <1>1 DEF Mine
<1>3. Max(Mine(p, m)) = n
  <2>1. Mine(p, m) \subseteq 1 .. n /\ Mine(p, m) # {}
    BY <1>1, <1>2
  <2>2. Max(Mine(p, m)) \in 1 .. n /\ Max(Mine(p, m)) >= n
    BY <1>1, <1>2, <2>1, GreatestOf
  <2> QED
    BY <1>1, <2>2
<1>4. Newest(p, m) = r
  BY <1>1, <1>3 DEF Newest
<1>5. CASE Begins(r) /\ r.made = turn
  <2>1. \A i, j \in Mine(p, m) : ~(n <= i /\ i < j)
    BY <1>1, <1>2
  <2>2. Whence(p, m, n)
    BY <1>1, <1>2, <1>5, <2>1 DEF Whence
  <2> QED
    BY <1>1, <1>4, <2>2 DEF Counts, m
<1>6. CASE Counts(p, l) /\ r.reentry = Newest(p, l).reentry + 1
  <2>1. PICK a \in DOMAIN l : Whence(p, l, a)
    BY <1>6 DEF Counts
  <2>2. /\ a \in Mine(p, l)
        /\ \A i, j \in Mine(p, l) :
             (a <= i /\ i < j /\ \A k \in Mine(p, l) : k <= i \/ j <= k)
               => l[j].reentry = l[i].reentry + 1
    BY <2>1 DEF Whence
  <2>3. Max(Mine(p, l)) \in Mine(p, l) /\ \A y \in Mine(p, l) : Max(Mine(p, l)) >= y
    BY <1>1, <1>2, <2>2, GreatestOf
  <2>4. Newest(p, l) = l[Max(Mine(p, l))]
    BY DEF Newest
  <2>5. ASSUME NEW i \in Mine(p, m), NEW j \in Mine(p, m), a <= i, i < j,
               \A k \in Mine(p, m) : k <= i \/ j <= k
        PROVE  m[j].reentry = m[i].reentry + 1
    <3>1. i \in Mine(p, l) /\ i \in 1 .. Len(l) /\ m[i] = l[i]
      BY <1>1, <1>2, <2>5
    <3>2. CASE j \in Mine(p, l)
      <4>1. m[j] = l[j]
        BY <1>1, <1>2, <3>2
      <4> QED
        BY <1>2, <2>2, <2>5, <3>1, <3>2, <4>1
    <3>3. CASE j = n
      <4>1. i = Max(Mine(p, l))
        BY <1>1, <1>2, <2>3, <2>5, <3>1, <3>3
      <4> QED
        BY <1>1, <1>6, <2>4, <3>1, <3>3, <4>1
    <3> QED
      BY <1>2, <3>2, <3>3
  <2>6. a \in Mine(p, m) /\ m[a] = l[a] /\ a \in DOMAIN m
    BY <1>1, <1>2, <2>2
  <2>7. Whence(p, m, a)
    BY <2>1, <2>5, <2>6 DEF Whence
  <2> QED
    BY <1>4, <2>6, <2>7 DEF Counts, m
<1> QED
  BY <1>5, <1>6

\* Lines before the one p is counted from may go.
LEMMA OlderLinesGo ==
  ASSUME NEW p, NEW l \in Seq(Line), NEW d \in Nat, NEW a \in DOMAIN l, Whence(p, l, a), a > d
  PROVE  LET m == SubSeq(l, d + 1, Len(l)) IN
         m \in Seq(Line) /\ Counts(p, m) /\ Newest(p, m) = Newest(p, l)
<1> DEFINE m == SubSeq(l, d + 1, Len(l))
           n == Len(l)
<1>1. n \in Nat /\ a \in 1 .. n /\ d < n /\ DOMAIN l = 1 .. n
  OBVIOUS
<1>2. m \in Seq(Line) /\ DOMAIN m = 1 .. n - d /\ \A k \in 1 .. n - d : m[k] = l[k + d]
  <2>1. d + 1 \in 1 .. n + 1 /\ n - (d + 1) + 1 = n - d
    BY <1>1
  <2>2. \A k \in 1 .. n - d : (d + 1) + k - 1 = k + d
    BY <1>1
  <2>3. m \in Seq(Line) /\ Len(m) = n - d /\ \A k \in 1 .. n - d : m[k] = l[(d + 1) + k - 1]
    BY <1>1, <2>1
  <2> HIDE DEF m
  <2>4. DOMAIN m = 1 .. Len(m)
    BY <2>3
  <2> QED
    BY <2>2, <2>3, <2>4
<1> HIDE DEF m
<1>3. /\ \A k \in Mine(p, m) : k \in 1 .. n - d /\ k + d \in Mine(p, l) /\ m[k] = l[k + d]
      /\ \A i \in Mine(p, l) : i > d => i - d \in Mine(p, m) /\ i - d \in 1 .. n - d /\ m[i - d] = l[i]
  <2>1. \A k \in 1 .. n - d : k + d \in 1 .. n
    BY <1>1
  <2>2. \A i \in 1 .. n : i > d => i - d \in 1 .. n - d /\ (i - d) + d = i
    BY <1>1
  <2>3. \A i \in 1 .. n : i > d => m[i - d] = l[i]
    BY <1>2, <2>2
  <2> QED
    BY <1>1, <1>2, <2>1, <2>2, <2>3 DEF Mine
<1>4. a \in Mine(p, l)
  BY DEF Whence
<1>5. Counts(p, m)
  <2> DEFINE b == a - d
  <2>1. b \in Mine(p, m) /\ b \in DOMAIN m /\ m[b] = l[a] /\ b \in Int
    BY <1>1, <1>2, <1>3, <1>4
  <2>2. ASSUME NEW i \in Mine(p, m), NEW j \in Mine(p, m), b <= i, i < j,
               \A k \in Mine(p, m) : k <= i \/ j <= k
        PROVE  m[j].reentry = m[i].reentry + 1
    <3>1. /\ i + d \in Mine(p, l) /\ j + d \in Mine(p, l) /\ m[i] = l[i + d] /\ m[j] = l[j + d]
          /\ i \in Int /\ j \in Int
      BY <1>3
    <3>2. a <= i + d /\ i + d < j + d
      BY <1>1, <2>2, <3>1
    <3>3. \A k \in Mine(p, l) : k <= i + d \/ j + d <= k
      <4> SUFFICES ASSUME NEW k \in Mine(p, l), k > d PROVE k <= i + d \/ j + d <= k
        <5>1. \A k \in Mine(p, l) : k \in Int
          BY <1>1 DEF Mine
        <5>2. i \in 1 .. n - d
          BY <1>3
        <5> QED
          BY <1>1, <5>1, <5>2
      <4>1. k - d \in Mine(p, m) /\ k \in Int
        BY <1>1, <1>3 DEF Mine
      <4>2. k - d <= i \/ j <= k - d
        BY <2>2, <4>1
      <4> QED
        BY <3>1, <4>1, <4>2
    <3> QED
      BY <3>1, <3>2, <3>3 DEF Whence
  <2> HIDE DEF b
  <2>3. Whence(p, m, b)
    BY <2>1, <2>2 DEF Whence
  <2> QED
    BY <2>1, <2>3 DEF Counts
<1>6. Newest(p, m) = Newest(p, l)
  <2> DEFINE x == Max(Mine(p, m))
             y == Max(Mine(p, l))
  <2>1. Mine(p, m) \subseteq 1 .. n - d /\ Mine(p, m) # {} /\ n - d \in Nat
    BY <1>1, <1>3, <1>4
  <2>2. x \in Mine(p, m) /\ \A i \in Mine(p, m) : x >= i
    BY <2>1, GreatestOf
  <2>3. y \in Mine(p, l) /\ \A i \in Mine(p, l) : y >= i
    <3>1. Mine(p, l) \subseteq 1 .. n /\ Mine(p, l) # {}
      BY <1>1, <1>4 DEF Mine
    <3> QED
      BY <1>1, <3>1, GreatestOf
  <2> HIDE DEF x, y
  <2>4. y >= a /\ y \in 1 .. n /\ y > d
    BY <1>1, <1>4, <2>3 DEF Mine
  <2>5. y - d \in Mine(p, m) /\ x + d \in Mine(p, l) /\ m[x] = l[x + d] /\ x \in 1 .. n - d
    BY <1>3, <2>2, <2>3, <2>4
  <2>6. x >= y - d /\ y >= x + d
    BY <2>2, <2>3, <2>5
  <2>7. y = x + d
    BY <1>1, <2>4, <2>5, <2>6
  <2>8. Newest(p, m) = m[x] /\ Newest(p, l) = l[y]
    BY DEF Newest, x, y
  <2> QED
    BY <2>5, <2>7, <2>8
<1> QED
  BY <1>2, <1>5, <1>6 DEF m

-----------------------------------------------------------------------------
(* Where hooks and client are, what the ledger has of a turn, and what     *)
(* that makes of the refusals.                                             *)

Judging == {"weigh", "write", "rewrite"}
Undone(p) == pc[p] \in {"read", "weigh", "write", "stale", "rewrite"}

ReentryShape ==
  /\ client \in Clients /\ turn \in Nat /\ stop \in {Idle} \cup Nat
  /\ pc \in [Policies -> ReentryStage] /\ found \in [Policies -> BOOLEAN]
  /\ seen \in [Policies -> Seq(Line)] /\ ledger \in Seq(Line) /\ heavy \in BOOLEAN
  /\ decision \in [Policies -> Decision]
  /\ why \in [Policies -> {"none", "cap-reached", "untracked"}]
  /\ entered \in 0 .. Cap + 2 /\ dropped \in BOOLEAN
  /\ refusals \in [Policies -> Nat] /\ lost \subseteq Policies

StagesInv ==
  /\ \A p \in Policies : (pc[p] = "waiting") <=> stop = Idle
  /\ \A p \in Policies : why[p] # "none" => pc[p] = "decided"
  /\ stop # Idle => turn # 0
  /\ client.counts => ~dropped
  /\ stop # Idle /\ client.counts => entered = stop \/ (entered = Cap + 2 /\ stop >= Cap + 2)
  /\ stop # Idle /\ ~client.counts => stop \in {0, 1} /\ (stop = 0 <=> entered = 0)

\* Where turns have ids, a line's is that of the turn it was written in.
NamesTurn(lines) == \A i \in DOMAIN lines : client.turnIds => lines[i].turn = lines[i].made
MadeInv == NamesTurn(ledger) /\ \A p \in Policies : NamesTurn(seen[p])

\* Of a client that counts: one refusal at a stop, and none past the cap.
CountedInv == client.counts =>
  \A p \in Policies :
    /\ refusals[p] <= Cap + 1
    /\ Undone(p) => refusals[p] <= stop
    /\ pc[p] = "decided" => refusals[p] <= stop + 1

\* Of any other client, until a line that is counted from is lost: a policy that has
\* left a record at every stop is counted,
KeptCount == ~client.counts /\ ~dropped
RecordedInv == KeptCount =>
  \A p \in Policies :
    p \notin lost /\ (pc[p] = "decided" \/ stop > 0) => Counts(p, ledger)

\* what a hook counted from the lines it read is what the ledger says now,
ReadInv == KeptCount /\ stop > 0 =>
  \A p \in Policies : pc[p] \in Judging =>
    /\ Chained(p, seen[p]) =>
         Counts(p, ledger) /\ Newest(p, ledger).reentry = Newest(p, seen[p]).reentry
    /\ ~Chained(p, seen[p]) => refusals[p] <= 1

\* and the newest record says how often p refused.
Bounded(p) ==
  /\ refusals[p] <= Cap + 1
  /\ Undone(p) /\ stop = 0 => refusals[p] = 0
  /\ stop # Idle => \/ refusals[p] <= 1
                    \/ Counts(p, ledger) /\ refusals[p] <= Newest(p, ledger).reentry + 1
BoundInv == KeptCount => \A p \in Policies : Bounded(p)

\* A record of this turn counts no more re-entries than there were.
FitsTurn(r) ==
  /\ r.turn <= turn
  /\ r.turn = turn /\ turn # 0 /\ entered <= Cap + 1 /\ r.policy \in Policies =>
       /\ r.reentry <= entered
       /\ Undone(r.policy) => r.reentry < entered
Fits(lines) == \A i \in DOMAIN lines : FitsTurn(lines[i])
TurnInv == client.turnIds /\ ~client.counts =>
  Fits(ledger) /\ \A q \in Policies : Fits(seen[q])

\* Without turn ids, neither does the newest if every stop was recorded.
Restarted(p) == p \notin lost =>
  /\ pc[p] = "decided" => Newest(p, ledger).reentry <= entered
  /\ Undone(p) /\ stop > 0 => Newest(p, ledger).reentry < entered
RestartInv == KeptCount /\ stop # Idle /\ entered <= Cap + 1 =>
  \A p \in Policies : Restarted(p)

StateInv == ReentryShape /\ StagesInv /\ MadeInv
TurnEndInv ==
  /\ StateInv /\ CountedInv /\ RecordedInv /\ ReadInv /\ BoundInv
  /\ TurnInv /\ RestartInv /\ NoEarlyWarning

LEMMA InitReentry == ReentryInit => TurnEndInv
<1> SUFFICES ASSUME ReentryInit PROVE TurnEndInv
  OBVIOUS
<1> USE ClientAssumption, BoundsAssumption, EarlierAssumption DEF ReentryInit, Idle
<1>1. ReentryShape
  <2>1. <<>> \in Seq(Line) /\ ledger \in Seq(Line)
    OBVIOUS
  <2>2. heavy \in BOOLEAN /\ dropped \in BOOLEAN /\ found \in [Policies -> BOOLEAN]
    OBVIOUS
  <2>3. entered \in 0 .. Cap + 2 /\ refusals \in [Policies -> Nat] /\ lost \subseteq Policies
    OBVIOUS
  <2>4. client \in Clients /\ turn \in Nat /\ stop \in {Idle} \cup Nat
    OBVIOUS
  <2> QED
    BY <2>1, <2>2, <2>3, <2>4 DEF ReentryShape, ReentryStage, Decision
<1>2. StagesInv
  BY DEF StagesInv
<1>3. MadeInv
  BY DEF MadeInv, NamesTurn
<1>4. CountedInv /\ RecordedInv /\ ReadInv /\ BoundInv /\ RestartInv /\ NoEarlyWarning
  BY DEF CountedInv, RecordedInv, ReadInv, BoundInv, RestartInv, NoEarlyWarning, Undone, Bounded
<1>5. TurnInv
  <2>1. \A i \in DOMAIN ledger : ledger[i].turn = 0
    BY DEF NoTurn
  <2> QED
    BY <2>1 DEF TurnInv, Fits, FitsTurn
<1> QED
  BY <1>1, <1>2, <1>3, <1>4, <1>5 DEF TurnEndInv, StateInv

LEMMA RecordIsLine ==
  ASSUME ReentryShape, stop # Idle, NEW p \in Policies
  PROVE  /\ Index(p) \in Nat /\ Signalled \in Nat /\ NewRecord(p) \in Line
         /\ NewRecord(p).policy = p /\ NewRecord(p).turn = TurnId /\ NewRecord(p).reentry = Index(p)
         /\ NewRecord(p).made = turn
         /\ Signalled > 0 /\ ~Chained(p, seen[p]) => Begins(NewRecord(p))
<1> USE DEF ReentryShape
<1>1. Signalled \in Nat
  BY DEF Signalled
<1>2. Chained(p, seen[p]) => Newest(p, seen[p]).reentry \in Nat
  BY ChainedHasMine, NewestIsMine
<1>3. Index(p) \in Nat
  BY <1>1, <1>2 DEF Index
<1>4. TurnId \in Nat
  BY DEF TurnId, NoTurn
<1>5. (Signalled > 0 /\ ~Chained(p, seen[p])) \in BOOLEAN
  OBVIOUS
<1>6. Signalled > 0 /\ ~Chained(p, seen[p]) => Begins(NewRecord(p))
  BY DEF NewRecord, Record, Begins
<1> QED
  BY <1>1, <1>3, <1>4, <1>5, <1>6 DEF NewRecord, Record, Line

\* What the hook of p does when it decides.
LEMMA SettleDoes ==
  ASSUME StateInv, NEW p \in Policies, NEW landed \in BOOLEAN, NEW drops, stop # Idle,
         SettleStop(p, landed, drops)
  PROVE  /\ UNCHANGED <<client, turn, stop, entered>>
         /\ found' \in [Policies -> BOOLEAN] /\ decision' \in [Policies -> Decision]
         /\ seen' = [seen EXCEPT ![p] = <<>>]
         /\ dropped' \in BOOLEAN /\ (dropped => dropped') /\ (client.counts => ~dropped')
         /\ refusals' \in [Policies -> Nat] /\ lost' \subseteq Policies
         /\ ~dropped' => /\ \A q \in Policies \ {p} : refusals'[q] = refusals[q]
                         /\ \/ refusals'[p] = refusals[p]
                            \/ /\ refusals'[p] = refusals[p] + 1
                               /\ Signalled = 0 \/ Index(p) <= Cap
                               /\ landed \/ Signalled = 0 \/ client.counts
                         /\ lost' = IF landed THEN lost ELSE lost \cup {p}
         /\ why' \in [Policies -> {"none", "cap-reached", "untracked"}]
         /\ \A q \in Policies \ {p} : why'[q] = why[q]
         /\ why'[p] = "cap-reached" => Signalled > 0 /\ Index(p) > Cap
<1> USE DEF StateInv, ReentryShape, SettleStop
<1>1. stop \in Nat
  OBVIOUS
<1>2. Index(p) \in Nat /\ Signalled \in Nat /\ Cap \in Nat
  BY <1>1, RecordIsLine, BoundsAssumption
<1>3. Settlement(p, landed) \in {"allow", "deny", "warn"}
  BY DEF Settlement
<1>4. Settlement(p, landed) = "deny" =>
        /\ Signalled = 0 \/ Index(p) <= Cap
        /\ landed \/ Signalled = 0 \/ client.counts
  BY <1>2 DEF Settlement, Spent, Untracked
<1>5. /\ Why(p, landed) \in {"none", "cap-reached", "untracked"}
      /\ Why(p, landed) = "cap-reached" => Signalled > 0 /\ Index(p) > Cap
  BY <1>2, <1>3 DEF Why, Spent
<1>6. /\ dropped' \in BOOLEAN /\ (dropped => dropped') /\ (client.counts => ~dropped')
  BY DEF StagesInv
<1>7. ~dropped' =>
        /\ refusals' \in [Policies -> Nat] /\ \A q \in Policies \ {p} : refusals'[q] = refusals[q]
        /\ refusals'[p] = refusals[p] \/ (refusals'[p] = refusals[p] + 1 /\ Settlement(p, landed) = "deny")
        /\ lost' = IF landed THEN lost ELSE lost \cup {p}
  <2> SUFFICES ASSUME ~dropped'
               PROVE  /\ refusals' \in [Policies -> Nat] /\ \A q \in Policies \ {p} : refusals'[q] = refusals[q]
                      /\ refusals'[p] = refusals[p] \/ (refusals'[p] = refusals[p] + 1 /\ Settlement(p, landed) = "deny")
                      /\ lost' = IF landed THEN lost ELSE lost \cup {p}
    OBVIOUS
  <2>1. refusals' = [refusals EXCEPT ![p] = IF Settlement(p, landed) = "deny" /\ refusals[p] <= Cap + 1
                                            THEN refusals[p] + 1 ELSE refusals[p]]
    OBVIOUS
  <2>2. refusals[p] \in Nat
    OBVIOUS
  <2> QED
    BY <2>1, <2>2
<1>8. dropped' => refusals' \in [Policies -> Nat] /\ lost' \subseteq Policies
  OBVIOUS
<1>9. why' \in [Policies -> {"none", "cap-reached", "untracked"}] /\ why'[p] = Why(p, landed)
      /\ \A q \in Policies \ {p} : why'[q] = why[q]
  BY <1>5
<1>10. decision' \in [Policies -> Decision]
  BY <1>3 DEF Decision
<1>11. /\ UNCHANGED <<client, turn, stop, entered>> /\ seen' = [seen EXCEPT ![p] = <<>>]
       /\ found' \in [Policies -> BOOLEAN]
  OBVIOUS
<1> QED
  BY <1>4, <1>5, <1>6, <1>7, <1>8, <1>9, <1>10, <1>11

\* The hook's record is added, or goes with a file replaced before, or the ledger is
\* replaced, or the record does not land.
Settles(p) == AppendRecord(p) \/ AppendStale(p) \/ ReplaceLedger(p) \/ RecordLost(p)

LEMMA SettleEffect ==
  ASSUME StateInv, NEW p \in Policies, Settles(p)
  PROVE  /\ pc[p] \in {"weigh", "write", "stale", "rewrite"} /\ stop # Idle /\ stop \in Nat
         /\ UNCHANGED <<client, turn, stop, entered>>
         /\ pc' \in [Policies -> ReentryStage] /\ pc'[p] = "decided"
         /\ \A q \in Policies \ {p} : pc'[q] = pc[q] \/ (pc[q] = "write" /\ pc'[q] = "stale")
         /\ found' \in [Policies -> BOOLEAN] /\ decision' \in [Policies -> Decision]
         /\ seen' = [seen EXCEPT ![p] = <<>>] /\ heavy' \in BOOLEAN
         /\ dropped' \in BOOLEAN /\ (dropped => dropped') /\ (client.counts => ~dropped')
         /\ refusals' \in [Policies -> Nat] /\ lost' \subseteq Policies
         /\ why' \in [Policies -> {"none", "cap-reached", "untracked"}]
         /\ \A q \in Policies \ {p} : why'[q] = why[q]
         /\ why'[p] = "cap-reached" => Signalled > 0 /\ Index(p) > Cap
         /\ ~dropped' => /\ \A q \in Policies \ {p} : refusals'[q] = refusals[q]
                         /\ \/ refusals'[p] = refusals[p]
                            \/ /\ refusals'[p] = refusals[p] + 1
                               /\ Signalled = 0 \/ Index(p) <= Cap
                         /\ \A q \in Policies : q \notin lost' => q \notin lost
                         /\ lost \subseteq lost'
<1>1. pc[p] \in {"weigh", "write", "stale", "rewrite"}
  BY DEF Settles, AppendRecord, AppendStale, ReplaceLedger, RecordLost
<1>2. stop # Idle /\ stop \in Nat
  BY <1>1 DEF StateInv, StagesInv, ReentryShape
<1>3. PICK landed \in BOOLEAN, drops \in BOOLEAN : SettleStop(p, landed, drops)
  <2>1. AppendStale(p) \/ AppendRecord(p) \/ RecordLost(p) =>
          \E landed \in BOOLEAN, drops \in BOOLEAN : SettleStop(p, landed, drops)
    BY DEF AppendRecord, AppendStale, RecordLost
  <2>2. ReplaceLedger(p) => SettleStop(p, TRUE, Loses(p)) /\ Loses(p) \in BOOLEAN
    BY DEF ReplaceLedger, Loses
  <2> QED
    BY <2>1, <2>2 DEF Settles
<1>4. /\ pc' \in [Policies -> ReentryStage] /\ pc'[p] = "decided" /\ heavy' \in BOOLEAN
      /\ \A q \in Policies \ {p} : pc'[q] = pc[q] \/ (pc[q] = "write" /\ pc'[q] = "stale")
  BY DEF Settles, AppendRecord, AppendStale, ReplaceLedger, RecordLost, StateInv, ReentryShape, ReentryStage
<1> QED
  BY <1>1, <1>2, <1>3, <1>4, SettleDoes

LEMMA KeptLines ==
  ASSUME NEW l \in Seq(Line)
  PROVE  /\ Cut(l) \in 0 .. Len(l) /\ Kept(l) \in Seq(Line)
         /\ \A i \in DOMAIN Kept(l) : \E j \in DOMAIN l : Kept(l)[i] = l[j]
<1> DEFINE n == Len(l)
           d == Cut(l)
<1>1. n \in Nat /\ DOMAIN l = 1 .. n /\ MaxEntries \in Nat \ {0}
  BY BoundsAssumption
<1>2. d \in 0 .. n
  BY <1>1 DEF Cut
<1>3. Kept(l) = SubSeq(l, d + 1, n)
  BY DEF Kept
<1> HIDE DEF d
<1>4. d + 1 \in 1 .. n + 1 /\ n - (d + 1) + 1 = n - d /\ \A i \in 1 .. n - d : d + 1 + i - 1 \in 1 .. n
  BY <1>1, <1>2
<1>5. Kept(l) \in Seq(Line) /\ Len(Kept(l)) = n - d /\ \A i \in 1 .. n - d : Kept(l)[i] = l[d + 1 + i - 1]
  BY <1>1, <1>3, <1>4
<1>6. DOMAIN Kept(l) = 1 .. n - d
  BY <1>5
<1> QED
  BY <1>1, <1>2, <1>4, <1>5, <1>6 DEF d

\* The lines of the next ledger are old ones and this one.
LEMMA NextLines ==
  ASSUME StateInv, NEW p \in Policies, Settles(p)
  PROVE  /\ ledger' \in Seq(Line)
         /\ \A i \in DOMAIN ledger' : \/ ledger'[i] = NewRecord(p)
                                      \/ \E j \in DOMAIN ledger : ledger'[i] = ledger[j]
                                      \/ \E j \in DOMAIN seen[p] : ledger'[i] = seen[p][j]
<1>1. NewRecord(p) \in Line /\ ledger \in Seq(Line) /\ seen[p] \in Seq(Line)
  BY SettleEffect, RecordIsLine DEF StateInv, ReentryShape
<1>2. CASE AppendRecord(p)
  BY <1>1, <1>2 DEF AppendRecord
<1>3. CASE ReplaceLedger(p)
  <2>1. /\ Kept(seen[p]) \in Seq(Line)
        /\ \A i \in DOMAIN Kept(seen[p]) : \E j \in DOMAIN seen[p] : Kept(seen[p])[i] = seen[p][j]
    BY <1>1, KeptLines
  <2>2. ledger' = Append(Kept(seen[p]), NewRecord(p))
    BY <1>3 DEF ReplaceLedger
  <2>3. \A i \in DOMAIN ledger' : ledger'[i] = NewRecord(p) \/ (i \in DOMAIN Kept(seen[p]) /\ ledger'[i] = Kept(seen[p])[i])
    BY <1>1, <2>1, <2>2
  <2> QED
    BY <1>1, <2>1, <2>2, <2>3
<1>4. CASE AppendStale(p) \/ RecordLost(p)
  BY <1>1, <1>4 DEF AppendStale, RecordLost
<1> QED
  BY <1>2, <1>3, <1>4 DEF Settles

LEMMA SettleShape ==
  ASSUME StateInv, NEW p \in Policies, Settles(p)
  PROVE  StateInv'
<1>1. ReentryShape'
  <2>1. seen' \in [Policies -> Seq(Line)]
    <3>1. <<>> \in Seq(Line)
      OBVIOUS
    <3> QED
      BY <3>1, SettleEffect DEF StateInv, ReentryShape
  <2> QED
    BY <2>1, SettleEffect, NextLines DEF StateInv, ReentryShape
<1>2. StagesInv'
  <2> USE DEF StateInv, StagesInv
  <2>1. /\ UNCHANGED <<client, turn, stop, entered>> /\ stop # Idle /\ (client.counts => ~dropped')
        /\ pc'[p] = "decided" /\ \A q \in Policies \ {p} : why'[q] = why[q]
        /\ \A q \in Policies \ {p} : pc'[q] = pc[q] \/ (pc[q] = "write" /\ pc'[q] = "stale")
    BY SettleEffect
  <2>2. \A q \in Policies : pc'[q] # "waiting"
    BY <2>1
  <2>3. \A q \in Policies : why'[q] # "none" => pc'[q] = "decided"
    BY <2>1
  <2> QED
    BY <2>1, <2>2, <2>3
<1>3. MadeInv'
  <2> USE DEF StateInv, MadeInv, NamesTurn
  <2>1. UNCHANGED <<client, turn>> /\ seen' = [seen EXCEPT ![p] = <<>>] /\ seen \in [Policies -> Seq(Line)]
    BY SettleEffect DEF ReentryShape
  <2>2. \A q \in Policies : \A i \in DOMAIN seen'[q] : client.turnIds => seen'[q][i].turn = seen'[q][i].made
    BY <2>1
  <2>3. client.turnIds => NewRecord(p).turn = NewRecord(p).made
    BY SettleEffect, RecordIsLine DEF TurnId
  <2>4. \A i \in DOMAIN ledger' : client.turnIds => ledger'[i].turn = ledger'[i].made
    BY <2>3, NextLines
  <2> QED
    BY <2>1, <2>2, <2>4
<1> QED
  BY <1>1, <1>2, <1>3 DEF StateInv

\* What the next ledger says is what is said of it now, within a turn.
LEMMA NextSays ==
  ASSUME UNCHANGED <<client, turn>>, lost \subseteq lost', NEW STATE m, ledger' = m, NEW q
  PROVE  /\ Chained(q, ledger)' <=> Chained(q, m)
         /\ Newest(q, ledger)' = Newest(q, m)
         /\ Counts(q, m) => Counts(q, ledger)'
<1>1. Mine(q, ledger)' = Mine(q, m)
  BY DEF Mine
<1>2. Chained(q, ledger)' <=> Chained(q, m)
  BY DEF Chained, Mine, Begins
<1>3. Newest(q, ledger)' = Newest(q, m)
  BY DEF Newest, Mine
<1>4. ASSUME Counts(q, m) PROVE Counts(q, ledger)'
  <2>1. PICK a \in DOMAIN m : Whence(q, m, a)
    BY <1>4 DEF Counts
  <2>2. Whence(q, ledger, a)'
    BY <2>1 DEF Whence, Mine, Begins
  <2> QED
    BY <2>1, <2>2 DEF Counts
<1> QED
  BY <1>1, <1>2, <1>3, <1>4

\* While no line that is counted from is lost, the next ledger is this one, or some of
\* it, which says the same of every policy, and p's record.
LEMMA NextLedger ==
  ASSUME StateInv, NEW p \in Policies, Settles(p), ~client.counts, ~dropped'
  PROVE  /\ UNCHANGED <<client, turn, stop, entered>> /\ lost \subseteq lost' /\ ~dropped
         /\ \/ /\ RecordLost(p) /\ SettleStop(p, FALSE, FALSE) /\ ledger' = ledger /\ p \in lost'
            \/ /\ SettleStop(p, TRUE, FALSE) /\ lost' = lost
               /\ pc[p] \in Judging
               /\ \E l \in Seq(Line) :
                    /\ ledger' = Append(l, NewRecord(p))
                    /\ \A q \in Policies :
                         Counts(q, ledger) => Counts(q, l) /\ Newest(q, l) = Newest(q, ledger)
<1> USE DEF StateInv, ReentryShape
<1>1. UNCHANGED <<client, turn, stop, entered>> /\ lost \subseteq lost' /\ ~dropped
  BY SettleEffect
<1>2. CASE RecordLost(p)
  <2>1. SettleStop(p, FALSE, FALSE) /\ ledger' = ledger
    BY <1>2 DEF RecordLost
  <2>2. p \in lost'
    BY <2>1 DEF SettleStop
  <2> QED
    BY <1>1, <1>2, <2>1, <2>2
<1>3. CASE AppendRecord(p)
  <2>1. SettleStop(p, TRUE, FALSE) /\ ledger' = Append(ledger, NewRecord(p)) /\ pc[p] \in Judging
    BY <1>3 DEF AppendRecord, Judging
  <2>2. lost' = lost
    BY <2>1 DEF SettleStop
  <2> QED
    BY <1>1, <2>1, <2>2
<1>4. CASE AppendStale(p)
  BY <1>4 DEF AppendStale, SettleStop
<1>5. CASE ReplaceLedger(p)
  <2>1. /\ SettleStop(p, TRUE, Loses(p)) /\ ledger' = Append(Kept(seen[p]), NewRecord(p))
        /\ pc[p] \in Judging
    BY <1>5 DEF ReplaceLedger, Judging
  <2>2. ~Loses(p) /\ lost' = lost
    BY <2>1 DEF SettleStop
  <2>3. SettleStop(p, TRUE, FALSE)
    BY <2>1, <2>2 DEF SettleStop
  <2>4. seen[p] = ledger
    BY <2>2 DEF Loses
  <2>5. Kept(ledger) \in Seq(Line) /\ Cut(ledger) \in 0 .. Len(ledger)
    BY KeptLines
  <2>6. ASSUME NEW q \in Policies, Counts(q, ledger)
        PROVE  Counts(q, Kept(ledger)) /\ Newest(q, Kept(ledger)) = Newest(q, ledger)
    <3>1. PICK a \in DOMAIN ledger : Whence(q, ledger, a)
      BY <2>6 DEF Counts
    <3>2. /\ ledger[a].made = turn \/ (~client.turnIds /\ q \in lost)
          /\ ledger[a].policy = q
      BY <3>1 DEF Whence, Mine
    <3>3. a \in 1 .. Len(ledger) /\ Len(ledger) \in Nat
      OBVIOUS
    <3>4. a > Cut(ledger)
      <4>1. a \notin 1 .. Cut(ledger)
        BY <2>2, <3>2 DEF Loses
      <4> QED
        BY <2>5, <3>3, <4>1
    <3>5. Cut(ledger) \in Nat
      BY <2>5, <3>3
    <3> QED
      BY <3>1, <3>4, <3>5, OlderLinesGo DEF Kept
  <2>7. ledger' = Append(Kept(ledger), NewRecord(p))
    BY <2>1, <2>4
  <2> QED
    BY <1>1, <2>1, <2>2, <2>3, <2>5, <2>6, <2>7
<1> QED
  BY <1>2, <1>3, <1>4, <1>5 DEF Settles

\* Either way, what the ledger says of another policy stays.
LEMMA SameOfOthers ==
  ASSUME StateInv, NEW p \in Policies, Settles(p), ~client.counts, ~dropped',
         NEW q \in Policies, q # p, Counts(q, ledger)
  PROVE  Counts(q, ledger)' /\ Newest(q, ledger)' = Newest(q, ledger)
<1>1. UNCHANGED <<client, turn>> /\ lost \subseteq lost' /\ stop # Idle
  BY SettleEffect
<1>2. CASE ledger' = ledger
  BY <1>1, <1>2, NextSays
<1>3. CASE \E l \in Seq(Line) :
             /\ ledger' = Append(l, NewRecord(p))
             /\ Counts(q, l) /\ Newest(q, l) = Newest(q, ledger)
  <2> PICK l \in Seq(Line) : /\ ledger' = Append(l, NewRecord(p))
                             /\ Counts(q, l) /\ Newest(q, l) = Newest(q, ledger)
    BY <1>3
  <2>1. NewRecord(p) \in Line /\ NewRecord(p).policy # q
    BY <1>1, RecordIsLine DEF StateInv
  <2> DEFINE m == Append(l, NewRecord(p))
  <2>2. Counts(q, m) /\ Newest(q, m) = Newest(q, l)
    BY <2>1, OthersRecord
  <2>3. ledger' = m
    OBVIOUS
  <2> HIDE DEF m
  <2> QED
    BY <1>1, <2>2, <2>3, NextSays
<1> QED
  BY <1>2, <1>3, NextLedger

\* And of p that its newest record is this one, if a record landed at a first stop, or
\* the one before is counted from, or none is.
LEMMA SaysOfOwn ==
  ASSUME StateInv, ReadInv, RecordedInv, NEW p \in Policies, Settles(p), SettleStop(p, TRUE, FALSE),
         ~client.counts, ~dropped', pc[p] \in Judging,
         NEW l \in Seq(Line), ledger' = Append(l, NewRecord(p)),
         Counts(p, ledger) => Counts(p, l) /\ Newest(p, l) = Newest(p, ledger)
  PROVE  /\ Counts(p, ledger)' /\ Newest(p, ledger)' = NewRecord(p)
         /\ NewRecord(p).reentry = Index(p) /\ Index(p) \in Nat
         /\ \/ stop = 0 /\ Index(p) = 0
            \/ /\ stop > 0 /\ Chained(p, seen[p]) /\ Counts(p, ledger)
               /\ Index(p) = Newest(p, ledger).reentry + 1
            \/ stop > 0 /\ ~Chained(p, seen[p]) /\ Index(p) = 1
<1>1. UNCHANGED <<client, turn>> /\ lost \subseteq lost' /\ stop # Idle /\ stop \in {0, 1} /\ ~dropped
  BY SettleEffect DEF StateInv, StagesInv
<1>2. Signalled = stop
  BY <1>1 DEF Signalled
<1>3. /\ NewRecord(p) \in Line /\ NewRecord(p).policy = p /\ NewRecord(p).turn = TurnId
      /\ NewRecord(p).reentry = Index(p) /\ NewRecord(p).made = turn /\ Index(p) \in Nat
      /\ Signalled > 0 /\ ~Chained(p, seen[p]) => Begins(NewRecord(p))
  BY <1>1, RecordIsLine DEF StateInv
<1>4. client.turnIds => NewRecord(p).turn = turn
  BY <1>3 DEF TurnId
<1> DEFINE m == Append(l, NewRecord(p))
<1>5. ledger' = m
  OBVIOUS
<1>6. CASE stop = 0
  <2>1. Index(p) = 0
    BY <1>2, <1>6 DEF Index
  <2>2. Begins(NewRecord(p))
    BY <1>3, <2>1 DEF Begins
  <2>3. Counts(p, m) /\ Newest(p, m) = NewRecord(p)
    BY <1>3, <1>4, <2>2, OwnRecord
  <2> HIDE DEF m
  <2> QED
    BY <1>1, <1>3, <1>5, <1>6, <2>1, <2>3, NextSays
<1>7. CASE stop > 0 /\ ~Chained(p, seen[p])
  <2>1. Index(p) = 1
    BY <1>1, <1>2, <1>7 DEF Index
  <2>2. Counts(p, m) /\ Newest(p, m) = NewRecord(p)
    BY <1>2, <1>3, <1>4, <1>7, OwnRecord
  <2> HIDE DEF m
  <2> QED
    BY <1>1, <1>3, <1>5, <1>7, <2>1, <2>2, NextSays
<1>8. CASE stop > 0 /\ Chained(p, seen[p])
  <2>1. Counts(p, ledger) /\ Newest(p, ledger).reentry = Newest(p, seen[p]).reentry
    BY <1>1, <1>8 DEF ReadInv, KeptCount
  <2>2. Index(p) = Newest(p, ledger).reentry + 1
    BY <1>1, <1>2, <1>8, <2>1 DEF Index
  <2>3. Counts(p, m) /\ Newest(p, m) = NewRecord(p)
    BY <1>3, <1>4, <2>1, <2>2, OwnRecord
  <2> HIDE DEF m
  <2> QED
    BY <1>1, <1>3, <1>5, <1>8, <2>1, <2>2, <2>3, NextSays
<1> QED
  BY <1>1, <1>6, <1>7, <1>8

-----------------------------------------------------------------------------
(* A hook settles its stop.                                                *)

LEMMA SettleCounted ==
  ASSUME StateInv, CountedInv, NEW p \in Policies, Settles(p)
  PROVE  CountedInv'
<1>1. /\ pc[p] \in {"weigh", "write", "stale", "rewrite"} /\ pc'[p] = "decided"
      /\ stop # Idle /\ stop \in Nat /\ UNCHANGED <<client, stop>> /\ (client.counts => ~dropped')
      /\ \A q \in Policies \ {p} : pc'[q] = pc[q] \/ (pc[q] = "write" /\ pc'[q] = "stale")
      /\ ~dropped' => /\ \A q \in Policies \ {p} : refusals'[q] = refusals[q]
                      /\ \/ refusals'[p] = refusals[p]
                         \/ /\ refusals'[p] = refusals[p] + 1
                            /\ Signalled = 0 \/ Index(p) <= Cap
  BY SettleEffect
<1> SUFFICES ASSUME client.counts PROVE CountedInv'
  BY <1>1 DEF CountedInv
<1>3. Signalled = stop /\ (Signalled # 0 => Index(p) = stop)
  BY <1>1 DEF Signalled, Index
<1>4. refusals \in [Policies -> Nat] /\ Cap \in Nat
  BY BoundsAssumption DEF StateInv, ReentryShape
<1>5. refusals[p] <= stop
  BY <1>1 DEF CountedInv, Undone
<1>6. ASSUME NEW q \in Policies
      PROVE  /\ refusals'[q] <= Cap + 1
             /\ Undone(q)' => refusals'[q] <= stop
             /\ pc'[q] = "decided" => refusals'[q] <= stop + 1
  <2>1. CASE q = p
    BY <1>1, <1>3, <1>4, <1>5, <2>1 DEF CountedInv, Undone
  <2>2. CASE q # p
    <3>1. refusals'[q] = refusals[q] /\ (Undone(q)' => Undone(q)) /\ (pc'[q] = "decided" => pc[q] = "decided")
      BY <1>1, <2>2 DEF Undone
    <3> QED
      BY <3>1 DEF CountedInv
  <2> QED
    BY <2>1, <2>2
<1> QED
  BY <1>1, <1>6 DEF CountedInv

\* The frame of a step that settles for the policies that do not.
LEMMA OthersStay ==
  ASSUME StateInv, NEW p \in Policies, Settles(p), ~client.counts, ~dropped', NEW q \in Policies, q # p
  PROVE  /\ UNCHANGED <<client, turn, stop, entered>> /\ stop # Idle /\ ~dropped
         /\ refusals'[q] = refusals[q] /\ seen'[q] = seen[q]
         /\ Undone(q)' <=> Undone(q)
         /\ (pc'[q] = "decided") <=> (pc[q] = "decided")
         /\ pc'[q] \in Judging => pc[q] \in Judging
         /\ q \notin lost' => q \notin lost
         /\ Counts(q, ledger) => Counts(q, ledger)' /\ Newest(q, ledger)' = Newest(q, ledger)
<1>1. /\ UNCHANGED <<client, turn, stop, entered>> /\ stop # Idle /\ ~dropped
      /\ refusals'[q] = refusals[q] /\ (q \notin lost' => q \notin lost)
      /\ pc'[q] = pc[q] \/ (pc[q] = "write" /\ pc'[q] = "stale")
      /\ seen' = [seen EXCEPT ![p] = <<>>]
  BY SettleEffect
<1>2. seen'[q] = seen[q]
  BY <1>1 DEF StateInv, ReentryShape
<1>3. /\ Undone(q)' <=> Undone(q)
      /\ (pc'[q] = "decided") <=> (pc[q] = "decided")
      /\ pc'[q] \in Judging => pc[q] \in Judging
  BY <1>1 DEF Undone, Judging
<1> QED
  BY <1>1, <1>2, <1>3, SameOfOthers

LEMMA SettleRecorded ==
  ASSUME StateInv, RecordedInv, ReadInv, NEW p \in Policies, Settles(p)
  PROVE  RecordedInv'
<1> SUFFICES ASSUME ~client.counts, ~dropped', NEW q \in Policies, q \notin lost',
                    pc'[q] = "decided" \/ stop > 0
             PROVE  Counts(q, ledger)'
  BY SettleEffect DEF RecordedInv, KeptCount
<1>1. CASE q # p
  BY <1>1, OthersStay DEF RecordedInv, KeptCount
<1>2. CASE q = p
  BY <1>2, NextLedger, SaysOfOwn
<1> QED
  BY <1>1, <1>2

LEMMA SettleRead ==
  ASSUME StateInv, ReadInv, NEW p \in Policies, Settles(p)
  PROVE  ReadInv'
<1> SUFFICES ASSUME ~client.counts, ~dropped', stop > 0, NEW q \in Policies, pc'[q] \in Judging
             PROVE  (/\ Chained(q, seen[q]) =>
                          Counts(q, ledger) /\ Newest(q, ledger).reentry = Newest(q, seen[q]).reentry
                     /\ ~Chained(q, seen[q]) => refusals[q] <= 1)'
  BY SettleEffect DEF ReadInv, KeptCount
<1>1. q # p
  BY SettleEffect DEF Judging
<1>2. /\ UNCHANGED <<client, turn, stop>> /\ ~dropped /\ refusals'[q] = refusals[q]
      /\ seen'[q] = seen[q] /\ pc[q] \in Judging
      /\ Counts(q, ledger) => Counts(q, ledger)' /\ Newest(q, ledger)' = Newest(q, ledger)
  BY <1>1, OthersStay
<1>3. /\ Chained(q, seen[q]) =>
           Counts(q, ledger) /\ Newest(q, ledger).reentry = Newest(q, seen[q]).reentry
      /\ ~Chained(q, seen[q]) => refusals[q] <= 1
  BY <1>2 DEF ReadInv, KeptCount
<1>4. (Chained(q, seen[q])' <=> Chained(q, seen[q])) /\ Newest(q, seen[q])' = Newest(q, seen[q])
  BY <1>2 DEF Chained, Newest, Mine, Begins
<1> QED
  BY <1>2, <1>3, <1>4

LEMMA SettleBound ==
  ASSUME StateInv, RecordedInv, ReadInv, BoundInv, NEW p \in Policies, Settles(p)
  PROVE  BoundInv'
<1>1. /\ pc[p] \in {"weigh", "write", "stale", "rewrite"} /\ pc'[p] = "decided"
      /\ stop # Idle /\ stop \in Nat /\ UNCHANGED <<client, turn, stop>>
      /\ (dropped => dropped') /\ dropped \in BOOLEAN
  BY SettleEffect DEF StateInv, ReentryShape
<1> SUFFICES ASSUME ~client.counts, ~dropped', NEW q \in Policies PROVE Bounded(q)'
  BY <1>1 DEF BoundInv, KeptCount
<1>2. \A r \in Policies : Bounded(r)
  BY <1>1 DEF BoundInv, KeptCount
<1>3. refusals \in [Policies -> Nat] /\ Cap \in Nat \ {0} /\ ledger \in Seq(Line)
  BY BoundsAssumption DEF StateInv, ReentryShape
<1>4. CASE q # p
  <2>1. /\ UNCHANGED stop /\ refusals'[q] = refusals[q] /\ (Undone(q)' <=> Undone(q))
        /\ Counts(q, ledger) => Counts(q, ledger)' /\ Newest(q, ledger)' = Newest(q, ledger)
    BY <1>4, OthersStay
  <2> QED
    BY <1>1, <1>2, <2>1 DEF Bounded
<1>5. CASE q = p
  <2>1. ~Undone(p)' /\ (stop = 0 => refusals[p] = 0) /\ refusals[p] \in Nat
    BY <1>1, <1>2, <1>3 DEF Bounded, Undone
  <2>2. Signalled = 0 <=> stop = 0
    BY <1>1 DEF Signalled
  <2>3. CASE SettleStop(p, FALSE, FALSE) /\ ledger' = ledger /\ lost \subseteq lost'
    <3>1. \/ refusals'[p] = refusals[p]
          \/ refusals'[p] = refusals[p] + 1 /\ stop = 0
      BY <1>1, <2>2, <2>3, SettleDoes
    <3>2. /\ Counts(p, ledger) => Counts(p, ledger)'
          /\ Newest(p, ledger)' = Newest(p, ledger)
      BY <1>1, <2>3, NextSays
    <3>3. CASE stop = 0
      <4>1. refusals'[p] <= 1 /\ refusals'[p] <= Cap + 1
        BY <1>3, <2>1, <3>1, <3>3
      <4> QED
        BY <1>1, <1>5, <2>1, <4>1 DEF Bounded
    <3>4. CASE stop # 0
      BY <1>1, <1>2, <1>5, <2>1, <3>1, <3>2, <3>4 DEF Bounded
    <3> QED
      BY <3>3, <3>4
  <2>4. CASE /\ SettleStop(p, TRUE, FALSE) /\ pc[p] \in Judging
             /\ \E l \in Seq(Line) :
                    /\ ledger' = Append(l, NewRecord(p))
                    /\ Counts(p, ledger) => Counts(p, l) /\ Newest(p, l) = Newest(p, ledger)
    <3>1. \/ refusals'[p] = refusals[p]
          \/ refusals'[p] = refusals[p] + 1 /\ (stop = 0 \/ Index(p) <= Cap)
      BY <1>1, <2>2, <2>4, SettleDoes
    <3>2. /\ Counts(p, ledger)' /\ Newest(p, ledger)' = NewRecord(p)
          /\ NewRecord(p).reentry = Index(p) /\ Index(p) \in Nat
          /\ \/ stop = 0 /\ Index(p) = 0
             \/ /\ stop > 0 /\ Chained(p, seen[p]) /\ Counts(p, ledger)
                /\ Index(p) = Newest(p, ledger).reentry + 1
             \/ stop > 0 /\ ~Chained(p, seen[p]) /\ Index(p) = 1
      BY <2>4, SaysOfOwn
    <3>3. CASE stop = 0
      <4>1. refusals'[p] <= 1 /\ refusals'[p] <= Cap + 1
        BY <1>3, <2>1, <3>1, <3>3
      <4> QED
        BY <1>1, <1>5, <2>1, <4>1 DEF Bounded
    <3>4. CASE stop > 0
      <4>1. Counts(p, ledger) => Newest(p, ledger).reentry \in Nat
        BY <1>3, CountsChained
      <4>2. ~Chained(p, seen[p]) => refusals[p] <= 1
        BY <1>1, <2>4, <3>4 DEF ReadInv, KeptCount
      <4>3. refusals[p] <= Index(p)
        BY <1>1, <1>2, <2>1, <3>2, <3>4, <4>1, <4>2 DEF Bounded
      <4>4. refusals'[p] <= Index(p) + 1 /\ refusals'[p] <= Cap + 1
        BY <1>2, <1>3, <2>1, <3>1, <3>2, <3>4, <4>3 DEF Bounded
      <4> QED
        BY <1>1, <1>5, <2>1, <3>2, <4>4 DEF Bounded
    <3> QED
      BY <1>1, <3>3, <3>4
  <2> QED
    BY <2>3, <2>4, NextLedger
<1> QED
  BY <1>4, <1>5

\* The index a hook counts is no more than the re-entries there were: with turn
\* ids by its records of the turn, without them by the newest of all.
LEMMA IndexFits ==
  ASSUME StateInv, TurnInv, client.turnIds, ~client.counts, entered <= Cap + 1,
         NEW p \in Policies, Undone(p), stop # Idle
  PROVE  Index(p) <= entered
<1>1. /\ stop \in {0, 1} /\ (stop = 0 <=> entered = 0) /\ turn # 0 /\ entered \in Nat
      /\ seen[p] \in Seq(Line)
  BY BoundsAssumption DEF StateInv, StagesInv, ReentryShape
<1>2. Signalled = stop
  BY <1>1 DEF Signalled
<1>3. ASSUME Chained(p, seen[p]) PROVE Newest(p, seen[p]).reentry < entered /\ Newest(p, seen[p]).reentry \in Nat
  <2>1. PICK i \in Mine(p, seen[p]) :
          /\ Newest(p, seen[p]) = seen[p][i] /\ i \in DOMAIN seen[p] /\ seen[p][i].reentry \in Nat
    BY <1>1, <1>3, ChainedHasMine, NewestIsMine
  <2>2. seen[p][i].policy = p /\ seen[p][i].turn = turn
    BY DEF Mine
  <2>3. FitsTurn(seen[p][i])
    BY <2>1 DEF TurnInv, Fits
  <2> QED
    BY <1>1, <2>1, <2>2, <2>3 DEF FitsTurn
<1> QED
  BY <1>1, <1>2, <1>3 DEF Index

LEMMA IndexRestarts ==
  ASSUME StateInv, ReadInv, RecordedInv, RestartInv, ~client.counts, entered <= Cap + 1,
         NEW p \in Policies, Settles(p), ~dropped', p \notin lost'
  PROVE  Index(p) <= entered /\ Newest(p, ledger)'.reentry <= entered
<1>1. /\ pc[p] \in {"weigh", "write", "stale", "rewrite"} /\ stop # Idle /\ stop \in {0, 1}
      /\ (stop = 0 <=> entered = 0) /\ entered \in Nat /\ ledger \in Seq(Line)
  BY SettleEffect, BoundsAssumption DEF StateInv, StagesInv, ReentryShape
<1>2. /\ Newest(p, ledger)' = NewRecord(p) /\ NewRecord(p).reentry = Index(p) /\ Index(p) \in Nat
      /\ \/ stop = 0 /\ Index(p) = 0
         \/ stop > 0 /\ Counts(p, ledger) /\ Index(p) = Newest(p, ledger).reentry + 1
         \/ stop > 0 /\ Index(p) = 1
  BY NextLedger, SaysOfOwn
<1>3. stop > 0 => Newest(p, ledger).reentry < entered
  <2>1. p \notin lost /\ ~dropped /\ Undone(p)
    BY <1>1, NextLedger DEF Undone
  <2> QED
    BY <1>1, <2>1 DEF RestartInv, Restarted, KeptCount
<1>4. Counts(p, ledger) => Newest(p, ledger).reentry \in Nat
  BY <1>1, CountsChained
<1> QED
  BY <1>1, <1>2, <1>3, <1>4

LEMMA SettleTurn ==
  ASSUME StateInv, TurnInv, NEW p \in Policies, Settles(p)
  PROVE  TurnInv'
<1>1. /\ pc[p] \in {"weigh", "write", "stale", "rewrite"} /\ pc'[p] = "decided" /\ stop # Idle
      /\ UNCHANGED <<client, turn, stop, entered>> /\ seen' = [seen EXCEPT ![p] = <<>>]
      /\ \A q \in Policies \ {p} : pc'[q] = pc[q] \/ (pc[q] = "write" /\ pc'[q] = "stale")
  BY SettleEffect
<1> SUFFICES ASSUME client.turnIds, ~client.counts PROVE TurnInv'
  BY <1>1 DEF TurnInv
<1>2. seen \in [Policies -> Seq(Line)] /\ turn \in Nat
  BY DEF StateInv, ReentryShape
<1>3. /\ \A q \in Policies : Undone(q)' => Undone(q)
      /\ ~Undone(p)' /\ Undone(p)
  BY <1>1 DEF Undone
<1>4. \A r : FitsTurn(r) => FitsTurn(r)'
  <2> TAKE r
  <2>1. r.policy \in Policies => (Undone(r.policy)' => Undone(r.policy))
    BY <1>3
  <2> QED
    BY <1>1, <2>1 DEF FitsTurn
<1>5. Fits(ledger) /\ \A q \in Policies : Fits(seen[q])
  BY DEF TurnInv
<1>6. ASSUME NEW q \in Policies PROVE Fits(seen[q])'
  <2>1. CASE q = p
    <3>1. seen'[p] = <<>>
      BY <1>1, <1>2
    <3> QED
      BY <2>1, <3>1 DEF Fits
  <2>2. CASE q # p
    <3>1. seen'[q] = seen[q]
      BY <1>1, <1>2, <2>2
    <3> QED
      BY <1>4, <1>5, <3>1 DEF Fits
  <2> QED
    BY <2>1, <2>2
<1>7. PICK r : r = NewRecord(p)
  OBVIOUS
<1>8. FitsTurn(r)'
  <2>1. r \in Line /\ r.policy = p /\ r.turn = turn /\ r.reentry = Index(p)
    BY <1>1, <1>7, RecordIsLine DEF StateInv, TurnId
  <2>2. entered <= Cap + 1 => Index(p) <= entered
    BY <1>1, <1>3, IndexFits
  <2> QED
    BY <1>1, <1>2, <1>3, <2>1, <2>2 DEF FitsTurn
<1>9. \A i \in DOMAIN ledger' :
        \/ ledger'[i] = r
        \/ \E j \in DOMAIN ledger : ledger'[i] = ledger[j]
        \/ \E j \in DOMAIN seen[p] : ledger'[i] = seen[p][j]
  BY <1>7, NextLines
<1>10. Fits(ledger)'
  BY <1>4, <1>5, <1>8, <1>9 DEF Fits
<1> QED
  BY <1>6, <1>10 DEF TurnInv

LEMMA SettleRestart ==
  ASSUME StateInv, ReadInv, RecordedInv, RestartInv, NEW p \in Policies, Settles(p)
  PROVE  RestartInv'
<1>1. /\ pc'[p] = "decided" /\ UNCHANGED <<client, turn, stop, entered>> /\ stop # Idle
  BY SettleEffect
<1> SUFFICES ASSUME ~client.counts, ~dropped', entered <= Cap + 1, NEW q \in Policies, q \notin lost'
             PROVE  /\ pc'[q] = "decided" => Newest(q, ledger)'.reentry <= entered
                    /\ Undone(q)' /\ stop > 0 => Newest(q, ledger)'.reentry < entered
  BY <1>1 DEF RestartInv, Restarted, KeptCount
<1>2. CASE q = p
  BY <1>1, <1>2, IndexRestarts DEF Undone
<1>3. CASE q # p
  <2>1. /\ ~dropped /\ (Undone(q)' <=> Undone(q)) /\ q \notin lost
        /\ (pc'[q] = "decided") <=> (pc[q] = "decided")
        /\ Counts(q, ledger) => Newest(q, ledger)' = Newest(q, ledger)
    BY <1>3, OthersStay
  <2>2. pc[q] = "decided" \/ stop > 0 => Counts(q, ledger)
    BY <2>1 DEF RecordedInv, KeptCount
  <2> QED
    BY <1>1, <2>1, <2>2 DEF RestartInv, Restarted, KeptCount
<1> QED
  BY <1>2, <1>3

LEMMA SettleWarn ==
  ASSUME StateInv, ReadInv, RecordedInv, TurnInv, RestartInv, NoEarlyWarning,
         NEW p \in Policies, Settles(p)
  PROVE  NoEarlyWarning'
<1>1. /\ pc[p] \in {"weigh", "write", "stale", "rewrite"} /\ stop # Idle /\ stop \in Nat
      /\ UNCHANGED <<client, turn, stop, entered>> /\ dropped \in BOOLEAN
      /\ \A q \in Policies \ {p} : why'[q] = why[q]
      /\ why'[p] = "cap-reached" => Signalled > 0 /\ Index(p) > Cap
      /\ (dropped => dropped')
      /\ ~dropped' => \A q \in Policies : q \notin lost' => q \notin lost
  BY SettleEffect DEF StateInv, ReentryShape
<1> SUFFICES ASSUME NEW q \in Policies, why'[q] = "cap-reached",
                    client.counts \/ client.turnIds \/ (q \notin lost' /\ ~dropped')
             PROVE  entered > Cap
  BY <1>1 DEF NoEarlyWarning
<1>2. entered \in 0 .. Cap + 2 /\ Cap \in Nat /\ Index(p) \in Nat
  BY <1>1, BoundsAssumption, RecordIsLine DEF StateInv, ReentryShape
<1>3. CASE q # p
  <2>1. why[q] = "cap-reached" /\ (client.counts \/ client.turnIds \/ (q \notin lost /\ ~dropped))
    BY <1>1, <1>3
  <2> QED
    BY <2>1 DEF NoEarlyWarning
<1>4. CASE q = p
  <2>1. Signalled > 0 /\ Index(p) > Cap
    BY <1>1, <1>4
  <2>2. CASE client.counts
    <3>1. Index(p) = stop
      BY <1>1, <2>1, <2>2 DEF Index, Signalled
    <3> QED
      BY <1>1, <1>2, <2>1, <2>2, <3>1 DEF StateInv, StagesInv
  <2>3. CASE ~client.counts /\ client.turnIds
    BY <1>1, <1>2, <2>1, <2>3, IndexFits DEF Undone
  <2>4. CASE ~client.counts /\ ~client.turnIds
    BY <1>1, <1>2, <1>4, <2>1, <2>4, IndexRestarts
  <2> QED
    BY <2>2, <2>3, <2>4
<1> QED
  BY <1>3, <1>4

LEMMA SettleKeeps == ASSUME TurnEndInv, NEW p \in Policies, Settles(p) PROVE TurnEndInv'
BY SettleShape, SettleCounted, SettleRecorded, SettleRead, SettleBound, SettleTurn, SettleRestart,
   SettleWarn DEF TurnEndInv

-----------------------------------------------------------------------------
(* A gate only warns, a hook reads and weighs the ledger; the client stops,*)
(* goes on, and ends its turn.                                             *)

LEMMA PassKeepsTurn == ASSUME TurnEndInv, NEW p \in Policies, PassOn(p) PROVE TurnEndInv'
<1> USE DEF PassOn, TurnEndInv, StateInv
<1>1. /\ pc[p] = "read" /\ pc' = [pc EXCEPT ![p] = "decided"] /\ lost' = IF dropped THEN {} ELSE lost \cup {p}
      /\ decision' = [decision EXCEPT ![p] = "warn"]
      /\ UNCHANGED <<client, turn, stop, found, seen, ledger, heavy, why, entered, dropped, refusals>>
  OBVIOUS
<1>2. /\ pc \in [Policies -> ReentryStage] /\ ledger \in Seq(Line) /\ refusals \in [Policies -> Nat]
      /\ "decided" \in ReentryStage /\ "warn" \in Decision /\ dropped \in BOOLEAN
  BY DEF ReentryShape, ReentryStage, Decision
<1>3. /\ pc'[p] = "decided" /\ \A q \in Policies \ {p} : pc'[q] = pc[q]
      /\ Undone(p) /\ \A q \in Policies : Undone(q)' => Undone(q)
      /\ \A q \in Policies : pc'[q] \in Judging => pc[q] \in Judging
  BY <1>1, <1>2 DEF Undone, Judging
<1>4. ~dropped => p \in lost' /\ lost \subseteq lost'
  BY <1>1
<1>5. ReentryShape'
  BY <1>1, <1>2 DEF ReentryShape
<1>6. StagesInv'
  BY <1>1, <1>3 DEF StagesInv
<1>7. MadeInv'
  BY <1>1 DEF MadeInv, NamesTurn
<1>8. CountedInv'
  <2>1. client.counts => stop \in Nat
    BY <1>1 DEF StagesInv, ReentryShape
  <2> QED
    BY <1>1, <1>2, <1>3, <2>1 DEF CountedInv
<1>9. ~dropped => \A q \in Policies :
        /\ Counts(q, ledger) => Counts(q, ledger)'
        /\ Newest(q, ledger)' = Newest(q, ledger)
  BY <1>1, <1>4, NextSays
<1>10. RecordedInv'
  BY <1>1, <1>3, <1>4, <1>9 DEF RecordedInv, KeptCount
<1>11. ReadInv'
  <2>1. \A q \in Policies : /\ Chained(q, seen[q])' <=> Chained(q, seen[q])
                            /\ Newest(q, seen[q])' = Newest(q, seen[q])
    BY <1>1 DEF Chained, Newest, Mine, Begins
  <2> QED
    BY <1>1, <1>3, <1>9, <2>1 DEF ReadInv, KeptCount
<1>12. BoundInv'
  BY <1>1, <1>3, <1>9 DEF BoundInv, Bounded, KeptCount
<1>13. TurnInv'
  <2>1. \A r : FitsTurn(r) => FitsTurn(r)'
    BY <1>1, <1>3 DEF FitsTurn
  <2> QED
    BY <1>1, <2>1 DEF TurnInv, Fits
<1>14. RestartInv'
  BY <1>1, <1>3, <1>4, <1>9 DEF RestartInv, Restarted, KeptCount
<1>15. NoEarlyWarning'
  BY <1>1, <1>4 DEF NoEarlyWarning
<1> QED
  BY <1>5, <1>6, <1>7, <1>8, <1>10, <1>11, <1>12, <1>13, <1>14, <1>15

\* A step that changes where one hook is before it has settled, or nothing.
LEMMA LookKeepsTurn ==
  ASSUME TurnEndInv,
         UNCHANGED <<client, turn, stop, ledger, heavy, decision, why, entered, dropped, refusals, lost>>,
         pc' \in [Policies -> ReentryStage], found' \in [Policies -> BOOLEAN],
         \A q \in Policies : \/ pc'[q] = pc[q] /\ seen'[q] = seen[q]
                             \/ pc[q] = "read" /\ pc'[q] = "weigh" /\ seen'[q] = ledger
                             \/ pc[q] = "weigh" /\ pc'[q] \in Judging /\ seen'[q] = seen[q],
         seen' \in [Policies -> Seq(Line)]
  PROVE  TurnEndInv'
<1> USE DEF TurnEndInv, StateInv
<1>1. \A q \in Policies : /\ Undone(q)' <=> Undone(q)
                          /\ (pc'[q] = "decided") <=> (pc[q] = "decided")
                          /\ (pc'[q] = "waiting") <=> (pc[q] = "waiting")
  BY DEF Undone, Judging
<1>2. ReentryShape'
  BY DEF ReentryShape
<1>3. StagesInv'
  BY <1>1 DEF StagesInv
<1>4. \A q \in Policies : seen'[q] = seen[q] \/ seen'[q] = ledger
  OBVIOUS
<1>5. MadeInv'
  BY <1>4 DEF MadeInv, NamesTurn
<1>6. CountedInv'
  BY <1>1 DEF CountedInv
<1>7. \A q \in Policies : /\ Counts(q, ledger) => Counts(q, ledger)'
                          /\ Newest(q, ledger)' = Newest(q, ledger)
  BY NextSays
<1>8. RecordedInv'
  BY <1>1, <1>7 DEF RecordedInv, KeptCount
<1>9. ReadInv'
  <2> SUFFICES ASSUME ~client.counts, ~dropped, stop > 0, NEW q \in Policies, pc'[q] \in Judging
               PROVE  (/\ Chained(q, seen[q]) =>
                            Counts(q, ledger) /\ Newest(q, ledger).reentry = Newest(q, seen[q]).reentry
                       /\ ~Chained(q, seen[q]) => refusals[q] <= 1)'
    BY DEF ReadInv, KeptCount
  <2>1. CASE seen'[q] = seen[q] /\ pc[q] \in Judging
    <3>1. /\ Chained(q, seen[q]) =>
               Counts(q, ledger) /\ Newest(q, ledger).reentry = Newest(q, seen[q]).reentry
          /\ ~Chained(q, seen[q]) => refusals[q] <= 1
      BY <2>1 DEF ReadInv, KeptCount
    <3>2. /\ Chained(q, seen[q])' <=> Chained(q, seen[q])
          /\ Newest(q, seen[q])' = Newest(q, seen[q])
      BY <2>1 DEF Chained, Newest, Mine, Begins
    <3> QED
      BY <1>7, <3>1, <3>2
  <2>2. CASE seen'[q] = ledger /\ pc[q] = "read"
    <3>1. /\ Chained(q, seen[q])' <=> Chained(q, ledger)
          /\ Newest(q, seen[q])' = Newest(q, ledger)
      BY <2>2 DEF Chained, Newest, Mine, Begins
    <3>2. Chained(q, ledger) => Counts(q, ledger)
      <4>1. CASE q \notin lost
        BY <4>1 DEF RecordedInv, KeptCount
      <4>2. CASE q \in lost /\ Chained(q, ledger)
        <5>1. PICK a \in Mine(q, ledger) :
                /\ Begins(ledger[a])
                /\ \A i, j \in Mine(q, ledger) :
                     (a <= i /\ i < j /\ \A k \in Mine(q, ledger) : k <= i \/ j <= k)
                       => ledger[j].reentry = ledger[i].reentry + 1
          BY <4>2 DEF Chained
        <5>2. client.turnIds => ledger[a].made = turn
          BY DEF Mine, MadeInv, NamesTurn
        <5>3. Whence(q, ledger, a) /\ a \in DOMAIN ledger
          BY <4>2, <5>1, <5>2 DEF Whence, Mine
        <5> QED
          BY <5>3 DEF Counts
      <4> QED
        BY <4>1, <4>2
    <3>3. ~Chained(q, ledger) => refusals[q] <= 1
      <4>1. Bounded(q)
        BY DEF BoundInv, KeptCount, Idle
      <4>2. Counts(q, ledger) => Chained(q, ledger)
        BY CountsChained DEF ReentryShape
      <4> QED
        BY <4>1, <4>2 DEF Bounded, Idle
    <3> QED
      BY <1>7, <3>1, <3>2, <3>3
  <2> QED
    BY <2>1, <2>2 DEF Judging
<1>10. BoundInv'
  BY <1>1, <1>7 DEF BoundInv, Bounded, KeptCount
<1>11. TurnInv'
  <2>1. \A r : FitsTurn(r) => FitsTurn(r)'
    BY <1>1 DEF FitsTurn
  <2> QED
    BY <1>4, <2>1 DEF TurnInv, Fits
<1>12. RestartInv'
  BY <1>1, <1>7 DEF RestartInv, Restarted, KeptCount
<1>13. NoEarlyWarning'
  BY DEF NoEarlyWarning
<1> QED
  BY <1>2, <1>3, <1>5, <1>6, <1>8, <1>9, <1>10, <1>11, <1>12, <1>13

LEMMA ReadKeepsTurn ==
  ASSUME TurnEndInv, NEW p \in Policies, ReadLedger(p) \/ Weigh(p)
  PROVE  TurnEndInv'
<1> USE DEF TurnEndInv, StateInv, ReentryShape
<1>1. CASE ReadLedger(p)
  <2>1. /\ pc[p] = "read" /\ pc' = [pc EXCEPT ![p] = "weigh"] /\ seen' = [seen EXCEPT ![p] = ledger]
        /\ found' \in [Policies -> BOOLEAN] /\ "weigh" \in ReentryStage
        /\ UNCHANGED <<client, turn, stop, ledger, heavy, decision, why, entered, dropped, refusals, lost>>
    BY <1>1 DEF ReadLedger, ReentryStage
  <2>2. /\ pc' \in [Policies -> ReentryStage] /\ seen' \in [Policies -> Seq(Line)]
        /\ pc'[p] = "weigh" /\ seen'[p] = ledger
        /\ \A q \in Policies \ {p} : pc'[q] = pc[q] /\ seen'[q] = seen[q]
    BY <2>1
  <2>3. \A q \in Policies : \/ pc'[q] = pc[q] /\ seen'[q] = seen[q]
                            \/ pc[q] = "read" /\ pc'[q] = "weigh" /\ seen'[q] = ledger
    BY <2>1, <2>2
  <2> QED
    BY <2>1, <2>2, <2>3, LookKeepsTurn
<1>2. CASE Weigh(p)
  <2>1. /\ pc[p] = "weigh" /\ UNCHANGED seen
        /\ \E s \in Judging : pc' = [pc EXCEPT ![p] = s]
        /\ UNCHANGED <<client, turn, stop, ledger, heavy, decision, why, entered, dropped, refusals, lost>>
        /\ found' \in [Policies -> BOOLEAN] /\ Judging \subseteq ReentryStage
    BY <1>2 DEF Weigh, Judging, ReentryStage
  <2>2. /\ pc' \in [Policies -> ReentryStage] /\ pc'[p] \in Judging
        /\ \A q \in Policies \ {p} : pc'[q] = pc[q]
    BY <2>1
  <2> QED
    BY <2>1, <2>2, LookKeepsTurn
<1> QED
  BY <1>1, <1>2

LEMMA StopKeepsTurn == ASSUME TurnEndInv, FirstStop PROVE TurnEndInv'
<1> USE DEF FirstStop, TurnEndInv, StateInv, Idle
<1>1. /\ pc' = [p \in Policies |-> "read"] /\ refusals' = [p \in Policies |-> 0] /\ stop = Idle /\ stop' = 0
      /\ turn' = turn + 1 /\ turn \in Nat /\ entered' = 0 /\ why' = [p \in Policies |-> "none"]
      /\ UNCHANGED <<client, found, seen, ledger, heavy>> /\ Cap \in Nat /\ lost' = {} /\ dropped' = FALSE
  BY BoundsAssumption DEF ReentryShape
<1>2. ReentryShape'
  <2>1. /\ found' \in [Policies -> BOOLEAN] /\ heavy' \in BOOLEAN /\ dropped' \in BOOLEAN
        /\ client' \in Clients /\ lost' \subseteq Policies
        /\ seen' \in [Policies -> Seq(Line)] /\ ledger' \in Seq(Line)
    BY <1>1 DEF ReentryShape
  <2>2. /\ turn' \in Nat /\ stop' \in Nat /\ entered' \in 0 .. Cap + 2
        /\ refusals' \in [Policies -> Nat]
    BY <1>1
  <2>3. /\ pc' \in [Policies -> ReentryStage] /\ decision' \in [Policies -> Decision]
        /\ why' \in [Policies -> {"none", "cap-reached", "untracked"}]
    BY <1>1 DEF ReentryStage, Decision
  <2> QED
    BY <2>1, <2>2, <2>3 DEF ReentryShape
<1>3. StagesInv'
  BY <1>1 DEF StagesInv
<1>4. MadeInv'
  BY <1>1 DEF MadeInv, NamesTurn
<1>5. CountedInv' /\ ReadInv' /\ RecordedInv'
  BY <1>1 DEF CountedInv, ReadInv, RecordedInv, Undone
<1>6. BoundInv'
  BY <1>1 DEF BoundInv, Bounded, Undone
<1>7. TurnInv'
  <2>1. \A r : FitsTurn(r) /\ r.turn \in Nat => FitsTurn(r)'
    BY <1>1 DEF FitsTurn
  <2>2. ledger \in Seq(Line) /\ \A q \in Policies : seen[q] \in Seq(Line)
    BY DEF ReentryShape
  <2>3. ASSUME NEW l \in Seq(Line), NEW i \in DOMAIN l PROVE l[i].turn \in Nat
    <3>1. l[i] \in Line
      OBVIOUS
    <3> QED
      BY <3>1 DEF Line
  <2>4. client.turnIds /\ ~client.counts => Fits(ledger) /\ \A q \in Policies : Fits(seen[q])
    BY <1>1 DEF TurnInv
  <2>5. /\ \A i \in DOMAIN ledger : ledger[i].turn \in Nat
        /\ \A q \in Policies : \A i \in DOMAIN seen[q] : seen[q][i].turn \in Nat
    BY <2>2, <2>3
  <2>6. Fits(ledger) => Fits(ledger)'
    BY <1>1, <2>1, <2>5 DEF Fits
  <2>7. \A q \in Policies : Fits(seen[q]) => Fits(seen[q])'
    BY <1>1, <2>1, <2>5 DEF Fits
  <2> QED
    BY <1>1, <2>4, <2>6, <2>7 DEF TurnInv
<1>8. RestartInv' /\ NoEarlyWarning'
  BY <1>1 DEF RestartInv, Restarted, NoEarlyWarning, Undone
<1> QED
  BY <1>2, <1>3, <1>4, <1>5, <1>6, <1>7, <1>8

LEMMA ReenterKeepsTurn == ASSUME TurnEndInv, Reenter PROVE TurnEndInv'
<1> USE DEF Reenter, Settled, TurnEndInv, StateInv, Idle
<1>1. /\ \A p \in Policies : pc[p] = "decided"
      /\ pc' = [p \in Policies |-> "read"] /\ why' = [p \in Policies |-> "none"]
      /\ stop \in Nat /\ stop' = IF client.counts \/ stop = 0 THEN stop + 1 ELSE stop
      /\ entered \in 0 .. Cap + 2 /\ entered' = IF entered <= Cap + 1 THEN entered + 1 ELSE entered
      /\ UNCHANGED <<client, turn, found, seen, ledger, heavy, dropped, refusals, lost>> /\ Cap \in Nat
  BY BoundsAssumption DEF ReentryShape
<1>2. /\ stop' \in Nat /\ entered' \in 0 .. Cap + 2 /\ entered \in Nat /\ stop' # Idle /\ stop' # 0 /\ stop # Idle
      /\ entered' <= Cap + 1 => entered <= Cap + 1 /\ entered' = entered + 1
  BY <1>1
<1>3. ReentryShape'
  BY <1>1, <1>2 DEF ReentryShape, ReentryStage, Decision
<1>4. StagesInv'
  <2>1. client.counts => entered' = stop' \/ (entered' = Cap + 2 /\ stop' >= Cap + 2)
    BY <1>1, <1>2 DEF StagesInv
  <2>2. ~client.counts => stop' \in {0, 1} /\ (stop' = 0 <=> entered' = 0)
    BY <1>1, <1>2 DEF StagesInv
  <2> QED
    BY <1>1, <1>2, <2>1, <2>2 DEF StagesInv
<1>5. MadeInv'
  BY <1>1 DEF MadeInv, NamesTurn
<1>6. CountedInv'
  <2>1. refusals \in [Policies -> Nat]
    BY DEF ReentryShape
  <2>2. client.counts => stop' = stop + 1
    BY <1>1
  <2> QED
    BY <1>1, <1>2, <2>1, <2>2 DEF CountedInv, Undone
<1>7. \A q \in Policies : /\ Counts(q, ledger) => Counts(q, ledger)'
                          /\ Newest(q, ledger)' = Newest(q, ledger)
  BY <1>1, NextSays
<1>8. RecordedInv' /\ ReadInv'
  BY <1>1, <1>7 DEF RecordedInv, ReadInv, KeptCount, Judging
<1>9. BoundInv'
  BY <1>1, <1>2, <1>7 DEF BoundInv, Bounded, Undone, KeptCount
<1>10. TurnInv'
  <2>1. \A r : FitsTurn(r) /\ r.reentry \in Nat => FitsTurn(r)'
    BY <1>1, <1>2 DEF FitsTurn
  <2>2. ledger \in Seq(Line) /\ \A q \in Policies : seen[q] \in Seq(Line)
    BY DEF ReentryShape
  <2>3. ASSUME NEW l \in Seq(Line), NEW i \in DOMAIN l PROVE l[i].reentry \in Nat
    <3>1. l[i] \in Line
      OBVIOUS
    <3> QED
      BY <3>1 DEF Line
  <2>4. client.turnIds /\ ~client.counts => Fits(ledger) /\ \A q \in Policies : Fits(seen[q])
    BY <1>1 DEF TurnInv
  <2>5. /\ \A i \in DOMAIN ledger : ledger[i].reentry \in Nat
        /\ \A q \in Policies : \A i \in DOMAIN seen[q] : seen[q][i].reentry \in Nat
    BY <2>2, <2>3
  <2>6. Fits(ledger) => Fits(ledger)'
    BY <1>1, <2>1, <2>5 DEF Fits
  <2>7. \A q \in Policies : Fits(seen[q]) => Fits(seen[q])'
    BY <1>1, <2>1, <2>5 DEF Fits
  <2> QED
    BY <1>1, <2>4, <2>6, <2>7 DEF TurnInv
<1>11. RestartInv'
  <2> SUFFICES ASSUME ~client.counts, ~dropped, entered' <= Cap + 1, NEW q \in Policies, q \notin lost
               PROVE  Newest(q, ledger).reentry < entered'
    BY <1>1, <1>7 DEF RestartInv, Restarted, Undone, KeptCount
  <2>1. Newest(q, ledger).reentry <= entered
    BY <1>1, <1>2 DEF RestartInv, Restarted, KeptCount
  <2>2. Newest(q, ledger).reentry \in Nat
    <3>1. Counts(q, ledger)
      BY <1>1 DEF RecordedInv, KeptCount
    <3> QED
      BY <3>1, CountsChained DEF ReentryShape
  <2> QED
    BY <1>1, <1>2, <2>1, <2>2
<1>12. NoEarlyWarning'
  BY <1>1 DEF NoEarlyWarning
<1> QED
  BY <1>3, <1>4, <1>5, <1>6, <1>8, <1>9, <1>10, <1>11, <1>12

LEMMA EndKeepsTurn == ASSUME TurnEndInv, EndTurn PROVE TurnEndInv'
<1> USE DEF EndTurn, Settled, TurnEndInv, StateInv, Idle
<1>1. /\ \A p \in Policies : pc[p] = "decided"
      /\ pc' = [p \in Policies |-> "waiting"] /\ why' = [p \in Policies |-> "none"] /\ stop' = Idle
      /\ UNCHANGED <<client, turn, found, seen, ledger, heavy, entered, dropped, refusals, lost>>
  OBVIOUS
<1>2. ReentryShape'
  BY <1>1 DEF ReentryShape, ReentryStage, Decision
<1>3. StagesInv' /\ CountedInv' /\ RecordedInv' /\ ReadInv' /\ BoundInv'
  BY <1>1 DEF StagesInv, CountedInv, RecordedInv, ReadInv, BoundInv, Bounded, KeptCount, Undone
<1>4. MadeInv'
  BY <1>1 DEF MadeInv, NamesTurn
<1>5. TurnInv'
  <2>1. \A r : FitsTurn(r) => FitsTurn(r)'
    BY <1>1 DEF FitsTurn, Undone
  <2> QED
    BY <1>1, <2>1 DEF TurnInv, Fits
<1>6. RestartInv' /\ NoEarlyWarning'
  BY <1>1 DEF RestartInv, NoEarlyWarning
<1> QED
  BY <1>2, <1>3, <1>4, <1>5, <1>6

\* The record of a hook that is not followed disturbs no count.
LEMMA OtherKeepsTurn ==
  ASSUME TurnEndInv, NEW o \in Others, OtherRecords(o)
  PROVE  TurnEndInv'
<1> USE DEF TurnEndInv, StateInv
<1> DEFINE r == Record(o, 0, FALSE)
           m == Append(ledger, r)
<1>1. /\ UNCHANGED <<client, turn, stop, pc, found, seen, decision, why, entered, dropped, refusals, lost>>
      /\ stop = 0 /\ ledger' = m /\ heavy' \in BOOLEAN /\ ledger \in Seq(Line)
  BY DEF OtherRecords, ReentryShape
<1>2. r \in Line /\ r.policy = o /\ r.turn = TurnId /\ r.made = turn
  <2>1. TurnId \in Nat /\ turn \in Nat
    BY DEF TurnId, NoTurn, ReentryShape
  <2> QED
    BY <2>1 DEF Record, Line
<1>3. o \notin Policies
  BY OthersAssumption
<1> HIDE DEF r
<1>4. \A i \in DOMAIN m : m[i] = r \/ (i \in DOMAIN ledger /\ m[i] = ledger[i])
  BY <1>1, <1>2
<1>5. m \in Seq(Line)
  BY <1>1, <1>2
<1>6. ASSUME NEW q \in Policies, Counts(q, ledger)
      PROVE  Counts(q, ledger)' /\ Newest(q, ledger)' = Newest(q, ledger)
  <2>1. r.policy # q
    BY <1>2, <1>3
  <2>2. Counts(q, m) /\ Newest(q, m) = Newest(q, ledger)
    BY <1>1, <1>2, <1>6, <2>1, OthersRecord
  <2> HIDE DEF m
  <2>3. lost \subseteq lost' /\ UNCHANGED <<client, turn>> /\ ledger' = m
    BY <1>1
  <2> QED
    BY <2>2, <2>3, NextSays
<1> HIDE DEF m
<1>7. StateInv'
  <2>1. ReentryShape'
    BY <1>1, <1>5 DEF ReentryShape
  <2>2. StagesInv'
    BY <1>1 DEF StagesInv
  <2>3. client.turnIds => r.turn = r.made
    BY <1>2 DEF TurnId
  <2>4. MadeInv'
    BY <1>1, <1>4, <2>3 DEF MadeInv, NamesTurn
  <2> QED
    BY <2>1, <2>2, <2>4
<1>8. CountedInv'
  BY <1>1 DEF CountedInv, Undone
<1>9. RecordedInv'
  BY <1>1, <1>6 DEF RecordedInv, KeptCount
<1>10. ReadInv'
  BY <1>1 DEF ReadInv
<1>11. BoundInv'
  BY <1>1, <1>6 DEF BoundInv, Bounded, KeptCount, Undone
<1>12. TurnInv'
  <2>1. turn \in Nat /\ r.turn <= turn
    BY <1>2 DEF TurnId, NoTurn, ReentryShape
  <2> QED
    BY <1>1, <1>2, <1>3, <1>4, <2>1 DEF TurnInv, Fits, FitsTurn, Undone
<1>13. RestartInv'
  <2>1. ASSUME KeptCount, NEW q \in Policies, q \notin lost, pc[q] = "decided"
        PROVE  Newest(q, ledger)' = Newest(q, ledger)
    BY <1>6, <2>1 DEF RecordedInv
  <2>2. \A q \in Policies : Undone(q)' <=> Undone(q)
    BY <1>1 DEF Undone
  <2> QED
    BY <1>1, <2>1, <2>2 DEF RestartInv, Restarted, KeptCount
<1>14. NoEarlyWarning'
  BY <1>1 DEF NoEarlyWarning
<1> QED
  BY <1>7, <1>8, <1>9, <1>10, <1>11, <1>12, <1>13, <1>14

LEMMA StillKeepsTurn == ASSUME TurnEndInv, UNCHANGED reentryVars PROVE TurnEndInv'
BY LookKeepsTurn DEF reentryVars, TurnEndInv, StateInv, ReentryShape

LEMMA ReentryHolds == ReentrySpec => []TurnEndInv
<1>1. TurnEndInv /\ [ReentryNext]_reentryVars => TurnEndInv'
  BY SettleKeeps, PassKeepsTurn, ReadKeepsTurn, StopKeepsTurn, ReenterKeepsTurn, EndKeepsTurn,
     OtherKeepsTurn, StillKeepsTurn DEF ReentryNext, GoOn, Hook, Settles
<1> QED
  BY <1>1, InitReentry, PTL DEF ReentrySpec

\* A policy refuses the first stop of a turn and at most Cap re-entries of it
\* (settle_stop, REENTRY_CAP), for any policies, clients and earlier ledgers, at any
\* room and file size, whatever cannot be written, as long as no replacement of the
\* ledger lost a line of this turn that is counted from; and of a client that counts
\* its re-entries, even then.
THEOREM RefusalsStayCapped == ReentrySpec => []CapHoldsWhileRecorded
<1>1. TurnEndInv => CapHoldsWhileRecorded
  <2> SUFFICES ASSUME TurnEndInv, ~dropped, NEW p \in Policies
               PROVE  refusals[p] <= Cap + 1
    BY DEF CapHoldsWhileRecorded, RefusalsAreCapped
  <2> QED
    BY DEF TurnEndInv, CountedInv, BoundInv, Bounded, KeptCount
<1> QED
  BY <1>1, ReentryHolds, PTL

\* No policy says that its cap is reached before the stop was re-entered more
\* than Cap times (settle_stop, _stop_chain), whatever lines the ledger loses, but of a
\* client that neither counts nor names its turns, when a record was lost.
THEOREM NoneGivesUpEarly == ReentrySpec => []NoEarlyWarning
<1>1. TurnEndInv => NoEarlyWarning
  BY DEF TurnEndInv
<1> QED
  BY <1>1, ReentryHolds, PTL

=============================================================================
