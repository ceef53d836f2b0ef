------------------------------ MODULE MultiHook ------------------------------
(***************************************************************************)
(* One hook process that judges a call with every policy of a pinned index *)
(* (gate/multi.py, gate/budget.py, gate/data/dispatch.py.tmpl): a daemon   *)
(* thread per member, each under its own deadline and with its own child   *)
(* processes; the main thread joins them in index order, refuses for those *)
(* that are late, ends the trees they left, logs a line for each, combines *)
(* the verdicts and leaves with os._exit.  A thread that is late goes on   *)
(* until the process ends, and shares its streams, its records and the     *)
(* table of live trees.                                                    *)
(***************************************************************************)
EXTENDS Integers, FiniteSets

CONSTANTS
  N,            \* members of the index, judged in the order 1..N
  Allowed,      \* each member's timeout, in ticks
  Spoken,       \* what a member may decide
  MaxTime,      \* bound: the last instant of the clock
  MaxChildren   \* bound: children a member starts

Members == 1 .. N
ASSUME MultiAssumption ==
  /\ N \in Nat \ {0} /\ MaxChildren \in Nat /\ MaxTime \in Nat
  /\ Spoken \subseteq 0 .. 3
  /\ Allowed \in [Members -> Nat] /\ \A m \in Members : Allowed[m] < MaxTime

\* Verdicts, in the order in which combine lets them win.
Allow == 0
Warn == 1
Ask == 2
Deny == 3
Verdict == Allow .. Deny
NoVerdict == -1

VARIABLES
  clock,
  main, at,   \* the main thread: its stage, and the member it is at
  canAsk,     \* whether the client shows an ask
  on,         \* the members the call is judged with (the rest are toggled off)
  thread,     \* per member: off, start, run, child (waits for one), recorded,
              \* stored, done
  deadline,   \* per member: the instant its thread set itself
  child,      \* per member: none, new (started, not yet tracked), live,
              \* killed (by the main thread)
  born,       \* per member: children started
  slot,       \* per member: what the thread hands to the join
  record,     \* per member: what the thread leaves for the log
  heard,      \* run_members' verdicts
  logged,     \* the verdict of each member's log line
  answer,     \* what the client is told
  captured,   \* the process's streams are set aside
  judged,     \* history: what each member itself decided
  leaked,     \* history: members that wrote to the process's own streams
  late,       \* history: members found late at their join
  young       \* history: members whose child the last kill could not see

mainVars == <<main, at, canAsk, on, heard, logged, answer, captured, late>>
threadVars == <<thread, deadline, born, slot, record, judged, leaked>>
vars == <<clock, mainVars, threadVars, child, young>>

Stage == {"load", "start", "join", "restore", "end", "log", "combine", "leave", "flush", "gone"}
NoSlot == [verdict |-> NoVerdict, done |-> FALSE]

Init ==
  /\ clock = 0 /\ main = "load" /\ at = 1
  /\ canAsk \in BOOLEAN /\ on \in SUBSET Members
  /\ thread = [m \in Members |-> "off"] /\ deadline = [m \in Members |-> 0]
  /\ child = [m \in Members |-> "none"] /\ born = [m \in Members |-> 0]
  /\ slot = [m \in Members |-> NoSlot]
  /\ record = [m \in Members |-> NoVerdict] /\ heard = record /\ logged = record
  /\ judged = record /\ answer = NoVerdict
  /\ captured = FALSE /\ leaked = {} /\ late = {} /\ young = {}

-----------------------------------------------------------------------------
(* The main thread.  Members that are toggled off are stepped over. *)

Goes(from, to) == main = from /\ main' = to
Over(m) == m \in Members \ on

\* An ask the client ignores is a deny.
Settle(v) == IF v = Ask /\ ~canAsk THEN Deny ELSE v

\* load_index: an index or a member off its pin refuses the call.
LoadFails ==
  /\ Goes("load", "leave") /\ answer' = Deny
  /\ UNCHANGED <<clock, at, canAsk, on, heard, logged, captured, late, threadVars, child, young>>

Load ==
  /\ Goes("load", "start") /\ captured' = TRUE
  /\ UNCHANGED <<clock, at, canAsk, on, heard, logged, answer, late, threadVars, child, young>>

\* Every thread is started; what each allows is counted from here.
StartThreads ==
  /\ Goes("start", "join")
  /\ thread' = [m \in Members |-> IF m \in on THEN "start" ELSE "off"]
  /\ UNCHANGED <<clock, at, canAsk, on, heard, logged, answer, captured, late,
                 deadline, born, slot, record, judged, leaked, child, young>>

\* Slip to be noticed: a member past its deadline has said nothing.
JoinSilently ==
  /\ main = "join" /\ at <= N
  /\ Over(at) \/ slot[at].done \/ clock >= Allowed[at]
  /\ heard' = [heard EXCEPT ![at] = IF slot[at].done THEN Settle(slot[at].verdict) ELSE Allow]
  /\ late' = IF Over(at) \/ slot[at].done THEN late ELSE late \cup {at}
  /\ at' = at + 1
  /\ UNCHANGED <<clock, main, canAsk, on, logged, answer, captured, threadVars, child, young>>

\* Slip to be noticed: the join has no timeout.
JoinForever ==
  /\ main = "join" /\ at <= N
  /\ Over(at) \/ slot[at].done
  /\ heard' = [heard EXCEPT ![at] = IF Over(at) THEN Allow ELSE Settle(slot[at].verdict)]
  /\ at' = at + 1
  /\ UNCHANGED <<clock, main, canAsk, on, logged, answer, captured, late, threadVars, child, young>>

\* Joined until it is done or its time is over: then it refuses the call.
Join ==
  /\ main = "join" /\ at <= N
  /\ Over(at) \/ slot[at].done \/ clock >= Allowed[at]
  /\ heard' = [heard EXCEPT ![at] =
       IF Over(at) THEN Allow ELSE IF slot[at].done THEN Settle(slot[at].verdict) ELSE Deny]
  /\ late' = IF Over(at) \/ slot[at].done THEN late ELSE late \cup {at}
  /\ at' = at + 1
  /\ UNCHANGED <<clock, main, canAsk, on, logged, answer, captured, threadVars, child, young>>

\* Slip to be noticed: the streams are put back before the members are joined.
RestoreEarly ==
  /\ main = "join" /\ captured /\ captured' = FALSE
  /\ main' = IF at > N THEN "end" ELSE main
  /\ UNCHANGED <<clock, at, canAsk, on, heard, logged, answer, late, threadVars, child, young>>

Restore ==
  /\ at > N /\ Goes("join", "end") /\ captured' = FALSE
  /\ UNCHANGED <<clock, at, canAsk, on, heard, logged, answer, late, threadVars, child, young>>

\* kill_live_trees, of the trees in the table.
KillLiveTrees ==
  /\ child' = [m \in Members |-> IF child[m] = "live" THEN "killed" ELSE child[m]]
  /\ young' = {m \in Members : child[m] = "new"}

EndTrees ==
  /\ Goes("end", "log") /\ at' = 1 /\ KillLiveTrees
  /\ UNCHANGED <<clock, canAsk, on, heard, logged, answer, captured, late, threadVars>>

\* _chock_multi_log: a member's line is made of its record, or of the verdict
\* heard where it has left none.
Log ==
  /\ main = "log" /\ at <= N
  /\ logged' = [logged EXCEPT ![at] =
       IF Over(at) THEN NoVerdict ELSE IF record[at] # NoVerdict THEN record[at] ELSE heard[at]]
  /\ at' = at + 1
  /\ UNCHANGED <<clock, main, canAsk, on, heard, answer, captured, late, threadVars, child, young>>

Strictest(vs) == CHOOSE v \in vs : \A w \in vs : w <= v

Combine ==
  /\ at > N /\ Goes("log", "leave")
  /\ answer' = Strictest({heard[m] : m \in Members})
  /\ UNCHANGED <<clock, at, canAsk, on, heard, logged, captured, late, threadVars, child, young>>

\* Whatever raises on the way refuses the call.
Raises ==
  /\ main \in {"join", "end", "log"} /\ main' = "leave" /\ answer' = Deny
  /\ captured' = FALSE /\ late' = late \cup {m \in on : ~slot[m].done}
  /\ UNCHANGED <<clock, at, canAsk, on, heard, logged, threadVars, child, young>>

\* flush_and_exit: the trees once more, the streams, and out.
\* Slip to be noticed: the trees are left to the first kill.
LeaveTrees ==
  /\ Goes("leave", "flush") /\ UNCHANGED <<child, young>>
  /\ UNCHANGED <<clock, at, canAsk, on, heard, logged, answer, captured, late, threadVars>>

Leave ==
  /\ Goes("leave", "flush") /\ KillLiveTrees
  /\ UNCHANGED <<clock, at, canAsk, on, heard, logged, answer, captured, late, threadVars>>

Flush ==
  /\ Goes("flush", "gone")
  /\ UNCHANGED <<clock, at, canAsk, on, heard, logged, answer, captured, late, threadVars, child, young>>

Main == \/ Load \/ StartThreads \/ Join \/ Restore \/ EndTrees
        \/ Log \/ Combine \/ Leave \/ Flush

-----------------------------------------------------------------------------
(* A member's thread. *)

Turns(m, from, to) == main # "gone" /\ thread[m] = from /\ thread' = [thread EXCEPT ![m] = to]
\* _chock_member_verdict: the decision, and its record for the log.
Judged(m, v) == judged' = [judged EXCEPT ![m] = v] /\ record' = [record EXCEPT ![m] = v]

\* To stderr, as the process has it now.
Says(m) == leaked' = IF captured THEN leaked ELSE leaked \cup {m}

SetDeadline(m) ==
  /\ Turns(m, "start", "run")
  /\ deadline' = [deadline EXCEPT ![m] = clock + Allowed[m]]
  /\ UNCHANGED <<clock, mainVars, born, slot, record, judged, leaked, child, young>>

\* A pattern judge is started whatever the time; any other child only while
\* time is left.
Spawn(m) == \E patterns \in BOOLEAN :
  /\ born[m] < MaxChildren /\ (patterns \/ clock < deadline[m])
  /\ Turns(m, "run", "child")
  /\ child' = [child EXCEPT ![m] = "new"] /\ born' = [born EXCEPT ![m] = @ + 1]
  /\ young' = IF main = "flush" THEN young \cup {m} ELSE young
  /\ UNCHANGED <<clock, mainVars, deadline, slot, record, judged, leaked>>

Track(m) ==
  /\ main # "gone" /\ child[m] = "new" /\ child' = [child EXCEPT ![m] = "live"]
  /\ UNCHANGED <<clock, mainVars, threadVars, young>>

\* The child ends by itself and the judging goes on, or it is known now.
ChildEnds(m) == \E last \in BOOLEAN, v \in Spoken :
  /\ child[m] = "live" /\ Turns(m, "child", IF last THEN "recorded" ELSE "run")
  /\ child' = [child EXCEPT ![m] = "none"]
  /\ IF last THEN Judged(m, v) /\ (Says(m) \/ UNCHANGED leaked)
     ELSE UNCHANGED <<judged, record, leaked>>
  /\ UNCHANGED <<clock, mainVars, deadline, born, slot, young>>

\* Ended at the member's deadline or by the main thread, it has decided
\* nothing: a guard asks, a gate refuses.
ChildFails(m) == \E v \in {Ask, Deny} :
  /\ \/ child[m] = "killed"
     \/ child[m] = "live" /\ clock >= deadline[m]
  /\ Turns(m, "child", "recorded")
  /\ child' = [child EXCEPT ![m] = "none"]
  /\ Judged(m, v) /\ Says(m)
  /\ UNCHANGED <<clock, mainVars, deadline, born, slot, young>>

\* Without a child; what raises on the way refuses.
Decide(m) == \E v \in Spoken :
  /\ Turns(m, "run", "recorded")
  /\ Judged(m, v)
  /\ UNCHANGED <<clock, mainVars, deadline, born, slot, leaked, child, young>>

\* A SystemExit passes _chock_member_verdict by, and leaves no record.
Exits(m) ==
  /\ Turns(m, "run", "stored")
  /\ judged' = [judged EXCEPT ![m] = Deny]
  /\ slot' = [slot EXCEPT ![m].verdict = Deny]
  /\ UNCHANGED <<clock, mainVars, deadline, born, record, leaked, child, young>>

Store(m) ==
  /\ Turns(m, "recorded", "stored")
  /\ slot' = [slot EXCEPT ![m].verdict = record[m]]
  /\ UNCHANGED <<clock, mainVars, deadline, born, record, judged, leaked, child, young>>

Done(m) ==
  /\ Turns(m, "stored", "done")
  /\ slot' = [slot EXCEPT ![m].done = TRUE]
  /\ UNCHANGED <<clock, mainVars, deadline, born, record, judged, leaked, child, young>>

Thread(m) ==
  \/ SetDeadline(m) \/ Spawn(m) \/ Track(m) \/ ChildEnds(m) \/ ChildFails(m)
  \/ Decide(m) \/ Exits(m) \/ Store(m) \/ Done(m)

\* Before the threads are started no time is counted.
Tick ==
  /\ main \notin {"load", "start", "gone"} /\ clock < MaxTime /\ clock' = clock + 1
  /\ UNCHANGED <<mainVars, threadVars, child, young>>

Finished == main = "gone" /\ UNCHANGED vars

Next == Main \/ LoadFails \/ Raises \/ (\E m \in Members : Thread(m)) \/ Tick \/ Finished

\* The clock goes on and the main thread is scheduled; a member may hang.
Spec == Init /\ [][Next]_vars /\ WF_vars(Main) /\ WF_vars(Tick)

-----------------------------------------------------------------------------

TypeOK ==
  /\ clock \in 0 .. MaxTime /\ main \in Stage /\ at \in 1 .. N + 1
  /\ canAsk \in BOOLEAN /\ captured \in BOOLEAN /\ on \subseteq Members
  /\ thread \in [Members ->
       {"off", "start", "run", "child", "recorded", "stored", "done"}]
  /\ deadline \in [Members -> 0 .. 2 * MaxTime] /\ born \in [Members -> 0 .. MaxChildren]
  /\ child \in [Members -> {"none", "new", "live", "killed"}]
  /\ slot \in [Members -> [verdict : Verdict \cup {NoVerdict}, done : BOOLEAN]]
  /\ record \in [Members -> Verdict \cup {NoVerdict}] /\ heard \in [Members -> Verdict \cup {NoVerdict}]
  /\ logged \in [Members -> Verdict \cup {NoVerdict}] /\ judged \in [Members -> Verdict \cup {NoVerdict}]
  /\ answer \in Verdict \cup {NoVerdict}
  /\ leaked \subseteq Members /\ late \subseteq Members /\ young \subseteq Members

\* A client that is not refused is told what every member decided, and nothing
\* milder than any of them: none was late, none was read before it had decided.
NothingIsSoftened ==
  answer \in {Allow, Warn, Ask} =>
    \A m \in on : judged[m] # NoVerdict /\ Settle(judged[m]) <= answer

\* Once the process is gone, the only trees left are those a late member
\* started, or had not yet put in the table, when they were last ended.
OnlyYoungTreesSurvive ==
  main = "gone" => \A m \in Members : child[m] \in {"new", "live"} => m \in young

\* The process's own streams carry the hook's answer; a member only writes to
\* them when it was late, after which nobody reads what it comes to.
OnlyTheLateSpeakUp == leaked \subseteq late

\* "Every block, ask, warn, fault and override keeps its own line per policy":
\* a member's line names the verdict the call was judged by.
LoggedAsHeard ==
  \A m \in Members : logged[m] # NoVerdict => Settle(logged[m]) = heard[m]

\* Whatever its members do, a hook that was started answers and leaves.
HookLeaves == <>(main = "gone")

=============================================================================
