-------------------------- MODULE GuardrailsProofs --------------------------
(***************************************************************************)
(* What keeps a guardrail on, for any bundle, any number of people, hooks  *)
(* and sessions, and any order of their steps: a member runs switched off  *)
(* only where a person switched it off, in the files the session began     *)
(* with, and a turn does not end in silence over a file that loosens.      *)
(***************************************************************************)
EXTENDS Guardrails, TLAPS

\* What a hook holds at each of its stages.
Shape(h) ==
  /\ hpc[h] = "idle" => load[h] = NoLoad /\ said[h] = Nothing /\ run[h].kind = "none"
  /\ hpc[h] # "idle" => run[h].session \in Sessions /\ run[h].kind # "none"
  /\ hpc[h] \in {"source", "read"} => run[h].kind = "call"
  /\ hpc[h] \in {"turn", "tidy"} => run[h].kind = "stop"
  /\ hpc[h] = "compare" => run[h].kind \in {"call", "stop"}
  /\ hpc[h] = "source" => load[h].offs = {}
  /\ hpc[h] = "read" => load[h].file \in Files
  /\ run[h].kind = "call" => load[h].offs \subseteq Members
  /\ hpc[h] = "tidy" => load[h].offs \subseteq Files
  /\ said[h].off # {} => hpc[h] = "done"

\* What a call's hook has read is what the files still say, while none changes.
ReadRight(h) ==
  h \notin stirred /\ run[h].kind = "call" =>
    /\ hpc[h] = "read" => ~Drifts(load[h].file)
    /\ hpc[h] \in {"bind", "compare", "done"} /\ load[h].offs # {} =>
         /\ load[h].file \in Files /\ ~Drifts(load[h].file)
         /\ load[h].offs \subseteq Offs(disk[load[h].file].text)
    /\ said[h].off \subseteq load[h].offs

\* What the end of a turn has seen is still so, while no file changes but by it.
SeenRight(h) ==
  h \notin stirred /\ run[h].kind = "stop" =>
    /\ hpc[h] = "tidy" => load[h].offs = {f \in Files : Tightens(f)}
    /\ hpc[h] = "tidy" /\ said[h].turn = "passed" => \A f \in Files : Drifts(f) => Tightens(f)
    /\ hpc[h] \in {"bind", "compare"} /\ said[h].turn = "passed" => \A f \in Files : ~Drifts(f)

\* A record is of a text a person wrote, saw or reviewed, and so is the text a
\* command is about to record.
RecordsApproved ==
  /\ \A f \in Files \ tainted : disk[f].rec \in approved[f] \cup {NoFile}
  /\ \A p \in People : pc[p] = "record" /\ job[p].file \notin tainted =>
       disk[job[p].file].text \in approved[job[p].file]

\* A session whose binding could be kept is bound to what it began with.
BoundAsBegun(s) ==
  /\ ~begun[s].kept => begun[s].at = Unseen
  /\ s \notin unkept =>
       /\ bound[s].kept => begun[s] = bound[s]
       /\ ~bound[s].kept => bound[s].at = Unseen
       /\ s # Unnamed => (begun[s].kept <=> bound[s].kept)

\* Where the record of a vouched repository's file is gone, the user's switched
\* nothing off then, and only a command has recorded it since.
GoneIsTight(s) ==
  /\ tainted = {} /\ Repo \notin lost /\ BeganVouched(s)
  /\ disk[Repo].rec = NoFile /\ NoFile \notin approved[Repo]
  => Offs(disk[User].rec) = {} \/ s \in rewritten

GuardInv ==
  /\ TypeOK
  /\ \A h \in Hooks : Shape(h) /\ ReadRight(h) /\ SeenRight(h)
  /\ RecordsApproved
  /\ \A s \in Sessions : BoundAsBegun(s) /\ GoneIsTight(s)

-----------------------------------------------------------------------------

LEMMA NoFileIsNoText ==
  /\ NoFile \notin SUBSET Members /\ Offs(NoFile) = {} /\ NoFile # Invalid
  /\ Invalid \notin SUBSET Members /\ Offs(Invalid) = {} /\ NoFile \notin Text
  /\ \A t : Offs(t) \subseteq Members
<1>1. NoFile \notin SUBSET Members
  <2>1. "absent" \in NoFile
    BY DEF NoFile
  <2> QED
    BY <2>1, MembersAssumption
<1>2. Invalid \notin SUBSET Members
  <2>1. "invalid" \in Invalid
    BY DEF Invalid
  <2> QED
    BY <2>1, MembersAssumption
<1>3. NoFile # Invalid
  <2>1. "absent" \in NoFile /\ "absent" \notin Invalid
    BY DEF NoFile, Invalid
  <2> QED
    BY <2>1
<1>4. \A t : Offs(t) \subseteq Members
  BY DEF Offs
<1> QED
  BY <1>1, <1>2, <1>3, <1>4 DEF Offs, Text

LEMMA UnseenIsAState == Unseen \in State
BY DEF Unseen, State, Files, Repo, User

\* A file's text and record, after each kind of write.
LEMMA WritesOneField ==
  ASSUME TypeOK, NEW f \in Files, NEW t \in Text \cup {NoFile}
  PROVE  /\ [disk EXCEPT ![f].text = t] \in State /\ [disk EXCEPT ![f].rec = t] \in State
         /\ \A g \in Files :
              /\ [disk EXCEPT ![f].text = t][g].text = IF g = f THEN t ELSE disk[g].text
              /\ [disk EXCEPT ![f].text = t][g].rec = disk[g].rec
              /\ [disk EXCEPT ![f].rec = t][g].rec = IF g = f THEN t ELSE disk[g].rec
              /\ [disk EXCEPT ![f].rec = t][g].text = disk[g].text
<1>1. disk \in [Files -> [text : Text \cup {NoFile}, rec : Text \cup {NoFile}]]
  BY DEF TypeOK, State
<1>2. disk[f] \in [text : Text \cup {NoFile}, rec : Text \cup {NoFile}]
  BY <1>1
<1>3. /\ [disk[f] EXCEPT !.text = t] \in [text : Text \cup {NoFile}, rec : Text \cup {NoFile}]
      /\ [disk[f] EXCEPT !.rec = t] \in [text : Text \cup {NoFile}, rec : Text \cup {NoFile}]
  BY <1>2
<1>4. [disk EXCEPT ![f].text = t] \in State /\ [disk EXCEPT ![f].rec = t] \in State
  BY <1>1, <1>3 DEF State
<1>5. ASSUME NEW g \in Files
      PROVE  /\ [disk EXCEPT ![f].text = t][g].text = IF g = f THEN t ELSE disk[g].text
             /\ [disk EXCEPT ![f].text = t][g].rec = disk[g].rec
  BY <1>1, <1>2
<1>6. ASSUME NEW g \in Files
      PROVE  /\ [disk EXCEPT ![f].rec = t][g].rec = IF g = f THEN t ELSE disk[g].rec
             /\ [disk EXCEPT ![f].rec = t][g].text = disk[g].text
  BY <1>1, <1>2
<1> QED
  BY <1>4, <1>5, <1>6

LEMMA GuardInit == Init => GuardInv
<1> SUFFICES ASSUME Init PROVE GuardInv
  OBVIOUS
<1>1. PICK repo \in (SUBSET Members) \cup {NoFile}, user \in {NoFile, Members} :
        /\ disk = [f \in Files |-> LET t == IF f = Repo THEN repo ELSE user IN [text |-> t, rec |-> t]]
        /\ head \in {NoFile, repo} /\ remote = head
        /\ approved = [f \in Files |-> {IF f = Repo THEN repo ELSE user}]
  BY DEF Init
<1>2. disk \in State /\ {head, remote} \subseteq Text \cup {NoFile}
      /\ approved \in [Files -> SUBSET (Text \cup {NoFile})]
  <2>1. {repo, user} \subseteq Text \cup {NoFile}
    BY DEF Text
  <2>2. disk \in State
    BY <1>1, <2>1 DEF State
  <2>3. approved \in [Files -> SUBSET (Text \cup {NoFile})]
    BY <1>1, <2>1
  <2> QED
    BY <1>1, <2>1, <2>2, <2>3
<1>3. TypeOK
  BY <1>2, UnseenIsAState DEF Init, TypeOK, NoJob, NoRun, NoLoad, Nothing, Text, Files
<1>4. \A h \in Hooks : Shape(h) /\ ReadRight(h) /\ SeenRight(h)
  BY DEF Init, Shape, ReadRight, SeenRight, NoRun, NoLoad, Nothing
<1>5. RecordsApproved
  BY <1>1 DEF Init, RecordsApproved
<1>6. \A s \in Sessions : BoundAsBegun(s) /\ GoneIsTight(s)
  BY DEF Init, BoundAsBegun, GoneIsTight, BeganVouched, Unseen, Files, Repo, User
<1> QED
  BY <1>3, <1>4, <1>5, <1>6 DEF GuardInv

-----------------------------------------------------------------------------

LEMMA TypePerson ==
  ASSUME GuardInv, NEW p \in People, PersonStep(p)
  PROVE  TypeOK'
<1> DEFINE Jobs == [file : Files, text : Text, todo : SUBSET Files, reset : SUBSET Files]
<1>0. TypeOK /\ job[p] \in Jobs
  BY DEF GuardInv, TypeOK
<1> USE DEF sharedVars, hookVars, sessionHistory, history, Command, Leaves, Stir
<1>1. NoJob \in Jobs
  BY DEF NoJob, Text, Files
<1>2. ASSUME NEW j \in Jobs PROVE [job EXCEPT ![p] = j] \in [People -> Jobs]
  BY <1>0, <1>2 DEF TypeOK
<1>3. /\ \A x \in Text : [job[p] EXCEPT !.text = x] \in Jobs
      /\ \A fs \in SUBSET Files, f \in Files : [job[p] EXCEPT !.file = f, !.todo = fs] \in Jobs
  BY <1>0
<1>4. ASSUME NEW f \in Files, BeginSwitch(p, f) PROVE TypeOK'
  <2>1. [file |-> f, text |-> Invalid, todo |-> {}, reset |-> {}] \in Jobs
    BY DEF Text
  <2>2. job' \in [People -> Jobs]
    BY <1>2, <1>4, <2>1 DEF BeginSwitch
  <2> QED
    BY <1>0, <1>4, <2>2 DEF BeginSwitch, TypeOK
<1>5. CASE ReadCurrent(p)
  <2>1. job' \in [People -> Jobs]
    <3>1. ASSUME NEW m \in Members, NEW t \in {{}, Members}
          PROVE  [job[p] EXCEPT !.text = (Offs(disk[job[p].file].text) \ {m}) \cup (t \cap {m})] \in Jobs
      <4>1. (Offs(disk[job[p].file].text) \ {m}) \cup (t \cap {m}) \in Text
        BY NoFileIsNoText DEF Text
      <4> QED
        BY <1>3, <4>1
    <3>2. CASE disk[job[p].file].text = Invalid
      BY <1>1, <1>2, <1>5, <3>2 DEF ReadCurrent
    <3>3. CASE disk[job[p].file].text # Invalid
      <4>1. PICK m \in Members, t \in {{}, Members} :
              job' = [job EXCEPT ![p].text = (Offs(disk[job[p].file].text) \ {m}) \cup (t \cap {m})]
        BY <1>5, <3>3 DEF ReadCurrent
      <4> QED
        BY <1>2, <3>1, <4>1
    <3> QED
      BY <3>2, <3>3
  <2> QED
    BY <1>0, <1>5, <2>1 DEF ReadCurrent, TypeOK
<1>6. CASE WriteToggles(p)
  <2>1. job[p].file \in Files /\ job[p].text \in Text
    BY <1>0
  <2>2. disk' \in State
    BY <1>0, <1>6, <2>1, WritesOneField DEF WriteToggles
  <2> QED
    BY <1>0, <1>6, <2>1, <2>2 DEF WriteToggles, TypeOK
<1>7. CASE Record(p)
  <2>1. job[p].file \in Files /\ disk[job[p].file].text \in Text \cup {NoFile}
    BY <1>0 DEF TypeOK, State
  <2>2. disk' \in State
    BY <1>0, <1>7, <2>1, WritesOneField DEF Record
  <2>3. job' \in [People -> Jobs]
    BY <1>0, <1>1, <1>2, <1>7 DEF Record, TypeOK
  <2>4. rewritten' \subseteq Sessions
    BY <1>0, <1>7 DEF Record, TypeOK
  <2> QED
    BY <1>0, <1>7, <2>2, <2>3, <2>4 DEF Record, TypeOK
<1>8. CASE BeginAdopt(p)
  <2>1. [file |-> Repo, text |-> {}, todo |-> Files, reset |-> {f \in Files : disk[f].text = Invalid}] \in Jobs
    BY DEF Text, Files
  <2>2. job' \in [People -> Jobs]
    BY <1>2, <1>8, <2>1 DEF BeginAdopt
  <2> QED
    BY <1>0, <1>8, <2>2 DEF BeginAdopt, TypeOK
<1>9. CASE Show(p)
  <2>1. PICK f \in job[p].todo :
           LET rest == job[p].todo \ {f} IN
           /\ pc[p] = "show"
           /\ IF rest = {} /\ f \notin job[p].reset /\ ~Drifts(f) THEN Leaves(p)
              ELSE /\ job' = [job EXCEPT ![p].file = f, ![p].todo = rest]
                   /\ pc' = [pc EXCEPT ![p] = IF f \in job[p].reset THEN "write"
                                             ELSE IF Drifts(f) THEN "record" ELSE "show"]
           /\ IF f \in job[p].reset
              THEN /\ disk' = [disk EXCEPT ![f].text = NoFile]
                   /\ approved' = [approved EXCEPT ![f] = @ \cup {NoFile}]
                   /\ Stir
              ELSE /\ approved' = IF Drifts(f) THEN [approved EXCEPT ![f] = @ \cup {disk[f].text}]
                                               ELSE approved
                   /\ UNCHANGED <<disk, stirred>>
           /\ UNCHANGED <<head, remote, bound, hookVars, left, tainted, lost, sessionHistory>>
    BY <1>9 DEF Show
  <2>2. f \in Files /\ job[p].todo \ {f} \in SUBSET Files /\ disk[f].text \in Text \cup {NoFile}
    BY <1>0 DEF TypeOK, State
  <2>3. job' \in [People -> Jobs]
    <3>1. [job[p] EXCEPT !.file = f, !.todo = job[p].todo \ {f}] \in Jobs
      BY <1>3, <1>0, <2>2
    <3> QED
      BY <1>1, <1>2, <2>1, <3>1
  <2>4. disk' \in State
    <3>1. CASE f \in job[p].reset
      <4>1. disk' = [disk EXCEPT ![f].text = NoFile]
        BY <2>1, <3>1
      <4> QED
        BY <1>0, <2>2, <4>1, WritesOneField
    <3>2. CASE f \notin job[p].reset
      BY <1>0, <2>1, <3>2 DEF TypeOK
    <3> QED
      BY <3>1, <3>2
  <2>5. approved' \in [Files -> SUBSET (Text \cup {NoFile})]
    <3>1. approved' = approved \/ \E t \in Text \cup {NoFile} : approved' = [approved EXCEPT ![f] = @ \cup {t}]
      BY <2>1, <2>2
    <3> QED
      BY <1>0, <2>2, <3>1 DEF TypeOK
  <2>6. pc' \in [People -> {"idle", "current", "write", "record", "show"}] /\ stirred' \subseteq Hooks
    BY <1>0, <2>1 DEF TypeOK
  <2>7. UNCHANGED <<head, remote, bound, hpc, run, load, said, tainted, lost, begun, unkept, rewritten>>
    BY <2>1
  <2> HIDE DEF Jobs
  <2> QED
    BY <1>0, <2>3, <2>4, <2>5, <2>6, <2>7 DEF TypeOK, Jobs
<1>10. CASE BeginSync(p)
  <2>1. remote \in Text
    BY <1>0, <1>10 DEF BeginSync, TypeOK
  <2>2. [file |-> Repo, text |-> remote, todo |-> {}, reset |-> {}] \in Jobs
    BY <2>1 DEF Files
  <2>3. job' \in [People -> Jobs]
    BY <1>2, <1>10, <2>2 DEF BeginSync
  <2> QED
    BY <1>0, <1>10, <2>1, <2>3 DEF BeginSync, TypeOK
<1>11. CASE Killed(p)
  <2>1. job' \in [People -> Jobs]
    BY <1>1, <1>2, <1>11 DEF Killed
  <2> QED
    BY <1>0, <1>11, <2>1 DEF Killed, TypeOK
<1> QED
  BY <1>4, <1>5, <1>6, <1>7, <1>8, <1>9, <1>10, <1>11 DEF PersonStep

LEMMA TypeAgent ==
  ASSUME TypeOK, AgentStep
  PROVE  TypeOK'
<1> USE DEF sharedVars, hookVars, sessionHistory, history, Changed, Stir
<1>1. ASSUME NEW f \in Files, Edit(f) \/ Forge(f) PROVE TypeOK'
  <2>1. PICK t \in Text \cup {NoFile} :
          disk' = [disk EXCEPT ![f].text = t] \/ disk' = [disk EXCEPT ![f].rec = t]
    BY <1>1 DEF Edit, Forge, TypeOK, State
  <2>2. disk' \in State
    <3>1. [disk EXCEPT ![f].text = t] \in State /\ [disk EXCEPT ![f].rec = t] \in State
      BY WritesOneField
    <3> QED
      BY <2>1, <3>1
  <2> QED
    BY <1>1, <2>2 DEF Edit, Forge, TypeOK
<1>2. CASE Commit
  BY <1>2 DEF Commit, TypeOK, State, Files
<1>3. CASE Pull
  <2>1. Repo \in Files /\ remote \in Text \cup {NoFile}
    BY DEF TypeOK, Files
  <2>2. disk' \in State
    BY <1>3, <2>1, WritesOneField DEF Pull
  <2> QED
    BY <1>3, <2>1, <2>2 DEF Pull, TypeOK
<1>4. CASE Review
  BY <1>4 DEF Review, TypeOK
<1> QED
  BY <1>1, <1>2, <1>3, <1>4 DEF AgentStep

LEMMA TypeHook ==
  ASSUME GuardInv, NEW h \in Hooks, HookStep(h)
  PROVE  TypeOK'
<1>0. TypeOK /\ Shape(h)
  BY DEF GuardInv
<1> USE DEF sharedVars, hookVars, sessionHistory, history, Hook
<1>1. CASE BeginHook(h)
  <2>1. PICK k \in {"start", "compact", "call", "stop"}, s \in Sessions :
          run' = [run EXCEPT ![h] = [kind |-> k, session |-> s]] /\ hpc' = [hpc EXCEPT ![h] = FirstStage(k)]
    BY <1>1 DEF BeginHook
  <2>2. FirstStage(k) \in {"bind", "source", "turn"}
    BY DEF FirstStage
  <2> QED
    BY <1>0, <1>1, <2>1, <2>2 DEF BeginHook, TypeOK
<1>2. CASE ExitHook(h)
  BY <1>0, <1>2 DEF ExitHook, TypeOK, NoRun, NoLoad, Nothing
<1>3. CASE FindSource(h)
  <2>1. Governing \in Files \cup {"none"}
    BY DEF Governing, Files
  <2> QED
    BY <1>0, <1>3, <2>1 DEF FindSource, TypeOK
<1>4. CASE ReadToggles(h)
  <2>1. PICK x \in SUBSET Members : load' = [load EXCEPT ![h].offs = x]
    BY <1>4, NoFileIsNoText DEF ReadToggles
  <2>2. x \in SUBSET (Members \cup Files)
    OBVIOUS
  <2> QED
    BY <1>0, <1>4, <2>1, <2>2 DEF ReadToggles, TypeOK
<1>5. CASE Bind(h)
  <2>1. bound' \in [Sessions -> [kept : BOOLEAN, at : State]] /\ begun' \in [Sessions -> [kept : BOOLEAN, at : State]]
    <3>1. [kept |-> TRUE, at |-> disk] \in [kept : BOOLEAN, at : State]
      BY <1>0 DEF TypeOK
    <3>2. bound' \in [Sessions -> [kept : BOOLEAN, at : State]]
      BY <1>0, <1>5, <3>1 DEF Bind, TypeOK
    <3>3. begun' = begun \/ begun' = [begun EXCEPT ![run[h].session] = [kept |-> TRUE, at |-> disk]]
      BY <1>5 DEF Bind, Began
    <3>4. begun' \in [Sessions -> [kept : BOOLEAN, at : State]]
      BY <1>0, <3>1, <3>3 DEF TypeOK
    <3> QED
      BY <3>2, <3>4
  <2>2. unkept' \subseteq Sessions /\ rewritten' \subseteq Sessions
    BY <1>0, <1>5 DEF Bind, Began, TypeOK, Shape
  <2>3. hpc' \in [Hooks -> {"idle", "source", "read", "bind", "compare", "turn", "tidy", "done"}]
    BY <1>0, <1>5 DEF Bind, AfterBind, TypeOK
  <2> QED
    BY <1>0, <1>5, <2>1, <2>2, <2>3 DEF Bind, TypeOK
<1>6. CASE Compare(h)
  <2>1. PICK x \in SUBSET Members : said' = [said EXCEPT ![h].off = x]
    BY <1>0, <1>6 DEF Compare, Shape
  <2>2. [said[h] EXCEPT !.off = x] \in [off : SUBSET Members, turn : {"none", "passed", "refused"}]
    BY <1>0 DEF TypeOK
  <2>3. said' \in [Hooks -> [off : SUBSET Members, turn : {"none", "passed", "refused"}]]
    BY <1>0, <2>1, <2>2 DEF TypeOK
  <2> QED
    BY <1>0, <1>6, <2>3 DEF Compare, TypeOK
<1>7. CASE LookAtTurnEnd(h)
  <2>1. {f \in Files : Tightens(f)} \in SUBSET (Members \cup Files)
    OBVIOUS
  <2>2. load' \in [Hooks -> [file : Files \cup {"none"}, offs : SUBSET (Members \cup Files)]]
    <3>1. [load[h] EXCEPT !.offs = {f \in Files : Tightens(f)}]
            \in [file : Files \cup {"none"}, offs : SUBSET (Members \cup Files)]
      BY <1>0, <2>1 DEF TypeOK
    <3> QED
      BY <1>0, <1>7, <3>1 DEF LookAtTurnEnd, TypeOK
  <2>3. said' \in [Hooks -> [off : SUBSET Members, turn : {"none", "passed", "refused"}]]
    <3>1. PICK t \in {"passed", "refused"} : said' = [said EXCEPT ![h].turn = t]
      BY <1>7 DEF LookAtTurnEnd
    <3> QED
      BY <1>0, <3>1 DEF TypeOK
  <2> QED
    BY <1>0, <1>7, <2>2, <2>3 DEF LookAtTurnEnd, TypeOK
<1>8. CASE TidyRecords(h)
  <2>1. disk' \in State
    <3>1. \A f \in Files : disk[f] \in [text : Text \cup {NoFile}, rec : Text \cup {NoFile}]
      BY <1>0 DEF TypeOK, State
    <3>2. \A f \in Files : [disk[f] EXCEPT !.rec = NoFile] \in [text : Text \cup {NoFile}, rec : Text \cup {NoFile}]
      BY <3>1
    <3> QED
      BY <1>8, <3>1, <3>2 DEF TidyRecords, State
  <2>2. lost' \subseteq Files /\ stirred' \subseteq Hooks
    BY <1>0, <1>8 DEF TidyRecords, TypeOK, Shape
  <2> QED
    BY <1>0, <1>8, <2>1, <2>2 DEF TidyRecords, TypeOK
<1>9. CASE EndTurn(h)
  BY <1>0, <1>9 DEF EndTurn, TypeOK
<1> QED
  BY <1>1, <1>2, <1>3, <1>4, <1>5, <1>6, <1>7, <1>8, <1>9 DEF HookStep

LEMMA TypeStep ==
  ASSUME GuardInv, [Next]_vars
  PROVE  TypeOK'
<1>0. TypeOK
  BY DEF GuardInv
<1>1. ASSUME NEW s \in Sessions, Prune(s) PROVE TypeOK'
  BY <1>0, <1>1, UnseenIsAState DEF Prune, sharedVars, hookVars, TypeOK
<1>2. CASE UNCHANGED vars
  BY <1>0, <1>2 DEF vars, sharedVars, hookVars, history, sessionHistory, TypeOK
<1> QED
  BY <1>0, <1>1, <1>2, TypePerson, TypeAgent, TypeHook DEF Next

-----------------------------------------------------------------------------

\* Only a hook moves itself, and whoever changes a toggle file is noticed by
\* every hook that runs.
LEMMA HooksNotice ==
  ASSUME GuardInv, NEW h \in Hooks,
         \/ \E p \in People : PersonStep(p)
         \/ AgentStep
         \/ \E k \in Hooks \ {h} : HookStep(k)
         \/ \E s \in Sessions : Prune(s)
         \/ UNCHANGED vars
  PROVE  /\ hpc'[h] = hpc[h] /\ run'[h] = run[h] /\ load'[h] = load[h] /\ said'[h] = said[h]
         /\ h \in stirred => h \in stirred'
         /\ hpc[h] # "idle" /\ h \notin stirred' => disk' = disk
<1>0. TypeOK
  BY DEF GuardInv
<1> USE DEF sharedVars, hookVars, sessionHistory, history, Stir
<1>1. ASSUME NEW p \in People, PersonStep(p)
      PROVE  /\ UNCHANGED hookVars /\ (h \in stirred => h \in stirred')
             /\ hpc[h] # "idle" /\ h \notin stirred' => disk' = disk
  <2>1. CASE BeginAdopt(p) \/ BeginSync(p) \/ ReadCurrent(p) \/ Killed(p) \/ \E f \in Files : BeginSwitch(p, f)
    BY <2>1 DEF BeginAdopt, BeginSync, ReadCurrent, Killed, BeginSwitch
  <2>2. CASE WriteToggles(p) \/ Record(p)
    BY <2>2 DEF WriteToggles, Record
  <2>3. CASE Show(p)
    BY <2>3 DEF Show
  <2> QED
    BY <1>1, <2>1, <2>2, <2>3 DEF PersonStep
<1>2. CASE AgentStep
  BY <1>2 DEF AgentStep, Commit, Pull, Review, Edit, Forge, Changed
<1>3. ASSUME NEW k \in Hooks, k # h, HookStep(k)
      PROVE  /\ hpc'[h] = hpc[h] /\ run'[h] = run[h] /\ load'[h] = load[h] /\ said'[h] = said[h]
             /\ h \in stirred => h \in stirred'
             /\ hpc[h] # "idle" /\ h \notin stirred' => disk' = disk
  <2> USE <1>0, <1>3 DEF TypeOK, Hook
  <2>1. CASE BeginHook(k) \/ ExitHook(k)
    BY <2>1 DEF BeginHook, ExitHook
  <2>2. CASE FindSource(k) \/ ReadToggles(k)
    BY <2>2 DEF FindSource, ReadToggles
  <2>3. CASE Bind(k)
    BY <2>3 DEF Bind
  <2>4. CASE Compare(k) \/ EndTurn(k) \/ LookAtTurnEnd(k)
    BY <2>4 DEF Compare, EndTurn, LookAtTurnEnd
  <2>5. CASE TidyRecords(k)
    BY <2>5 DEF TidyRecords
  <2> QED
    BY <1>3, <2>1, <2>2, <2>3, <2>4, <2>5 DEF HookStep
<1>4. CASE (\E s \in Sessions : Prune(s)) \/ UNCHANGED vars
  BY <1>4 DEF Prune, vars
<1> QED
  BY <1>1, <1>2, <1>3, <1>4

LEMMA OthersStep ==
  ASSUME GuardInv, NEW h \in Hooks,
         \/ \E p \in People : PersonStep(p)
         \/ AgentStep
         \/ \E k \in Hooks \ {h} : HookStep(k)
         \/ \E s \in Sessions : Prune(s)
         \/ UNCHANGED vars
  PROVE  Shape(h)' /\ ReadRight(h)' /\ SeenRight(h)'
<1>1. /\ hpc'[h] = hpc[h] /\ run'[h] = run[h] /\ load'[h] = load[h] /\ said'[h] = said[h]
      /\ h \in stirred => h \in stirred'
      /\ hpc[h] # "idle" /\ h \notin stirred' => disk' = disk
  BY HooksNotice
<1>2. Shape(h) /\ ReadRight(h) /\ SeenRight(h)
  BY DEF GuardInv
<1>3. Shape(h)'
  BY <1>1, <1>2 DEF Shape
<1>4. CASE hpc[h] = "idle"
  BY <1>1, <1>2, <1>3, <1>4 DEF Shape, ReadRight, SeenRight
<1>5. CASE hpc[h] # "idle"
  <2>1. ReadRight(h)'
    BY <1>1, <1>2, <1>5 DEF ReadRight, Drifts
  <2>2. SeenRight(h)'
    BY <1>1, <1>2, <1>5 DEF SeenRight, Drifts, Tightens, Deleted, HandedToUser
  <2> QED
    BY <1>3, <2>1, <2>2
<1> QED
  BY <1>4, <1>5

LEMMA OwnStep ==
  ASSUME GuardInv, NEW h \in Hooks, HookStep(h)
  PROVE  Shape(h)' /\ ReadRight(h)' /\ SeenRight(h)'
<1>0. TypeOK /\ Shape(h) /\ ReadRight(h) /\ SeenRight(h)
  BY DEF GuardInv
<1> USE DEF sharedVars, hookVars, sessionHistory, history, Hook
<1>1. CASE BeginHook(h)
  <2>1. PICK k \in {"start", "compact", "call", "stop"}, s \in Sessions :
          run'[h] = [kind |-> k, session |-> s] /\ hpc'[h] = FirstStage(k)
    BY <1>0, <1>1 DEF BeginHook, TypeOK
  <2>2. hpc[h] = "idle" /\ UNCHANGED <<load, said>>
    BY <1>1 DEF BeginHook
  <2>3. load'[h].offs = {} /\ said'[h].off = {} /\ said'[h].turn = "none"
    BY <1>0, <2>2 DEF Shape, NoLoad, Nothing
  <2>4. /\ k \in {"start", "compact"} => hpc'[h] = "bind"
        /\ k = "call" => hpc'[h] = "source"
        /\ k = "stop" => hpc'[h] = "turn"
    BY <2>1 DEF FirstStage
  <2> QED
    BY <2>1, <2>3, <2>4 DEF Shape, ReadRight, SeenRight
<1>2. CASE ExitHook(h)
  <2>1. hpc'[h] = "idle" /\ run'[h] = NoRun /\ load'[h] = NoLoad /\ said'[h] = Nothing
    BY <1>0, <1>2 DEF ExitHook, TypeOK
  <2> QED
    BY <2>1 DEF Shape, ReadRight, SeenRight, NoRun, NoLoad, Nothing
<1>3. CASE FindSource(h)
  <2>1. /\ hpc[h] = "source" /\ load'[h].file = Governing /\ load'[h].offs = load[h].offs
        /\ hpc'[h] = IF Governing # "none" /\ ~Drifts(Governing) THEN "read" ELSE "bind"
        /\ UNCHANGED <<disk, run, said, stirred>>
    BY <1>0, <1>3 DEF FindSource, TypeOK
  <2>2. Governing # "none" => Governing \in Files
    BY DEF Governing, Files
  <2> QED
    BY <1>0, <2>1, <2>2 DEF Shape, ReadRight, SeenRight, Drifts
<1>4. CASE ReadToggles(h)
  <2>1. /\ hpc[h] = "read" /\ hpc'[h] = "bind" /\ load'[h].file = load[h].file
        /\ load'[h].offs \subseteq Offs(disk[load[h].file].text)
        /\ UNCHANGED <<disk, run, said, stirred>>
    BY <1>0, <1>4 DEF ReadToggles, TypeOK
  <2>2. Offs(disk[load[h].file].text) \subseteq Members
    BY NoFileIsNoText
  <2> QED
    BY <1>0, <2>1, <2>2 DEF Shape, ReadRight, SeenRight, Drifts
<1>5. CASE Bind(h)
  <2>1. /\ hpc[h] = "bind" /\ hpc'[h] = AfterBind(h) /\ UNCHANGED <<disk, run, load, said, stirred>>
    BY <1>0, <1>5 DEF Bind, TypeOK
  <2>2. run[h].kind \in {"start", "compact", "call", "stop"}
    BY <1>0, <2>1 DEF Shape, TypeOK
  <2> QED
    BY <1>0, <2>1, <2>2 DEF Shape, ReadRight, SeenRight, Drifts, AfterBind
<1>6. CASE Compare(h)
  <2>1. /\ hpc[h] = "compare" /\ hpc'[h] = "done" /\ run[h].kind = "call"
        /\ said'[h].off \subseteq load[h].offs
        /\ UNCHANGED <<disk, run, load, stirred>>
    BY <1>0, <1>6 DEF Compare, TypeOK
  <2> QED
    BY <1>0, <2>1 DEF Shape, ReadRight, SeenRight, Drifts
<1>7. CASE LookAtTurnEnd(h)
  <2>1. /\ hpc[h] = "turn" /\ hpc'[h] = IF \E f \in Files : Tightens(f) THEN "tidy" ELSE "bind"
        /\ load'[h].offs = {f \in Files : Tightens(f)} /\ said'[h].off = said[h].off
        /\ said'[h].turn = "passed" => \A f \in Files : Drifts(f) => Tightens(f)
        /\ UNCHANGED <<disk, run, stirred>>
    BY <1>0, <1>7 DEF LookAtTurnEnd, TypeOK
  <2> QED
    BY <1>0, <2>1 DEF Shape, ReadRight, SeenRight, Drifts, Tightens, Deleted, HandedToUser
<1>8. CASE TidyRecords(h)
  <2>1. /\ hpc[h] = "tidy" /\ hpc'[h] = "bind" /\ UNCHANGED <<run, load, said>>
        /\ h \in stirred => h \in stirred'
    BY <1>0, <1>8 DEF TidyRecords, TypeOK
  <2>2. \A f \in Files : /\ disk'[f].text = disk[f].text
                         /\ disk'[f].rec = IF f \in load[h].offs THEN NoFile ELSE disk[f].rec
    BY <1>0, <1>8 DEF TidyRecords, TypeOK, State
  <2>3. ASSUME h \notin stirred', said[h].turn = "passed", NEW f \in Files PROVE ~Drifts(f)'
    <3>1. f \in load[h].offs <=> Tightens(f)
      BY <1>0, <2>1, <2>3 DEF SeenRight, Shape
    <3>2. Drifts(f) => Tightens(f)
      BY <1>0, <2>1, <2>3 DEF SeenRight, Shape
    <3> QED
      BY <2>2, <3>1, <3>2 DEF Drifts, Tightens, Deleted
  <2> QED
    BY <1>0, <2>1, <2>3 DEF Shape, ReadRight, SeenRight
<1>9. CASE EndTurn(h)
  <2>1. /\ hpc[h] = "compare" /\ hpc'[h] = "done" /\ run[h].kind = "stop" /\ said'[h].off = said[h].off
        /\ UNCHANGED <<disk, run, load, stirred>>
    BY <1>0, <1>9 DEF EndTurn, TypeOK
  <2> QED
    BY <1>0, <2>1 DEF Shape, ReadRight, SeenRight
<1> QED
  BY <1>1, <1>2, <1>3, <1>4, <1>5, <1>6, <1>7, <1>8, <1>9 DEF HookStep

-----------------------------------------------------------------------------

\* What is recorded, or about to be, was approved; unless an agent wrote it
\* under a command, or wrote the record.
LEMMA RecordsStep ==
  ASSUME GuardInv, [Next]_vars
  PROVE  RecordsApproved'
<1>0. TypeOK /\ RecordsApproved
  BY DEF GuardInv
<1> USE DEF sharedVars, hookVars, sessionHistory, history, Command, Leaves
<1>1. \A p \in People : job[p].file \in Files
  BY <1>0 DEF TypeOK
<1>2. ASSUME UNCHANGED <<approved, tainted, pc, job>>,
             \A f \in Files : disk'[f].text = disk[f].text /\ disk'[f].rec \in {disk[f].rec, NoFile}
      PROVE  RecordsApproved'
  BY <1>0, <1>1, <1>2 DEF RecordsApproved
<1>3. ASSUME NEW p \in People, UNCHANGED <<disk, tainted>>,
             \A f \in Files : approved[f] \subseteq approved'[f],
             \A q \in People \ {p} : pc'[q] = pc[q] /\ job'[q] = job[q],
             pc'[p] = "record" => job'[p].file \in Files /\ disk[job'[p].file].text \in approved'[job'[p].file]
      PROVE  RecordsApproved'
  BY <1>0, <1>1, <1>3 DEF RecordsApproved
<1>4. ASSUME NEW p \in People, NEW f \in Files, BeginSwitch(p, f) PROVE RecordsApproved'
  BY <1>0, <1>3, <1>4 DEF BeginSwitch, TypeOK
<1>5. ASSUME NEW p \in People, BeginAdopt(p) \/ ReadCurrent(p) \/ Killed(p) PROVE RecordsApproved'
  BY <1>0, <1>3, <1>5 DEF BeginAdopt, ReadCurrent, Killed, TypeOK
<1>6. ASSUME NEW p \in People, BeginSync(p) PROVE RecordsApproved'
  <2>1. /\ pc'[p] = "record" /\ job'[p].file = Repo /\ disk[Repo].text = remote /\ UNCHANGED <<disk, tainted>>
        /\ approved' = [approved EXCEPT ![Repo] = @ \cup {remote}]
        /\ \A q \in People \ {p} : pc'[q] = pc[q] /\ job'[q] = job[q]
    BY <1>0, <1>6 DEF BeginSync, TypeOK
  <2>2. Repo \in Files
    BY DEF Files
  <2>3. remote \in approved'[Repo] /\ \A f \in Files : approved[f] \subseteq approved'[f]
    BY <1>0, <2>1, <2>2 DEF TypeOK
  <2> QED
    BY <1>3, <2>1, <2>2, <2>3
<1>7. ASSUME NEW p \in People, WriteToggles(p) PROVE RecordsApproved'
  <2> DEFINE f == job[p].file
             t == job[p].text
  <2>1. f \in Files /\ t \in Text /\ UNCHANGED <<job, tainted>>
        /\ disk' = [disk EXCEPT ![f].text = t] /\ approved' = [approved EXCEPT ![f] = @ \cup {t}]
        /\ \A q \in People \ {p} : pc'[q] = pc[q]
    BY <1>0, <1>7 DEF WriteToggles, TypeOK
  <2>2. \A g \in Files : disk'[g].text = (IF g = f THEN t ELSE disk[g].text) /\ disk'[g].rec = disk[g].rec
    BY <1>0, <2>1, WritesOneField
  <2>3. t \in approved'[f] /\ \A g \in Files : approved[g] \subseteq approved'[g]
    BY <1>0, <2>1 DEF TypeOK
  <2> HIDE DEF f, t
  <2>4. \A g \in Files \ tainted' : disk'[g].rec \in approved'[g] \cup {NoFile}
    BY <1>0, <2>1, <2>2, <2>3 DEF RecordsApproved
  <2>5. ASSUME NEW q \in People, pc'[q] = "record", job'[q].file \notin tainted'
        PROVE  disk'[job'[q].file].text \in approved'[job'[q].file]
    <3>1. CASE job[q].file = f
      BY <2>1, <2>2, <2>3, <3>1
    <3>2. CASE job[q].file # f
      <4>1. q # p
        BY <3>2 DEF f
      <4> QED
        BY <1>0, <1>1, <2>1, <2>2, <2>3, <2>5, <3>2, <4>1 DEF RecordsApproved
    <3> QED
      BY <3>1, <3>2
  <2> QED
    BY <2>4, <2>5 DEF RecordsApproved
<1>8. ASSUME NEW p \in People, Record(p) PROVE RecordsApproved'
  <2> DEFINE f == job[p].file
  <2>1. f \in Files /\ disk[f].text \in Text \cup {NoFile} /\ pc[p] = "record" /\ UNCHANGED <<approved, tainted>>
        /\ disk' = [disk EXCEPT ![f].rec = disk[f].text]
    BY <1>0, <1>8 DEF Record, TypeOK, State
  <2>2. \A g \in Files : disk'[g].rec = (IF g = f THEN disk[f].text ELSE disk[g].rec) /\ disk'[g].text = disk[g].text
    BY <1>0, <2>1, WritesOneField
  <2>3. \A q \in People : pc'[q] = "record" => pc[q] = "record" /\ job'[q] = job[q]
    BY <1>0, <1>8 DEF Record, TypeOK
  <2>4. f \notin tainted => disk[f].text \in approved[f]
    BY <1>0, <2>1 DEF RecordsApproved
  <2> HIDE DEF f
  <2> QED
    BY <1>0, <1>1, <2>1, <2>2, <2>3, <2>4 DEF RecordsApproved
<1>9. ASSUME NEW p \in People, Show(p) PROVE RecordsApproved'
  <2>1. PICK f \in job[p].todo :
           LET rest == job[p].todo \ {f} IN
           /\ IF rest = {} /\ f \notin job[p].reset /\ ~Drifts(f) THEN Leaves(p)
              ELSE /\ job' = [job EXCEPT ![p].file = f, ![p].todo = rest]
                   /\ pc' = [pc EXCEPT ![p] = IF f \in job[p].reset THEN "write"
                                             ELSE IF Drifts(f) THEN "record" ELSE "show"]
           /\ IF f \in job[p].reset
              THEN /\ disk' = [disk EXCEPT ![f].text = NoFile]
                   /\ approved' = [approved EXCEPT ![f] = @ \cup {NoFile}]
              ELSE /\ approved' = IF Drifts(f) THEN [approved EXCEPT ![f] = @ \cup {disk[f].text}]
                                               ELSE approved
                   /\ UNCHANGED disk
           /\ UNCHANGED tainted
    BY <1>9 DEF Show
  <2>2. f \in Files
    BY <1>0 DEF TypeOK
  <2>3. CASE f \in job[p].reset
    <3>1. /\ disk' = [disk EXCEPT ![f].text = NoFile] /\ approved' = [approved EXCEPT ![f] = @ \cup {NoFile}]
          /\ pc' = [pc EXCEPT ![p] = "write"]
          /\ \A q \in People \ {p} : job'[q] = job[q]
      BY <2>1, <2>3, <1>0 DEF TypeOK
    <3>2. \A g \in Files : disk'[g].text = (IF g = f THEN NoFile ELSE disk[g].text) /\ disk'[g].rec = disk[g].rec
      BY <1>0, <2>2, <3>1, WritesOneField
    <3>3. NoFile \in approved'[f] /\ \A g \in Files : approved[g] \subseteq approved'[g]
      BY <1>0, <2>2, <3>1 DEF TypeOK
    <3>4. \A q \in People : pc'[q] = "record" => pc[q] = "record" /\ job'[q] = job[q]
      BY <1>0, <3>1 DEF TypeOK
    <3> QED
      BY <1>0, <1>1, <2>1, <2>2, <3>2, <3>3, <3>4 DEF RecordsApproved
  <2>4. CASE f \notin job[p].reset
    <3>1. /\ UNCHANGED <<disk, tainted>> /\ \A g \in Files : approved[g] \subseteq approved'[g]
          /\ Drifts(f) => disk[f].text \in approved'[f]
      BY <1>0, <2>1, <2>2, <2>4 DEF TypeOK
    <3>2. /\ \A q \in People \ {p} : pc'[q] = pc[q] /\ job'[q] = job[q]
          /\ pc'[p] = "record" => job'[p].file = f /\ Drifts(f)
      BY <1>0, <2>1, <2>4 DEF TypeOK
    <3> QED
      BY <1>3, <2>2, <3>1, <3>2
  <2> QED
    BY <2>3, <2>4
<1>10. ASSUME NEW f \in Files, Edit(f) PROVE RecordsApproved'
  <2>1. PICK t \in Text \cup {NoFile} : disk' = [disk EXCEPT ![f].text = t]
    BY <1>10 DEF Edit
  <2>2. \A g \in Files : disk'[g].text = (IF g = f THEN t ELSE disk[g].text) /\ disk'[g].rec = disk[g].rec
    BY <1>0, <2>1, WritesOneField
  <2>3. UNCHANGED <<approved, pc, job>> /\ tainted' = IF AtWork(f) THEN tainted \cup {f} ELSE tainted
    BY <1>10 DEF Edit, Changed
  <2>4. \A q \in People : pc[q] = "record" /\ job[q].file = f => f \in tainted'
    BY <2>3 DEF AtWork
  <2> QED
    BY <1>0, <1>1, <2>2, <2>3, <2>4 DEF RecordsApproved
<1>11. ASSUME NEW f \in Files, Forge(f) PROVE RecordsApproved'
  <2>1. UNCHANGED <<approved, pc, job>> /\ tainted' = tainted \cup {f}
    BY <1>11 DEF Forge, Changed
  <2>2. disk[f].text \in Text \cup {NoFile}
    BY <1>0 DEF TypeOK, State
  <2>3. \A g \in Files : disk'[g].text = disk[g].text /\ (g # f => disk'[g].rec = disk[g].rec)
    BY <1>0, <1>11, <2>2, WritesOneField DEF Forge
  <2> QED
    BY <1>0, <1>1, <2>1, <2>3 DEF RecordsApproved
<1>12. CASE Pull
  <2>1. UNCHANGED <<approved, pc, job>> /\ tainted' = (IF AtWork(Repo) THEN tainted \cup {Repo} ELSE tainted)
        /\ disk' = [disk EXCEPT ![Repo].text = remote] /\ remote \in Text \cup {NoFile} /\ Repo \in Files
    BY <1>0, <1>12 DEF Pull, Changed, TypeOK, Files
  <2>2. \A g \in Files : disk'[g].text = (IF g = Repo THEN remote ELSE disk[g].text) /\ disk'[g].rec = disk[g].rec
    BY <1>0, <2>1, WritesOneField
  <2>3. \A q \in People : pc[q] = "record" /\ job[q].file = Repo => Repo \in tainted'
    BY <2>1 DEF AtWork
  <2> QED
    BY <1>0, <1>1, <2>1, <2>2, <2>3 DEF RecordsApproved
<1>13. CASE Commit \/ Review
  <2>1. UNCHANGED <<disk, approved, pc, job>> /\ tainted \subseteq tainted'
    BY <1>13 DEF Commit, Review, Changed
  <2> QED
    BY <1>0, <1>1, <2>1 DEF RecordsApproved
<1>14. ASSUME NEW h \in Hooks, HookStep(h) PROVE RecordsApproved'
  <2>1. CASE TidyRecords(h)
    <3>1. \A f \in Files : disk'[f].text = disk[f].text /\ disk'[f].rec \in {disk[f].rec, NoFile}
      BY <1>0, <2>1 DEF TidyRecords, TypeOK, State
    <3> QED
      BY <1>2, <2>1, <3>1 DEF TidyRecords
  <2>2. CASE ~TidyRecords(h)
    <3>1. UNCHANGED <<disk, approved, tainted, pc, job>>
      BY <1>14, <2>2 DEF HookStep, BeginHook, ExitHook, FindSource, ReadToggles, Bind, Compare,
                         LookAtTurnEnd, EndTurn
    <3> QED
      BY <1>2, <3>1
  <2> QED
    BY <2>1, <2>2
<1>15. CASE (\E s \in Sessions : Prune(s)) \/ UNCHANGED vars
  BY <1>2, <1>15 DEF Prune, vars
<1>16. ASSUME NEW p \in People, PersonStep(p) PROVE RecordsApproved'
  BY <1>4, <1>5, <1>6, <1>7, <1>8, <1>9, <1>16 DEF PersonStep
<1>17. CASE AgentStep
  BY <1>10, <1>11, <1>12, <1>13, <1>17 DEF AgentStep
<1> QED
  BY <1>14, <1>15, <1>16, <1>17 DEF Next

-----------------------------------------------------------------------------

\* Only a bind, and the pruning of a session start, move a session.
LEMMA SessionsAreMovedBy ==
  ASSUME [Next]_vars, ~\E h \in Hooks : Bind(h), ~\E s \in Sessions : Prune(s)
  PROVE  UNCHANGED <<bound, begun, unkept>>
<1> USE DEF sharedVars, hookVars, sessionHistory, history
<1>1. ASSUME NEW p \in People, PersonStep(p) PROVE UNCHANGED <<bound, begun, unkept>>
  BY <1>1 DEF PersonStep, BeginAdopt, BeginSync, ReadCurrent, WriteToggles, Record, Show, Killed, BeginSwitch
<1>2. CASE AgentStep
  BY <1>2 DEF AgentStep, Commit, Pull, Review, Edit, Forge, Changed
<1>3. ASSUME NEW h \in Hooks, HookStep(h) PROVE UNCHANGED <<bound, begun, unkept>>
  BY <1>3 DEF HookStep, BeginHook, ExitHook, FindSource, ReadToggles, Compare, LookAtTurnEnd, TidyRecords,
              EndTurn
<1> QED
  BY <1>1, <1>2, <1>3 DEF Next, vars

LEMMA BindingsStep ==
  ASSUME GuardInv, [Next]_vars, NEW s \in Sessions
  PROVE  BoundAsBegun(s)'
<1>0. TypeOK /\ BoundAsBegun(s)
  BY DEF GuardInv
<1>1. ASSUME NEW h \in Hooks, Bind(h) PROVE BoundAsBegun(s)'
  <2> DEFINE at == [kept |-> TRUE, at |-> disk]
             r == run[h].session
  <2>1. r \in Sessions
    BY <1>1 DEF Bind, Hook, GuardInv, Shape
  <2>2. CASE s # r
    <3>1. bound'[s] = bound[s] /\ begun'[s] = begun[s] /\ (s \notin unkept' => s \notin unkept)
      BY <1>0, <1>1, <2>1, <2>2 DEF Bind, Began, TypeOK
    <3> QED
      BY <1>0, <3>1 DEF BoundAsBegun
  <2>3. CASE s = r
    <3>1. begun'[s] = IF run[h].kind = "start" \/ ~begun[s].kept THEN at ELSE begun[s]
      BY <1>0, <1>1, <2>1, <2>3 DEF Bind, Began, TypeOK
    <3>2. /\ s \notin unkept' => s \notin unkept
          /\ s \notin unkept' => bound'[s] = IF Binds(h) THEN at ELSE bound[s]
      BY <1>0, <1>1, <2>1, <2>3 DEF Bind, TypeOK
    <3>3. Binds(h) <=> run[h].kind = "start" \/ (s # Unnamed /\ ~bound[s].kept)
      BY <2>3 DEF Binds
    <3>4. at.kept = TRUE /\ at.at = disk
      OBVIOUS
    <3>5. CASE run[h].kind = "start"
      BY <3>1, <3>2, <3>3, <3>4, <3>5 DEF BoundAsBegun
    <3>6. CASE run[h].kind # "start"
      BY <1>0, <3>1, <3>2, <3>3, <3>4, <3>6 DEF BoundAsBegun
    <3> QED
      BY <3>5, <3>6
  <2> QED
    BY <2>2, <2>3
<1>2. ASSUME NEW r \in Sessions, Prune(r) PROVE BoundAsBegun(s)'
  <2>1. /\ bound' = [bound EXCEPT ![r] = [kept |-> FALSE, at |-> Unseen]] /\ unkept' = unkept \cup {r}
        /\ UNCHANGED begun
    BY <1>2 DEF Prune
  <2> QED
    BY <1>0, <2>1 DEF BoundAsBegun, TypeOK
<1>3. CASE UNCHANGED <<bound, begun, unkept>>
  BY <1>0, <1>3 DEF BoundAsBegun
<1> QED
  BY <1>1, <1>2, <1>3, SessionsAreMovedBy

\* A vouched repository's file whose record is gone took no off with it that
\* the user's file brings back by itself.
LEMMA GoneStep ==
  ASSUME GuardInv, [Next]_vars, NEW s \in Sessions
  PROVE  GoneIsTight(s)'
<1>0. TypeOK /\ GoneIsTight(s) /\ BoundAsBegun(s) /\ RecordsApproved /\ {Repo, User} \subseteq Files /\ Repo # User
  BY DEF GuardInv, Files, Repo, User
<1> USE DEF sharedVars, hookVars, sessionHistory, history
<1>1. ASSUME disk'[Repo].rec = disk[Repo].rec, disk'[User].rec = disk[User].rec,
             UNCHANGED <<begun, rewritten>>, tainted \subseteq tainted', lost \subseteq lost',
             approved[Repo] \subseteq approved'[Repo]
      PROVE  GoneIsTight(s)'
  BY <1>0, <1>1 DEF GoneIsTight, BeganVouched
<1>2. ASSUME NEW p \in People, PersonStep(p), ~Record(p) PROVE GoneIsTight(s)'
  <2>1. CASE BeginAdopt(p) \/ ReadCurrent(p) \/ Killed(p) \/ \E f \in Files : BeginSwitch(p, f)
    BY <1>1, <2>1 DEF BeginAdopt, ReadCurrent, Killed, BeginSwitch
  <2>2. CASE BeginSync(p)
    BY <1>0, <1>1, <2>2 DEF BeginSync, TypeOK
  <2>3. CASE WriteToggles(p)
    <3>1. job[p].file \in Files /\ job[p].text \in Text
      BY <1>0 DEF TypeOK
    <3>2. \A g \in Files : disk'[g].rec = disk[g].rec /\ approved[g] \subseteq approved'[g]
      BY <1>0, <2>3, <3>1, WritesOneField DEF WriteToggles, TypeOK
    <3> QED
      BY <1>0, <1>1, <2>3, <3>2 DEF WriteToggles
  <2>4. CASE Show(p)
    <3>1. PICK f \in job[p].todo :
             /\ disk' = [disk EXCEPT ![f].text = NoFile] \/ UNCHANGED disk
             /\ approved' = approved \/ \E t : approved' = [approved EXCEPT ![f] = @ \cup {t}]
             /\ UNCHANGED <<tainted, lost, begun, rewritten>>
      BY <2>4 DEF Show
    <3>2. f \in Files
      BY <1>0 DEF TypeOK
    <3>3. \A g \in Files : disk'[g].rec = disk[g].rec
      <4>1. [disk EXCEPT ![f].text = NoFile] = disk' \/ disk' = disk
        BY <3>1
      <4>2. \A g \in Files : [disk EXCEPT ![f].text = NoFile][g].rec = disk[g].rec
        BY <1>0, <3>2, WritesOneField
      <4> QED
        BY <4>1, <4>2
    <3>4. \A g \in Files : approved[g] \subseteq approved'[g]
      BY <1>0, <3>1, <3>2 DEF TypeOK
    <3> QED
      BY <1>0, <1>1, <3>1, <3>3, <3>4
  <2> QED
    BY <1>2, <2>1, <2>2, <2>3, <2>4 DEF PersonStep
<1>3. ASSUME NEW p \in People, Record(p) PROVE GoneIsTight(s)'
  <2> DEFINE f == job[p].file
  <2>1. /\ f \in Files /\ disk[f].text \in Text \cup {NoFile} /\ pc[p] = "record"
        /\ disk' = [disk EXCEPT ![f].rec = disk[f].text] /\ UNCHANGED <<begun, tainted, lost, approved>>
        /\ rewritten' = IF f = User THEN {r \in Sessions : begun[r].kept} ELSE rewritten
    BY <1>0, <1>3 DEF Record, TypeOK, State
  <2>2. \A g \in Files : disk'[g].rec = (IF g = f THEN disk[f].text ELSE disk[g].rec)
    BY <1>0, <2>1, WritesOneField
  <2>3. tainted = {} => disk[f].text \in approved[f]
    BY <1>0, <2>1 DEF RecordsApproved
  <2>4. BeganVouched(s) => begun[s].kept
    BY <1>0 DEF BeganVouched, BoundAsBegun, Unseen
  <2> HIDE DEF f
  <2>5. CASE f = Repo
    BY <1>0, <2>1, <2>2, <2>3, <2>5 DEF GoneIsTight, BeganVouched
  <2>6. CASE f = User
    BY <2>1, <2>4, <2>6 DEF GoneIsTight, BeganVouched
  <2> QED
    BY <2>1, <2>5, <2>6 DEF Files
<1>4. CASE AgentStep
  <2>1. ASSUME NEW f \in Files, Forge(f) PROVE GoneIsTight(s)'
    BY <2>1 DEF Forge, Changed, GoneIsTight
  <2>2. ASSUME NEW f \in Files, Edit(f) PROVE GoneIsTight(s)'
    <3>1. PICK t \in Text \cup {NoFile} : disk' = [disk EXCEPT ![f].text = t]
      BY <2>2 DEF Edit
    <3>2. \A g \in Files : disk'[g].rec = disk[g].rec
      BY <1>0, <3>1, WritesOneField
    <3> QED
      BY <1>0, <1>1, <2>2, <3>2 DEF Edit, Changed
  <2>3. CASE Pull
    <3>1. remote \in Text \cup {NoFile} /\ disk' = [disk EXCEPT ![Repo].text = remote]
      BY <1>0, <2>3 DEF Pull, TypeOK
    <3>2. \A g \in Files : disk'[g].rec = disk[g].rec
      BY <1>0, <3>1, WritesOneField
    <3> QED
      BY <1>0, <1>1, <2>3, <3>2 DEF Pull, Changed
  <2>4. CASE Commit \/ Review
    BY <1>1, <2>4 DEF Commit, Review, Changed
  <2> QED
    BY <1>4, <2>1, <2>2, <2>3, <2>4 DEF AgentStep
<1>5. ASSUME NEW h \in Hooks, TidyRecords(h) PROVE GoneIsTight(s)'
  <2>1. \A f \in Files : disk'[f].rec = IF f \in load[h].offs THEN NoFile ELSE disk[f].rec
    BY <1>0, <1>5 DEF TidyRecords, TypeOK, State
  <2>2. UNCHANGED <<begun, rewritten, tainted, approved>> /\ lost' = IF h \in stirred THEN lost \cup load[h].offs ELSE lost
    BY <1>5 DEF TidyRecords
  <2>3. CASE Repo \notin load[h].offs
    <3>1. Offs(disk'[User].rec) \subseteq Offs(disk[User].rec)
      BY <1>0, <2>1, NoFileIsNoText
    <3> QED
      BY <1>0, <2>1, <2>2, <2>3, <3>1 DEF GoneIsTight, BeganVouched
  <2>4. CASE Repo \in load[h].offs /\ h \in stirred
    BY <2>2, <2>4 DEF GoneIsTight
  <2>5. CASE Repo \in load[h].offs /\ h \notin stirred
    <3>1. load[h].offs = {f \in Files : Tightens(f)}
      BY <1>5, <2>5 DEF TidyRecords, Hook, GuardInv, SeenRight, Shape
    <3>2. ~HandedToUser
      BY <2>5, <3>1 DEF Tightens
    <3>3. disk[User].text = NoFile => disk'[User].rec = NoFile
      <4>1. CASE Drifts(User)
        BY <1>0, <2>1, <3>1, <4>1 DEF Tightens, Deleted
      <4>2. CASE ~Drifts(User)
        BY <1>0, <2>1, <4>2 DEF Drifts
      <4> QED
        BY <4>1, <4>2
    <3>4. disk[User].text # NoFile => disk'[User].rec \in {NoFile, disk[User].text} /\ Offs(disk[User].text) = {}
      BY <1>0, <2>1, <3>2 DEF HandedToUser, Drifts
    <3>5. Offs(disk'[User].rec) = {}
      BY <3>3, <3>4, NoFileIsNoText
    <3> QED
      BY <3>5 DEF GoneIsTight
  <2> QED
    BY <2>3, <2>4, <2>5
<1>6. ASSUME NEW h \in Hooks, Bind(h) PROVE GoneIsTight(s)'
  <2> DEFINE r == run[h].session
  <2>1. UNCHANGED <<disk, tainted, lost, approved>> /\ r \in Sessions
    BY <1>6 DEF Bind, Hook, GuardInv, Shape
  <2>2. \/ UNCHANGED <<begun, rewritten>>
        \/ begun' = [begun EXCEPT ![r] = [kept |-> TRUE, at |-> disk]] /\ rewritten' = rewritten \ {r}
    BY <1>6 DEF Bind, Began
  <2>3. CASE UNCHANGED <<begun, rewritten>>
    BY <1>0, <2>1, <2>3 DEF GoneIsTight, BeganVouched
  <2>4. CASE begun' = [begun EXCEPT ![r] = [kept |-> TRUE, at |-> disk]] /\ rewritten' = rewritten \ {r}
    <3>1. CASE s = r
      <4>1. begun'[s].at = disk
        BY <1>0, <2>1, <2>4, <3>1 DEF TypeOK
      <4> QED
        BY <2>1, <4>1 DEF GoneIsTight, BeganVouched
    <3>2. CASE s # r
      <4>1. begun'[s] = begun[s] /\ (s \in rewritten <=> s \in rewritten')
        BY <1>0, <2>4, <3>2 DEF TypeOK
      <4> QED
        BY <1>0, <2>1, <4>1 DEF GoneIsTight, BeganVouched
    <3> QED
      BY <3>1, <3>2
  <2> QED
    BY <2>2, <2>3, <2>4
<1>7. ASSUME NEW h \in Hooks, HookStep(h), ~TidyRecords(h), ~Bind(h) PROVE GoneIsTight(s)'
  BY <1>1, <1>7 DEF HookStep, BeginHook, ExitHook, FindSource, ReadToggles, Compare, LookAtTurnEnd, EndTurn
<1>8. CASE (\E r \in Sessions : Prune(r)) \/ UNCHANGED vars
  BY <1>1, <1>8 DEF Prune, vars
<1> QED
  BY <1>2, <1>3, <1>4, <1>5, <1>6, <1>7, <1>8 DEF Next, HookStep

LEMMA GuardStep == GuardInv /\ [Next]_vars => GuardInv'
<1> SUFFICES ASSUME GuardInv, [Next]_vars PROVE GuardInv'
  OBVIOUS
<1>1. ASSUME NEW h \in Hooks PROVE Shape(h)' /\ ReadRight(h)' /\ SeenRight(h)'
  <2>1. CASE HookStep(h)
    BY <2>1, OwnStep
  <2>2. CASE ~HookStep(h)
    BY <2>2, OthersStep DEF Next
  <2> QED
    BY <2>1, <2>2
<1> QED
  BY <1>1, TypeStep, RecordsStep, BindingsStep, GoneStep DEF GuardInv

LEMMA GuardAlways == Spec => []GuardInv
BY GuardInit, GuardStep, PTL DEF Spec

-----------------------------------------------------------------------------

\* The files, the bindings, the commands and the hooks keep their type.
THEOREM GuardrailTypes == Spec => []TypeOK
<1>1. GuardInv => TypeOK
  BY DEF GuardInv
<1> QED
  BY <1>1, GuardAlways, PTL

\* No agent switches a guardrail off by itself: a call runs without members
\* only as a person approved in the file that governed it (drift, source).
THEOREM OffIsAPersons == Spec => []OffWasApproved
<1>1. GuardInv => OffWasApproved
  <2> SUFFICES ASSUME GuardInv, NEW h \in Hooks, Loosened(h), load[h].file \notin tainted
               PROVE  \E t \in approved[load[h].file] : said[h].off \subseteq Offs(t)
    BY DEF OffWasApproved
  <2> DEFINE f == load[h].file
  <2>1. said[h].off # {} /\ said[h].off \subseteq load[h].offs /\ hpc[h] = "done"
    BY DEF GuardInv, Shape, ReadRight, Loosened
  <2>2. f \in Files /\ disk[f].text = disk[f].rec /\ said[h].off \subseteq Offs(disk[f].text)
    BY <2>1 DEF GuardInv, ReadRight, Loosened, Drifts
  <2>3. disk[f].rec # NoFile
    BY <2>1, <2>2, NoFileIsNoText
  <2>4. disk[f].rec \in approved[f]
    BY <2>2, <2>3 DEF GuardInv, RecordsApproved
  <2> QED
    BY <2>2, <2>4
<1> QED
  BY <1>1, GuardAlways, PTL

\* An off is honoured only in the very files the session began with (bind,
\* wrapped), whatever changed and changed back meanwhile.
THEOREM OffIsTheStarts == Spec => OffPredatesSession
<1>1. GuardInv => HonoursTheStart
  <2> SUFFICES ASSUME GuardInv, NEW h \in Hooks, Compare(h), said'[h].off # {}, h \notin stirred,
                      run[h].session \notin unkept
               PROVE  begun[run[h].session].at = disk
    BY DEF HonoursTheStart
  <2> DEFINE s == run[h].session
  <2>1. /\ hpc[h] = "compare" /\ run[h].kind = "call" /\ s \in Sessions
        /\ bound[s].at = disk /\ load[h].offs # {}
    BY DEF GuardInv, TypeOK, Shape, Compare, Hook
  <2>2. load[h].file \in Files /\ Offs(disk[load[h].file].text) # {}
    BY <2>1 DEF GuardInv, ReadRight
  <2>3. disk # Unseen
    BY <2>2, NoFileIsNoText DEF Unseen
  <2>4. bound[s].kept /\ begun[s] = bound[s]
    BY <2>1, <2>3 DEF GuardInv, BoundAsBegun
  <2> QED
    BY <2>1, <2>4
<1> QED
  BY <1>1, GuardAlways, PTL DEF OffPredatesSession

\* A turn that is let end leaves no drift, and no user's file that switches
\* members off where the repository's was taken away (turn_end_drifted).
THEOREM TurnsEndInTheOpen == Spec => TurnEndTells
<1>1. GuardInv => PassesInTheOpen
  <2> SUFFICES ASSUME GuardInv, NEW h \in Hooks, EndTurn(h), said'[h].turn = "passed", h \notin stirred
               PROVE  LET s == run[h].session IN
                      /\ \A f \in Files : disk[f].text = disk[f].rec
                      /\ BeganVouched(s) /\ disk[Repo].text = NoFile
                           /\ s \notin unkept /\ tainted = {} /\ Repo \notin lost
                         => \/ Offs(disk[User].text) = {} \/ NoFile \in approved[Repo]
                            \/ s \in rewritten /\ disk[User] = begun[s].at[User]
    BY DEF PassesInTheOpen
  <2> DEFINE s == run[h].session
  <2>1. /\ hpc[h] = "compare" /\ run[h].kind = "stop" /\ s \in Sessions
        /\ ~\E f \in Files : Late(f, s)
        /\ said[h].turn = "passed"
    BY DEF GuardInv, TypeOK, Shape, EndTurn, Hook
  <2>2. \A f \in Files : disk[f].text = disk[f].rec
    BY <2>1 DEF GuardInv, SeenRight, Drifts
  <2>3. ASSUME BeganVouched(s), disk[Repo].text = NoFile, s \notin unkept, tainted = {}, Repo \notin lost,
               Offs(disk[User].text) # {}, NoFile \notin approved[Repo]
        PROVE  s \in rewritten /\ disk[User] = begun[s].at[User]
    <3>1. Repo \in Files /\ User \in Files
      BY DEF Files
    <3>2. s \in rewritten
      BY <2>1, <2>2, <2>3, <3>1 DEF GuardInv, GoneIsTight
    <3>3. bound[s].at[User] = disk[User]
      BY <2>1, <2>3, <3>1 DEF Late
    <3>4. bound[s].at # Unseen
      BY <2>3, <3>1, <3>3, NoFileIsNoText DEF Unseen
    <3>5. begun[s] = bound[s]
      BY <2>1, <2>3, <3>4 DEF GuardInv, BoundAsBegun
    <3> QED
      BY <3>2, <3>3, <3>5
  <2> QED
    BY <2>2, <2>3
<1> QED
  BY <1>1, GuardAlways, PTL DEF TurnEndTells

=============================================================================
