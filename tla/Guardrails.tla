----------------------------- MODULE Guardrails -----------------------------
(***************************************************************************)
(* Switching members of an installed bundle off: the toggle file of a      *)
(* repository and of the user, the record `chock bundle` keeps of each,    *)
(* HEAD's copy, the reviewed copy on the remote default branch, and the    *)
(* states a session is bound to (guardrails/toggle.py, toggle_state.py,    *)
(* cli.py, reviewed.py, chock_bundle_log.py).  People run commands, an     *)
(* agent edits files, and hooks of several sessions read them, all at the  *)
(* same time and without a lock; a step below is one read or one write.    *)
(***************************************************************************)
EXTENDS Integers, FiniteSets

CONSTANTS
  Members,     \* the members of the bundle
  People,      \* processes that run `chock bundle` and `chock sync`
  Hooks,       \* processes that run the wrapper
  Sessions,    \* session ids a client may send
  Unnamed,     \* the id of a session whose client sends none
  MaxCommands, \* bound: commands people run
  MaxEdits,    \* bound: edits, commits, pulls and reviews
  MaxHooks,    \* bound: hooks run
  Faults       \* crash: a command is killed;  keep: a binding cannot be
               \* written;  prune: old bindings are removed;  forge: an agent
               \* writes a record itself

Repo == "repo"
User == "user"
Files == {Repo, User}

\* The bytes of a toggle file, by what they say: the members they switch off.
NoFile == {"absent"}
Invalid == {"invalid"}
Text == (SUBSET Members) \cup {Invalid}
State == [Files -> [text : Text \cup {NoFile}, rec : Text \cup {NoFile}]]
\* UNSEEN: what a session without a binding holds of every file.
Unseen == [f \in Files |-> [text |-> NoFile, rec |-> NoFile]]

ASSUME MembersAssumption == "absent" \notin Members /\ "invalid" \notin Members
ASSUME SessionsAssumption == Sessions # {}
ASSUME GuardrailsFaults == Faults \subseteq {"crash", "keep", "prune", "forge"}
ASSUME GuardrailsBounds == {MaxCommands, MaxEdits, MaxHooks} \subseteq Nat

VARIABLES
  disk,     \* per toggle file: its text and the digest in its record
  head,     \* HEAD's copy of the repository's file
  remote,   \* the remote default branch's copy
  bound,    \* per session id: the states kept for it, and whether any are
  pc, job,  \* a person's command: where it is, on which file, and its text
  hpc,      \* where a hook is
  run,      \* what it runs: kind and session
  load,     \* the file it found to govern and the offs it read
  said,     \* what it ended with: the offs honoured, the turn's verdict
  left,     \* how many commands, edits and hooks may still come
  approved, \* history: the texts a person wrote, saw or reviewed, per file
  tainted,  \* history: files an agent wrote under a command, or whose record
            \* it wrote
  stirred,  \* history: hooks during which a file or HEAD changed
  begun,    \* history: the states when a session started, and whether it did
  unkept,   \* history: sessions whose binding failed or was pruned
  rewritten,\* history: sessions since whose start a command recorded the user's file
  lost      \* history: files whose record a turn's end dropped after they changed

sharedVars == <<disk, head, remote>>
hookVars == <<hpc, run, load, said>>
sessionHistory == <<begun, unkept, rewritten>>
history == <<approved, tainted, stirred, lost, sessionHistory>>
vars == <<sharedVars, bound, pc, job, hookVars, left, history>>

Offs(text) == IF text \in SUBSET Members THEN text ELSE {}

\* A slip to be noticed: a file without a record is taken as it is.
DriftsIfRecorded(f) == disk[f].rec # NoFile /\ disk[f].text # disk[f].rec

\* drift: no file and no record, or a record of exactly these bytes.
Drifts(f) == disk[f].text # disk[f].rec

NoRun == [kind |-> "none", session |-> Unnamed]
NoLoad == [file |-> "none", offs |-> {}]
Nothing == [off |-> {}, turn |-> "none"]
NoJob == [file |-> Repo, text |-> {}, todo |-> {}, reset |-> {}]

Init ==
  /\ \E repo \in (SUBSET Members) \cup {NoFile}, user \in {NoFile, Members} :
       /\ disk = [f \in Files |-> LET t == IF f = Repo THEN repo ELSE user
                                  IN [text |-> t, rec |-> t]]
       /\ head \in {NoFile, repo} /\ remote = head
       /\ approved = [f \in Files |-> {IF f = Repo THEN repo ELSE user}]
  /\ bound = [s \in Sessions |-> [kept |-> FALSE, at |-> Unseen]]
  /\ pc = [p \in People |-> "idle"]
  /\ job = [p \in People |-> NoJob]
  /\ hpc = [h \in Hooks |-> "idle"]
  /\ run = [h \in Hooks |-> NoRun]
  /\ load = [h \in Hooks |-> NoLoad]
  /\ said = [h \in Hooks |-> Nothing]
  /\ left = [commands |-> MaxCommands, edits |-> MaxEdits, hooks |-> MaxHooks]
  /\ tainted = {} /\ stirred = {} /\ unkept = {} /\ rewritten = {} /\ lost = {}
  /\ begun = bound

-----------------------------------------------------------------------------
(* What a change of the files means to hooks that run and sessions bound. *)

Stir == stirred' = stirred \cup {h \in Hooks : hpc[h] # "idle"}

\* A command is about to read f, or to record it, as it thinks f is.
AtWork(f) == \E p \in People : pc[p] \in {"current", "record"}
                                 /\ job[p].file = f

(* People: `chock bundle on|off`, `status --adopt`, `chock sync`. *)

Command(p, from, to) == pc[p] = from /\ pc' = [pc EXCEPT ![p] = to]
Leaves(p) == pc' = [pc EXCEPT ![p] = "idle"] /\ job' = [job EXCEPT ![p] = NoJob]

\* switch: refused while the file drifts, or is one chock cannot read.
BeginSwitch(p, f) ==
  /\ Command(p, "idle", "current")
  /\ left.commands > 0 /\ left' = [left EXCEPT !.commands = @ - 1]
  /\ ~Drifts(f)
  /\ job' = [job EXCEPT ![p] = [file |-> f, text |-> Invalid, todo |-> {}, reset |-> {}]]
  /\ UNCHANGED <<sharedVars, bound, hookVars, history>>

ReadCurrent(p) ==
  LET f == job[p].file IN
  /\ pc[p] = "current"
  /\ IF disk[f].text = Invalid
     THEN Leaves(p)
     ELSE /\ pc' = [pc EXCEPT ![p] = "write"]
          /\ \E m \in Members, t \in {{}, Members} :
               job' = [job EXCEPT ![p].text = (Offs(disk[f].text) \ {m})
                                                 \cup (t \cap {m})]
  /\ UNCHANGED <<sharedVars, bound, hookVars, left, history>>

WriteToggles(p) ==
  LET f == job[p].file  t == job[p].text IN
  /\ Command(p, "write", "record")
  /\ disk' = [disk EXCEPT ![f].text = t]
  /\ approved' = [approved EXCEPT ![f] = @ \cup {t}]
  /\ Stir
  /\ UNCHANGED <<head, remote, bound, job, hookVars, left, tainted, lost, sessionHistory>>

\* record: the digest of the file as it now is, whoever wrote it last.
Record(p) ==
  LET f == job[p].file IN
  /\ pc[p] = "record"
  /\ IF job[p].todo = {} THEN Leaves(p)
     ELSE pc' = [pc EXCEPT ![p] = "show"] /\ UNCHANGED job
  /\ disk' = [disk EXCEPT ![f].rec = disk[f].text]
  /\ rewritten' = IF f = User THEN {s \in Sessions : begun[s].kept} ELSE rewritten
  /\ Stir
  /\ UNCHANGED <<head, remote, bound, hookVars, left, approved, tainted, lost, begun, unkept>>

\* adopt: every file in scope, shown and then recorded; an invalid one is
\* rewritten all on if --reset was given, and otherwise stops the command.
BeginAdopt(p) ==
  /\ Command(p, "idle", "show")
  /\ left.commands > 0 /\ left' = [left EXCEPT !.commands = @ - 1]
  /\ job' = [job EXCEPT ![p] =
       [file |-> Repo, text |-> {}, todo |-> Files,
        reset |-> {f \in Files : disk[f].text = Invalid}]]
  /\ UNCHANGED <<sharedVars, bound, hookVars, history>>

Show(p) ==
  \E f \in job[p].todo :
    LET rest == job[p].todo \ {f} IN
    /\ pc[p] = "show" /\ (f = Repo \/ Repo \notin job[p].todo)
    /\ IF rest = {} /\ f \notin job[p].reset /\ ~Drifts(f) THEN Leaves(p)
       ELSE /\ job' = [job EXCEPT ![p].file = f, ![p].todo = rest]
            /\ pc' = [pc EXCEPT ![p] = IF f \in job[p].reset THEN "write"
                                      ELSE IF Drifts(f) THEN "record" ELSE "show"]
    /\ IF f \in job[p].reset
       THEN /\ disk' = [disk EXCEPT ![f].text = NoFile]
            /\ approved' = [approved EXCEPT ![f] = @ \cup {NoFile}]
            /\ Stir
       ELSE /\ approved' = IF Drifts(f) THEN [approved EXCEPT ![f] = @ \cup {disk[f].text}]
                                        ELSE approved
            /\ UNCHANGED <<disk, stirred>>
    /\ UNCHANGED <<head, remote, bound, hookVars, left, tainted, lost, sessionHistory>>

\* record_reviewed: the repository's file, when it is the reviewed one.
BeginSync(p) ==
  /\ Command(p, "idle", "record")
  /\ left.commands > 0 /\ left' = [left EXCEPT !.commands = @ - 1]
  /\ Drifts(Repo) /\ disk[Repo].text # NoFile /\ disk[Repo].text = remote
  /\ job' = [job EXCEPT ![p] = [file |-> Repo, text |-> remote, todo |-> {}, reset |-> {}]]
  /\ approved' = [approved EXCEPT ![Repo] = @ \cup {remote}]
  /\ UNCHANGED <<sharedVars, bound, hookVars, tainted, stirred, lost, sessionHistory>>

Killed(p) ==
  /\ "crash" \in Faults
  /\ pc[p] # "idle" /\ Leaves(p)
  /\ UNCHANGED <<sharedVars, bound, hookVars, left, history>>

-----------------------------------------------------------------------------
(* What an agent, or git, does to the files. *)

Changed(f, byHand) ==
  /\ left.edits > 0 /\ left' = [left EXCEPT !.edits = @ - 1]
  /\ tainted' = IF AtWork(f) \/ byHand THEN tainted \cup {f} ELSE tainted
  /\ Stir
  /\ UNCHANGED <<bound, pc, job, hookVars, approved, lost, sessionHistory>>

Edit(f) ==
  /\ \E t \in (Text \cup {NoFile}) \ {disk[f].text} : disk' = [disk EXCEPT ![f].text = t]
  /\ Changed(f, FALSE) /\ UNCHANGED <<head, remote>>

Forge(f) ==
  /\ "forge" \in Faults
  /\ Drifts(f) /\ disk' = [disk EXCEPT ![f].rec = disk[f].text]
  /\ Changed(f, TRUE) /\ UNCHANGED <<head, remote>>

Commit ==
  /\ head # disk[Repo].text /\ head' = disk[Repo].text
  /\ UNCHANGED <<disk, remote>> /\ Changed(Repo, FALSE)

Pull ==
  /\ head' = remote /\ disk' = [disk EXCEPT ![Repo].text = remote]
  /\ Changed(Repo, FALSE) /\ UNCHANGED remote

\* A person reviews what HEAD holds and merges it.
Review ==
  /\ left.edits > 0 /\ left' = [left EXCEPT !.edits = @ - 1]
  /\ remote # head /\ remote' = head
  /\ UNCHANGED <<disk, head, bound, pc, job, hookVars, history>>

-----------------------------------------------------------------------------
(* Hooks: a session start or a compaction, a call, the end of a turn. *)

FirstStage(kind) == CASE kind \in {"start", "compact"} -> "bind"
                      [] kind = "call" -> "source"
                      [] kind = "stop" -> "turn"

BeginHook(h) ==
  /\ hpc[h] = "idle"
  /\ left.hooks > 0 /\ left' = [left EXCEPT !.hooks = @ - 1]
  /\ \E k \in {"start", "compact", "call", "stop"}, s \in Sessions :
       /\ run' = [run EXCEPT ![h] = [kind |-> k, session |-> s]]
       /\ hpc' = [hpc EXCEPT ![h] = FirstStage(k)]
  /\ UNCHANGED <<sharedVars, bound, pc, job, load, said, history>>

\* A hook is a process of its own: nothing of it is left when it exits.
ExitHook(h) ==
  /\ hpc[h] = "done" /\ hpc' = [hpc EXCEPT ![h] = "idle"]
  /\ run' = [run EXCEPT ![h] = NoRun]
  /\ load' = [load EXCEPT ![h] = NoLoad]
  /\ said' = [said EXCEPT ![h] = Nothing]
  /\ stirred' = stirred \ {h}
  /\ UNCHANGED <<sharedVars, bound, pc, job, left, approved, tainted, lost, sessionHistory>>

Hook(h, from, to) == hpc[h] = from /\ hpc' = [hpc EXCEPT ![h] = to]

\* source: the repository's file when there is one, else the user's.
Governing == IF disk[Repo].text # NoFile THEN Repo
             ELSE IF disk[User].text # NoFile THEN User ELSE "none"

FindSource(h) ==
  /\ Hook(h, "source", IF Governing # "none" /\ ~Drifts(Governing)
                       THEN "read" ELSE "bind")
  /\ load' = [load EXCEPT ![h].file = Governing]
  /\ UNCHANGED <<sharedVars, bound, pc, job, run, said, left, history>>

\* vouched: in a repository an off counts only if HEAD's copy has it too.
ReadToggles(h) ==
  LET f == load[h].file IN
  /\ Hook(h, "read", "bind")
  /\ load' = [load EXCEPT ![h].offs = IF f = Repo
                THEN Offs(disk[f].text) \cap Offs(head) ELSE Offs(disk[f].text)]
  /\ UNCHANGED <<sharedVars, bound, pc, job, run, said, left, history>>

\* A slip to be noticed: every hook binds its session to what it sees.
BindsAlways(h) == run[h].session # Unnamed

\* bind: anew at a session start; else only where a named session has none.
Binds(h) == LET s == run[h].session IN
  run[h].kind = "start" \/ (s # Unnamed /\ ~bound[s].kept)

AfterBind(h) == IF run[h].kind \in {"start", "compact"} THEN "done" ELSE "compare"

\* History: a session begins at its start or, without one, at its first hook.
Began(h) ==
  LET s == run[h].session IN
  IF run[h].kind = "start" \/ ~begun[s].kept
  THEN begun' = [begun EXCEPT ![s] = [kept |-> TRUE, at |-> disk]] /\ rewritten' = rewritten \ {s}
  ELSE UNCHANGED <<begun, rewritten>>

\* keep never raises: where it fails, what was bound before stays.
Bind(h) ==
  LET s == run[h].session IN
  /\ Hook(h, "bind", AfterBind(h))
  /\ \/ /\ Binds(h)
        /\ bound' = [bound EXCEPT ![s] = [kept |-> TRUE, at |-> disk]]
        /\ UNCHANGED unkept
     \/ ~Binds(h) /\ UNCHANGED <<bound, unkept>>
     \/ "keep" \in Faults /\ Binds(h) /\ unkept' = unkept \cup {s} /\ UNCHANGED bound
  /\ Began(h)
  /\ UNCHANGED <<sharedVars, pc, job, run, load, said, left, approved, tainted, stirred, lost>>

\* A session start prunes the bindings not written for a week.
Prune(s) ==
  /\ "prune" \in Faults
  /\ bound[s].kept /\ bound' = [bound EXCEPT ![s] = [kept |-> FALSE, at |-> Unseen]]
  /\ unkept' = unkept \cup {s}
  /\ UNCHANGED <<sharedVars, pc, job, hookVars, left, approved, tainted, stirred, lost, begun, rewritten>>

\* wrapped: any file in scope that is not as bound switches everything on.
Compare(h) ==
  /\ run[h].kind = "call" /\ Hook(h, "compare", "done")
  /\ said' = [said EXCEPT ![h].off = IF bound[run[h].session].at = disk
                                     THEN load[h].offs ELSE {}]
  /\ UNCHANGED <<sharedVars, bound, pc, job, run, load, left, history>>

\* handed_to_user: the user file that would govern is unvouched or loosens.
HandedToUser == disk[User].text # NoFile /\ (Drifts(User) \/ Offs(disk[User].text) # {})

Deleted(f) == disk[f].text = NoFile /\ Drifts(f)

\* A slip to be noticed: a user's file that takes over is not looked at.
TightensIfDeleted(f) == Deleted(f)

Tightens(f) == Deleted(f) /\ ~(f = Repo /\ HandedToUser)

\* turn_end_drifted: a drift that loosens refuses; a deletion that tightens
\* has its record dropped.
LookAtTurnEnd(h) ==
  LET lines == {f \in Files : Drifts(f) /\ ~Tightens(f)} IN
  /\ Hook(h, "turn", IF \E f \in Files : Tightens(f) THEN "tidy" ELSE "bind")
  /\ said' = [said EXCEPT ![h].turn = IF lines = {} THEN "passed" ELSE "refused"]
  /\ load' = [load EXCEPT ![h].offs = {f \in Files : Tightens(f)}]
  /\ UNCHANGED <<sharedVars, bound, pc, job, run, left, history>>

TidyRecords(h) ==
  /\ Hook(h, "tidy", "bind")
  /\ disk' = [f \in Files |-> IF f \in load[h].offs THEN [disk[f] EXCEPT !.rec = NoFile]
                              ELSE disk[f]]
  /\ stirred' = IF disk' = disk THEN stirred
                ELSE stirred \cup {k \in Hooks \ {h} : hpc[k] # "idle"}
  /\ lost' = IF h \in stirred THEN lost \cup load[h].offs ELSE lost
  /\ UNCHANGED <<head, remote, bound, pc, job, run, load, said, left, approved, tainted, sessionHistory>>

\* A file that changed since the session was bound and switches members off.
Late(f, s) == bound[s].at[f] # disk[f] /\ Offs(disk[f].text) # {}

EndTurn(h) ==
  /\ run[h].kind = "stop" /\ Hook(h, "compare", "done")
  /\ said' = [said EXCEPT ![h].turn =
       IF \E f \in Files : Late(f, run[h].session) THEN "refused" ELSE @]
  /\ UNCHANGED <<sharedVars, bound, pc, job, run, load, left, history>>

PersonStep(p) ==
  \/ BeginAdopt(p) \/ BeginSync(p) \/ ReadCurrent(p) \/ WriteToggles(p)
  \/ Record(p) \/ Show(p) \/ Killed(p) \/ \E f \in Files : BeginSwitch(p, f)

AgentStep == Commit \/ Pull \/ Review \/ \E f \in Files : Edit(f) \/ Forge(f)

HookStep(h) ==
  \/ BeginHook(h) \/ FindSource(h) \/ ReadToggles(h) \/ Bind(h) \/ Compare(h)
  \/ LookAtTurnEnd(h) \/ TidyRecords(h) \/ EndTurn(h) \/ ExitHook(h)

Next ==
  \/ \E p \in People : PersonStep(p)
  \/ AgentStep
  \/ \E h \in Hooks : HookStep(h)
  \/ \E s \in Sessions : Prune(s)

Spec == Init /\ [][Next]_vars

-----------------------------------------------------------------------------

TypeOK ==
  /\ disk \in State /\ {head, remote} \subseteq Text \cup {NoFile}
  /\ bound \in [Sessions -> [kept : BOOLEAN, at : State]]
  /\ pc \in [People -> {"idle", "current", "write", "record", "show"}]
  /\ job \in [People -> [file : Files, text : Text, todo : SUBSET Files, reset : SUBSET Files]]
  /\ hpc \in [Hooks -> {"idle", "source", "read", "bind", "compare", "turn", "tidy", "done"}]
  /\ run \in [Hooks -> [kind : {"none", "start", "compact", "call", "stop"},
                        session : Sessions \cup {Unnamed}]]
  /\ load \in [Hooks -> [file : Files \cup {"none"}, offs : SUBSET (Members \cup Files)]]
  /\ said \in [Hooks -> [off : SUBSET Members, turn : {"none", "passed", "refused"}]]
  /\ approved \in [Files -> SUBSET (Text \cup {NoFile})]
  /\ begun \in [Sessions -> [kept : BOOLEAN, at : State]]
  /\ tainted \subseteq Files /\ stirred \subseteq Hooks /\ unkept \subseteq Sessions
  /\ rewritten \subseteq Sessions /\ lost \subseteq Files

\* A call that no change overlapped and that ran without members.
Loosened(h) == run[h].kind = "call" /\ said[h].off # {} /\ h \notin stirred

\* No agent switches a guardrail off: what a call ran without, a person
\* switched off, adopted or reviewed in the very file that governed it
\* (unless the agent wrote the record, or the file under a running command).
OffWasApproved ==
  \A h \in Hooks : Loosened(h) =>
    \/ load[h].file \in tainted
    \/ \E t \in approved[load[h].file] : said[h].off \subseteq Offs(t)

HonoursTheStart ==
  \A h \in Hooks : Compare(h) /\ said'[h].off # {} /\ h \notin stirred
      /\ run[h].session \notin unkept => begun[run[h].session].at = disk

\* An off is honoured only in the files' state at the session's start
\* (module doc), while the session's binding could be kept.
OffPredatesSession == [][HonoursTheStart]_vars

\* What the session began with: a repository's file a person vouched for.
BeganVouched(s) == LET was == begun[s].at[Repo] IN was.text = was.rec /\ was.text # NoFile

PassesInTheOpen ==
  \A h \in Hooks : EndTurn(h) /\ said'[h].turn = "passed" /\ h \notin stirred =>
    LET s == run[h].session IN
    /\ \A f \in Files : disk[f].text = disk[f].rec
    /\ BeganVouched(s) /\ disk[Repo].text = NoFile
         /\ s \notin unkept /\ tainted = {} /\ Repo \notin lost
       => \/ Offs(disk[User].text) = {} \/ NoFile \in approved[Repo]
          \/ s \in rewritten /\ disk[User] = begun[s].at[User]

\* A turn that ends without a refusal leaves nothing loosened behind: no file
\* drifts, and where the repository's file is gone since the session's start,
\* no user's file switches members off in its place, unless a person had a hand
\* in either: let the one go, or put the other back to what it was then.
TurnEndTells == [][PassesInTheOpen]_vars

=============================================================================
