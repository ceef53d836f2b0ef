---------------------------- MODULE StopReentry ----------------------------
(***************************************************************************)
(* The turn's end judged again (gate/stop_reentry.py).  A client re-enters *)
(* its Stop hooks while one of them refuses.  Each policy's hook is a      *)
(* process of its own; all share the session's ledger, from which a hook   *)
(* counts how often this turn was refused already, and up to the cap it    *)
(* refuses again.  A hook reads the whole ledger, then looks at the file's *)
(* size, then adds its record: to the file's end, or, once the ledger is   *)
(* full or the file is large, by replacing the file with the lines it had  *)
(* read and its own.  There is no lock.                                    *)
(***************************************************************************)
EXTENDS Integers, Sequences, FiniteSets, FiniteSetsExt

CONSTANTS
  Policies,    \* the policies whose Stop hooks run
  Others,      \* other policies of the session, whose decisions are not followed
  Cap,         \* REENTRY_CAP
  MaxEntries,  \* SESSION_MAX_ENTRIES, the lines a ledger keeps
  Clients,     \* the clients considered: whether one sends a loop_count (or
               \* only a flag), and whether it sends the turn's id
  Earlier,     \* the ledgers that earlier turns may have left, by client
  MaxTurns,    \* bound: turns of a session after those
  Faults       \* unwritable: a record may not land

ASSUME ClientAssumption == Clients \subseteq [counts : BOOLEAN, turnIds : BOOLEAN]
ASSUME OthersAssumption == Policies \cap Others = {}
ASSUME BoundsAssumption ==
  /\ Cap \in Nat \ {0} /\ MaxTurns \in Nat /\ MaxEntries \in Nat \ {0}
\* An earlier turn has an id that no turn of these has.  `made` is no field of the
\* code's records: it is the turn a line was written in, which no hook knows.
NoTurn == 0
Line == [policy : Policies \cup Others, turn : Nat, reentry : Nat, anchor : BOOLEAN,
         made : Nat]
ASSUME EarlierAssumption ==
  \A c \in Clients : \A lines \in Earlier[c] :
    /\ lines \in Seq(Line)
    /\ \A i \in DOMAIN lines : lines[i].turn = NoTurn /\ lines[i].made = NoTurn
ASSUME FaultsAssumption == Faults \subseteq {"unwritable"}

VARIABLES
  client,    \* the client of this session
  turn,      \* the number of the session's turn
  stop,      \* what the client says of this stop: the re-entries so far, or 1
             \* for any, where it sends a flag; Idle between turns
  pc,        \* where each policy's hook is
  found,     \* whether its gate refuses this stop for a finding
  seen,      \* the ledger's lines as it read them
  ledger,    \* the session's ledger
  heavy,     \* whether its file has reached SESSION_TRIM_BYTES
  decision,  \* what it decided
  why,       \* why a warning let the turn end
  entered,   \* history: the re-entries of this turn, no higher than Cap + 2
  dropped,   \* history: whether a line that this turn is counted from was left out
             \* of the ledger by somebody (never, for a client that counts itself)
  refusals,  \* history: the refusals of each policy in this turn, until `dropped`
  lost       \* history: the policies that left no record at some stop of this turn,
             \* until `dropped`

reentryVars == <<client, turn, stop, pc, found, seen, ledger, heavy, decision, why,
                 entered, dropped, refusals, lost>>

Idle == -1
ReentryStage ==
  {"waiting", "read", "weigh", "write", "stale", "rewrite", "decided"}
Decision == {"none", "allow", "deny", "warn"}

TurnId == IF client.turnIds THEN turn ELSE NoTurn

Record(p, index, anchor) ==
  [policy |-> p, turn |-> TurnId, reentry |-> index, anchor |-> anchor, made |-> turn]

ReentryInit ==
  /\ client \in Clients
  /\ turn = 0 /\ stop = Idle
  /\ pc = [p \in Policies |-> "waiting"]
  /\ found = [p \in Policies |-> FALSE]
  /\ seen = [p \in Policies |-> <<>>]
  /\ ledger \in Earlier[client]
  /\ heavy \in BOOLEAN /\ (ledger = <<>> => ~heavy)
  /\ decision = [p \in Policies |-> "none"]
  /\ why = [p \in Policies |-> "none"]
  /\ entered = 0 /\ dropped = FALSE
  /\ refusals = [p \in Policies |-> 0]
  /\ lost = {}

-----------------------------------------------------------------------------
(***************************************************************************)
(* Counting from the ledger.                                               *)
(***************************************************************************)

\* This policy's records of this turn (of every turn, without turn ids).
Mine(p, lines) ==
  {i \in DOMAIN lines : lines[i].policy = p /\ (client.turnIds => lines[i].turn = turn)}

Newest(p, lines) == lines[Max(Mine(p, lines))]

Begins(r) == r.reentry = 0 \/ r.anchor

\* _stop_chain: the newest records count back without a gap to where they begin.
Chained(p, lines) ==
  \E a \in Mine(p, lines) :
    /\ Begins(lines[a])
    /\ \A i, j \in Mine(p, lines) :
         (a <= i /\ i < j /\ \A k \in Mine(p, lines) : k <= i \/ j <= k)
           => lines[j].reentry = lines[i].reentry + 1

Signalled == IF client.counts THEN stop ELSE IF stop > 0 THEN 1 ELSE 0

\* A slip to be noticed: a re-entry is given the index of the one before it.
IndexRepeated(p) ==
  IF Signalled = 0 THEN 0
  ELSE IF client.counts THEN Signalled
  ELSE IF Chained(p, seen[p]) THEN Newest(p, seen[p]).reentry ELSE 1

\* A client that counts is believed over the ledger.
Index(p) ==
  IF Signalled = 0 THEN 0
  ELSE IF client.counts THEN Signalled
  ELSE IF Chained(p, seen[p]) THEN Newest(p, seen[p]).reentry + 1 ELSE 1

NewRecord(p) ==
  Record(p, Index(p), Signalled > 0 /\ ~Chained(p, seen[p]))

\* A slip to be noticed: the cap's own refusal is not made.
SpentAtCap(p) == Signalled > 0 /\ Index(p) >= Cap

Spent(p) == Signalled > 0 /\ Index(p) > Cap

\* Nowhere to count: a refusal now could never end.  `landed` says whether the
\* record could be written.
Untracked(p, landed) == Signalled > 0 /\ ~landed /\ ~client.counts

\* A slip to be noticed: a record that did not land is not missed.
SettlementUncounted(p, landed) ==
  CASE ~found[p] -> "allow"
    [] found[p] /\ Spent(p) -> "warn"
    [] OTHER -> "deny"

\* settle_stop's answer.
Settlement(p, landed) ==
  CASE ~found[p] -> "allow"
    [] found[p] /\ (Spent(p) \/ Untracked(p, landed)) -> "warn"
    [] OTHER -> "deny"

Why(p, landed) ==
  CASE Settlement(p, landed) # "warn" -> "none"
    [] Settlement(p, landed) = "warn" /\ Spent(p) -> "cap-reached"
    [] OTHER -> "untracked"

-----------------------------------------------------------------------------

\* The agent ends its turn for the first time: every policy's hook starts.
FirstStop ==
  /\ stop = Idle /\ turn < MaxTurns
  /\ turn' = turn + 1 /\ stop' = 0
  /\ pc' = [p \in Policies |-> "read"]
  /\ entered' = 0
  /\ refusals' = [p \in Policies |-> 0]
  /\ lost' = {} /\ dropped' = FALSE
  /\ decision' = [p \in Policies |-> "none"]
  /\ why' = [p \in Policies |-> "none"]
  /\ UNCHANGED <<client, found, seen, ledger, heavy>>

\* The gate judges what is on disk now.  If it only warns, nothing is settled, and no
\* record is left of this stop.
PassOn(p) ==
  /\ pc[p] = "read"
  /\ pc' = [pc EXCEPT ![p] = "decided"]
  /\ decision' = [decision EXCEPT ![p] = "warn"]
  /\ lost' = IF dropped THEN {} ELSE lost \cup {p}
  /\ UNCHANGED <<client, turn, stop, found, seen, ledger, heavy, why, entered, dropped,
                 refusals>>

ReadLedger(p) ==
  /\ pc[p] = "read"
  /\ found' \in {found, [found EXCEPT ![p] = TRUE]}
  /\ pc' = [pc EXCEPT ![p] = "weigh"]
  /\ seen' = [seen EXCEPT ![p] = ledger]
  /\ UNCHANGED <<client, turn, stop, ledger, heavy, decision, why, entered,
                 dropped, refusals, lost>>

\* How to add the record: by the number of lines read, and the file's size now.  The
\* file is opened at once: one put in its place between the look and the opening
\* might as well have been there at the look.
Weigh(p) ==
  /\ pc[p] = "weigh"
  /\ pc' = [pc EXCEPT ![p] = IF Len(seen[p]) < MaxEntries /\ ~heavy THEN "write"
                             ELSE "rewrite"]
  /\ UNCHANGED <<client, turn, stop, found, seen, ledger, heavy, decision, why, entered,
                 dropped, refusals, lost>>

SettleStop(p, landed, drops) ==
  /\ decision' = [decision EXCEPT ![p] = Settlement(p, landed)]
  /\ why' = [why EXCEPT ![p] = Why(p, landed)]
  /\ seen' = [seen EXCEPT ![p] = <<>>]
  /\ found' = [found EXCEPT ![p] = FALSE]
  /\ dropped' = (dropped \/ (drops /\ ~client.counts))
  /\ refusals' = IF dropped' THEN [q \in Policies |-> 0]
                 ELSE [refusals EXCEPT ![p] =
                   IF Settlement(p, landed) = "deny" /\ @ <= Cap + 1 THEN @ + 1 ELSE @]
  /\ lost' = IF dropped' THEN {} ELSE IF landed THEN lost ELSE lost \cup {p}
  /\ UNCHANGED <<client, turn, stop, entered>>

AppendRecord(p) ==
  /\ pc[p] = "write"
  /\ pc' = [pc EXCEPT ![p] = "decided"]
  /\ SettleStop(p, TRUE, FALSE)
  /\ ledger' = Append(ledger, NewRecord(p))
  /\ heavy' \in {heavy, TRUE}

\* The file it opened was replaced since: the record goes with that file.
AppendStale(p) ==
  /\ pc[p] = "stale"
  /\ pc' = [pc EXCEPT ![p] = "decided"]
  /\ SettleStop(p, TRUE, TRUE)
  /\ UNCHANGED <<ledger, heavy>>

\* The oldest lines, which a replacement leaves out to keep MaxEntries.
Cut(lines) == IF Len(lines) < MaxEntries THEN 0 ELSE Len(lines) - MaxEntries + 1
Kept(lines) == SubSeq(lines, Cut(lines) + 1, Len(lines))

\* A replacement by p leaves out what another hook did to the ledger since p read
\* it, or a line of this turn, or the older line that a policy which left no record
\* in this turn is counted from.
Loses(p) ==
  \/ seen[p] # ledger
  \/ \E i \in 1 .. Cut(ledger) :
       \/ ledger[i].made = turn
       \/ ~client.turnIds /\ ledger[i].policy \in lost

\* The lines read are written back, with the record, as a new file in the place of
\* the ledger; a hook that has the old one open will write to that.
ReplaceLedger(p) ==
  /\ pc[p] = "rewrite"
  /\ pc' = [q \in Policies |-> IF q = p THEN "decided"
                               ELSE IF pc[q] = "write" THEN "stale" ELSE pc[q]]
  /\ SettleStop(p, TRUE, Loses(p))
  /\ ledger' = Append(Kept(seen[p]), NewRecord(p))
  /\ heavy' \in BOOLEAN

RecordLost(p) ==
  /\ "unwritable" \in Faults
  /\ pc[p] \in {"weigh", "write", "stale", "rewrite"}
  /\ pc' = [pc EXCEPT ![p] = "decided"]
  /\ SettleStop(p, FALSE, FALSE)
  /\ UNCHANGED <<ledger, heavy>>

\* One of the other hooks runs, from its start to its end, between two steps of these:
\* it finds nothing at the first stop, and later ones it does not settle.  (One that
\* replaces the ledger, or refuses, is a hook like these.)  Bound: one in a turn.
OtherRecords(q) ==
  /\ stop = 0 /\ \A i \in DOMAIN ledger : ledger[i].policy \in Others => ledger[i].made # turn
  /\ Len(ledger) < MaxEntries /\ ~heavy
  /\ ledger' = Append(ledger, Record(q, 0, FALSE))
  /\ heavy' \in BOOLEAN
  /\ UNCHANGED <<client, turn, stop, pc, found, seen, decision, why, entered, dropped,
                 refusals, lost>>

Settled == stop # Idle /\ \A p \in Policies : pc[p] = "decided"

\* A refused stop sends the agent back to work, and it stops again.
Reenter ==
  /\ Settled /\ \E p \in Policies : decision[p] = "deny"
  /\ stop' = IF client.counts \/ stop = 0 THEN stop + 1 ELSE stop
  /\ entered' = IF entered <= Cap + 1 THEN entered + 1 ELSE entered
  /\ pc' = [p \in Policies |-> "read"]
  /\ decision' = [p \in Policies |-> "none"]
  /\ why' = [p \in Policies |-> "none"]
  /\ UNCHANGED <<client, turn, found, seen, ledger, heavy, dropped, refusals, lost>>

EndTurn ==
  /\ Settled /\ \A p \in Policies : decision[p] # "deny"
  /\ stop' = Idle
  /\ pc' = [p \in Policies |-> "waiting"]
  /\ decision' = [p \in Policies |-> "none"]
  /\ why' = [p \in Policies |-> "none"]
  /\ UNCHANGED <<client, turn, found, seen, ledger, heavy, entered, dropped,
                 refusals, lost>>

Hook(p) ==
  \/ PassOn(p) \/ ReadLedger(p) \/ Weigh(p) \/ AppendRecord(p)
  \/ AppendStale(p) \/ ReplaceLedger(p) \/ RecordLost(p)

GoOn == Reenter \/ EndTurn \/ \E p \in Policies : Hook(p)

ReentryNext == FirstStop \/ GoOn \/ \E q \in Others : OtherRecords(q)

ReentrySpec == ReentryInit /\ [][ReentryNext]_reentryVars

\* The hooks run to their end, and the client goes on when they have.
ReentryFairSpec == ReentrySpec /\ WF_reentryVars(GoOn)

-----------------------------------------------------------------------------

ReentryTypeOK ==
  /\ client \in Clients
  /\ turn \in 0 .. MaxTurns /\ stop \in {Idle} \cup Nat
  /\ pc \in [Policies -> ReentryStage]
  /\ found \in [Policies -> BOOLEAN]
  /\ heavy \in BOOLEAN /\ dropped \in BOOLEAN
  /\ decision \in [Policies -> Decision]
  /\ why \in [Policies -> {"none", "cap-reached", "untracked"}]
  /\ entered \in 0 .. Cap + 2
  /\ refusals \in [Policies -> 0 .. Cap + 2]
  /\ lost \subseteq Policies

\* REENTRY_CAP, "Re-entries refused per turn while findings remain": the first
\* stop and at most Cap re-entries are refused by a policy before it lets the
\* turn end.
RefusalsAreCapped == \A p \in Policies : refusals[p] <= Cap + 1

\* The same whatever fails to be written, whatever gates only warn and however often
\* the ledger is replaced; and, for a client that counts its re-entries, whatever
\* becomes of the ledger.  For another client a replacement must not have overtaken,
\* in this turn, another hook's record, nor cut off a line that is counted from.
CapHoldsWhileRecorded == ~dropped => RefusalsAreCapped

\* "While findings remain, every re-entry is refused, up to REENTRY_CAP": no
\* policy gives up on a turn before its stop was re-entered more than Cap times,
\* except where it says that it could not count.  (A client that neither counts
\* nor names its turns has an earlier turn's records taken for this one's when a
\* stop of this one leaves none.)
NoEarlyWarning ==
  \A p \in Policies :
    (why[p] = "cap-reached" /\ (client.counts \/ client.turnIds \/ (p \notin lost /\ ~dropped)))
      => entered > Cap

\* A record that a turn is counted from is lost.
LosesRecord == \E p \in Policies : AppendStale(p) \/ (ReplaceLedger(p) /\ Loses(p))

\* Whatever the agent does between stops, a turn comes to an end: no client
\* re-enters its Stop hooks for ever, unless it leaves the count to the ledger
\* and lines that are counted from are lost again and again.
EveryTurnEnds ==
  \/ stop # Idle ~> stop = Idle
  \/ ~client.counts /\ []<><<LosesRecord>>_reentryVars

=============================================================================
