------------------------------- MODULE Gateway -------------------------------
(***************************************************************************)
(* `chock gateway run`: one process between an MCP client and one server   *)
(* (gateway/proxy.py, stop.py, gates.py, decision.py).  Its main thread    *)
(* reads the client's lines one at a time, judges every tools/call in them *)
(* (stop first, then the gates loaded at the start), answers what it       *)
(* refuses, hands on the rest and writes the log; a daemon thread carries  *)
(* the server's lines back.  Four pipes of bounded room join client,       *)
(* gateway and server, each of which may end at any moment; people stop    *)
(* and resume the folders the client works in meanwhile.                   *)
(***************************************************************************)
EXTENDS Integers, Sequences, FiniteSets

CONSTANTS
  Gates,      \* the compiled gates, in order: what each does when it fires
  Lines,      \* the lines a client may send
  Home,       \* the repository the gateway was started for
  Scopes,     \* the clients a stop may name
  NoClient,   \* a client no stop scope names
  Everyone,   \* the scope of a stop that names no client
  Stops,      \* the stops people may place: a place and a scope each
  Room,       \* bound: lines a pipe holds
  MaxLines,   \* bound: lines a client sends
  MaxStops,   \* bound: stops placed
  MaxMissed   \* bound: entries the log misses

\* An element of a line: its method, whether it has an id, and of an
\* initialize the client and the folders it names, of a tools/call the gates
\* that fire on it.
Item == [kind : {"init", "call", "badcall", "other"}, id : BOOLEAN,
         client : Scopes \cup {NoClient}, roots : Seq({s.place : s \in Stops}),
         fires : SUBSET (DOMAIN Gates)]

ASSUME GatesAssumption == Gates \in Seq({"warn", "ask", "block", "fault"})
\* No elements: a line that is blank or no JSON, or an empty batch.
ASSUME LinesAssumption == \A l \in Lines : l.batch \in BOOLEAN /\ l.items \in Seq(Item)
ASSUME StopsAssumption == \A s \in Stops : s.scope \in Scopes \cup {Everyone}
ASSUME ScopesAssumption == NoClient \notin Scopes
ASSUME RoomAssumption == Room \in Nat \ {0} /\ MaxLines \in Nat /\ MaxStops \in Nat
ASSUME MissedAssumption == MaxMissed \in Nat

VARIABLES
  client,     \* open, gone
  sent,       \* the lines it has sent, in order; a line is known by its place
  got,        \* the answers it has read
  toGate,     \* pipe: numbers of lines on their way to the gateway
  toClient,   \* pipe: answers and notes on their way to the client
  toServer,   \* pipe: numbers of lines handed on
  toPipe,     \* pipe: answers and notes of the server
  server,     \* idle, busy (has a line to write), ended
  says,       \* the line a busy server has to write
  main,       \* the main thread's stage
  cur,        \* the line it has read
  at,         \* the element it judges
  todo,       \* the folders whose stop it has yet to look at
  found,      \* per element judged: the verdicts of its findings
  roots,      \* the folders named so far
  stopClient, \* the client as a stop scope names it
  broken,     \* the answer could not be written
  pipe,       \* the other thread: read, hold (a line), dead, closing, done
  held,       \* the line it holds
  ended,      \* _downstream_ended
  closed,     \* sys.stdin was closed
  stops,      \* the stops that stand
  placed,     \* how many were placed
  log,        \* the decision log: line, element, verdict
  missed,     \* history: the entries that were due and are not in the log
  reached,    \* history: the lines the server was handed
  standing    \* history: the stops that have stood since cur was read

clientVars == <<client, sent, got>>
judgeVars == <<cur, at, todo, found, roots, stopClient>>
logVars == <<log, missed>>
mainVars == <<main, judgeVars, broken, logVars, reached>>
pipeVars == <<pipe, held>>
stopVars == <<stops, placed, standing>>
serverVars == <<server, says>>
vars == <<clientVars, toGate, toClient, toServer, toPipe, serverVars, mainVars, pipeVars, ended, closed, stopVars>>

Note == [ids |-> {}, by |-> "server"]
Requests(n) == {<<n, i>> : i \in {k \in DOMAIN sent[n].items : sent[n].items[k].id}}
Answer(n, side) == [ids |-> Requests(n), by |-> side]

Init ==
  /\ client = "open" /\ sent = <<>> /\ got = {}
  /\ toGate = <<>> /\ toClient = <<>> /\ toServer = <<>> /\ toPipe = <<>>
  /\ server = "idle" /\ says = Note
  /\ main = "next" /\ cur = 0 /\ at = 1 /\ todo = <<>> /\ found = <<>>
  /\ roots = <<>> /\ stopClient = NoClient /\ broken = FALSE
  /\ pipe = "read" /\ held = Note /\ ended = FALSE /\ closed = FALSE
  /\ stops = {} /\ placed = 0 /\ log = {} /\ missed = {} /\ reached = {} /\ standing = {}

-----------------------------------------------------------------------------
(* The client and the people who stop and resume. *)

Send(l) ==
  /\ client = "open" /\ main # "gone" /\ Len(sent) < MaxLines /\ Len(toGate) < Room
  /\ sent' = Append(sent, l) /\ toGate' = Append(toGate, Len(sent) + 1)
  /\ UNCHANGED <<client, got, toClient, toServer, toPipe, serverVars, mainVars, pipeVars, ended, closed, stopVars>>

ClientReads ==
  /\ client = "open" /\ toClient # <<>>
  /\ got' = IF Head(toClient).ids = {} THEN got ELSE got \cup {Head(toClient)}
  /\ toClient' = Tail(toClient)
  /\ UNCHANGED <<client, sent, toGate, toServer, toPipe, serverVars, mainVars, pipeVars, ended, closed, stopVars>>

\* What is in its pipe stays there to be read.
HangUp ==
  /\ client = "open" /\ client' = "gone"
  /\ UNCHANGED <<sent, got, toGate, toClient, toServer, toPipe, serverVars, mainVars, pipeVars, ended, closed, stopVars>>

Stop(s) ==
  /\ s \in Stops \ stops /\ placed < MaxStops
  /\ stops' = stops \cup {s} /\ placed' = placed + 1
  /\ UNCHANGED <<standing, clientVars, toGate, toClient, toServer, toPipe, serverVars, mainVars, pipeVars, ended, closed>>

Resume(s) ==
  /\ s \in stops
  /\ stops' = stops \ {s} /\ standing' = standing \ {s}
  /\ UNCHANGED <<placed, clientVars, toGate, toClient, toServer, toPipe, serverVars, mainVars, pipeVars, ended, closed>>

-----------------------------------------------------------------------------
(* The server: one line at a time, at most one line for each; it may also  *)
(* speak unasked, and end.                                                 *)

ServerTakes ==
  /\ server = "idle" /\ toServer # <<>>
  /\ toServer' = Tail(toServer)
  /\ IF Requests(Head(toServer)) = {} THEN UNCHANGED serverVars
     ELSE server' = "busy" /\ says' = Answer(Head(toServer), "server")
  /\ UNCHANGED <<clientVars, toGate, toClient, toPipe, mainVars, pipeVars, ended, closed, stopVars>>

ServerNotes ==
  /\ server = "idle" /\ server' = "busy" /\ says' = Note
  /\ UNCHANGED <<clientVars, toGate, toClient, toServer, toPipe, mainVars, pipeVars, ended, closed, stopVars>>

ServerWrites ==
  /\ server = "busy" /\ Len(toPipe) < Room
  /\ server' = "idle" /\ says' = Note /\ toPipe' = Append(toPipe, says)
  /\ UNCHANGED <<clientVars, toGate, toClient, toServer, mainVars, pipeVars, ended, closed, stopVars>>

ServerEnds ==
  /\ server # "ended" /\ server' = "ended" /\ says' = Note
  /\ UNCHANGED <<clientVars, toGate, toClient, toServer, toPipe, mainVars, pipeVars, ended, closed, stopVars>>

-----------------------------------------------------------------------------
(* The thread that carries the server's lines to the client.  It takes the *)
(* lock for a line, so that lines never mix: a write is one step.          *)

PipeTakes ==
  /\ main # "gone" /\ pipe = "read" /\ toPipe # <<>>
  /\ pipe' = "hold" /\ held' = Head(toPipe) /\ toPipe' = Tail(toPipe)
  /\ UNCHANGED <<clientVars, toGate, toClient, toServer, serverVars, mainVars, ended, closed, stopVars>>

PipeWrites ==
  /\ main # "gone" /\ pipe = "hold" /\ client = "open" /\ Len(toClient) < Room
  /\ pipe' = "read" /\ held' = Note /\ toClient' = Append(toClient, held)
  /\ UNCHANGED <<clientVars, toGate, toServer, toPipe, serverVars, mainVars, ended, closed, stopVars>>

\* BrokenPipeError ends the thread; nobody reads the server's lines any more.
PipeBreaks ==
  /\ main # "gone" /\ pipe = "hold" /\ client = "gone"
  /\ pipe' = "dead" /\ held' = Note
  /\ UNCHANGED <<clientVars, toGate, toClient, toServer, toPipe, serverVars, mainVars, ended, closed, stopVars>>

PipeEnds ==
  /\ main # "gone" /\ pipe = "read" /\ toPipe = <<>> /\ server = "ended"
  /\ pipe' = "closing" /\ ended' = TRUE
  /\ UNCHANGED <<held, clientVars, toGate, toClient, toServer, toPipe, serverVars, mainVars, closed, stopVars>>

\* A read holds the lock of sys.stdin, and close waits for it.
PipeCloses ==
  /\ main \notin {"read", "gone"} /\ pipe = "closing"
  /\ pipe' = "done" /\ closed' = TRUE
  /\ UNCHANGED <<held, clientVars, toGate, toClient, toServer, toPipe, serverVars, mainVars, ended, stopVars>>

-----------------------------------------------------------------------------
(* The main thread. *)

Items == sent[cur].items
Outside == <<clientVars, toClient, toPipe, serverVars, pipeVars, closed>>
Apart == <<Outside, toGate, toServer, ended, stopVars>>

\* Slip to be noticed: the line is handled though the server is gone.
ReadOn ==
  /\ main = "read" /\ ~closed /\ toGate # <<>>
  /\ cur' = Head(toGate) /\ toGate' = Tail(toGate)
  /\ at' = 1 /\ found' = <<>> /\ standing' = stops /\ main' = "judge"
  /\ UNCHANGED <<Outside, toServer, ended, stops, placed, todo, roots, stopClient, broken, logVars, reached>>

\* Goes to the pipe, where a closed stdin raises.
AsksForLine ==
  /\ main = "next" /\ main' = IF closed THEN "leave" ELSE "read"
  /\ UNCHANGED <<Apart, judgeVars, broken, logVars, reached>>

\* A line that comes after the server has ended is the last one read.
Read ==
  /\ main = "read" /\ ~closed /\ toGate # <<>>
  /\ cur' = Head(toGate) /\ toGate' = Tail(toGate)
  /\ at' = 1 /\ found' = <<>> /\ standing' = stops
  /\ main' = IF ended THEN "leave" ELSE "judge"
  /\ UNCHANGED <<Outside, toServer, ended, stops, placed, todo, roots, stopClient, broken, logVars, reached>>

\* Slip to be noticed: the end of the pipe is taken for a blank line.
ReadsEndAsBlank ==
  /\ main = "read" /\ closed
  /\ main' = "leave"
  /\ UNCHANGED <<Apart, judgeVars, broken, logVars, reached>>

ReadsEnd ==
  /\ main = "read" /\ (closed \/ (toGate = <<>> /\ client = "gone"))
  /\ main' = "leave"
  /\ UNCHANGED <<Apart, judgeVars, broken, logVars, reached>>

\* Slip to be noticed: a later initialize names the only folders.
NoteOnly(i) == roots' = i.roots /\ stopClient' = i.client

\* _note_initialize: the client is the last one named, the folders are all.
NoteClient(i) == roots' = roots \o i.roots /\ stopClient' = i.client

\* An element that is judged, with the verdicts of its findings.
Found(vs) == found' = Append(found, vs) /\ at' = at + 1

\* What is no tools/call has no findings.
JudgeOther ==
  /\ main = "judge" /\ at <= Len(Items) /\ Items[at].kind \in {"init", "other"}
  /\ IF Items[at].kind = "init" THEN NoteClient(Items[at]) ELSE UNCHANGED <<roots, stopClient>>
  /\ Found({})
  /\ UNCHANGED <<Apart, main, cur, todo, broken, logVars, reached>>

\* params is no object.
JudgeBadCall ==
  /\ main = "judge" /\ at <= Len(Items) /\ Items[at].kind = "badcall"
  /\ Found({"block"})
  /\ UNCHANGED <<Apart, main, cur, todo, roots, stopClient, broken, logVars, reached>>

\* stop_refusal: a folder at a time, the repository's own first.
BeginStopCheck ==
  /\ main = "judge" /\ at <= Len(Items) /\ Items[at].kind = "call"
  /\ todo' = <<Home>> \o roots /\ main' = "stop"
  /\ UNCHANGED <<Apart, cur, at, found, roots, stopClient, broken, logVars, reached>>

\* A client no scope names is reached by every stop.
Reaches(s, place, who) ==
  /\ s.place = place
  /\ s.scope = Everyone \/ who = NoClient \/ s.scope = who

LooksAtStop ==
  /\ main = "stop" /\ todo # <<>>
  /\ IF \E s \in stops : Reaches(s, Head(todo), stopClient)
     THEN Found({"block"}) /\ main' = "judge" /\ todo' = <<>>
     ELSE todo' = Tail(todo) /\ UNCHANGED <<main, at, found>>
  /\ UNCHANGED <<Apart, cur, roots, stopClient, broken, logVars, reached>>

\* A stop that cannot be checked refuses the call.
StopCheckFails ==
  /\ main = "stop" /\ todo # <<>>
  /\ Found({"block"}) /\ main' = "judge" /\ todo' = <<>>
  /\ UNCHANGED <<Apart, cur, roots, stopClient, broken, logVars, reached>>

\* judge: every gate that fires.  An ask is refused, for nobody can be asked.
Fired(i) == {IF Gates[g] = "warn" THEN "warn" ELSE "block" : g \in i.fires}

JudgeByGates ==
  /\ main = "stop" /\ todo = <<>>
  /\ Found(Fired(Items[at])) /\ main' = "judge"
  /\ UNCHANGED <<Apart, cur, todo, roots, stopClient, broken, logVars, reached>>

\* _decide: a line is refused whole, for any of its elements.
Refused == \E i \in DOMAIN found : "block" \in found[i]

\* Slip to be noticed: only the refused elements of a batch are answered.
ErrorsOfRefused == [ids |-> {r \in Requests(cur) : "block" \in found[r[2]]}, by |-> "gateway"]

\* Each request of a refused line gets an error, a notification none.
Errors == Answer(cur, "gateway")

Decides ==
  /\ main = "judge" /\ at > Len(Items)
  /\ main' = IF ~Refused THEN "forward" ELSE IF Errors.ids # {} THEN "respond" ELSE "log"
  /\ UNCHANGED <<Apart, judgeVars, broken, logVars, reached>>

Responds ==
  /\ main = "respond" /\ client = "open" /\ Len(toClient) < Room
  /\ toClient' = Append(toClient, Errors) /\ main' = "log"
  /\ UNCHANGED <<clientVars, toGate, toServer, toPipe, serverVars, pipeVars, ended, closed, stopVars, judgeVars, broken, logVars, reached>>

RespondBreaks ==
  /\ main = "respond" /\ client = "gone"
  /\ broken' = TRUE /\ main' = "log"
  /\ UNCHANGED <<Apart, judgeVars, logVars, reached>>

Forwards ==
  /\ main = "forward" /\ server # "ended" /\ Len(toServer) < Room
  /\ toServer' = Append(toServer, cur) /\ reached' = reached \cup {cur} /\ main' = "log"
  /\ UNCHANGED <<Outside, toGate, ended, stopVars, judgeVars, broken, logVars>>

ForwardFails ==
  /\ main = "forward" /\ server = "ended"
  /\ ended' = TRUE /\ main' = "log"
  /\ UNCHANGED <<Outside, toGate, toServer, stopVars, judgeVars, broken, logVars, reached>>

\* Slip to be noticed: no line for a call refused for its sibling.
VerdictsOfFindings(i) == found[i] \cup (IF Refused THEN {} ELSE {"allow"})

\* records: a line per finding; a call handed on has its allow, one refused
\* for a sibling a block of the gateway's own.
Verdicts(i) == found[i] \cup (IF Refused THEN {"block"} ELSE {"allow"})

Judged == {i \in DOMAIN Items : Items[i].kind \in {"call", "badcall"}}

\* lines_for: what the log is to have of the line read.
Entries == UNION {{<<cur, i, v>> : v \in Verdicts(i)} : i \in Judged}

\* write: after the verdict is carried out, whether or not that failed, each
\* entry is written by itself.  Any may be missed: all, where they cannot be
\* built; one, where the level then in force is off or its append fails, which
\* is passed over.
Logs ==
  /\ main = "log" /\ main' = IF broken THEN "leave" ELSE "next"
  /\ \E written \in SUBSET Entries :
       log' = log \cup written /\ missed' = missed \cup (Entries \ written)
  /\ Cardinality(missed') <= MaxMissed
  /\ UNCHANGED <<Apart, judgeVars, broken, reached>>

\* The server is asked to end; after five seconds it is made to.
Leaves ==
  /\ main = "leave" /\ main' = "wait"
  /\ UNCHANGED <<Apart, judgeVars, broken, logVars, reached>>

Gone ==
  /\ main = "wait" /\ main' = "gone"
  /\ server' = "ended" /\ says' = Note
  /\ UNCHANGED <<clientVars, toGate, toClient, toServer, toPipe, pipeVars, ended, closed, stopVars, judgeVars, broken, logVars, reached>>

-----------------------------------------------------------------------------
Main ==
  \/ AsksForLine \/ Read \/ ReadsEnd
  \/ JudgeOther \/ JudgeBadCall \/ BeginStopCheck \/ LooksAtStop \/ StopCheckFails \/ JudgeByGates
  \/ Decides \/ Responds \/ RespondBreaks \/ Forwards \/ ForwardFails \/ Logs
  \/ Leaves \/ Gone

Pipe == PipeTakes \/ PipeWrites \/ PipeBreaks \/ PipeEnds \/ PipeCloses

Next ==
  \/ \E l \in Lines : Send(l)
  \/ ClientReads \/ HangUp
  \/ \E s \in Stops : Stop(s) \/ Resume(s)
  \/ ServerTakes \/ ServerNotes \/ ServerWrites \/ ServerEnds
  \/ Pipe \/ Main

Spec == Init /\ [][Next]_vars

\* The threads run; a client reads its answers, and a server that runs reads
\* what it is sent and finishes the line it writes.
Fairness ==
  /\ WF_vars(Main) /\ WF_vars(Pipe) /\ WF_vars(ClientReads)
  /\ WF_vars(ServerWrites) /\ SF_vars(ServerTakes)

FairSpec == Spec /\ Fairness

-----------------------------------------------------------------------------
TypeOK ==
  /\ client \in {"open", "gone"} /\ server \in {"idle", "busy", "ended"}
  /\ main \in {"next", "read", "judge", "stop", "respond", "forward", "log", "leave", "wait", "gone"}
  /\ pipe \in {"read", "hold", "dead", "closing", "done"}
  /\ sent \in Seq(Lines) /\ cur \in 0 .. Len(sent) /\ reached \subseteq 1 .. Len(sent)
  /\ {broken, ended, closed} \subseteq BOOLEAN
  /\ stops \subseteq Stops /\ standing \subseteq stops /\ placed \in 0 .. MaxStops
  /\ found \in Seq(SUBSET {"warn", "block"}) /\ stopClient \in Scopes \cup {NoClient}

\* The initializes that come before element i of line n, and the folders and
\* the client they name, as whoever reads the lines would say.
Initializes(n, i) ==
  {p \in UNION {{m} \X DOMAIN sent[m].items : m \in 1 .. n} :
     /\ sent[p[1]].items[p[2]].kind = "init"
     /\ p[1] < n \/ p[2] < i}
Named(n, i) == {Home} \cup UNION {{sent[p[1]].items[p[2]].roots[k] : k \in DOMAIN sent[p[1]].items[p[2]].roots} :
                                   p \in Initializes(n, i)}
Caller(n, i) ==
  IF Initializes(n, i) = {} THEN NoClient
  ELSE LET last == CHOOSE p \in Initializes(n, i) :
                     \A q \in Initializes(n, i) : q[1] < p[1] \/ (q[1] = p[1] /\ q[2] <= p[2])
       IN  sent[last[1]].items[last[2]].client

\* No call is handed on over a stop that has stood since its line was read,
\* on the repository or on any folder the client ever named, and that reaches
\* the client as it last called itself; earlier elements of its batch count.
StandingStopRefuses ==
  main = "forward" =>
    \A i \in DOMAIN Items, s \in standing :
      (Items[i].kind = "call" /\ s.place \in Named(cur, i)) => ~Reaches(s, s.place, Caller(cur, i))

Answers == got \cup {says, held} \cup {toClient[k] : k \in DOMAIN toClient} \cup {toPipe[k] : k \in DOMAIN toPipe}

\* A request is answered by one side only: what the gateway answers never
\* reaches the server.  And none is forgotten: when the gateway waits for a
\* line and everybody alive is idle, every request ever sent has its answer,
\* those refused only for an element beside them too.
AnsweredOnce ==
  /\ \A a \in Answers : a.by = "gateway" => \A r \in a.ids : r[1] \notin reached
  /\ (/\ main = "read" /\ toGate = <<>> /\ pipe = "read" /\ server = "idle"
      /\ toServer = <<>> /\ toPipe = <<>> /\ toClient = <<>> /\ client = "open")
     => \A n \in DOMAIN sent : \E a \in got \cup {Note} : Requests(n) \subseteq a.ids

\* An entry of the log is true of its call: a block of one that was never
\* handed on, an allow of one that was, or whose server had ended, though
\* entries are skipped at level off, or cannot be built or written.  And where
\* none is skipped the log tells the fate of every call of the lines handled,
\* of one refused for its sibling too, by an allow or by a block, never both.
LogTellsTheFate ==
  /\ \A e \in log : /\ e[3] = "block" => e[1] \notin reached
                    /\ e[3] = "allow" => e[1] \in reached \/ ended
  /\ \A n \in 1 .. cur : \A i \in DOMAIN sent[n].items :
       (sent[n].items[i].kind \in {"call", "badcall"} /\ (n < cur \/ main = "next")) =>
         (<<n, i, "allow">> \in log \cup missed) # (<<n, i, "block">> \in log \cup missed)

\* The client is gone and so is whoever reads the server's lines; the server
\* waits to be read and the gateway to be read by the server.
Jammed ==
  /\ main = "forward" /\ Len(toServer) = Room
  /\ pipe = "dead" /\ server = "busy" /\ Len(toPipe) = Room

\* A gateway whose client has hung up ends, and its server with it; all that
\* can keep it is the jam above.
HangUpEnds == client = "gone" ~> (main = "gone" \/ Jammed)

\* Once the gateway knows that the server has ended it leaves at the next line
\* at the latest, however it came to know.
EndedGatewayLeaves == (pipe = "closing" /\ toGate # <<>>) ~> main = "gone"

=============================================================================
