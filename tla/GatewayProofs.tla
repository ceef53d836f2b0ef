---------------------------- MODULE GatewayProofs ----------------------------
(***************************************************************************)
(* Proofs about the gateway, for any gates, lines, folders, clients, stops *)
(* and room in the pipes: no line is handed on over a stop that has stood  *)
(* since it was read, what the log says of a call is true, and it says so  *)
(* of every call it skips nothing of, and every request is answered by one *)
(* side.                                                                   *)
(***************************************************************************)
EXTENDS Gateway, TLAPS

Folder == {s.place : s \in Stops}
Working == {"judge", "stop", "respond", "forward", "log"}
Stages == Working \cup {"next", "read", "leave", "wait", "gone"}

\* The lines are read in the order in which they were sent.
QueueInv ==
  /\ sent \in Seq(Lines) /\ toGate \in Seq(Nat) /\ cur \in Nat
  /\ cur + Len(toGate) = Len(sent)
  /\ \A k \in 1 .. Len(toGate) : toGate[k] = cur + k

\* Where the main thread is in the line.
PlaceInv ==
  /\ main \in Stages
  /\ found \in Seq(SUBSET {"warn", "block"}) /\ at = Len(found) + 1
  /\ main \in Working => cur >= 1
  /\ cur = 0 => at = 1
  /\ main = "judge" => at <= Len(Items) + 1
  /\ main = "stop" => at <= Len(Items) /\ Items[at].kind = "call"
  /\ main \in {"respond", "forward", "log"} \/ (main \in {"next", "read"} /\ cur # 0)
       => at = Len(Items) + 1

\* The initialize that counts before element i, if there is one.
IsLast(p, n, i) ==
  /\ p \in Initializes(n, i)
  /\ \A q \in Initializes(n, i) : q[1] < p[1] \/ (q[1] = p[1] /\ q[2] <= p[2])
HasLast(n, i) == Initializes(n, i) = {} \/ \E p : IsLast(p, n, i)

\* What the gateway has noted is what the client has named so far.
KnownInv ==
  /\ \A i \in 1 .. at : HasLast(cur, i)
  /\ roots \in Seq(Folder)
  /\ Named(cur, at) \subseteq {Home} \cup {roots[k] : k \in DOMAIN roots}
  /\ stopClient = Caller(cur, at)

\* A stop that stands and reaches element i.
Binding(s, i) == s.place \in Named(cur, i) /\ Reaches(s, s.place, Caller(cur, i))

\* Such a stop is yet to be looked at, or has refused its call.
StopsInv ==
  /\ standing \subseteq stops
  /\ todo \in Seq({Home} \cup Folder)
  /\ main = "stop" => \A s \in standing : Binding(s, at) => \E k \in DOMAIN todo : todo[k] = s.place
  /\ main \in Working => \A i \in 1 .. Len(found) : \A s \in standing :
       Items[i].kind = "call" /\ Binding(s, i) => "block" \in found[i]

\* What was due in the log of the lines up to this one, and what is in it.
Told(n) ==
  \A i \in DOMAIN sent[n].items : sent[n].items[i].kind \in {"call", "badcall"} =>
    (<<n, i, "allow">> \in log \cup missed) # (<<n, i, "block">> \in log \cup missed)

True(e) ==
  /\ e[3] = "block" => e[1] \notin reached
  /\ e[3] = "allow" => e[1] \in reached \/ ended

FateInv ==
  /\ ended \in BOOLEAN
  /\ reached \subseteq 1 .. cur
  /\ \A e \in log \cup missed : e[1] \in 1 .. cur /\ (main \in Working => e[1] < cur)
  /\ \A e \in log : True(e)
  /\ main \in {"judge", "stop", "respond", "forward"} => cur \notin reached
  /\ main \in {"respond"} => Refused
  /\ main = "forward" => ~Refused
  /\ main = "log" => IF Refused THEN cur \notin reached ELSE cur \in reached \/ ended
  /\ \A n \in 1 .. cur : n < cur \/ main \in {"next", "read"} => Told(n)

GateInv == QueueInv /\ PlaceInv /\ KnownInv /\ StopsInv /\ FateInv

-----------------------------------------------------------------------------

LEMMA ItemsOfLine ==
  ASSUME QueueInv, NEW n \in 1 .. Len(sent)
  PROVE  /\ sent[n] \in Lines /\ sent[n].items \in Seq(Item)
         /\ \A i \in 1 .. Len(sent[n].items) : sent[n].items[i] \in Item
         /\ DOMAIN sent[n].items = 1 .. Len(sent[n].items) /\ Len(sent[n].items) \in Nat
<1>1. sent[n] \in Lines
  BY DEF QueueInv
<1>2. sent[n].items \in Seq(Item)
  BY <1>1, LinesAssumption
<1> QED
  BY <1>1, <1>2

LEMMA CurIsALine == ASSUME QueueInv, cur >= 1 PROVE cur \in 1 .. Len(sent)
BY DEF QueueInv

LEMMA InitGate == Init => GateInv
<1> SUFFICES ASSUME Init PROVE GateInv
  OBVIOUS
<1>1. QueueInv
  BY DEF Init, QueueInv
<1>2. PlaceInv
  BY DEF Init, PlaceInv, Stages, Working
<1>3. Initializes(0, 1) = {}
  BY DEF Initializes
<1>4. KnownInv
  <2>1. Named(0, 1) = {Home}
    BY <1>3 DEF Named
  <2>2. Caller(0, 1) = NoClient
    BY <1>3 DEF Caller
  <2> QED
    BY <1>3, <2>1, <2>2 DEF Init, KnownInv, HasLast
<1>5. StopsInv
  BY DEF Init, StopsInv, Working
<1>6. FateInv
  <2>1. log = {} /\ missed = {} /\ 1 .. cur = {} /\ reached = {} /\ main = "next" /\ ended = FALSE
    BY DEF Init
  <2> QED
    BY <2>1 DEF FateInv, Working
<1> QED
  BY <1>1, <1>2, <1>4, <1>5, <1>6 DEF GateInv

-----------------------------------------------------------------------------
(* Which initializes come before an element. *)

LEMMA Numbers ==
  ASSUME QueueInv, NEW n \in 0 .. Len(sent), NEW i, NEW p \in Initializes(n, i)
  PROVE  p[1] \in 1 .. n /\ p[2] \in 1 .. Len(sent[p[1]].items) /\ p[2] \in Int
<1> PICK m \in 1 .. n : p \in {m} \X DOMAIN sent[m].items
  BY DEF Initializes
<1>1. m \in 1 .. Len(sent)
  BY DEF QueueInv
<1> QED
  BY <1>1, ItemsOfLine

\* Who counts is the client of the last one.
LEMMA TheLast ==
  ASSUME QueueInv, NEW n \in 0 .. Len(sent), NEW i, NEW p, IsLast(p, n, i)
  PROVE  Caller(n, i) = sent[p[1]].items[p[2]].client
<1> DEFINE Top(q) == \A r \in Initializes(n, i) : r[1] < q[1] \/ (r[1] = q[1] /\ r[2] <= q[2])
           last == CHOOSE q \in Initializes(n, i) : Top(q)
<1>1. p \in Initializes(n, i) /\ Top(p)
  BY DEF IsLast
<1>2. last \in Initializes(n, i) /\ Top(last)
  <2> HIDE DEF Top
  <2> QED
    BY <1>1
<1>3. last[1] = p[1] /\ last[2] = p[2]
  <2> HIDE DEF last
  <2> QED
    BY <1>1, <1>2, Numbers
<1>4. Caller(n, i) = sent[last[1]].items[last[2]].client
  BY <1>1 DEF Caller
<1> QED
  BY <1>3, <1>4

\* An element that is no initialize adds none.
LEMMA NoInitialize ==
  ASSUME QueueInv, cur >= 1, NEW i \in 1 .. Len(Items), Items[i].kind # "init"
  PROVE  Initializes(cur, i + 1) = Initializes(cur, i)
<1> USE CurIsALine, ItemsOfLine DEF Items
<1>1. ASSUME NEW p \in Initializes(cur, i + 1) PROVE p \in Initializes(cur, i)
  <2> PICK m \in 1 .. cur : p \in {m} \X DOMAIN sent[m].items
    BY DEF Initializes
  <2>1. p = <<p[1], p[2]>> /\ p[1] = m /\ m \in 1 .. Len(sent) /\ p[2] \in 1 .. Len(sent[m].items)
    <3>1. m \in 1 .. Len(sent)
      BY DEF QueueInv
    <3> QED
      BY <3>1
  <2>2. p[1] < cur \/ p[2] < i
    BY <2>1 DEF Initializes, QueueInv
  <2> QED
    BY <2>2 DEF Initializes
<1>2. ASSUME NEW p \in Initializes(cur, i) PROVE p \in Initializes(cur, i + 1)
  <2> PICK m \in 1 .. cur : p \in {m} \X DOMAIN sent[m].items
    BY DEF Initializes
  <2>1. m \in 1 .. Len(sent)
    BY DEF QueueInv
  <2>2. p[2] \in 1 .. Len(sent[m].items)
    BY <2>1
  <2> QED
    BY <2>2 DEF Initializes
<1> QED
  BY <1>1, <1>2

\* One that is, is the last.
LEMMA AnInitialize ==
  ASSUME QueueInv, cur >= 1, NEW i \in 1 .. Len(Items), Items[i].kind = "init"
  PROVE  /\ Initializes(cur, i + 1) = Initializes(cur, i) \cup {<<cur, i>>}
         /\ \A q \in Initializes(cur, i + 1) : q[1] < cur \/ (q[1] = cur /\ q[2] <= i)
<1> USE CurIsALine, ItemsOfLine DEF Items
<1>0. \A p \in Initializes(cur, i) \cup Initializes(cur, i + 1) :
        /\ p = <<p[1], p[2]>> /\ p[1] \in 1 .. cur /\ p[2] \in 1 .. Len(sent[p[1]].items)
        /\ p[2] \in Nat /\ p[1] \in Nat
  <2> TAKE p \in Initializes(cur, i) \cup Initializes(cur, i + 1)
  <2> PICK m \in 1 .. cur : p \in {m} \X DOMAIN sent[m].items
    BY DEF Initializes
  <2>1. m \in 1 .. Len(sent)
    BY DEF QueueInv
  <2> QED
    BY <2>1 DEF QueueInv
<1>1. ASSUME NEW p \in Initializes(cur, i + 1) PROVE p \in Initializes(cur, i) \cup {<<cur, i>>}
  BY <1>0 DEF Initializes, QueueInv
<1>2. ASSUME NEW p \in Initializes(cur, i) PROVE p \in Initializes(cur, i + 1)
  BY <1>0 DEF Initializes
<1>3. <<cur, i>> \in Initializes(cur, i + 1)
  BY DEF Initializes, QueueInv
<1>4. \A q \in Initializes(cur, i + 1) : q[1] < cur \/ (q[1] = cur /\ q[2] <= i)
  BY <1>0 DEF Initializes, QueueInv
<1> QED
  BY <1>1, <1>2, <1>3, <1>4

\* Between two lines there are none.
LEMMA NextLine ==
  ASSUME QueueInv, cur + 1 \in 1 .. Len(sent),
         NEW i \in Nat, cur # 0 => i = Len(Items) + 1
  PROVE  Initializes(cur + 1, 1) = Initializes(cur, i)
<1> USE ItemsOfLine DEF Items
<1>0. \A m \in 1 .. cur + 1 : m \in 1 .. Len(sent) /\ m \in Nat
  BY DEF QueueInv
<1>1. ASSUME NEW p \in Initializes(cur + 1, 1) PROVE p \in Initializes(cur, i)
  <2> PICK m \in 1 .. cur + 1 : p \in {m} \X DOMAIN sent[m].items
    BY DEF Initializes
  <2>1. p[1] = m /\ p[2] \in 1 .. Len(sent[m].items) /\ Len(sent[m].items) \in Nat
    BY <1>0
  <2>2. m < cur + 1
    BY <2>1 DEF Initializes, QueueInv
  <2>3. m \in 1 .. cur /\ (m = cur => p[2] < i)
    BY <2>1, <2>2 DEF QueueInv
  <2> QED
    BY <2>1, <2>3 DEF Initializes, QueueInv
<1>2. ASSUME NEW p \in Initializes(cur, i) PROVE p \in Initializes(cur + 1, 1)
  <2> PICK m \in 1 .. cur : p \in {m} \X DOMAIN sent[m].items
    BY DEF Initializes
  <2> QED
    BY DEF Initializes, QueueInv
<1> QED
  BY <1>1, <1>2

\* So they name the same folders and the same client.
LEMMA NextNamed ==
  ASSUME QueueInv, cur + 1 \in 1 .. Len(sent),
         NEW i \in Nat, cur # 0 => i = Len(Items) + 1
  PROVE  /\ Named(cur + 1, 1) = Named(cur, i)
         /\ HasLast(cur + 1, 1) <=> HasLast(cur, i)
         /\ HasLast(cur, i) => Caller(cur + 1, 1) = Caller(cur, i)
<1>1. Initializes(cur + 1, 1) = Initializes(cur, i)
  BY NextLine
<1>2. Named(cur + 1, 1) = Named(cur, i)
  BY <1>1 DEF Named
<1>3. HasLast(cur + 1, 1) <=> HasLast(cur, i)
  BY <1>1 DEF HasLast, IsLast
<1>4. ASSUME HasLast(cur, i) PROVE Caller(cur + 1, 1) = Caller(cur, i)
  <2>1. CASE Initializes(cur, i) = {}
    BY <1>1, <2>1 DEF Caller
  <2>2. CASE \E p : IsLast(p, cur, i)
    <3> PICK p : IsLast(p, cur, i)
      BY <2>2
    <3>1. IsLast(p, cur + 1, 1)
      BY <1>1 DEF IsLast
    <3> QED
      BY <3>1, TheLast DEF QueueInv
  <2> QED
    BY <1>4, <2>1, <2>2 DEF HasLast
<1> QED
  BY <1>2, <1>3, <1>4

LEMMA SameLines ==
  ASSUME sent' = sent
  PROVE  \A n, i : /\ Named(n, i)' = Named(n, i) /\ Caller(n, i)' = Caller(n, i)
                   /\ HasLast(n, i)' = HasLast(n, i)
<1>1. \A n, i : Initializes(n, i)' = Initializes(n, i)
  BY DEF Initializes
<1>2. \A n, i : Named(n, i)' = Named(n, i)
  BY DEF Named, Initializes
<1>3. \A n, i : Caller(n, i)' = Caller(n, i)
  BY DEF Caller, Initializes
<1>4. \A n, i : HasLast(n, i)' = HasLast(n, i)
  BY <1>1 DEF HasLast, IsLast
<1> QED
  BY <1>2, <1>3, <1>4

\* A line sent later adds none.
LEMMA LaterLine ==
  ASSUME QueueInv, NEW l \in Lines, sent' = Append(sent, l), NEW n \in 0 .. Len(sent), NEW i
  PROVE  /\ Initializes(n, i)' = Initializes(n, i)
         /\ Named(n, i)' = Named(n, i)
         /\ HasLast(n, i)' = HasLast(n, i)
         /\ HasLast(n, i) => Caller(n, i)' = Caller(n, i)
<1>1. \A m \in 1 .. n : sent'[m] = sent[m]
  BY DEF QueueInv
<1>2. ASSUME NEW p PROVE p \in Initializes(n, i)' <=> p \in Initializes(n, i)
  <2>1. ASSUME p \in Initializes(n, i) PROVE p \in Initializes(n, i)'
    <3> PICK m \in 1 .. n : p \in {m} \X DOMAIN sent[m].items
      BY <2>1 DEF Initializes
    <3> QED
      BY <1>1, <2>1 DEF Initializes
  <2>2. ASSUME p \in Initializes(n, i)' PROVE p \in Initializes(n, i)
    <3> PICK m \in 1 .. n : p \in {m} \X DOMAIN sent'[m].items
      BY <2>2 DEF Initializes
    <3> QED
      BY <1>1, <2>2 DEF Initializes
  <2> QED
    BY <2>1, <2>2
<1>3. Initializes(n, i)' = Initializes(n, i)
  BY <1>2
<1>5. \A p \in Initializes(n, i) : sent'[p[1]] = sent[p[1]]
  BY <1>1 DEF Initializes
<1>6. Named(n, i)' = Named(n, i)
  <2> DEFINE Of(p) == {sent[p[1]].items[p[2]].roots[k] : k \in DOMAIN sent[p[1]].items[p[2]].roots}
  <2>1. \A p \in Initializes(n, i) : Of(p)' = Of(p)
    BY <1>5
  <2>2. Named(n, i) = {Home} \cup UNION {Of(p) : p \in Initializes(n, i)}
    BY DEF Named
  <2>3. Named(n, i)' = {Home} \cup UNION {Of(p)' : p \in Initializes(n, i)'}
    BY DEF Named
  <2> HIDE DEF Of
  <2>4. {Of(p)' : p \in Initializes(n, i)'} = {Of(p) : p \in Initializes(n, i)}
    BY <1>3, <2>1
  <2> QED
    BY <2>2, <2>3, <2>4
<1>7. HasLast(n, i)' = HasLast(n, i)
  BY <1>3 DEF HasLast, IsLast
<1>8. ASSUME HasLast(n, i) PROVE Caller(n, i)' = Caller(n, i)
  <2>1. CASE Initializes(n, i) = {}
    BY <1>3, <2>1 DEF Caller
  <2>2. CASE Initializes(n, i) # {}
    <3> PICK p : IsLast(p, n, i)
      BY <1>8, <2>2 DEF HasLast
    <3>1. Caller(n, i) = sent[p[1]].items[p[2]].client
      BY TheLast, <2>2 DEF QueueInv
    <3>2. p \in Initializes(n, i)
      BY DEF IsLast
    <3> DEFINE Top(q) == \A r \in Initializes(n, i)' : r[1] < q[1] \/ (r[1] = q[1] /\ r[2] <= q[2])
               last == CHOOSE q \in Initializes(n, i)' : Top(q)
    <3>3. last \in Initializes(n, i)' /\ Top(last)
      <4>1. p \in Initializes(n, i)' /\ Top(p)
        BY <1>3 DEF IsLast
      <4> HIDE DEF Top
      <4> QED
        BY <4>1
    <3>4. last[1] = p[1] /\ last[2] = p[2]
      <4> HIDE DEF last
      <4> QED
        BY <1>3, <3>2, <3>3, Numbers DEF IsLast
    <3>5. Caller(n, i)' = sent'[last[1]].items[last[2]].client
      BY <1>3, <2>2 DEF Caller
    <3> QED
      BY <1>5, <3>1, <3>2, <3>4, <3>5
  <2> QED
    BY <2>1, <2>2
<1> QED
  BY <1>3, <1>6, <1>7, <1>8

-----------------------------------------------------------------------------
(* The steps of everybody but the main thread. *)

\* A step that leaves the main thread and the stops alone.
LEMMA Elsewhere ==
  ASSUME GateInv, UNCHANGED <<sent, toGate, mainVars, stopVars>>,
         ended' \in BOOLEAN, ended => ended'
  PROVE  GateInv'
<1> USE DEF mainVars, judgeVars, stopVars, logVars
<1>1. QueueInv'
  BY DEF GateInv, QueueInv
<1>2. PlaceInv'
  BY DEF GateInv, PlaceInv, Items
<1>3. KnownInv'
  BY SameLines DEF GateInv, KnownInv
<1>4. StopsInv'
  BY SameLines DEF GateInv, StopsInv, Binding, Reaches, Items
<1>5. FateInv'
  BY DEF GateInv, FateInv, Refused, Told, True
<1> QED
  BY <1>1, <1>2, <1>3, <1>4, <1>5 DEF GateInv

LEMMA StopKeeps == ASSUME GateInv, NEW s \in Stops, Stop(s) \/ Resume(s) PROVE GateInv'
<1> USE DEF Stop, Resume, mainVars, judgeVars, clientVars, logVars
<1>1. QueueInv'
  BY DEF GateInv, QueueInv
<1>2. PlaceInv'
  BY DEF GateInv, PlaceInv, Items
<1>3. KnownInv'
  BY SameLines DEF GateInv, KnownInv
<1>4. StopsInv'
  BY SameLines DEF GateInv, StopsInv, Binding, Reaches, Items
<1>5. FateInv'
  BY DEF GateInv, FateInv, Refused, Told, True
<1> QED
  BY <1>1, <1>2, <1>3, <1>4, <1>5 DEF GateInv

LEMMA SendKeeps == ASSUME GateInv, NEW l \in Lines, Send(l) PROVE GateInv'
<1> USE DEF Send, mainVars, judgeVars, stopVars, logVars
<1>1. QueueInv'
  BY DEF GateInv, QueueInv
<1>2. /\ cur \in 0 .. Len(sent) /\ \A n \in 1 .. cur : sent'[n] = sent[n]
      /\ cur >= 1 => sent'[cur] = sent[cur]
  BY DEF GateInv, QueueInv
<1>3. \A i : /\ Named(cur, i)' = Named(cur, i)
             /\ HasLast(cur, i)' = HasLast(cur, i)
             /\ HasLast(cur, i) => Caller(cur, i)' = Caller(cur, i)
  BY <1>2, LaterLine DEF GateInv
<1>4. PlaceInv'
  <2>1. CASE cur = 0
    BY <2>1 DEF GateInv, PlaceInv, Working
  <2>2. CASE cur >= 1
    BY <1>2, <2>2 DEF GateInv, PlaceInv, Items
  <2> QED
    BY <1>2, <2>1, <2>2
<1>5. KnownInv'
  BY <1>3 DEF GateInv, KnownInv, PlaceInv
<1>6. StopsInv'
  BY <1>2, <1>3 DEF GateInv, KnownInv, PlaceInv, StopsInv, Binding, Reaches, Items
<1>7. FateInv'
  BY <1>2 DEF GateInv, FateInv, Refused, Told, True
<1> QED
  BY <1>1, <1>4, <1>5, <1>6, <1>7 DEF GateInv
-----------------------------------------------------------------------------
(* The steps of the main thread: those that only go to another stage, then *)
(* the line that is read, the element that is judged, the line carried out *)
(* and logged.                                                             *)

LEMMA StageKeeps ==
  ASSUME GateInv,
         AsksForLine \/ ReadsEnd \/ Decides \/ Responds \/ RespondBreaks \/ Leaves \/ Gone
  PROVE  GateInv'
<1> USE DEF Apart, Outside, judgeVars, stopVars, clientVars, logVars
<1>0. /\ UNCHANGED <<sent, toGate, cur, at, todo, found, roots, stopClient, stops, standing>>
      /\ UNCHANGED <<log, missed, reached, ended>>
  BY DEF AsksForLine, ReadsEnd, Decides, Responds, RespondBreaks, Leaves, Gone
<1>1. \/ main = "next" /\ main' \in {"leave", "read"}
      \/ main = "read" /\ main' = "leave"
      \/ main = "judge" /\ at > Len(Items) /\ ~Refused /\ main' = "forward"
      \/ main = "judge" /\ at > Len(Items) /\ Refused /\ main' \in {"respond", "log"}
      \/ main = "respond" /\ main' = "log"
      \/ main \in {"leave", "wait"} /\ main' \in {"wait", "gone"}
  BY DEF AsksForLine, ReadsEnd, Decides, Responds, RespondBreaks, Leaves, Gone
<1>2. cur >= 1 => Len(Items) \in Nat
  BY CurIsALine, ItemsOfLine DEF GateInv, Items
<1>3. QueueInv'
  BY <1>0 DEF GateInv, QueueInv
<1>4. PlaceInv'
  BY <1>0, <1>1, <1>2 DEF GateInv, PlaceInv, Items, Stages, Working
<1>5. KnownInv'
  BY <1>0, SameLines DEF GateInv, KnownInv
<1>6. StopsInv'
  BY <1>0, <1>1, SameLines DEF GateInv, StopsInv, Binding, Reaches, Items, Working
<1>7. FateInv'
  BY <1>0, <1>1 DEF GateInv, FateInv, Refused, Told, True, Working
<1> QED
  BY <1>3, <1>4, <1>5, <1>6, <1>7 DEF GateInv

LEMMA ReadKeeps == ASSUME GateInv, Read PROVE GateInv'
<1> USE DEF Read, Outside, judgeVars, stopVars, clientVars, logVars
<1>1. toGate \in Seq(Nat) /\ toGate # <<>> /\ Len(toGate) \in Nat /\ Len(toGate) >= 1
  BY DEF GateInv, QueueInv
<1>2. cur' = cur + 1 /\ cur + 1 \in 1 .. Len(sent)
  BY <1>1 DEF GateInv, QueueInv
<1>3. QueueInv'
  <2>1. /\ toGate' \in Seq(Nat) /\ Len(toGate') = Len(toGate) - 1
        /\ \A k \in 1 .. Len(toGate') : toGate'[k] = toGate[k + 1]
    BY <1>1
  <2>2. \A k \in 1 .. Len(toGate') : toGate'[k] = cur' + k
    BY <1>1, <1>2, <2>1 DEF GateInv, QueueInv
  <2> QED
    BY <1>1, <1>2, <2>1, <2>2 DEF GateInv, QueueInv
<1>4. Len(sent[cur + 1].items) \in Nat
  BY <1>2, ItemsOfLine DEF GateInv
<1>5. PlaceInv'
  BY <1>2, <1>4 DEF GateInv, QueueInv, PlaceInv, Items, Stages, Working
<1>6. at \in Nat /\ at >= 1 /\ (cur # 0 => at = Len(Items) + 1)
  BY DEF GateInv, PlaceInv
<1>7. KnownInv'
  <2>1. /\ Named(cur, at)' = Named(cur, at) /\ Caller(cur, at)' = Caller(cur, at)
        /\ HasLast(cur, 1)' <=> HasLast(cur, at)
    BY <1>2, <1>6, NextNamed, SameLines DEF GateInv, KnownInv
  <2> QED
    BY <1>6, <2>1 DEF GateInv, KnownInv
<1>8. StopsInv'
  BY DEF GateInv, StopsInv
<1>9. FateInv'
  BY <1>2 DEF GateInv, QueueInv, FateInv, Refused, Told, True, Working
<1> QED
  BY <1>3, <1>5, <1>7, <1>8, <1>9 DEF GateInv

\* An element is judged; it is refused if it is a call that a stop binds.
Judges(vs) == Found(vs) /\ UNCHANGED <<sent, toGate, stopVars, cur, logVars, reached, ended>>

LEMMA JudgedKeeps ==
  ASSUME GateInv, main \in {"judge", "stop"}, main' = "judge", at <= Len(Items),
         NEW vs \in SUBSET {"warn", "block"}, Judges(vs), todo' = <<>> \/ todo' = todo,
         Items[at].kind = "call" => "block" \in vs \/ \A s \in standing : ~Binding(s, at)
  PROVE  QueueInv' /\ PlaceInv' /\ StopsInv' /\ FateInv'
<1> USE DEF Judges, Found, stopVars
<1>1. cur >= 1 /\ Len(Items) \in Nat /\ Len(found) \in Nat /\ at = Len(found) + 1
  BY CurIsALine, ItemsOfLine DEF GateInv, PlaceInv, Items, Working
<1>2. QueueInv'
  BY DEF GateInv, QueueInv
<1>3. PlaceInv'
  BY <1>1 DEF GateInv, PlaceInv, Items, Stages, Working
<1>4. StopsInv'
  <2>1. /\ Len(found') = Len(found) + 1 /\ found'[Len(found) + 1] = vs
        /\ \A i \in 1 .. Len(found) : found'[i] = found[i]
    BY DEF GateInv, PlaceInv
  <2>2. todo' \in Seq({Home} \cup Folder)
    <3>1. todo \in Seq({Home} \cup Folder) /\ <<>> \in Seq({Home} \cup Folder)
      BY DEF GateInv, StopsInv
    <3> QED
      BY <3>1
  <2>3. ASSUME NEW i \in 1 .. Len(found'), NEW s \in standing,
               Items[i].kind = "call", Binding(s, i)
        PROVE  "block" \in found'[i]
    <3>1. CASE i \in 1 .. Len(found)
      BY <2>1, <2>3, <3>1 DEF GateInv, StopsInv, Working
    <3>2. CASE i = at
      BY <1>1, <2>1, <2>3, <3>2
    <3> QED
      BY <1>1, <2>1, <3>1, <3>2
  <2> QED
    BY <2>2, <2>3, SameLines DEF GateInv, StopsInv, Binding, Reaches, Items
<1>5. FateInv'
  BY DEF GateInv, FateInv, Told, True, Working, logVars
<1> QED
  BY <1>2, <1>3, <1>4, <1>5
LEMMA FoldersOf ==
  ASSUME NEW n, NEW i, NEW p \in Initializes(n, i),
         NEW f \in {sent[p[1]].items[p[2]].roots[k] : k \in DOMAIN sent[p[1]].items[p[2]].roots}
  PROVE  f \in Named(n, i)
<1> DEFINE Of(q) == {sent[q[1]].items[q[2]].roots[k] : k \in DOMAIN sent[q[1]].items[q[2]].roots}
<1>1. Named(n, i) = {Home} \cup UNION {Of(q) : q \in Initializes(n, i)}
  BY DEF Named
<1>2. f \in Of(p)
  OBVIOUS
<1> HIDE DEF Of
<1> QED
  BY <1>1, <1>2

\* What is no initialize leaves what the client has named.
LEMMA OthersName ==
  ASSUME GateInv, main \in {"judge", "stop"}, at <= Len(Items), Items[at].kind # "init",
         UNCHANGED <<sent, cur, roots, stopClient>>, at' = at + 1
  PROVE  KnownInv'
<1>1. cur >= 1 /\ at \in 1 .. Len(Items)
  BY DEF GateInv, PlaceInv, Working
<1>2. Initializes(cur, at + 1) = Initializes(cur, at)
  BY <1>1, NoInitialize DEF GateInv
<1>3. /\ Named(cur, at + 1) = Named(cur, at)
      /\ HasLast(cur, at + 1) <=> HasLast(cur, at)
  BY <1>2 DEF Named, HasLast, IsLast
<1>4. HasLast(cur, at)
  BY <1>1 DEF GateInv, KnownInv
<1>5. Caller(cur, at + 1) = Caller(cur, at)
  <2>1. CASE Initializes(cur, at) = {}
    BY <1>2, <2>1 DEF Caller
  <2>2. CASE \E p : IsLast(p, cur, at)
    <3> PICK p : IsLast(p, cur, at)
      BY <2>2
    <3>1. IsLast(p, cur, at + 1) /\ cur \in 0 .. Len(sent)
      BY <1>2 DEF IsLast, GateInv, QueueInv
    <3> QED
      BY <3>1, TheLast DEF GateInv
  <2> QED
    BY <1>4, <2>1, <2>2 DEF HasLast
<1> QED
  BY <1>1, <1>3, <1>4, <1>5, SameLines DEF GateInv, KnownInv

\* An initialize adds its folders and is the one that counts.
LEMMA InitializeNames ==
  ASSUME GateInv, main = "judge", at <= Len(Items), Items[at].kind = "init",
         UNCHANGED <<sent, cur>>, at' = at + 1, NoteClient(Items[at])
  PROVE  KnownInv'
<1> DEFINE i == Items[at]
<1>1. cur >= 1 /\ at \in 1 .. Len(Items) /\ cur \in 0 .. Len(sent)
  BY DEF GateInv, PlaceInv, QueueInv, Working
<1>2. i \in Item /\ i.roots \in Seq(Folder) /\ roots \in Seq(Folder)
  BY <1>1, CurIsALine, ItemsOfLine DEF GateInv, KnownInv, Items, Item, Folder
<1>3. Initializes(cur, at + 1) = Initializes(cur, at) \cup {<<cur, at>>}
  BY <1>1, AnInitialize DEF GateInv
<1>4. IsLast(<<cur, at>>, cur, at + 1)
  BY <1>1, <1>3, AnInitialize DEF GateInv, IsLast
<1>5. Caller(cur, at + 1) = i.client
  BY <1>1, <1>4, TheLast DEF GateInv, Items
<1>6. /\ roots' \in Seq(Folder)
      /\ \A k \in DOMAIN roots : k \in DOMAIN roots' /\ roots'[k] = roots[k]
      /\ \A k \in DOMAIN i.roots : \E j \in DOMAIN roots' : roots'[j] = i.roots[k]
  <2>1. roots' = roots \o i.roots
    BY DEF NoteClient
  <2> HIDE DEF i
  <2>2. \A k \in DOMAIN i.roots : Len(roots) + k \in DOMAIN roots' /\ roots'[Len(roots) + k] = i.roots[k]
    BY <1>2, <2>1
  <2>3. \A k \in DOMAIN roots : k \in DOMAIN roots' /\ roots'[k] = roots[k]
    BY <1>2, <2>1
  <2>4. roots' \in Seq(Folder)
    BY <1>2, <2>1
  <2> QED
    BY <2>2, <2>3, <2>4
<1>7. ASSUME NEW f \in Named(cur, at + 1), f # Home
      PROVE  f \in {roots'[k] : k \in DOMAIN roots'}
  <2> PICK p \in Initializes(cur, at + 1) :
        f \in {sent[p[1]].items[p[2]].roots[k] : k \in DOMAIN sent[p[1]].items[p[2]].roots}
    BY <1>7 DEF Named
  <2>1. CASE p = <<cur, at>>
    BY <1>6, <2>1 DEF Items
  <2>2. CASE p \in Initializes(cur, at)
    <3>1. f \in Named(cur, at)
      BY <2>2, FoldersOf
    <3> QED
      BY <1>6, <1>7, <3>1 DEF GateInv, KnownInv
  <2> QED
    BY <1>3, <2>1, <2>2
<1>8. \A k \in 1 .. at + 1 : HasLast(cur, k)
  BY <1>1, <1>4 DEF GateInv, KnownInv, HasLast
<1> QED
  BY <1>1, <1>5, <1>6, <1>7, <1>8, SameLines DEF NoteClient, KnownInv
LEMMA JudgeKeeps ==
  ASSUME GateInv, JudgeOther \/ JudgeBadCall \/ StopCheckFails \/ JudgeByGates
  PROVE  GateInv'
<1> USE DEF Apart, Outside, clientVars, stopVars, logVars
<1>0. at \in Nat /\ (main \in {"judge", "stop"} /\ at <= Len(Items) => cur >= 1 /\ at \in 1 .. Len(Items))
  BY DEF GateInv, PlaceInv, Working
<1>1. CASE JudgeOther
  <2>1. Judges({}) /\ main = "judge" /\ main' = "judge" /\ at <= Len(Items) /\ Items[at].kind # "call" /\ todo' = todo
    BY <1>1 DEF JudgeOther, Judges
  <2>2. QueueInv' /\ PlaceInv' /\ StopsInv' /\ FateInv'
    BY <2>1, JudgedKeeps
  <2>3. CASE Items[at].kind = "init"
    BY <1>1, <2>1, <2>2, <2>3, InitializeNames DEF JudgeOther, Found, GateInv
  <2>4. CASE Items[at].kind = "other"
    BY <1>1, <2>1, <2>2, <2>4, OthersName DEF JudgeOther, Found, GateInv
  <2> QED
    BY <1>1, <2>3, <2>4 DEF JudgeOther
<1>2. CASE JudgeBadCall
  <2>1. Judges({"block"}) /\ main = "judge" /\ main' = "judge" /\ at <= Len(Items) /\ Items[at].kind = "badcall" /\ todo' = todo
    BY <1>2 DEF JudgeBadCall, Judges
  <2>2. QueueInv' /\ PlaceInv' /\ StopsInv' /\ FateInv'
    BY <2>1, JudgedKeeps
  <2> QED
    BY <1>2, <2>1, <2>2, OthersName DEF JudgeBadCall, Found, GateInv
<1>3. CASE StopCheckFails
  <2>1. /\ Judges({"block"}) /\ main = "stop" /\ main' = "judge" /\ at <= Len(Items) /\ todo' = <<>>
        /\ Items[at].kind = "call"
    BY <1>3 DEF StopCheckFails, Judges, GateInv, PlaceInv
  <2>2. QueueInv' /\ PlaceInv' /\ StopsInv' /\ FateInv'
    BY <2>1, JudgedKeeps
  <2> QED
    BY <1>3, <2>1, <2>2, OthersName DEF StopCheckFails, Found, GateInv
<1>4. CASE JudgeByGates
  <2>1. /\ Judges(Fired(Items[at])) /\ main = "stop" /\ main' = "judge" /\ at <= Len(Items) /\ todo' = todo
        /\ Items[at].kind = "call" /\ todo = <<>>
    BY <1>4 DEF JudgeByGates, Judges, GateInv, PlaceInv
  <2>2. Fired(Items[at]) \in SUBSET {"warn", "block"}
    BY DEF Fired
  <2>3. \A s \in standing : ~Binding(s, at)
    BY <2>1 DEF GateInv, StopsInv
  <2>4. QueueInv' /\ PlaceInv' /\ StopsInv' /\ FateInv'
    BY <2>1, <2>2, <2>3, JudgedKeeps
  <2> QED
    BY <1>4, <2>1, <2>4, OthersName DEF JudgeByGates, Found, GateInv
<1> QED
  BY <1>1, <1>2, <1>3, <1>4

\* All folders the client has named are to be looked at.
LEMMA BeginKeeps == ASSUME GateInv, BeginStopCheck PROVE GateInv'
<1> USE DEF BeginStopCheck, Apart, Outside, clientVars, stopVars, logVars
<1>1. QueueInv'
  BY DEF GateInv, QueueInv
<1>2. PlaceInv'
  BY DEF GateInv, PlaceInv, Items, Stages, Working
<1>3. KnownInv'
  BY SameLines DEF GateInv, KnownInv
<1>4. StopsInv'
  <2>1. roots \in Seq(Folder) /\ todo' = <<Home>> \o roots
    BY DEF GateInv, KnownInv
  <2>2. /\ todo' \in Seq({Home} \cup Folder) /\ 1 \in DOMAIN todo' /\ todo'[1] = Home
    BY <2>1
  <2>3. \A k \in DOMAIN roots : k + 1 \in DOMAIN todo' /\ todo'[k + 1] = roots[k]
    BY <2>1
  <2>4. \A s \in standing : Binding(s, at) => \E k \in DOMAIN todo' : todo'[k] = s.place
    BY <2>2, <2>3 DEF Binding, GateInv, KnownInv
  <2> QED
    BY <2>2, <2>4, SameLines DEF GateInv, StopsInv, Binding, Reaches, Items, Working
<1>5. FateInv'
  BY DEF GateInv, FateInv, Refused, Told, True, Working
<1> QED
  BY <1>1, <1>2, <1>3, <1>4, <1>5 DEF GateInv

\* The folder looked at refuses the call or drops out of what is to be looked
\* at, and no stop that stood on it then binds the call.
LEMMA LooksKeeps == ASSUME GateInv, LooksAtStop PROVE GateInv'
<1> USE DEF LooksAtStop, Apart, Outside, clientVars, stopVars, logVars
<1>1. main = "stop" /\ at <= Len(Items) /\ Items[at].kind = "call"
  BY DEF GateInv, PlaceInv
<1>2. CASE \E s \in stops : Reaches(s, Head(todo), stopClient)
  <2>1. Judges({"block"}) /\ main' = "judge" /\ todo' = <<>>
    BY <1>2 DEF Judges
  <2>2. QueueInv' /\ PlaceInv' /\ StopsInv' /\ FateInv'
    BY <1>1, <2>1, JudgedKeeps
  <2> QED
    BY <1>1, <2>1, <2>2, OthersName DEF Judges, Found, GateInv
<1>3. CASE ~\E s \in stops : Reaches(s, Head(todo), stopClient)
  <2>1. todo' = Tail(todo) /\ main' = main /\ UNCHANGED <<at, found, cur, roots, stopClient, logVars, reached>>
    BY <1>3
  <2>2. QueueInv'
    BY <2>1 DEF GateInv, QueueInv
  <2>3. PlaceInv'
    BY <2>1 DEF GateInv, PlaceInv, Items, Working
  <2>4. KnownInv'
    BY <2>1, SameLines DEF GateInv, KnownInv
  <2>5. StopsInv'
    <3>1. todo \in Seq({Home} \cup Folder) /\ todo # <<>>
      BY DEF GateInv, StopsInv
    <3>2. /\ todo' \in Seq({Home} \cup Folder)
          /\ \A k \in DOMAIN todo : k = 1 \/ (k - 1 \in DOMAIN todo' /\ todo'[k - 1] = todo[k])
          /\ Head(todo) = todo[1]
      BY <2>1, <3>1
    <3>3. ASSUME NEW s \in standing, Binding(s, at)
          PROVE  \E k \in DOMAIN todo' : todo'[k] = s.place
      <4>1. PICK k \in DOMAIN todo : todo[k] = s.place
        BY <1>1, <3>3 DEF GateInv, StopsInv
      <4>2. s.place # Head(todo)
        BY <1>3, <3>3 DEF GateInv, StopsInv, KnownInv, Binding, Reaches
      <4> QED
        BY <3>2, <4>1, <4>2
    <3> QED
      BY <2>1, <3>2, <3>3, SameLines DEF GateInv, StopsInv, Binding, Reaches, Items, Working
  <2>6. FateInv'
    BY <2>1 DEF GateInv, FateInv, Refused, Told, True, Working
  <2> QED
    BY <2>2, <2>3, <2>4, <2>5, <2>6 DEF GateInv
<1> QED
  BY <1>2, <1>3

LEMMA ForwardKeeps == ASSUME GateInv, Forwards \/ ForwardFails PROVE GateInv'
<1> USE DEF Forwards, ForwardFails, Outside, clientVars, stopVars, judgeVars, logVars
<1>0. cur >= 1 /\ main = "forward" /\ main' = "log" /\ ~Refused
  BY DEF GateInv, PlaceInv, FateInv, Working
<1>1. QueueInv'
  BY DEF GateInv, QueueInv
<1>2. PlaceInv'
  BY <1>0 DEF GateInv, PlaceInv, Items, Stages, Working
<1>3. KnownInv'
  BY SameLines DEF GateInv, KnownInv
<1>4. StopsInv'
  BY <1>0, SameLines DEF GateInv, StopsInv, Binding, Reaches, Items, Working
<1>5. FateInv'
  <2>1. CASE Forwards
    BY <1>0, <2>1 DEF GateInv, QueueInv, FateInv, Refused, Told, True, Working
  <2>2. CASE ForwardFails
    BY <1>0, <2>2 DEF GateInv, FateInv, Refused, Told, True, Working
  <2> QED
    BY <2>1, <2>2
<1> QED
  BY <1>1, <1>2, <1>3, <1>4, <1>5 DEF GateInv

\* Every call of the line has the verdict of the line, and not the other one.
LEMMA LogKeeps == ASSUME GateInv, Logs PROVE GateInv'
<1> USE DEF Logs, Apart, Outside, clientVars, stopVars, judgeVars, logVars
<1>0. cur >= 1 /\ main = "log" /\ main' \in {"leave", "next"} /\ Len(Items) \in Nat
  BY CurIsALine, ItemsOfLine DEF GateInv, PlaceInv, Items, Working
<1>1. QueueInv'
  BY DEF GateInv, QueueInv
<1>2. PlaceInv'
  BY <1>0 DEF GateInv, PlaceInv, Items, Stages, Working
<1>3. KnownInv'
  BY SameLines DEF GateInv, KnownInv
<1>4. StopsInv'
  BY <1>0 DEF GateInv, StopsInv, Working
<1>5. FateInv'
  <2>1. log' \cup missed' = log \cup missed \cup Entries /\ log' \subseteq log \cup Entries
    OBVIOUS
  <2>2. \A e : e \in Entries <=> \E i \in Judged : \E v \in Verdicts(i) : e = <<cur, i, v>>
    BY DEF Entries
  <2>3. \A e \in log \cup missed : e[1] \in 1 .. cur /\ e[1] < cur
    BY <1>0 DEF GateInv, FateInv, Working
  <2>4. ASSUME NEW n \in 1 .. cur, n < cur PROVE Told(n)'
    <3>1. \A i, v : <<n, i, v>> \in log' \cup missed' <=> <<n, i, v>> \in log \cup missed
      <4>1. \A i, v : <<n, i, v>> \notin Entries
        BY <2>2, <2>4 DEF GateInv, QueueInv
      <4> QED
        BY <2>1, <4>1
    <3>2. Told(n)
      BY <2>4 DEF GateInv, FateInv
    <3> QED
      BY <3>1, <3>2 DEF Told
  <2>5. ASSUME NEW i \in DOMAIN Items, Items[i].kind \in {"call", "badcall"}
        PROVE  IF Refused THEN "block" \in Verdicts(i) /\ "allow" \notin Verdicts(i)
               ELSE "allow" \in Verdicts(i) /\ "block" \notin Verdicts(i)
    <3>2. i \in DOMAIN found /\ found[i] \subseteq {"warn", "block"}
      <4>1. i \in 1 .. Len(Items)
        BY <1>0, CurIsALine, ItemsOfLine DEF GateInv, Items
      <4>2. found \in Seq(SUBSET {"warn", "block"}) /\ Len(found) = Len(Items)
        BY <1>0 DEF GateInv, PlaceInv
      <4> QED
        BY <4>1, <4>2
    <3> QED
      BY <3>2 DEF Verdicts, Refused
  <2>6. Told(cur)'
    <3>1. \A i, v : <<cur, i, v>> \in log' \cup missed' <=> i \in Judged /\ v \in Verdicts(i)
      <4>1. \A i, v : <<cur, i, v>> \notin log \cup missed
        BY <2>3 DEF GateInv, QueueInv
      <4>2. \A i, v : <<cur, i, v>> \in Entries <=> i \in Judged /\ v \in Verdicts(i)
        BY <2>2
      <4> QED
        BY <2>1, <4>1, <4>2
    <3> QED
      BY <2>5, <3>1 DEF Told, Judged, Items
  <2>7. \A n \in 1 .. cur : Told(n)'
    BY <2>4, <2>6 DEF GateInv, QueueInv
  <2>8. ASSUME NEW e \in log \cup missed \cup Entries PROVE e[1] \in 1 .. cur
    <3>1. e \in Entries => e[1] = cur
      BY <2>2
    <3> QED
      BY <1>0, <2>3, <2>8, <3>1 DEF GateInv, QueueInv
  <2>9. ASSUME NEW e \in log' PROVE True(e)'
    <3>1. CASE e \in log
      BY <3>1 DEF GateInv, FateInv, True
    <3>2. CASE e \in Entries
      <4>1. PICK i \in Judged : \E v \in Verdicts(i) : e = <<cur, i, v>>
        BY <2>2, <3>2
      <4>2. IF Refused THEN e[3] # "allow" ELSE e[3] # "block"
        BY <2>5, <4>1 DEF Judged
      <4>3. e[1] = cur
        BY <4>1
      <4> QED
        BY <1>0, <4>2, <4>3 DEF GateInv, FateInv, True
    <3> QED
      BY <2>1, <3>1, <3>2
  <2> QED
    BY <1>0, <2>1, <2>7, <2>8, <2>9 DEF GateInv, FateInv, Working
<1> QED
  BY <1>1, <1>2, <1>3, <1>4, <1>5 DEF GateInv
-----------------------------------------------------------------------------

LEMMA StepGate == GateInv /\ [Next]_vars => GateInv'
<1> SUFFICES ASSUME GateInv, [Next]_vars PROVE GateInv'
  OBVIOUS
<1>0. ended \in BOOLEAN
  BY DEF GateInv, FateInv
<1>1. CASE \E l \in Lines : Send(l)
  BY <1>1, SendKeeps
<1>2. CASE \E s \in Stops : Stop(s) \/ Resume(s)
  BY <1>2, StopKeeps
<1>3. CASE ClientReads \/ HangUp \/ ServerTakes \/ ServerNotes \/ ServerWrites \/ ServerEnds
  <2>1. UNCHANGED <<sent, toGate, mainVars, stopVars, ended>>
    BY <1>3 DEF ClientReads, HangUp, ServerTakes, ServerNotes, ServerWrites, ServerEnds, clientVars
  <2> QED
    BY <1>0, <2>1, Elsewhere
<1>4. CASE Pipe
  <2>1. UNCHANGED <<sent, toGate, mainVars, stopVars>> /\ ended' \in {ended, TRUE}
    BY <1>4 DEF Pipe, PipeTakes, PipeWrites, PipeBreaks, PipeEnds, PipeCloses, clientVars
  <2>2. ended' \in BOOLEAN /\ (ended => ended')
    BY <1>0, <2>1
  <2> QED
    BY <2>1, <2>2, Elsewhere
<1>5. CASE Main
  BY <1>5, StageKeeps, ReadKeeps, JudgeKeeps, BeginKeeps, LooksKeeps, ForwardKeeps, LogKeeps DEF Main
<1>6. CASE UNCHANGED vars
  BY <1>0, <1>6, Elsewhere DEF vars, clientVars
<1> QED
  BY <1>1, <1>2, <1>3, <1>4, <1>5, <1>6 DEF Next

LEMMA GateHolds == Spec => []GateInv
BY InitGate, StepGate, PTL DEF Spec

LEMMA GateRefuses == GateInv => StandingStopRefuses
<1> SUFFICES ASSUME GateInv, main = "forward", NEW i \in DOMAIN Items, NEW s \in standing,
                    Items[i].kind = "call", s.place \in Named(cur, i), Reaches(s, s.place, Caller(cur, i))
             PROVE  FALSE
  BY DEF StandingStopRefuses
<1>1. cur >= 1 /\ i \in 1 .. Len(Items)
  BY CurIsALine, ItemsOfLine DEF GateInv, PlaceInv, Items, Working
<1>2. i \in 1 .. Len(found) /\ i \in DOMAIN found
  BY <1>1, CurIsALine, ItemsOfLine DEF GateInv, PlaceInv, Items
<1>3. "block" \in found[i]
  BY <1>2 DEF GateInv, StopsInv, Binding, Working
<1> QED
  BY <1>2, <1>3 DEF Refused, GateInv, FateInv

\* No call is handed to the server over a stop that has stood since its line
\* was read, on the repository or any folder named so far, and that reaches
\* the client (stop_refusal, _note_initialize, _decide), whatever is stopped
\* and resumed while the gateway looks and however lines and batches fall.
THEOREM StandingStopsRefuse == Spec => []StandingStopRefuses
BY GateHolds, GateRefuses, PTL

\* What the log has of a call is true of it, whichever entries are skipped at
\* level off or cannot be built or written; and of every call of every line
\* handled an allow or a block was due, and not both (_decide, _act, lines_for,
\* write).
THEOREM TheLogTells == Spec => []LogTellsTheFate
<1>1. GateInv => LogTellsTheFate
  BY DEF GateInv, FateInv, Told, True, LogTellsTheFate
<1> QED
  BY <1>1, GateHolds, PTL

-----------------------------------------------------------------------------
(* Whose answer a request has.  What is needed is where every request is:  *)
(* before the gateway, with it, on its way to the server, or answered, the *)
(* answer being in a pipe, in the hands of the server or of the thread, or *)
(* read.                                                                   *)

Reply == [ids : SUBSET (Nat \X Nat), by : {"gateway", "server"}]
Undecided == {"judge", "stop", "respond", "forward"}

ReplyInv ==
  /\ toServer \in Seq(Nat) /\ \A k \in 1 .. Len(toServer) : toServer[k] \in 1 .. cur
  /\ toClient \in Seq(Reply) /\ toPipe \in Seq(Reply) /\ says \in Reply /\ held \in Reply
  /\ server # "busy" => says = Note
  /\ pipe # "hold" => held = Note

\* What the gateway answers was not handed on and will not be.
OwnAnswer(a) ==
  a.by = "gateway" => \A r \in a.ids :
     r[1] \in 1 .. cur /\ r[1] \notin reached /\ (main \in Undecided => r[1] < cur)
OwnInv == \A a \in Answers : OwnAnswer(a)

\* Somebody has ended, or the gateway is about to.
Over ==
  \/ client = "gone" \/ server = "ended"
  \/ pipe \in {"dead", "closing", "done"} \/ main \in {"leave", "wait", "gone"}

Answered(n) == \E a \in Answers : Requests(n) \subseteq a.ids
HandedOn(n) == \E k \in 1 .. Len(toServer) : toServer[k] = n
OnItsWay(n) == n > cur \/ (n = cur /\ main \in Undecided) \/ HandedOn(n) \/ Answered(n)
KeptInv == Over \/ \A n \in 1 .. Len(sent) : OnItsWay(n)

PipesInv == pipe \in {"read", "hold", "dead", "closing", "done"} /\ ReplyInv /\ OwnInv /\ KeptInv

LEMMA NotesHaveNone == Note \in Reply /\ Note.ids = {} /\ Note.by = "server"
BY DEF Note, Reply

LEMMA RequestsAreOf ==
  ASSUME QueueInv, NEW n \in 1 .. Len(sent)
  PROVE  /\ Requests(n) \in SUBSET (Nat \X Nat) /\ \A r \in Requests(n) : r[1] = n
         /\ \A side \in {"gateway", "server"} : Answer(n, side) \in Reply
<1>1. n \in Nat /\ \A k \in DOMAIN sent[n].items : k \in Nat
  BY ItemsOfLine
<1>2. Requests(n) \in SUBSET (Nat \X Nat) /\ \A r \in Requests(n) : r[1] = n
  BY <1>1 DEF Requests
<1> QED
  BY <1>2 DEF Answer, Reply

LEMMA AnswersAre ==
  /\ \A a : a \in Answers <=> \/ a \in got \/ a = says \/ a = held
                              \/ \E k \in DOMAIN toClient : a = toClient[k]
                              \/ \E k \in DOMAIN toPipe : a = toPipe[k]
  /\ says \in Answers /\ held \in Answers
BY DEF Answers

\* A step that takes no answer away, and adds none of the gateway's own.
LEMMA AnswersKept ==
  ASSUME GateInv, PipesInv, UNCHANGED <<sent, cur, reached>>,
         \A a \in Answers' : a \in Answers \/ a.by = "server",
         \A a \in Answers : a \in Answers' \/ a.ids = {},
         \A n \in Nat : HandedOn(n) => HandedOn(n)' \/ Answered(n)',
         main' = main \/ Over' \/ (main = "next" /\ main' = "read")
           \/ (main \in Undecided /\ main' \in Undecided),
         main' \in Undecided => main \in Undecided,
         Over => Over'
  PROVE  OwnInv' /\ KeptInv'
<1>1. OwnInv'
  BY DEF PipesInv, OwnInv, OwnAnswer, Undecided
<1>2. ASSUME NEW n \in Nat PROVE Requests(n)' = Requests(n)
  BY DEF Requests
<1>3. ASSUME NEW n \in Nat, Answered(n) PROVE Answered(n)'
  <2> PICK a \in Answers : Requests(n) \subseteq a.ids
    BY <1>3 DEF Answered
  <2>1. CASE a \in Answers'
    BY <1>2, <2>1 DEF Answered
  <2>2. CASE a.ids = {}
    <3>1. Requests(n)' = {} /\ says' \in Answers'
      BY <1>2, <2>2 DEF Answers
    <3> QED
      BY <3>1 DEF Answered
  <2> QED
    BY <2>1, <2>2
<1>4. CASE Over'
  BY <1>1, <1>4 DEF KeptInv
<1>5. CASE ~Over'
  <2> SUFFICES ASSUME NEW n \in 1 .. Len(sent) PROVE OnItsWay(n)'
    BY <1>1 DEF KeptInv
  <2>1. OnItsWay(n) /\ n \in Nat
    BY <1>5 DEF PipesInv, KeptInv
  <2>2. main \in Undecided => main' \in Undecided
    BY <1>5 DEF Undecided
  <2> QED
    BY <1>3, <2>1, <2>2 DEF OnItsWay
<1> QED
  BY <1>1, <1>4, <1>5

LEMMA InitPipes == Init => PipesInv
<1> SUFFICES ASSUME Init PROVE PipesInv
  OBVIOUS
<1>1. /\ sent = <<>> /\ got = {} /\ toClient = <<>> /\ toServer = <<>> /\ toPipe = <<>>
      /\ says = Note /\ held = Note /\ pipe = "read"
  BY DEF Init
<1>2. ReplyInv
  BY <1>1, NotesHaveNone DEF ReplyInv
<1>3. OwnInv
  BY <1>1, NotesHaveNone DEF OwnInv, OwnAnswer, Answers
<1>4. KeptInv
  BY <1>1 DEF KeptInv
<1> QED
  BY <1>1, <1>2, <1>3, <1>4 DEF PipesInv

\* Who reads from a pipe takes its first answer and leaves the others.
LEMMA Taken ==
  ASSUME NEW S, NEW q \in Seq(S), q # <<>>
  PROVE  /\ Head(q) = q[1] /\ 1 \in DOMAIN q /\ Head(q) \in S /\ Tail(q) \in Seq(S)
         /\ \A k \in DOMAIN q : k = 1 \/ \E j \in DOMAIN Tail(q) : Tail(q)[j] = q[k]
         /\ \A j \in DOMAIN Tail(q) : \E k \in DOMAIN q : Tail(q)[j] = q[k]
<1>1. Len(q) >= 1 /\ Len(q) \in Nat
  OBVIOUS
<1>2. Tail(q) \in Seq(S) /\ \A j \in DOMAIN Tail(q) : Tail(q)[j] = q[j + 1] /\ j + 1 \in DOMAIN q
  OBVIOUS
<1>3. \A k \in DOMAIN q : k = 1 \/ (k - 1 \in DOMAIN Tail(q) /\ Tail(q)[k - 1] = q[k])
  OBVIOUS
<1>4. Head(q) = q[1] /\ 1 \in DOMAIN q /\ Head(q) \in S
  BY <1>1
<1>5. \A k \in DOMAIN q : k = 1 \/ \E j \in DOMAIN Tail(q) : Tail(q)[j] = q[k]
  BY <1>3, Zenon
<1>6. \A j \in DOMAIN Tail(q) : \E k \in DOMAIN q : Tail(q)[j] = q[k]
  BY <1>2, Zenon
<1> QED
  BY <1>2, <1>4, <1>5, <1>6, Zenon

\* Who writes to a pipe puts an answer behind the others.
LEMMA Put ==
  ASSUME NEW S, NEW q \in Seq(S), NEW e \in S
  PROVE  /\ Append(q, e) \in Seq(S)
         /\ \A k \in DOMAIN q : k \in DOMAIN Append(q, e) /\ Append(q, e)[k] = q[k]
         /\ Len(q) + 1 \in DOMAIN Append(q, e) /\ Append(q, e)[Len(q) + 1] = e
         /\ \A k \in DOMAIN Append(q, e) : k \in DOMAIN q \/ Append(q, e)[k] = e
<1>1. \A k \in DOMAIN q : k \in DOMAIN Append(q, e) /\ Append(q, e)[k] = q[k]
  OBVIOUS
<1>2. Len(q) + 1 \in DOMAIN Append(q, e) /\ Append(q, e)[Len(q) + 1] = e
  OBVIOUS
<1>3. \A k \in DOMAIN Append(q, e) : k \in DOMAIN q \/ Append(q, e)[k] = e
  OBVIOUS
<1> QED
  BY <1>1, <1>2, <1>3

LEMMA SendAnswers == ASSUME GateInv, PipesInv, NEW l \in Lines, Send(l) PROVE PipesInv'
<1> USE DEF Send, mainVars, judgeVars, pipeVars, serverVars
<1>1. /\ Len(sent') = Len(sent) + 1 /\ Len(sent) \in Nat /\ cur \in 0 .. Len(sent)
      /\ \A n \in 1 .. Len(sent) : sent'[n] = sent[n]
  BY DEF GateInv, QueueInv
<1>2. Answers' = Answers
  BY DEF Answers
<1>3. ReplyInv' /\ OwnInv'
  BY <1>2 DEF PipesInv, ReplyInv, OwnInv, OwnAnswer, Note
<1>4. KeptInv'
  <2>1. Over' = Over
    BY DEF Over
  <2>2. ASSUME NEW n \in 1 .. Len(sent), OnItsWay(n) PROVE OnItsWay(n)'
    <3>1. Requests(n)' = Requests(n)
      BY <1>1 DEF Requests
    <3> QED
      BY <1>2, <2>2, <3>1 DEF OnItsWay, Answered, HandedOn
  <2>3. ASSUME NEW n \in Nat, n > Len(sent) PROVE OnItsWay(n)'
    BY <1>1, <2>3 DEF OnItsWay, GateInv, QueueInv
  <2>4. CASE Over
    BY <2>1, <2>4 DEF KeptInv
  <2>5. CASE \A n \in 1 .. Len(sent) : OnItsWay(n)
    <3> SUFFICES ASSUME NEW n \in 1 .. Len(sent') PROVE OnItsWay(n)'
      BY DEF KeptInv
    <3>1. n \in Nat /\ (n > Len(sent) \/ n \in 1 .. Len(sent))
      BY <1>1
    <3> QED
      BY <2>2, <2>3, <2>5, <3>1
  <2> QED
    BY <2>4, <2>5 DEF PipesInv, KeptInv
<1> QED
  BY <1>3, <1>4 DEF PipesInv

\* The client reads an answer, or a note, which it need not keep.
LEMMA ClientAnswers == ASSUME GateInv, PipesInv, ClientReads \/ HangUp PROVE PipesInv'
<1> USE DEF mainVars, judgeVars, pipeVars, serverVars, clientVars
<1>1. CASE HangUp
  <2> USE <1>1 DEF HangUp
  <2>1. Answers' = Answers
    BY DEF Answers
  <2>2. ReplyInv' /\ OwnInv'
    BY <2>1 DEF PipesInv, ReplyInv, OwnInv, OwnAnswer, Note
  <2> QED
    BY <2>2 DEF PipesInv, KeptInv, Over
<1>2. CASE ClientReads
  <2> USE <1>2 DEF ClientReads
  <2>0. toClient \in Seq(Reply) /\ toClient # <<>> /\ toClient' = Tail(toClient)
    BY DEF PipesInv, ReplyInv
  <2>1. /\ toClient' \in Seq(Reply) /\ Head(toClient) = toClient[1] /\ 1 \in DOMAIN toClient
        /\ \A k \in DOMAIN toClient : k = 1 \/ \E j \in DOMAIN toClient' : toClient'[j] = toClient[k]
        /\ \A j \in DOMAIN toClient' : \E k \in DOMAIN toClient : toClient'[j] = toClient[k]
    BY <2>0, Taken
  <2>2. ReplyInv'
    BY <2>1 DEF PipesInv, ReplyInv, Note
  <2>3. /\ \A a \in got' : a \in got \/ a = toClient[1]
        /\ got \subseteq got' /\ (toClient[1].ids = {} \/ toClient[1] \in got')
    BY <2>1
  <2>4. UNCHANGED <<says, held, toPipe>>
    OBVIOUS
  <2>5. \A a \in Answers' : a \in Answers
    <3> SUFFICES ASSUME NEW a \in Answers' PROVE a \in Answers
      OBVIOUS
    <3>1. \/ a \in got' \/ a = says \/ a = held \/ \E k \in DOMAIN toClient' : a = toClient'[k]
          \/ \E k \in DOMAIN toPipe : a = toPipe[k]
      BY <2>4 DEF Answers
    <3> QED
      BY <2>1, <2>3, <3>1, AnswersAre
  <2>6. \A a \in Answers : a \in Answers' \/ a.ids = {}
    <3> SUFFICES ASSUME NEW a \in Answers PROVE a \in Answers' \/ a.ids = {}
      OBVIOUS
    <3>1. \/ a \in got' \/ a = says' \/ a = held' \/ a = toClient[1]
          \/ (\E k \in DOMAIN toClient' : a = toClient'[k]) \/ \E k \in DOMAIN toPipe' : a = toPipe'[k]
      BY <2>1, <2>3, <2>4, AnswersAre
    <3> QED
      BY <2>3, <3>1 DEF Answers
  <2>7. OwnInv' /\ KeptInv'
    BY <2>5, <2>6, AnswersKept DEF HandedOn, Over
  <2> QED
    BY <2>2, <2>7 DEF PipesInv
<1> QED
  BY <1>1, <1>2

\* The server takes a line and owes its answer, writes it, or ends.
LEMMA ServerAnswers ==
  ASSUME GateInv, PipesInv, ServerTakes \/ ServerNotes \/ ServerWrites \/ ServerEnds
  PROVE  PipesInv'
<1> USE DEF mainVars, judgeVars, pipeVars, serverVars, clientVars
<1>0. UNCHANGED <<sent, got, toClient, held, pipe, main, cur, reached, client>>
  BY DEF ServerTakes, ServerNotes, ServerWrites, ServerEnds
<1>1. CASE ServerTakes
  <2> USE <1>1 DEF ServerTakes
  <2>0. /\ toServer \in Seq(Nat) /\ toServer # <<>> /\ toServer' = Tail(toServer) /\ says = Note
        /\ toPipe' = toPipe /\ server = "idle"
    BY DEF PipesInv, ReplyInv
  <2>1. /\ toServer' \in Seq(Nat) /\ Head(toServer) = toServer[1] /\ 1 \in DOMAIN toServer
        /\ \A k \in DOMAIN toServer : k = 1 \/ \E j \in DOMAIN toServer' : toServer'[j] = toServer[k]
        /\ \A j \in DOMAIN toServer' : \E k \in DOMAIN toServer : toServer'[j] = toServer[k]
    BY <2>0, Taken
  <2>2. /\ says'.by = "server" /\ Requests(toServer[1]) \subseteq says'.ids
        /\ (server' # "busy" => says' = Note) /\ says' \in Reply
    <3>1. CASE Requests(toServer[1]) = {}
      BY <2>0, <2>1, <3>1, NotesHaveNone
    <3>2. CASE Requests(toServer[1]) # {}
      <4>1. toServer[1] \in 1 .. Len(sent)
        BY <2>0, <2>1 DEF PipesInv, ReplyInv, GateInv, QueueInv
      <4>2. Answer(toServer[1], "server") \in Reply
        BY <4>1, RequestsAreOf DEF GateInv
      <4> QED
        BY <2>1, <3>2, <4>2 DEF Answer
    <3> QED
      BY <3>1, <3>2
  <2>3. ReplyInv'
    BY <1>0, <2>0, <2>1, <2>2 DEF PipesInv, ReplyInv, Note
  <2>4. /\ \A a \in Answers' : a \in Answers \/ a = says'
        /\ \A a \in Answers : a \in Answers' \/ a = Note
    BY <1>0, <2>0 DEF Answers
  <2>5. says' \in Answers'
    BY DEF Answers
  <2>6. \A n \in Nat : HandedOn(n) => HandedOn(n)' \/ Answered(n)'
    <3> SUFFICES ASSUME NEW n \in Nat, NEW k \in DOMAIN toServer, toServer[k] = n
                 PROVE  HandedOn(n)' \/ Answered(n)'
      BY <2>0 DEF HandedOn
    <3>1. CASE k = 1
      <4>1. Requests(n)' \subseteq says'.ids
        BY <1>0, <2>2, <3>1 DEF Requests
      <4> QED
        BY <2>5, <4>1 DEF Answered
    <3>2. CASE \E j \in DOMAIN toServer' : toServer'[j] = n
      BY <2>1, <3>2 DEF HandedOn
    <3> QED
      BY <2>1, <3>1, <3>2
  <2>7. OwnInv' /\ KeptInv'
    BY <1>0, <2>0, <2>2, <2>4, <2>6, NotesHaveNone, AnswersKept DEF Over
  <2> QED
    BY <1>0, <2>3, <2>7 DEF PipesInv
<1>2. CASE ServerNotes \/ ServerEnds
  <2> USE <1>2 DEF ServerNotes, ServerEnds
  <2>1. /\ says' = Note /\ UNCHANGED <<toServer, toPipe>> /\ (server' = "ended" \/ says = Note)
        /\ (server' = "busy" \/ server' = "ended") /\ (server = "ended" => server' = "ended")
    BY DEF PipesInv, ReplyInv
  <2>2. ReplyInv'
    BY <1>0, <2>1, NotesHaveNone DEF PipesInv, ReplyInv, Note
  <2>3. \A a \in Answers' : a \in Answers \/ a = Note
    BY <1>0, <2>1 DEF Answers
  <2>4. CASE server' = "ended"
    <3>1. OwnInv'
      BY <1>0, <2>3, NotesHaveNone DEF PipesInv, OwnInv, OwnAnswer
    <3> QED
      BY <1>0, <2>2, <2>4, <3>1 DEF PipesInv, KeptInv, Over
  <2>5. CASE says = Note
    <3>1. Answers' = Answers
      BY <1>0, <2>1, <2>5 DEF Answers
    <3>2. OwnInv' /\ KeptInv'
      BY <1>0, <2>1, <3>1, AnswersKept DEF HandedOn, Over
    <3> QED
      BY <1>0, <2>2, <3>2 DEF PipesInv
  <2> QED
    BY <2>1, <2>4, <2>5
<1>3. CASE ServerWrites
  <2> USE <1>3 DEF ServerWrites
  <2>0. /\ says' = Note /\ server' = "idle" /\ server = "busy" /\ toPipe' = Append(toPipe, says)
        /\ toServer' = toServer /\ toPipe \in Seq(Reply) /\ says \in Reply
    BY DEF PipesInv, ReplyInv
  <2>1. /\ toPipe' \in Seq(Reply)
        /\ \A k \in DOMAIN toPipe : k \in DOMAIN toPipe' /\ toPipe'[k] = toPipe[k]
        /\ Len(toPipe) + 1 \in DOMAIN toPipe' /\ toPipe'[Len(toPipe) + 1] = says
        /\ \A k \in DOMAIN toPipe' : k \in DOMAIN toPipe \/ toPipe'[k] = says
    BY <2>0, Put
  <2>2. ReplyInv'
    BY <1>0, <2>0, <2>1, NotesHaveNone DEF PipesInv, ReplyInv, Note
  <2>3. \A a \in Answers' : a \in Answers \/ a = Note
    <3> SUFFICES ASSUME NEW a \in Answers' PROVE a \in Answers \/ a = Note
      OBVIOUS
    <3>1. \/ a \in got \/ a = Note \/ a = held \/ \E k \in DOMAIN toClient : a = toClient[k]
          \/ \E k \in DOMAIN toPipe' : a = toPipe'[k]
      BY <1>0, <2>0 DEF Answers
    <3> QED
      BY <2>1, <3>1, AnswersAre
  <2>4. \A a \in Answers : a \in Answers'
    <3> SUFFICES ASSUME NEW a \in Answers PROVE a \in Answers'
      OBVIOUS
    <3>1. \/ a \in got' \/ a = held' \/ (\E k \in DOMAIN toClient' : a = toClient'[k])
          \/ \E k \in DOMAIN toPipe' : a = toPipe'[k]
      BY <1>0, <2>1, AnswersAre
    <3> QED
      BY <3>1 DEF Answers
  <2>5. OwnInv' /\ KeptInv'
    BY <1>0, <2>0, <2>3, <2>4, NotesHaveNone, AnswersKept DEF HandedOn, Over
  <2> QED
    BY <1>0, <2>2, <2>5 DEF PipesInv
<1> QED
  BY <1>1, <1>2, <1>3

\* The thread takes a line of the server's, writes it, or ends.
LEMMA PipeAnswers == ASSUME GateInv, PipesInv, Pipe PROVE PipesInv'
<1> USE DEF mainVars, judgeVars, serverVars, clientVars
<1>0. UNCHANGED <<sent, got, toServer, says, server, main, cur, reached, client>>
  BY DEF Pipe, PipeTakes, PipeWrites, PipeBreaks, PipeEnds, PipeCloses
<1>1. CASE PipeTakes
  <2> USE <1>1 DEF PipeTakes
  <2>0. /\ toPipe \in Seq(Reply) /\ toPipe # <<>> /\ toPipe' = Tail(toPipe) /\ held' = Head(toPipe)
        /\ held = Note /\ toClient' = toClient /\ pipe = "read" /\ pipe' = "hold"
    BY DEF PipesInv, ReplyInv
  <2>1. /\ toPipe' \in Seq(Reply) /\ held' = toPipe[1] /\ 1 \in DOMAIN toPipe /\ held' \in Reply
        /\ \A k \in DOMAIN toPipe : k = 1 \/ \E j \in DOMAIN toPipe' : toPipe'[j] = toPipe[k]
        /\ \A j \in DOMAIN toPipe' : \E k \in DOMAIN toPipe : toPipe'[j] = toPipe[k]
    BY <2>0, Taken
  <2>2. ReplyInv'
    BY <1>0, <2>0, <2>1 DEF PipesInv, ReplyInv, Note
  <2>3. \A a \in Answers' : a \in Answers
    <3> SUFFICES ASSUME NEW a \in Answers' PROVE a \in Answers
      OBVIOUS
    <3>1. \/ a \in got \/ a = says \/ a = toPipe[1] \/ \E k \in DOMAIN toClient : a = toClient[k]
          \/ \E k \in DOMAIN toPipe' : a = toPipe'[k]
      BY <1>0, <2>0, <2>1 DEF Answers
    <3> QED
      BY <2>1, <3>1, AnswersAre
  <2>4. \A a \in Answers : a \in Answers' \/ a.ids = {}
    <3> SUFFICES ASSUME NEW a \in Answers PROVE a \in Answers' \/ a.ids = {}
      OBVIOUS
    <3>1. \/ a \in got' \/ a = says' \/ a = Note \/ a = held' \/ (\E k \in DOMAIN toClient' : a = toClient'[k])
          \/ \E k \in DOMAIN toPipe' : a = toPipe'[k]
      BY <1>0, <2>0, <2>1, AnswersAre
    <3> QED
      BY <3>1, NotesHaveNone DEF Answers
  <2>5. OwnInv' /\ KeptInv'
    BY <1>0, <2>0, <2>3, <2>4, AnswersKept DEF HandedOn, Over
  <2> QED
    BY <2>0, <2>2, <2>5 DEF PipesInv
<1>2. CASE PipeWrites
  <2> USE <1>2 DEF PipeWrites
  <2>0. /\ toClient \in Seq(Reply) /\ held \in Reply /\ toClient' = Append(toClient, held) /\ held' = Note
        /\ toPipe' = toPipe /\ pipe = "hold" /\ pipe' = "read"
    BY DEF PipesInv, ReplyInv
  <2>1. /\ toClient' \in Seq(Reply)
        /\ \A k \in DOMAIN toClient : k \in DOMAIN toClient' /\ toClient'[k] = toClient[k]
        /\ Len(toClient) + 1 \in DOMAIN toClient' /\ toClient'[Len(toClient) + 1] = held
        /\ \A k \in DOMAIN toClient' : k \in DOMAIN toClient \/ toClient'[k] = held
    BY <2>0, Put
  <2>2. ReplyInv'
    BY <1>0, <2>0, <2>1, NotesHaveNone DEF PipesInv, ReplyInv, Note
  <2>3. \A a \in Answers' : a \in Answers \/ a = Note
    <3> SUFFICES ASSUME NEW a \in Answers' PROVE a \in Answers \/ a = Note
      OBVIOUS
    <3>1. \/ a \in got \/ a = says \/ a = Note \/ \E k \in DOMAIN toClient' : a = toClient'[k]
          \/ \E k \in DOMAIN toPipe : a = toPipe[k]
      BY <1>0, <2>0 DEF Answers
    <3> QED
      BY <2>1, <3>1, AnswersAre
  <2>4. \A a \in Answers : a \in Answers'
    <3> SUFFICES ASSUME NEW a \in Answers PROVE a \in Answers'
      OBVIOUS
    <3>1. \/ a \in got' \/ a = says' \/ (\E k \in DOMAIN toClient' : a = toClient'[k])
          \/ \E k \in DOMAIN toPipe' : a = toPipe'[k]
      BY <1>0, <2>0, <2>1, AnswersAre
    <3> QED
      BY <3>1 DEF Answers
  <2>5. OwnInv' /\ KeptInv'
    BY <1>0, <2>0, <2>3, <2>4, NotesHaveNone, AnswersKept DEF HandedOn, Over
  <2> QED
    BY <2>0, <2>2, <2>5 DEF PipesInv
<1>3. CASE PipeBreaks \/ PipeEnds \/ PipeCloses
  <2> USE <1>3 DEF PipeBreaks, PipeEnds, PipeCloses
  <2>1. /\ UNCHANGED <<toClient, toPipe>> /\ pipe' \in {"dead", "closing", "done"}
        /\ held' = held \/ held' = Note
    OBVIOUS
  <2>2. held' = Note
    BY <2>1 DEF PipesInv, ReplyInv
  <2>3. ReplyInv'
    BY <1>0, <2>1, <2>2, NotesHaveNone DEF PipesInv, ReplyInv, Note
  <2>4. \A a \in Answers' : a \in Answers \/ a = Note
    BY <1>0, <2>1, <2>2 DEF Answers
  <2>5. OwnInv'
    BY <1>0, <2>4, NotesHaveNone DEF PipesInv, OwnInv, OwnAnswer
  <2> QED
    BY <2>1, <2>3, <2>5 DEF PipesInv, KeptInv, Over
<1> QED
  BY <1>1, <1>2, <1>3 DEF Pipe

\* The main thread reads the next line, which it has yet to decide.
LEMMA ReadAnswers == ASSUME GateInv, PipesInv, Read PROVE PipesInv'
<1> USE DEF Read, Outside, serverVars, clientVars, pipeVars
<1>1. cur' = cur + 1 /\ cur \in Nat
  BY DEF GateInv, QueueInv
<1>2. /\ UNCHANGED <<sent, got, toClient, toServer, toPipe, says, held, server, pipe, client, reached>>
      /\ main = "read" /\ main' \in {"leave", "judge"}
  OBVIOUS
<1>3. ReplyInv'
  BY <1>1, <1>2 DEF PipesInv, ReplyInv, Note
<1>4. Answers' = Answers
  BY <1>2 DEF Answers
<1>5. OwnInv'
  BY <1>1, <1>2, <1>4 DEF PipesInv, OwnInv, OwnAnswer
<1>6. CASE Over'
  BY <1>2, <1>3, <1>5, <1>6 DEF PipesInv, KeptInv
<1>7. CASE ~Over'
  <2>1. main' = "judge" /\ ~Over
    BY <1>2, <1>7 DEF Over
  <2>2. ASSUME NEW n \in 1 .. Len(sent) PROVE OnItsWay(n)'
    <3>1. OnItsWay(n) /\ n \in Nat
      BY <2>1 DEF PipesInv, KeptInv
    <3>2. Requests(n)' = Requests(n)
      BY <1>2 DEF Requests
    <3> QED
      BY <1>1, <1>2, <1>4, <2>1, <3>1, <3>2 DEF OnItsWay, Answered, HandedOn, Undecided
  <2> QED
    BY <1>2, <1>3, <1>5, <2>2 DEF PipesInv, KeptInv
<1> QED
  BY <1>6, <1>7

\* The line is handed on, answered, or found to have no request.
LEMMA CarriesOut ==
  ASSUME GateInv, PipesInv, Decides \/ Responds \/ RespondBreaks \/ Forwards \/ ForwardFails
  PROVE  PipesInv'
<1> USE DEF Apart, Outside, serverVars, clientVars, pipeVars, judgeVars
<1>0. /\ UNCHANGED <<sent, got, toPipe, says, held, server, pipe, client, cur>>
      /\ main \in Undecided /\ main' \in {"respond", "forward", "log"}
  BY DEF Decides, Responds, RespondBreaks, Forwards, ForwardFails, Undecided
<1>1. cur \in 1 .. Len(sent) /\ cur \in Nat
  BY <1>0, CurIsALine DEF GateInv, PlaceInv, QueueInv, Undecided, Working
<1>2. /\ Requests(cur) \in SUBSET (Nat \X Nat) /\ \A r \in Requests(cur) : r[1] = cur
      /\ Errors \in Reply /\ Errors.ids = Requests(cur) /\ Errors.by = "gateway"
  BY <1>1, RequestsAreOf DEF GateInv, Errors, Answer
<1>3. \A n : Requests(n)' = Requests(n)
  BY <1>0 DEF Requests
<1>4. ASSUME \A a \in Answers : a \in Answers',
             \A n \in Nat : HandedOn(n) => HandedOn(n)',
             Over' \/ main' \in Undecided \/ HandedOn(cur)' \/ Answered(cur)'
      PROVE  KeptInv'
  <2>1. CASE Over
    BY <1>0, <2>1 DEF KeptInv, Over, Undecided
  <2>2. CASE Over'
    BY <2>2 DEF KeptInv
  <2>3. CASE ~Over /\ ~Over'
    <3> SUFFICES ASSUME NEW n \in 1 .. Len(sent) PROVE OnItsWay(n)'
      BY <1>0 DEF KeptInv
    <3>1. OnItsWay(n) /\ n \in Nat
      BY <2>3 DEF PipesInv, KeptInv
    <3>2. CASE n > cur
      BY <1>0, <3>2 DEF OnItsWay
    <3>3. CASE n = cur
      BY <1>0, <1>4, <2>3, <3>3 DEF OnItsWay
    <3>4. CASE HandedOn(n)
      BY <1>4, <3>4 DEF OnItsWay, HandedOn
    <3>5. CASE Answered(n)
      BY <1>3, <1>4, <3>5 DEF OnItsWay, Answered
    <3> QED
      BY <3>1, <3>2, <3>3, <3>4, <3>5 DEF OnItsWay
  <2> QED
    BY <2>1, <2>2, <2>3
<1>5. CASE Decides \/ RespondBreaks \/ ForwardFails
  <2> USE <1>5 DEF Decides, RespondBreaks, ForwardFails
  <2>1. /\ UNCHANGED <<toClient, toServer, reached>>
        /\ \/ main' \in {"respond", "forward"} \/ Errors.ids = {}
           \/ client = "gone" \/ server = "ended"
    OBVIOUS
  <2>2. Answers' = Answers
    BY <1>0, <2>1 DEF Answers
  <2>3. ReplyInv'
    BY <1>0, <2>1 DEF PipesInv, ReplyInv, Note
  <2>4. OwnInv'
    BY <1>0, <2>1, <2>2 DEF PipesInv, OwnInv, OwnAnswer
  <2>5. Errors.ids = {} => Answered(cur)'
    <3>1. says \in Answers'
      BY <2>2, AnswersAre
    <3> QED
      BY <1>0, <1>2, <1>3, <3>1 DEF Answered
  <2>6. KeptInv'
    BY <1>0, <1>4, <2>1, <2>2, <2>5 DEF Over, Undecided, HandedOn
  <2> QED
    BY <1>0, <2>3, <2>4, <2>6 DEF PipesInv
<1>6. CASE Responds
  <2> USE <1>6 DEF Responds
  <2>0. /\ toClient \in Seq(Reply) /\ toClient' = Append(toClient, Errors)
        /\ UNCHANGED <<toServer, reached>> /\ main = "respond" /\ main' = "log"
    BY DEF PipesInv, ReplyInv
  <2>1. /\ toClient' \in Seq(Reply)
        /\ \A k \in DOMAIN toClient : k \in DOMAIN toClient' /\ toClient'[k] = toClient[k]
        /\ Len(toClient) + 1 \in DOMAIN toClient' /\ toClient'[Len(toClient) + 1] = Errors
        /\ \A k \in DOMAIN toClient' : k \in DOMAIN toClient \/ toClient'[k] = Errors
    BY <1>2, <2>0, Put
  <2>2. ReplyInv'
    BY <1>0, <2>0, <2>1 DEF PipesInv, ReplyInv, Note
  <2>3. \A a \in Answers' : a \in Answers \/ a = Errors
    <3> SUFFICES ASSUME NEW a \in Answers' PROVE a \in Answers \/ a = Errors
      OBVIOUS
    <3>1. \/ a \in got \/ a = says \/ a = held \/ \E k \in DOMAIN toClient' : a = toClient'[k]
          \/ \E k \in DOMAIN toPipe : a = toPipe[k]
      BY <1>0 DEF Answers
    <3> QED
      BY <2>1, <3>1, AnswersAre
  <2>4. \A a \in Answers : a \in Answers'
    <3> SUFFICES ASSUME NEW a \in Answers PROVE a \in Answers'
      OBVIOUS
    <3>1. \/ a \in got' \/ a = says' \/ a = held' \/ (\E k \in DOMAIN toClient' : a = toClient'[k])
          \/ \E k \in DOMAIN toPipe' : a = toPipe'[k]
      BY <1>0, <2>1, AnswersAre
    <3> QED
      BY <3>1 DEF Answers
  <2>5. Errors \in Answers'
    BY <2>1 DEF Answers
  <2>6. OwnInv'
    <3>1. cur \notin reached
      BY <2>0 DEF GateInv, FateInv
    <3>2. \A r \in Errors.ids : r[1] \in 1 .. cur /\ r[1] \notin reached
      BY <1>1, <1>2, <3>1
    <3> QED
      BY <1>0, <2>0, <2>3, <3>2 DEF PipesInv, OwnInv, OwnAnswer, Undecided
  <2>7. Answered(cur)'
    BY <1>0, <1>2, <1>3, <2>5 DEF Answered
  <2>8. KeptInv'
    BY <1>4, <2>0, <2>4, <2>7 DEF HandedOn
  <2> QED
    BY <1>0, <2>2, <2>6, <2>8 DEF PipesInv
<1>7. CASE Forwards
  <2> USE <1>7 DEF Forwards
  <2>0. /\ toServer \in Seq(Nat) /\ toServer' = Append(toServer, cur) /\ toClient' = toClient
        /\ reached' = reached \cup {cur} /\ main = "forward" /\ main' = "log"
    BY DEF PipesInv, ReplyInv
  <2>1. /\ toServer' \in Seq(Nat)
        /\ \A k \in DOMAIN toServer : k \in DOMAIN toServer' /\ toServer'[k] = toServer[k]
        /\ Len(toServer) + 1 \in DOMAIN toServer' /\ toServer'[Len(toServer) + 1] = cur
        /\ \A k \in DOMAIN toServer' : k \in DOMAIN toServer \/ toServer'[k] = cur
    BY <1>1, <2>0, Put
  <2>2. ReplyInv'
    <3>1. \A k \in 1 .. Len(toServer') : toServer'[k] \in 1 .. cur
      BY <1>1, <2>0, <2>1 DEF PipesInv, ReplyInv
    <3> QED
      BY <1>0, <2>0, <2>1, <3>1 DEF PipesInv, ReplyInv, Note
  <2>3. Answers' = Answers
    BY <1>0, <2>0 DEF Answers
  <2>4. OwnInv'
    <3>1. ASSUME NEW a \in Answers, a.by = "gateway", NEW r \in a.ids
          PROVE  r[1] \in 1 .. cur /\ r[1] \notin reached /\ r[1] < cur
      BY <2>0, <3>1 DEF PipesInv, OwnInv, OwnAnswer, Undecided
    <3> QED
      BY <1>0, <1>1, <2>0, <2>3, <3>1 DEF OwnInv, OwnAnswer, Undecided
  <2>5. HandedOn(cur)' /\ \A n \in Nat : HandedOn(n) => HandedOn(n)'
    BY <1>0, <2>0, <2>1 DEF HandedOn
  <2>6. KeptInv'
    BY <1>4, <2>3, <2>5
  <2> QED
    BY <1>0, <2>2, <2>4, <2>6 DEF PipesInv
<1> QED
  BY <1>5, <1>6, <1>7

\* The rest of the main thread's work is between the pipes.
LEMMA ElseAnswers ==
  ASSUME GateInv, PipesInv,
         \/ AsksForLine \/ ReadsEnd \/ JudgeOther \/ JudgeBadCall \/ BeginStopCheck
         \/ LooksAtStop \/ StopCheckFails \/ JudgeByGates \/ Logs \/ Leaves \/ Gone
  PROVE  PipesInv'
<1> USE DEF Apart, Outside, serverVars, clientVars, pipeVars, judgeVars
<1>0. /\ UNCHANGED <<sent, got, toClient, toServer, toPipe, held, pipe, client, cur, reached>>
      /\ \/ UNCHANGED <<says, server>>
         \/ says' = Note /\ server' = "ended" /\ main' = "gone"
  BY DEF AsksForLine, ReadsEnd, JudgeOther, JudgeBadCall, BeginStopCheck, LooksAtStop,
         StopCheckFails, JudgeByGates, Logs, Leaves, Gone
<1>1. /\ main \in Undecided => main' \in Undecided
      /\ main' \in Undecided => main \in Undecided
      /\ main \in {"leave", "wait", "gone"} => main' \in {"leave", "wait", "gone"}
  BY DEF AsksForLine, ReadsEnd, JudgeOther, JudgeBadCall, BeginStopCheck, LooksAtStop,
         StopCheckFails, JudgeByGates, Logs, Leaves, Gone, Undecided
<1>2. ReplyInv'
  BY <1>0, NotesHaveNone DEF PipesInv, ReplyInv, Note
<1>3. \A a \in Answers' : a \in Answers \/ a = Note
  BY <1>0 DEF Answers
<1>4. OwnInv'
  BY <1>0, <1>1, <1>3, NotesHaveNone DEF PipesInv, OwnInv, OwnAnswer
<1>5. CASE Over'
  BY <1>0, <1>2, <1>4, <1>5 DEF PipesInv, KeptInv
<1>6. CASE ~Over'
  <2>1. UNCHANGED <<says, server>> /\ ~Over
    BY <1>0, <1>1, <1>6 DEF Over
  <2>2. Answers' = Answers
    BY <1>0, <2>1 DEF Answers
  <2>3. ASSUME NEW n \in 1 .. Len(sent) PROVE OnItsWay(n)'
    <3>1. OnItsWay(n)
      BY <2>1 DEF PipesInv, KeptInv
    <3>2. Requests(n)' = Requests(n)
      BY <1>0 DEF Requests
    <3> QED
      BY <1>0, <1>1, <2>2, <3>1, <3>2 DEF OnItsWay, Answered, HandedOn
  <2> QED
    BY <1>0, <1>2, <1>4, <2>3 DEF PipesInv, KeptInv
<1> QED
  BY <1>5, <1>6

LEMMA StillAnswers ==
  ASSUME PipesInv, UNCHANGED <<clientVars, toClient, toServer, toPipe, serverVars, mainVars, pipeVars>>
  PROVE  PipesInv'
<1> USE DEF serverVars, clientVars, pipeVars, mainVars, judgeVars
<1>1. Answers' = Answers
  BY DEF Answers
<1>2. \A n : Requests(n)' = Requests(n)
  BY DEF Requests
<1>3. ReplyInv' /\ OwnInv'
  BY <1>1 DEF PipesInv, ReplyInv, OwnInv, OwnAnswer, Note
<1>4. KeptInv'
  <2>1. Over' = Over /\ \A n : OnItsWay(n)' = OnItsWay(n)
    BY <1>1, <1>2 DEF Over, OnItsWay, Answered, HandedOn
  <2> QED
    BY <2>1 DEF PipesInv, KeptInv
<1> QED
  BY <1>3, <1>4 DEF PipesInv

LEMMA StepPipes == GateInv /\ PipesInv /\ [Next]_vars => PipesInv'
<1> SUFFICES ASSUME GateInv, PipesInv, [Next]_vars PROVE PipesInv'
  OBVIOUS
<1>1. CASE \E l \in Lines : Send(l)
  BY <1>1, SendAnswers
<1>2. CASE \E s \in Stops : Stop(s) \/ Resume(s)
  BY <1>2, StillAnswers DEF Stop, Resume
<1>3. CASE ClientReads \/ HangUp \/ ServerTakes \/ ServerNotes \/ ServerWrites \/ ServerEnds
  BY <1>3, ClientAnswers, ServerAnswers
<1>4. CASE Pipe
  BY <1>4, PipeAnswers
<1>5. CASE Main
  BY <1>5, ReadAnswers, CarriesOut, ElseAnswers DEF Main
<1>6. CASE UNCHANGED vars
  BY <1>6, StillAnswers DEF vars
<1> QED
  BY <1>1, <1>2, <1>3, <1>4, <1>5, <1>6 DEF Next

\* Where everybody alive is idle, an answer can only be with the client.
LEMMA AnswersAreRead == GateInv /\ PipesInv => AnsweredOnce
<1> SUFFICES ASSUME GateInv, PipesInv PROVE AnsweredOnce
  OBVIOUS
<1>1. \A a \in Answers : a.by = "gateway" => \A r \in a.ids : r[1] \notin reached
  BY DEF PipesInv, OwnInv, OwnAnswer
<1>2. ASSUME main = "read", toGate = <<>>, pipe = "read", server = "idle",
             toServer = <<>>, toPipe = <<>>, toClient = <<>>, client = "open",
             NEW n \in DOMAIN sent
      PROVE  \E a \in got \cup {Note} : Requests(n) \subseteq a.ids
  <2>1. n \in 1 .. Len(sent) /\ n \in Nat /\ Len(sent) = cur
    BY <1>2 DEF GateInv, QueueInv
  <2>2. OnItsWay(n)
    BY <1>2, <2>1 DEF PipesInv, KeptInv, Over
  <2>3. Answered(n)
    BY <1>2, <2>1, <2>2 DEF OnItsWay, HandedOn, Undecided
  <2>4. Answers = got \cup {Note}
    BY <1>2 DEF Answers, PipesInv, ReplyInv
  <2> QED
    BY <2>3, <2>4 DEF Answered
<1> QED
  BY <1>1, <1>2 DEF AnsweredOnce

\* No request is answered by both sides, and none is forgotten: when the gateway
\* waits for a line and everybody alive is idle, the client has read an answer
\* to every request it ever sent (_decide, _act, _pipe_downstream).
THEOREM RequestsAreAnswered == Spec => []AnsweredOnce
<1>1. Spec => []PipesInv
  BY InitPipes, StepPipes, GateHolds, PTL DEF Spec
<1> QED
  BY <1>1, GateHolds, AnswersAreRead, PTL

=============================================================================
