------------------------------ MODULE MCGateway ------------------------------
(***************************************************************************)
(* Gateway for TLC: two clients, a stop of one of them in the repository   *)
(* and one of everybody in a folder, and batches that initialize, call and *)
(* notify.                                                                 *)
(***************************************************************************)
EXTENDS Gateway

CONSTANTS here, there, codex, claude

Element(kind, id, who, folders, fires) ==
  [kind |-> kind, id |-> id, client |-> who, roots |-> folders, fires |-> fires]
Hello(who, folders) == Element("init", TRUE, who, folders, {})
Call(fires) == Element("call", TRUE, NoClient, <<>>, fires)
Notice(kind, fires) == Element(kind, FALSE, NoClient, <<>>, fires)

Batch(is) == [items |-> is, batch |-> TRUE]

MCGates == <<"ask", "warn">>
MCStops == {[place |-> here, scope |-> codex], [place |-> there, scope |-> Everyone]}
\* A batch refused for its notification, one that is handed on, and one of
\* notifications alone, whose refusal nobody is told of.
MCLines ==
  {Batch(<<Hello(codex, <<there>>), Notice("badcall", {})>>),
   Batch(<<Hello(claude, <<>>), Call({2})>>),
   Batch(<<Notice("call", {1}), Notice("call", {})>>)}

=============================================================================
