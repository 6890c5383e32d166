--------------------------- MODULE MC_Dispatcher ---------------------------
(* Dispatcher on small instances: one server process, one or two agents.     *)
EXTENDS Dispatcher

CONSTANTS w1, a1, a2, s1, s2, h1

Chat(a, s) == [task |-> None, agent |-> a, page |-> None, session |-> s]

\* Two chats of one agent compete for its slots; the chats of two agents do not.
OneAgent  == {Chat(a1, s1), Chat(a1, s2)}
TwoAgents == OneAgent \cup {Chat(a2, s2)}

Anywhere == [a \in {a1, a2, None} |-> None]
OneHost == [w \in Workers |-> h1]
NoPages == [t \in {} |-> None]
\* Agents.ts: maxConcurrentRuns defaults to 1; room for both slots that the runs of an agent without its profile leak.
RoomToLeak == [a \in Agents |-> IF a = a2 THEN 2 ELSE 1]
=============================================================================
