---------------------------- MODULE MC_RunBroker ----------------------------
(* RunBroker on small instances: what is enqueued, and by whom it is served. *)
EXTENDS RunBroker, TLC

CONSTANTS w1, w2, t1, a1, p1, s1, s2, h1, h2

\* A task run whose agent writes to the task's page, and chats of two sessions
\* with the same agent: the rows that can meet in the unique index.
TaskRun    == [task |-> t1, agent |-> a1, page |-> None, session |-> None]
ChatRun(s) == [task |-> None, agent |-> a1, page |-> None, session |-> s]

MixedRequests == {TaskRun, ChatRun(s1)}

\* The agent's profile names no host; the worker that names another one exists
\* in the instances with two hosts.
Anywhere == [a \in {a1, None} |-> None]
OnHostOne == [a \in {a1, None} |-> IF a = a1 THEN h1 ELSE None]
OneHost == [w \in Workers |-> h1]
TwoHosts == [w \in Workers |-> IF w = w1 THEN h1 ELSE h2]
\* Workers of one machine are interchangeable.
WorkerSymmetry == Permutations(Workers)
PageOfTask == [t \in {t1} |-> p1]
=============================================================================
