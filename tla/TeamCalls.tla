----------------------------- MODULE TeamCalls -----------------------------
(***************************************************************************)
(* runTeamToolOnce (lib/teams/reliability.ts): the record that keeps a tool *)
(* call of a team member from running twice.                                *)
(*                                                                         *)
(* The client of an agent may give up on a call and make it again while     *)
(* the first is still running, so the handlers of one key overlap.  A       *)
(* handler reserves the key, runs the effect and records its answer in      *)
(* three statements, and its process may die, or a statement throw, between *)
(* any two of them.  What an effect writes is TeamBoard's; here it commits, *)
(* or throws.  A call with a repeat window is another key in every window.  *)
(***************************************************************************)
EXTENDS Integers

CONSTANTS
  Nil,
  Keys,         \* (slot, tool, task, fingerprint)
  Requests,     \* requests served at once
  MaxFailures,  \* bound: handlers that die and statements that throw
  MaxPauses     \* bound: handlers that outlast the lease of their reservation

\* team_tool_calls: the answer of a call, once it is done, and whether the lease has passed.
Record == [done : BOOLEAN, answer : Nat, aged : BOOLEAN]

ASSUME CallsAssumption ==
  Nil \notin Keys /\ Nil \notin Record /\ {MaxFailures, MaxPauses} \subseteq Nat

VARIABLES
  calls,    \* team_tool_calls: the row of each key, or Nil
  handler,  \* the handlers
  wants,    \* the calls an agent has made and has had no answer to
  told,     \* history: the answers an agent was given to each call
  ran,      \* history: how often the effect of each call committed
  failed,   \* history: the handlers of each call that died or threw while they held it
  failures, pauses

callVars == <<calls, handler, wants, told, ran, failed, failures, pauses>>

\* The answer of an effect is the number of its commit: no two runs answer alike.
Verdict == {"ok", "duplicate", "error"}
Reserved == [done |-> FALSE, answer |-> 0, aged |-> FALSE]
Free == [pc |-> "idle", key |-> Nil, verdict |-> "ok", answer |-> 0]
\* What a handler does while it holds the reservation of its key.
Holding == {"effect", "record", "undo"}

Job == [pc : {"idle", "conflict", "takeover", "answer"} \cup Holding,
        key : Keys \cup {Nil}, verdict : Verdict, answer : Nat]

Recorded(k) == calls[k] # Nil /\ calls[k].done
InProgress(k) == calls[k] # Nil /\ ~calls[k].done
Holds(h, k) == handler[h].key = k /\ handler[h].pc \in Holding

CallsTypeOK ==
  /\ calls \in [Keys -> Record \cup {Nil}]
  /\ handler \in [Requests -> Job]
  /\ \A h \in Requests : handler[h].pc # "idle" => handler[h].key \in Keys
  /\ wants \subseteq Keys
  /\ told \in [Keys -> SUBSET Nat]
  /\ ran \in [Keys -> Nat] /\ failed \in [Keys -> Nat]
  /\ failures \in 0..MaxFailures /\ pauses \in 0..MaxPauses

CallsInit ==
  /\ calls = [k \in Keys |-> Nil] /\ handler = [h \in Requests |-> Free]
  /\ wants = {} /\ told = [k \in Keys |-> {}]
  /\ ran = [k \in Keys |-> 0] /\ failed = [k \in Keys |-> 0]
  /\ failures = 0 /\ pauses = 0

-----------------------------------------------------------------------------
Moves(h, pc) == handler' = [handler EXCEPT ![h].pc = pc]
Reply(h, verdict, answer) ==
  handler' = [handler EXCEPT ![h].pc = "answer", ![h].verdict = verdict, ![h].answer = answer]

\* The INSERT reserves the key, or conflicts.
Reserve(h, k) ==
  /\ handler[h].pc = "idle"
  /\ calls' = [calls EXCEPT ![k] = IF @ = Nil THEN Reserved ELSE @]
  /\ handler' = [handler EXCEPT ![h] = [Free EXCEPT !.key = k, !.pc = IF calls[k] = Nil THEN "effect" ELSE "conflict"]]
  /\ UNCHANGED <<told, ran, failed, failures, pauses>>

AgentAsks(h, k) ==
  k \notin wants /\ wants' = wants \cup {k} /\ Reserve(h, k)

\* The agent heard nothing, or that its call is in flight.
AgentRetries(h, k) == k \in wants /\ Reserve(h, k) /\ UNCHANGED wants

\* The SELECT after the conflict: an answer on record is given again.
LookUp(h) ==
  /\ handler[h].pc = "conflict"
  /\ LET k == handler[h].key
     IN IF Recorded(k) THEN Reply(h, "ok", calls[k].answer) ELSE Moves(h, "takeover")
  /\ UNCHANGED <<calls, wants, told, ran, failed, failures, pauses>>

\* Altered: the takeover does not start the lease again.
TakeOver_KeepsLease(h) ==
  /\ handler[h].pc = "takeover"
  /\ LET k == handler[h].key
     IN IF InProgress(k) /\ calls[k].aged THEN Moves(h, "effect") ELSE Reply(h, "duplicate", 0)
  /\ UNCHANGED <<calls, wants, told, ran, failed, failures, pauses>>

\* Altered: the UPDATE of the takeover does not ask for the status.
TakeOver_AnyStatus(h) ==
  /\ handler[h].pc = "takeover"
  /\ LET k == handler[h].key
     IN IF calls[k] # Nil /\ calls[k].aged
          THEN calls' = [calls EXCEPT ![k] = Reserved] /\ Moves(h, "effect")
          ELSE Reply(h, "duplicate", 0) /\ UNCHANGED calls
  /\ UNCHANGED <<wants, told, ran, failed, failures, pauses>>

\* Altered: the reservation is a tombstone.
TakeOver_Never(h) ==
  /\ handler[h].pc = "takeover" /\ Reply(h, "duplicate", 0)
  /\ UNCHANGED <<calls, wants, told, ran, failed, failures, pauses>>

\* The guarded UPDATE: of the handlers that find a reservation whose lease has passed, the
\* first starts the lease again and runs the effect.
TakeOver(h) ==
  /\ handler[h].pc = "takeover"
  /\ LET k == handler[h].key
     IN IF InProgress(k) /\ calls[k].aged
          THEN calls' = [calls EXCEPT ![k].aged = FALSE] /\ Moves(h, "effect")
          ELSE Reply(h, "duplicate", 0) /\ UNCHANGED calls
  /\ UNCHANGED <<wants, told, ran, failed, failures, pauses>>

\* TEAM_SILENCE_MS pass since a reservation was made or taken over; that its handler is still
\* running by then takes a pause of the process.
LeasePasses(k) ==
  /\ calls[k] # Nil /\ ~calls[k].aged
  /\ calls' = [calls EXCEPT ![k].aged = TRUE]
  /\ IF \E h \in Requests : Holds(h, k) THEN pauses < MaxPauses /\ pauses' = pauses + 1
     ELSE UNCHANGED pauses
  /\ UNCHANGED <<handler, wants, told, ran, failed, failures>>

EffectCommits(h) ==
  /\ handler[h].pc = "effect"
  /\ LET k == handler[h].key
     IN /\ ran' = [ran EXCEPT ![k] = @ + 1]
        /\ handler' = [handler EXCEPT ![h].pc = "record", ![h].answer = ran[k] + 1]
  /\ UNCHANGED <<calls, wants, told, failed, failures, pauses>>

\* The UPDATE of the answer, whether or not the handler still holds the reservation.
Answered(k, answer) ==
  [calls EXCEPT ![k] = IF @ = Nil THEN Nil ELSE [@ EXCEPT !.done = TRUE, !.answer = answer]]

RecordAnswer(h) ==
  /\ handler[h].pc = "record" /\ calls' = Answered(handler[h].key, handler[h].answer)
  /\ Moves(h, "answer")
  /\ UNCHANGED <<wants, told, ran, failed, failures, pauses>>

\* The effect throws, or the statement that records its answer, be it that only its reply
\* was lost.
Throws(h) ==
  /\ handler[h].pc \in {"effect", "record"} /\ failures < MaxFailures
  /\ failures' = failures + 1 /\ failed' = [failed EXCEPT ![handler[h].key] = @ + 1]
  /\ calls' \in {calls} \cup (IF handler[h].pc = "record" THEN {Answered(handler[h].key, handler[h].answer)} ELSE {})
  /\ Moves(h, "undo")
  /\ UNCHANGED <<wants, told, ran, pauses>>

\* The catch deletes a reservation in progress, whoever holds it by now; a DELETE that fails
\* is swallowed.
Undo(h) ==
  /\ handler[h].pc = "undo" /\ Reply(h, "error", 0)
  /\ LET k == handler[h].key
     IN \/ calls' = [calls EXCEPT ![k] = IF InProgress(k) THEN Nil ELSE @] /\ UNCHANGED failures
        \/ failures < MaxFailures /\ failures' = failures + 1 /\ UNCHANGED calls
  /\ UNCHANGED <<wants, told, ran, failed, pauses>>

Answers(h) ==
  /\ handler[h].pc = "answer"
  /\ LET k == handler[h].key
     IN /\ wants' = IF handler[h].verdict = "duplicate" THEN wants ELSE wants \ {k}
        /\ told' = IF handler[h].verdict = "ok" THEN [told EXCEPT ![k] = @ \cup {handler[h].answer}] ELSE told
  /\ handler' = [handler EXCEPT ![h] = Free]
  /\ UNCHANGED <<calls, ran, failed, failures, pauses>>

\* The process dies: a reservation stays, and nobody is told.
HandlerDies(h) ==
  /\ handler[h].pc # "idle" /\ failures < MaxFailures /\ failures' = failures + 1
  /\ failed' = IF handler[h].pc \in Holding THEN [failed EXCEPT ![handler[h].key] = @ + 1] ELSE failed
  /\ handler' = [handler EXCEPT ![h] = Free]
  /\ UNCHANGED <<calls, wants, told, ran, pauses>>

Serves(h) == \/ LookUp(h) \/ TakeOver(h) \/ EffectCommits(h) \/ RecordAnswer(h) \/ Undo(h) \/ Answers(h)

CallsNext == \/ \E h \in Requests : \/ \E k \in Keys : AgentAsks(h, k) \/ AgentRetries(h, k)
                                    \/ Serves(h) \/ Throws(h) \/ HandlerDies(h)
             \/ \E k \in Keys : LeasePasses(k)

CallsSpec == CallsInit /\ [][CallsNext]_callVars

\* A handler that lives runs on; a lease passes with the clock; an agent without an answer
\* asks again once nothing of its call is running (the server turns no request away:
\* that all Requests are busy is a bound of the model).
CallsFairness ==
  /\ \A h \in Requests : WF_callVars(Serves(h))
  /\ \A k \in Keys : /\ WF_callVars(LeasePasses(k) /\ ~\E h \in Requests : Holds(h, k))
                     /\ SF_callVars((\A h \in Requests : handler[h].key # k) /\ \E h \in Requests : AgentRetries(h, k))
CallsFairSpec == CallsSpec /\ CallsFairness

-----------------------------------------------------------------------------
\* However often an agent repeats a call, in handlers that overlap, its effect commits a
\* second time only if a handler died or threw while it held the call (while no handler
\* outlasts its lease: MaxPauses = 0, the reason the code gives for the length of the lease).
EffectOnce == \A k \in Keys : ran[k] <= 1 + failed[k]

\* One run of an effect at a time: a retry never runs beside the handler it repeats.
OneRunAtATime == \A k \in Keys, h, i \in Requests : Holds(h, k) /\ Holds(i, k) => h = i

\* An answer is replayed verbatim: whatever an agent is told of a call that succeeded, it is
\* told the same by every retry.
OneAnswer == \A k \in Keys : \A a, b \in told[k] : a = b

\* A reservation is a lease and not a tombstone: an agent that goes on asking is told how its
\* call ended, although the handlers of it died.
CallsAreAnswered == \A k \in Keys : k \in wants ~> k \notin wants

=============================================================================
