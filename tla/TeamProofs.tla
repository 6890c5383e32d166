----------------------------- MODULE TeamProofs -----------------------------
(***************************************************************************)
(* Proofs about the two components of a team.                               *)
(*                                                                         *)
(* TeamCalls, for every set of calls and handlers and every number of       *)
(* failures: the variables keep their types, and where no handler outlasts  *)
(* its lease an effect commits once and a call is answered alike.           *)
(*                                                                         *)
(* TeamBoard, for any members, tasks, plans, calls and faults: while one    *)
(* page shows the room, what its sweep hands back is what a member held     *)
(* when he was declared lost.  A sweep acts on tasks it read long ago; the  *)
(* invariant says what of that is still true.                               *)
(***************************************************************************)
EXTENDS TeamCalls, TeamBoard, TLAPS

-----------------------------------------------------------------------------
(* Types.                                                                   *)

LEMMA ReservedType ==
  Reserved \in Record /\ Reserved # Nil /\ Reserved.done = FALSE /\ Reserved.aged = FALSE
  <1>1. Reserved \in Record
    BY DEF Record, Reserved
  <1> QED BY <1>1, CallsAssumption DEF Reserved

\* The lease of a row starts again or passes.
LEMMA RowAges ==
  ASSUME NEW row \in Record, NEW b \in BOOLEAN
  PROVE  /\ [row EXCEPT !.aged = b] \in Record /\ [row EXCEPT !.aged = b] # Nil
         /\ [row EXCEPT !.aged = b].aged = b
         /\ [row EXCEPT !.aged = b].done = row.done /\ [row EXCEPT !.aged = b].answer = row.answer
  <1>1. [row EXCEPT !.aged = b] \in Record
    BY DEF Record
  <1>2. [row EXCEPT !.aged = b] # Nil
    BY <1>1, CallsAssumption
  <1> QED BY <1>1, <1>2 DEF Record

\* The answer of a row is recorded.
LEMMA RowAnswers ==
  ASSUME NEW row \in Record, NEW n \in Nat
  PROVE  /\ [row EXCEPT !.done = TRUE, !.answer = n] \in Record
         /\ [row EXCEPT !.done = TRUE, !.answer = n] # Nil
         /\ [row EXCEPT !.done = TRUE, !.answer = n].aged = row.aged
         /\ [row EXCEPT !.done = TRUE, !.answer = n].done = TRUE
         /\ [row EXCEPT !.done = TRUE, !.answer = n].answer = n
  <1>1. [row EXCEPT !.done = TRUE, !.answer = n] \in Record
    BY DEF Record
  <1>2. [row EXCEPT !.done = TRUE, !.answer = n] # Nil
    BY <1>1, CallsAssumption
  <1> QED BY <1>1, <1>2 DEF Record

\* What one handler does leaves the others alone, and what it is set to is a job again.
OthersStay(h) == \A i \in Requests \ {h} : handler'[i] = handler[i]
JobsOK == handler \in [Requests -> Job] /\ \A h \in Requests : handler[h].pc # "idle" => handler[h].key \in Keys

LEMMA GotoMoves ==
  ASSUME JobsOK, NEW h \in Requests, handler[h].pc # "idle",
         NEW pc \in {"effect", "takeover", "answer", "undo"}, Moves(h, pc)
  PROVE  /\ JobsOK' /\ OthersStay(h)
         /\ handler'[h].pc = pc /\ handler'[h].key = handler[h].key
         /\ handler'[h].verdict = handler[h].verdict /\ handler'[h].answer = handler[h].answer
  BY DEF JobsOK, Moves, OthersStay, Job, Holding

LEMMA ReplyMoves ==
  ASSUME JobsOK, NEW h \in Requests, handler[h].pc # "idle",
         NEW verdict \in Verdict, NEW n \in Nat, Reply(h, verdict, n)
  PROVE  /\ JobsOK' /\ OthersStay(h)
         /\ handler'[h].pc = "answer" /\ handler'[h].key = handler[h].key
         /\ handler'[h].verdict = verdict /\ handler'[h].answer = n
  BY DEF JobsOK, Reply, OthersStay, Job, Holding

LEMMA IdleMoves ==
  ASSUME JobsOK, NEW h \in Requests, handler' = [handler EXCEPT ![h] = Free]
  PROVE  JobsOK' /\ OthersStay(h) /\ handler'[h].pc = "idle"
  BY DEF JobsOK, OthersStay, Job, Free, Verdict

LEMMA ReserveMoves ==
  ASSUME JobsOK, NEW h \in Requests, NEW k \in Keys, NEW pc \in {"effect", "conflict"},
         handler' = [handler EXCEPT ![h] = [Free EXCEPT !.key = k, !.pc = pc]]
  PROVE  JobsOK' /\ OthersStay(h) /\ handler'[h].pc = pc /\ handler'[h].key = k
  BY DEF JobsOK, OthersStay, Job, Free, Verdict, Holding

\* The counters and histories beside the rows and the handlers.
HistoryOK ==
  /\ wants \subseteq Keys /\ told \in [Keys -> SUBSET Nat]
  /\ ran \in [Keys -> Nat] /\ failed \in [Keys -> Nat]
  /\ failures \in 0..MaxFailures /\ pauses \in 0..MaxPauses
CallsOK == calls \in [Keys -> Record \cup {Nil}]

LEMMA TypeParts ==
  /\ CallsTypeOK <=> CallsOK /\ JobsOK /\ HistoryOK
  /\ CallsTypeOK' <=> CallsOK' /\ JobsOK' /\ HistoryOK'
  BY DEF CallsTypeOK, CallsOK, JobsOK, HistoryOK

\* The row of one call, and no other, is set to a row or is gone.
SetsRow(k, row) == CallsOK' /\ calls'[k] = row /\ \A j \in Keys \ {k} : calls'[j] = calls[j]
LEMMA RowSet ==
  ASSUME CallsOK, NEW k \in Keys, NEW row \in Record \cup {Nil}, calls' = [calls EXCEPT ![k] = row]
  PROVE  SetsRow(k, row)
  BY DEF CallsOK, SetsRow

\* The UPDATE of an answer finds the row, or none.
LEMMA AnswerSet ==
  ASSUME CallsOK, NEW k \in Keys, NEW n \in Nat, calls' = Answered(k, n)
  PROVE  IF calls[k] = Nil THEN SetsRow(k, Nil)
         ELSE calls[k] \in Record /\ SetsRow(k, [calls[k] EXCEPT !.done = TRUE, !.answer = n])
  <1> DEFINE row == IF calls[k] = Nil THEN Nil ELSE [calls[k] EXCEPT !.done = TRUE, !.answer = n]
  <1>1. calls[k] # Nil => calls[k] \in Record
    BY DEF CallsOK
  <1>2. row \in Record \cup {Nil}
    BY <1>1, RowAnswers
  <1>3. calls' = [calls EXCEPT ![k] = row]
    BY DEF Answered
  <1>4. SetsRow(k, row)
    BY <1>2, <1>3, RowSet
  <1> QED BY <1>1, <1>4

\* The takeover of a row in progress, and the passing of a lease.
LEMMA AgedSet ==
  ASSUME CallsOK, NEW k \in Keys, calls[k] # Nil, NEW b \in BOOLEAN,
         calls' = [calls EXCEPT ![k].aged = b]
  PROVE  calls[k] \in Record /\ SetsRow(k, [calls[k] EXCEPT !.aged = b])
  <1>1. calls[k] \in Record
    BY DEF CallsOK
  <1>2. [calls[k] EXCEPT !.aged = b] \in Record
    BY <1>1, RowAges
  <1> QED BY <1>1, <1>2, RowSet

LEMMA CallsInitType == CallsInit => CallsTypeOK
  BY CallsAssumption DEF CallsInit, CallsTypeOK, Free, Job, Verdict

\* The rows, handlers and histories of runTeamToolOnce stay what they are declared to be.
LEMMA CallsTypeStep == CallsTypeOK /\ [CallsNext]_callVars => CallsTypeOK'
  <1> SUFFICES ASSUME CallsOK, JobsOK, HistoryOK, [CallsNext]_callVars PROVE CallsOK' /\ JobsOK' /\ HistoryOK'
    BY TypeParts
  <1>key. \A h \in Requests : handler[h].pc # "idle" => handler[h].key \in Keys
    BY DEF JobsOK
  <1>ans. \A h \in Requests : handler[h].answer \in Nat
    BY DEF JobsOK, Job
  <1>row. \A k \in Keys : calls[k] # Nil => calls[k].answer \in Nat
    BY DEF CallsOK, Record
  <1>1. ASSUME NEW h \in Requests, NEW k \in Keys, AgentAsks(h, k) \/ AgentRetries(h, k)
        PROVE  CallsOK' /\ JobsOK' /\ HistoryOK'
    <2>1. CallsOK'
      BY <1>1, ReservedType DEF AgentAsks, AgentRetries, Reserve, CallsOK
    <2>2. JobsOK'
      BY <1>1, ReserveMoves DEF AgentAsks, AgentRetries, Reserve
    <2>3. HistoryOK'
      BY <1>1 DEF AgentAsks, AgentRetries, Reserve, HistoryOK
    <2> QED BY <2>1, <2>2, <2>3
  <1>2. ASSUME NEW h \in Requests, LookUp(h) PROVE CallsOK' /\ JobsOK' /\ HistoryOK'
    <2>1. JobsOK'
      BY <1>2, <1>key, <1>row, GotoMoves, ReplyMoves DEF LookUp, Recorded, Verdict
    <2> QED BY <1>2, <2>1 DEF LookUp, CallsOK, HistoryOK
  <1>3. ASSUME NEW h \in Requests, TakeOver(h) PROVE CallsOK' /\ JobsOK' /\ HistoryOK'
    <2>1. JobsOK'
      BY <1>3, GotoMoves, ReplyMoves DEF TakeOver, Verdict
    <2>2. CallsOK'
      BY <1>3, <1>key, AgedSet DEF TakeOver, InProgress, SetsRow, CallsOK
    <2> QED BY <1>3, <2>1, <2>2 DEF TakeOver, HistoryOK
  <1>4. ASSUME NEW h \in Requests, EffectCommits(h) PROVE CallsOK' /\ JobsOK' /\ HistoryOK'
    <2>1. JobsOK'
      <3>1. handler[h].key \in Keys /\ ran[handler[h].key] + 1 \in Nat
        BY <1>4, <1>key DEF EffectCommits, HistoryOK
      <3> QED BY <1>4, <3>1 DEF EffectCommits, JobsOK, Job, Holding
    <2> QED BY <1>4, <1>key, <2>1 DEF EffectCommits, HistoryOK, CallsOK
  <1>5. ASSUME NEW h \in Requests, RecordAnswer(h) PROVE CallsOK' /\ JobsOK' /\ HistoryOK'
    <2>1. JobsOK'
      BY <1>5, GotoMoves DEF RecordAnswer
    <2>2. CallsOK'
      BY <1>5, <1>key, <1>ans, AnswerSet DEF RecordAnswer, SetsRow
    <2> QED BY <1>5, <2>1, <2>2 DEF RecordAnswer, HistoryOK
  <1>6. ASSUME NEW h \in Requests, Undo(h) PROVE CallsOK' /\ JobsOK' /\ HistoryOK'
    <2>1. JobsOK'
      BY <1>6, ReplyMoves DEF Undo, Verdict
    <2>2. CallsOK'
      <3> DEFINE k == handler[h].key
                 row == IF InProgress(k) THEN Nil ELSE calls[k]
      <3>1. k \in Keys /\ row \in Record \cup {Nil}
        BY <1>6, <1>key DEF Undo, CallsOK
      <3>2. calls' = calls \/ calls' = [calls EXCEPT ![k] = row]
        BY <1>6 DEF Undo
      <3> QED BY <3>1, <3>2, RowSet DEF SetsRow, CallsOK
    <2>3. HistoryOK'
      BY <1>6, CallsAssumption DEF Undo, HistoryOK
    <2> QED BY <2>1, <2>2, <2>3
  <1>7. ASSUME NEW h \in Requests, Answers(h) PROVE CallsOK' /\ JobsOK' /\ HistoryOK'
    <2>1. JobsOK'
      BY <1>7, IdleMoves DEF Answers
    <2> QED BY <1>7, <1>key, <1>ans, <2>1 DEF Answers, HistoryOK, CallsOK
  <1>8. ASSUME NEW h \in Requests, Throws(h) PROVE CallsOK' /\ JobsOK' /\ HistoryOK'
    <2>1. JobsOK'
      BY <1>8, GotoMoves DEF Throws
    <2>2. CallsOK'
      <3>1. calls' = calls \/ calls' = Answered(handler[h].key, handler[h].answer)
        BY <1>8 DEF Throws
      <3> QED BY <1>8, <1>key, <1>ans, <3>1, AnswerSet DEF Throws, SetsRow, CallsOK
    <2>3. HistoryOK'
      BY <1>8, <1>key, CallsAssumption DEF Throws, HistoryOK
    <2> QED BY <2>1, <2>2, <2>3
  <1>9. ASSUME NEW h \in Requests, HandlerDies(h) PROVE CallsOK' /\ JobsOK' /\ HistoryOK'
    <2>1. JobsOK'
      BY <1>9, IdleMoves DEF HandlerDies
    <2>2. HistoryOK'
      BY <1>9, <1>key, CallsAssumption DEF HandlerDies, HistoryOK
    <2> QED BY <1>9, <2>1, <2>2 DEF HandlerDies, CallsOK
  <1>10. ASSUME NEW k \in Keys, LeasePasses(k) PROVE CallsOK' /\ JobsOK' /\ HistoryOK'
    <2>1. CallsOK'
      BY <1>10, AgedSet DEF LeasePasses, SetsRow
    <2>2. HistoryOK'
      BY <1>10, CallsAssumption DEF LeasePasses, HistoryOK
    <2> QED BY <1>10, <2>1, <2>2 DEF LeasePasses, JobsOK
  <1>11. ASSUME UNCHANGED callVars PROVE CallsOK' /\ JobsOK' /\ HistoryOK'
    BY <1>11 DEF callVars, CallsOK, JobsOK, HistoryOK
  <1> QED BY <1>1, <1>2, <1>3, <1>4, <1>5, <1>6, <1>7, <1>8, <1>9, <1>10, <1>11 DEF CallsNext, Serves

\* The record of tool calls and the handlers that use it keep their types.
THEOREM CallsTypeCorrect == CallsSpec => []CallsTypeOK
  BY CallsInitType, CallsTypeStep, PTL DEF CallsSpec

-----------------------------------------------------------------------------
(* One effect, one answer.                                                  *)

\* While a handler holds a call its reservation is there, its lease has not passed, and no
\* answer is on record before the handler records one.
Leases ==
  \A h \in Requests, k \in Keys : Holds(h, k) =>
    calls[k] # Nil /\ calls[k].aged = FALSE /\ (handler[h].pc # "undo" => calls[k].done = FALSE)

\* An effect has committed once more than its handlers have failed only if its answer is on
\* record or about to be.
AtRecord(h, k) == handler[h].key = k /\ handler[h].pc = "record"
Counted ==
  \A k \in Keys :
    /\ ran[k] <= failed[k] + 1
    /\ ~Recorded(k) /\ (\A h \in Requests : ~AtRecord(h, k)) => ran[k] <= failed[k]

\* What is told is on record, and so is what a handler is about to tell.
OnRecord(k, answer) == calls[k] # Nil /\ calls[k].done = TRUE /\ calls[k].answer = answer
Truthful ==
  /\ \A k \in Keys : \A answer \in told[k] : OnRecord(k, answer)
  /\ \A h \in Requests : handler[h].pc = "answer" /\ handler[h].verdict = "ok" => OnRecord(handler[h].key, handler[h].answer)

CallInv == CallsTypeOK /\ OneRunAtATime /\ Leases /\ Counted /\ Truthful

LEMMA InitCalls == CallsInit => CallInv
  BY CallsInitType DEF CallsInit, CallInv, OneRunAtATime, Leases, Counted, Truthful, Holds, Holding, Free

\* What every step does to the row of a call, by who holds it.
LEMMA CallStep ==
  ASSUME MaxPauses = 0, CallInv, [CallsNext]_callVars
  PROVE  CallInv'
  <1> DEFINE Safe == OneRunAtATime /\ Leases /\ Counted /\ Truthful
  <1>ty. CallsTypeOK'
    BY CallsTypeStep DEF CallInv
  <1>now. CallsOK /\ JobsOK /\ HistoryOK /\ Safe
    BY TypeParts DEF CallInv
  <1>next. CallsOK' /\ JobsOK' /\ HistoryOK'
    BY <1>ty, TypeParts
  <1>key. \A h \in Requests : handler[h].pc # "idle" => handler[h].key \in Keys
    BY <1>now DEF JobsOK
  <1>ans. \A h \in Requests : handler[h].answer \in Nat
    BY <1>now DEF JobsOK, Job
  <1>num. \A k \in Keys : ran[k] \in Nat /\ failed[k] \in Nat
    BY <1>now DEF HistoryOK
  <1> SUFFICES Safe'
    BY <1>ty DEF CallInv
  <1> USE <1>now, <1>key, <1>ans
  \* A handler that moves without holding a call, and changes no row.
  <1>quiet. ASSUME NEW h \in Requests, OthersStay(h), UNCHANGED <<calls, ran>>,
                   \A k \in Keys : ~Holds(h, k)', \A k \in Keys : failed'[k] \in Nat,
                   \A k \in Keys : failed[k] <= failed'[k],
                   \A k \in Keys : AtRecord(h, k) => failed[k] + 1 <= failed'[k],
                   \A k \in Keys : \A answer \in told'[k] : OnRecord(k, answer),
                   handler'[h].pc = "answer" /\ handler'[h].verdict = "ok" => OnRecord(handler'[h].key, handler'[h].answer)
            PROVE  Safe'
    <2>1. OneRunAtATime'
      BY <1>quiet DEF OneRunAtATime, Holds, OthersStay
    <2>2. Leases'
      BY <1>quiet DEF Leases, Holds, OthersStay
    <2>3. Counted'
      <3> SUFFICES ASSUME NEW k \in Keys
                   PROVE  /\ ran[k] <= failed'[k] + 1
                          /\ ~Recorded(k) /\ (\A i \in Requests : ~AtRecord(i, k)') => ran[k] <= failed'[k]
        BY <1>quiet DEF Counted, Recorded
      <3>1. ran[k] <= failed[k] + 1 /\ failed[k] <= failed'[k] /\ failed'[k] \in Nat
        BY <1>quiet DEF Counted
      <3>2. CASE AtRecord(h, k)
        BY <3>1, <3>2, <1>num, <1>quiet
      <3>3. CASE ~AtRecord(h, k)
        BY <3>1, <3>3, <1>num, <1>quiet DEF Counted, AtRecord, OthersStay
      <3> QED BY <3>2, <3>3
    <2>4. Truthful'
      BY <1>quiet DEF Truthful, OnRecord, OthersStay
    <2> QED BY <2>1, <2>2, <2>3, <2>4

  <1>typed. \A k \in Keys : calls[k] # Nil => calls[k] \in Record /\ calls[k].done \in BOOLEAN /\ calls[k].aged \in BOOLEAN
    BY DEF CallsOK, Record
  <1>1. ASSUME NEW h \in Requests, NEW k \in Keys, AgentAsks(h, k) \/ AgentRetries(h, k) PROVE Safe'
    <2>0. /\ Reserve(h, k) /\ UNCHANGED <<told, ran, failed>>
          /\ OthersStay(h) /\ handler'[h].key = k
          /\ handler'[h].pc = IF calls[k] = Nil THEN "effect" ELSE "conflict"
      BY <1>1, ReserveMoves DEF AgentAsks, AgentRetries, Reserve
    <2>1. CASE calls[k] # Nil
      <3>1. calls' = calls
        BY <2>0, <2>1, <1>next DEF Reserve, CallsOK
      <3> QED BY <1>quiet, <1>num, <2>0, <2>1, <3>1 DEF Holds, Holding, AtRecord, Reserve, Truthful
    <2>2. CASE calls[k] = Nil
      <3>1. calls'[k] = Reserved /\ \A j \in Keys \ {k} : calls'[j] = calls[j]
        BY <2>0, <2>2 DEF Reserve, CallsOK
      <3>2. \A i \in Requests : ~Holds(i, k)
        BY <2>2 DEF Leases
      <3>3. OneRunAtATime'
        BY <2>0, <2>2, <3>2 DEF OneRunAtATime, Holds, OthersStay
      <3>4. Leases'
        BY <2>0, <2>2, <3>1, <3>2, ReservedType DEF Leases, Holds, OthersStay
      <3>5. Counted'
        BY <2>0, <2>2, <3>1, ReservedType DEF Counted, Recorded, AtRecord, OthersStay, Reserve
      <3>6. Truthful'
        BY <2>0, <2>2, <3>1 DEF Truthful, OnRecord, OthersStay
      <3> QED BY <3>3, <3>4, <3>5, <3>6
    <2> QED BY <2>1, <2>2
  <1>2. ASSUME NEW h \in Requests, LookUp(h) PROVE Safe'
    <2>1. /\ UNCHANGED <<calls, told, ran, failed>> /\ OthersStay(h) /\ handler[h].pc = "conflict"
          /\ handler'[h].pc \in {"answer", "takeover"} /\ handler'[h].key = handler[h].key
          /\ handler'[h].pc = "answer" => Recorded(handler[h].key) /\ handler'[h].answer = calls[handler[h].key].answer
      <3>1. CASE Recorded(handler[h].key)
        <4>1. calls[handler[h].key].answer \in Nat
          BY <1>2, <3>1 DEF LookUp, Recorded, CallsOK, Record
        <4> QED BY <1>2, <3>1, <4>1, ReplyMoves DEF LookUp, Verdict
      <3>2. CASE ~Recorded(handler[h].key)
        BY <1>2, <3>2, GotoMoves DEF LookUp
      <3> QED BY <3>1, <3>2
    <2>2. handler'[h].pc = "answer" => OnRecord(handler'[h].key, handler'[h].answer)
      BY <2>1, <1>typed DEF Recorded, OnRecord
    <2> QED BY <1>quiet, <1>num, <2>1, <2>2 DEF Holds, Holding, AtRecord, Truthful
  <1>3. ASSUME NEW h \in Requests, TakeOver(h) PROVE Safe'
    <2> DEFINE k == handler[h].key
    <2>0. handler[h].pc = "takeover" /\ k \in Keys /\ UNCHANGED <<told, ran, failed>>
      BY <1>3 DEF TakeOver
    <2>1. CASE InProgress(k) /\ calls[k].aged
      <3>1. /\ OthersStay(h) /\ handler'[h].key = k /\ handler'[h].pc = "effect"
        BY <1>3, <2>1, GotoMoves DEF TakeOver
      <3>2. SetsRow(k, [calls[k] EXCEPT !.aged = FALSE]) /\ calls[k] \in Record /\ calls[k].done = FALSE
        BY <1>3, <2>0, <2>1, AgedSet, <1>typed DEF TakeOver, InProgress
      <3>3. \A i \in Requests : ~Holds(i, k)
        BY <2>0, <2>1 DEF Leases
      <3>4. OneRunAtATime'
        BY <3>1, <3>3 DEF OneRunAtATime, Holds, OthersStay
      <3>5. calls'[k] # Nil /\ calls'[k].aged = FALSE /\ calls'[k].done = FALSE /\ \A j \in Keys \ {k} : calls'[j] = calls[j]
        <4>1. /\ [calls[k] EXCEPT !.aged = FALSE] # Nil
              /\ [calls[k] EXCEPT !.aged = FALSE].aged = FALSE
              /\ [calls[k] EXCEPT !.aged = FALSE].done = calls[k].done
          BY <3>2, RowAges
        <4> QED BY <3>2, <4>1 DEF SetsRow
      <3>6. Leases'
        BY <3>1, <3>3, <3>5 DEF Leases, Holds, OthersStay
      <3>7. Counted'
        BY <2>0, <2>1, <3>1, <3>5 DEF Counted, Recorded, AtRecord, OthersStay, InProgress
      <3>8. Truthful'
        BY <2>0, <3>1, <3>2, <3>5 DEF Truthful, OnRecord, OthersStay
      <3> QED BY <3>4, <3>6, <3>7, <3>8
    <2>2. CASE ~(InProgress(k) /\ calls[k].aged)
      <3>1. /\ OthersStay(h) /\ UNCHANGED calls /\ handler'[h].pc = "answer" /\ handler'[h].verdict = "duplicate"
        BY <1>3, <2>2, ReplyMoves DEF TakeOver, Verdict
      <3> QED BY <1>quiet, <1>num, <2>0, <3>1 DEF Holds, Holding, AtRecord, Truthful
    <2> QED BY <2>1, <2>2
  <1>4. ASSUME NEW h \in Requests, EffectCommits(h) PROVE Safe'
    <2> DEFINE k == handler[h].key
    <2>1. /\ handler[h].pc = "effect" /\ k \in Keys /\ UNCHANGED <<calls, told, failed>>
          /\ ran'[k] = ran[k] + 1 /\ \A j \in Keys \ {k} : ran'[j] = ran[j]
          /\ OthersStay(h) /\ handler'[h].pc = "record" /\ handler'[h].key = k
      BY <1>4 DEF EffectCommits, HistoryOK, JobsOK, OthersStay, Job
    <2>2. Holds(h, k) /\ ~Recorded(k) /\ \A i \in Requests : ~AtRecord(i, k)
      BY <2>1 DEF Holds, Holding, Recorded, Leases, AtRecord, OneRunAtATime
    <2>3. OneRunAtATime'
      BY <2>1, <2>2 DEF OneRunAtATime, Holds, Holding, OthersStay
    <2>4. Leases'
      BY <2>1, <2>2 DEF Leases, Holds, Holding, OthersStay
    <2>5. Counted'
      BY <2>1, <2>2, <1>num DEF Counted, Recorded, AtRecord, OthersStay
    <2>6. Truthful'
      BY <2>1 DEF Truthful, OnRecord, OthersStay
    <2> QED BY <2>3, <2>4, <2>5, <2>6
  <1>5. ASSUME NEW h \in Requests, RecordAnswer(h) PROVE Safe'
    <2> DEFINE k == handler[h].key
    <2>1. /\ handler[h].pc = "record" /\ k \in Keys /\ UNCHANGED <<told, ran, failed>>
          /\ OthersStay(h) /\ handler'[h].pc = "answer" /\ handler'[h].key = k
          /\ handler'[h].answer = handler[h].answer
      BY <1>5, GotoMoves DEF RecordAnswer
    <2>2. Holds(h, k) /\ calls[k] # Nil /\ calls[k].done = FALSE
      BY <2>1 DEF Holds, Holding, Leases
    <2>3. OnRecord(k, handler[h].answer)' /\ \A j \in Keys \ {k} : calls'[j] = calls[j]
      <3>1. calls[k] \in Record /\ SetsRow(k, [calls[k] EXCEPT !.done = TRUE, !.answer = handler[h].answer])
        <4>1. calls' = Answered(k, handler[h].answer) /\ handler[h].answer \in Nat
          BY <1>5 DEF RecordAnswer
        <4>2. IF calls[k] = Nil THEN SetsRow(k, Nil)
              ELSE calls[k] \in Record /\ SetsRow(k, [calls[k] EXCEPT !.done = TRUE, !.answer = handler[h].answer])
          BY <2>1, <4>1, AnswerSet
        <4> QED BY <2>2, <4>2
      <3>2. OnRecord(k, handler[h].answer)'
        <4>1. /\ [calls[k] EXCEPT !.done = TRUE, !.answer = handler[h].answer] # Nil
              /\ [calls[k] EXCEPT !.done = TRUE, !.answer = handler[h].answer].done = TRUE
              /\ [calls[k] EXCEPT !.done = TRUE, !.answer = handler[h].answer].answer = handler[h].answer
          BY <2>1, <3>1, RowAnswers
        <4> QED BY <2>1, <3>1, <4>1 DEF SetsRow, OnRecord
      <3> QED BY <3>1, <3>2 DEF SetsRow
    <2>4. OneRunAtATime'
      BY <2>1 DEF OneRunAtATime, Holds, Holding, OthersStay
    <2>5. Leases'
      <3>1. \A i \in Requests : ~Holds(i, k)'
        BY <2>1, <2>2 DEF OneRunAtATime, Holds, Holding, OthersStay
      <3>2. \A i \in Requests, j \in Keys : Holds(i, j)' => i # h /\ j # k /\ Holds(i, j)
        BY <2>1, <3>1 DEF Holds, Holding, OthersStay
      <3> QED BY <2>1, <2>3, <3>2 DEF Leases, OthersStay
    <2>6. Counted'
      BY <2>1, <2>3, <1>num DEF Counted, Recorded, AtRecord, OthersStay, OnRecord
    <2>7. Truthful'
      <3>1. \A i \in Requests : handler[i].pc = "answer" /\ handler[i].verdict = "ok" => handler[i].key # k
        BY <2>1, <2>2 DEF Truthful, OnRecord
      <3>2. told[k] = {}
        BY <2>1, <2>2 DEF Truthful, OnRecord
      <3>3. \A j \in Keys : \A answer \in told'[j] : OnRecord(j, answer)'
        BY <2>1, <2>3, <3>2 DEF Truthful, OnRecord
      <3> QED BY <2>1, <2>3, <3>1, <3>3 DEF Truthful, OnRecord, OthersStay
    <2> QED BY <2>4, <2>5, <2>6, <2>7
  <1>6. ASSUME NEW h \in Requests, Undo(h) PROVE Safe'
    <2> DEFINE k == handler[h].key
    <2>1. /\ handler[h].pc = "undo" /\ k \in Keys /\ UNCHANGED <<told, ran, failed>>
          /\ OthersStay(h) /\ handler'[h].pc = "answer" /\ handler'[h].verdict = "error" /\ handler'[h].key = k
      BY <1>6, ReplyMoves DEF Undo, Verdict
    <2>2. CASE calls' = calls
      BY <1>quiet, <1>num, <2>1, <2>2 DEF Holds, Holding, AtRecord, Truthful
    <2>3. CASE calls' # calls
      <3>1. InProgress(k) /\ calls'[k] = Nil /\ \A j \in Keys \ {k} : calls'[j] = calls[j]
        BY <1>6, <2>1, <2>3, <1>next DEF Undo, CallsOK
      <3>2. Holds(h, k) /\ calls[k] # Nil /\ calls[k].done = FALSE
        BY <2>1, <3>1, <1>typed DEF Holds, Holding, InProgress
      <3>3. \A i \in Requests, j \in Keys : Holds(i, j)' => i # h /\ j # k /\ Holds(i, j)
        BY <2>1, <3>2 DEF OneRunAtATime, Holds, Holding, OthersStay
      <3>4. OneRunAtATime' /\ Leases'
        BY <2>1, <3>1, <3>3 DEF OneRunAtATime, Leases, OthersStay
      <3>5. \A i \in Requests : ~AtRecord(i, k)
        BY <2>1, <3>2 DEF OneRunAtATime, Holds, Holding, AtRecord
      <3>6. ran[k] <= failed[k]
        BY <2>1, <3>2, <3>5 DEF Counted, Recorded
      <3>7. Counted'
        BY <2>1, <3>1, <3>6, <1>num DEF Counted, Recorded, AtRecord, OthersStay
      <3>8. Truthful'
        BY <2>1, <3>1, <3>2 DEF Truthful, OnRecord, OthersStay
      <3> QED BY <3>4, <3>7, <3>8
    <2> QED BY <2>2, <2>3
  <1>7. ASSUME NEW h \in Requests, Answers(h) PROVE Safe'
    <2>1. /\ handler[h].pc = "answer" /\ UNCHANGED <<calls, ran, failed>>
          /\ OthersStay(h) /\ handler'[h].pc = "idle"
      BY <1>7, IdleMoves DEF Answers
    <2>2. \A k \in Keys : \A answer \in told'[k] : OnRecord(k, answer)
      <3>1. \A k \in Keys : \A answer \in told'[k] :
              answer \in told[k] \/ (k = handler[h].key /\ handler[h].verdict = "ok" /\ answer = handler[h].answer)
        BY <1>7, <2>1 DEF Answers, HistoryOK
      <3> QED BY <2>1, <3>1 DEF Truthful
    <2> QED BY <1>quiet, <1>num, <2>1, <2>2 DEF Holds, Holding, AtRecord
  <1>8. ASSUME NEW h \in Requests, Throws(h) PROVE Safe'
    <2> DEFINE k == handler[h].key
    <2>1. /\ handler[h].pc \in {"effect", "record"} /\ k \in Keys /\ UNCHANGED <<told, ran>>
          /\ failed'[k] = failed[k] + 1 /\ \A j \in Keys \ {k} : failed'[j] = failed[j]
          /\ OthersStay(h) /\ handler'[h].pc = "undo" /\ handler'[h].key = k
      BY <1>8, GotoMoves DEF Throws, HistoryOK
    <2>2. Holds(h, k) /\ calls[k] # Nil /\ calls[k].done = FALSE /\ calls[k].aged = FALSE
      BY <2>1 DEF Holds, Holding, Leases
    <2>3. calls'[k] # Nil /\ calls'[k].aged = FALSE /\ \A j \in Keys \ {k} : calls'[j] = calls[j]
      <3>1. calls' = calls \/ calls' = Answered(k, handler[h].answer)
        BY <1>8 DEF Throws
      <3>2. calls' # calls => SetsRow(k, [calls[k] EXCEPT !.done = TRUE, !.answer = handler[h].answer]) /\ calls[k] \in Record
        BY <2>1, <2>2, <3>1, AnswerSet
      <3>3. calls' # calls => calls'[k] # Nil /\ calls'[k].aged = FALSE
        <4> SUFFICES ASSUME calls' # calls PROVE calls'[k] # Nil /\ calls'[k].aged = FALSE
          OBVIOUS
        <4>1. /\ [calls[k] EXCEPT !.done = TRUE, !.answer = handler[h].answer] # Nil
              /\ [calls[k] EXCEPT !.done = TRUE, !.answer = handler[h].answer].aged = calls[k].aged
          BY <2>1, <3>2, RowAnswers
        <4> QED BY <2>2, <3>2, <4>1 DEF SetsRow
      <3> QED BY <2>1, <2>2, <3>2, <3>3 DEF SetsRow
    <2>4. OneRunAtATime'
      BY <2>1, <2>2 DEF OneRunAtATime, Holds, Holding, OthersStay
    <2>5. Leases'
      <3>1. \A i \in Requests, j \in Keys : Holds(i, j)' => Holds(i, j) /\ (i # h => j # k) /\ (i = h => j = k)
        BY <2>1, <2>2 DEF OneRunAtATime, Holds, Holding, OthersStay
      <3> QED BY <2>1, <2>2, <2>3, <3>1 DEF Leases, OthersStay
    <2>6. Counted'
      BY <2>1, <2>3, <1>num DEF Counted, Recorded, AtRecord, OthersStay
    <2>7. Truthful'
      BY <2>1, <2>2, <2>3 DEF Truthful, OnRecord, OthersStay
    <2> QED BY <2>4, <2>5, <2>6, <2>7
  <1>9. ASSUME NEW h \in Requests, HandlerDies(h) PROVE Safe'
    <2>1. /\ UNCHANGED <<calls, told, ran>> /\ OthersStay(h) /\ handler'[h].pc = "idle"
          /\ \A k \in Keys : failed'[k] \in Nat /\ failed[k] <= failed'[k]
          /\ \A k \in Keys : AtRecord(h, k) => failed'[k] = failed[k] + 1
      <3>1. \/ handler[h].pc \in Holding /\ failed' = [failed EXCEPT ![handler[h].key] = @ + 1]
            \/ handler[h].pc \notin Holding /\ failed' = failed
        BY <1>9 DEF HandlerDies
      <3>2. \A k \in Keys : failed'[k] \in Nat /\ failed[k] <= failed'[k]
        BY <1>num, <3>1 DEF HistoryOK
      <3>3. \A k \in Keys : AtRecord(h, k) => failed'[k] = failed[k] + 1
        BY <3>1 DEF AtRecord, Holding, HistoryOK
      <3> QED BY <1>9, <3>2, <3>3, IdleMoves DEF HandlerDies
    <2>2. \A k \in Keys : AtRecord(h, k) => failed[k] + 1 <= failed'[k]
      BY <2>1, <1>num
    <2> QED BY <1>quiet, <2>1, <2>2 DEF Holds, Holding, Truthful
  <1>10. ASSUME NEW k \in Keys, LeasePasses(k) PROVE Safe'
    <2>1. /\ calls[k] # Nil /\ UNCHANGED <<handler, told, ran, failed>>
          /\ SetsRow(k, [calls[k] EXCEPT !.aged = TRUE]) /\ calls[k] \in Record
      BY <1>10, AgedSet DEF LeasePasses
    <2>2. \A h \in Requests : ~Holds(h, k)
      BY <1>10 DEF LeasePasses, HistoryOK
    <2>3. /\ calls'[k] # Nil /\ calls'[k].done = calls[k].done /\ calls'[k].answer = calls[k].answer
          /\ \A j \in Keys \ {k} : calls'[j] = calls[j]
      BY <2>1, RowAges DEF SetsRow
    <2>4. OneRunAtATime'
      BY <2>1 DEF OneRunAtATime, Holds
    <2>5. Leases'
      BY <2>1, <2>2, <2>3 DEF Leases, Holds
    <2>6. Counted'
      BY <2>1, <2>3 DEF Counted, Recorded, AtRecord
    <2>7. Truthful'
      <3>1. \A j \in Keys, answer \in Nat : OnRecord(j, answer) => OnRecord(j, answer)'
        BY <2>3 DEF OnRecord
      <3> QED BY <2>1, <3>1 DEF Truthful, HistoryOK
    <2> QED BY <2>4, <2>5, <2>6, <2>7
  <1>11. ASSUME UNCHANGED callVars PROVE Safe'
    BY <1>11 DEF callVars, OneRunAtATime, Leases, Counted, Truthful, Holds, Recorded, AtRecord, OnRecord
  <1> QED BY <1>1, <1>2, <1>3, <1>4, <1>5, <1>6, <1>7, <1>8, <1>9, <1>10, <1>11 DEF CallInv, CallsNext, Serves

LEMMA CallInvariant ==
  ASSUME MaxPauses = 0
  PROVE  CallsSpec => []CallInv
  BY InitCalls, CallStep, PTL DEF CallsSpec

\* runTeamToolOnce, "a team tool call that takes effect once": in overlapping handlers and
\* repetitions of any number, while no handler outlasts its lease, the effect of a call commits a
\* second time only after a handler of it has died or thrown.
THEOREM EffectsHappenOnce ==
  ASSUME MaxPauses = 0
  PROVE  CallsSpec => []EffectOnce
  <1>1. CallInv => EffectOnce
    <2> SUFFICES ASSUME CallInv, NEW k \in Keys PROVE ran[k] <= 1 + failed[k]
      BY DEF EffectOnce
    <2> QED BY DEF CallInv, Counted, CallsTypeOK
  <1> QED BY <1>1, CallInvariant, PTL

\* The replay of runTeamToolOnce: every answer to a call that succeeded is the one on record.
THEOREM AnswersAgree ==
  ASSUME MaxPauses = 0
  PROVE  CallsSpec => []OneAnswer
  <1>1. CallInv => OneAnswer
    BY DEF CallInv, Truthful, OnRecord, OneAnswer
  <1> QED BY <1>1, CallInvariant, PTL

-----------------------------------------------------------------------------
(* The board.                                                              *)

\* The room is open in one page.
OnePage == \A a, b \in Tabs : a = b

\* A member who is yet to be marked still owns all that he was read to hold: the board
\* gives nobody what has an owner, and the sweep has taken nothing of his.
Awaited == \A b \in Tabs : sweep[b].lost # {} =>
  \A s \in Slots : ~member[s].lost =>
    \A t \in sweep[b].held[s] : t \in Created /\ board[t].owner = s

\* What is left to hand back belongs to the member that this sweep marked, who cannot be
\* found again before it is handed back.
Forfeit == \A b \in Tabs : sweep[b].left # {} =>
  /\ sweep[b].slot \in Slots /\ member[sweep[b].slot].lost
  /\ \A t \in sweep[b].left : t \in Created /\ board[t].owner = sweep[b].slot

BoardInv == TypeOK /\ Awaited /\ Forfeit

-----------------------------------------------------------------------------
(* Types, and what each statement leaves of the board.                      *)

Boards == UNION {[1..n -> Row] : n \in 0..MaxTasks}
Roster == [mode : {"idle", "working", "waiting"}, word : {"fresh", "seen", "silent"}, lost : BOOLEAN]
Working == [pc : {"effect", "write", "commit"}, call : Call, opens : SUBSET Tasks]
Sweeping == [pc : {"idle", "sweeping"}, lost : SUBSET Slots, back : SUBSET Slots,
             held : [Slots -> SUBSET Tasks], slot : Slots \cup {None},
             left : SUBSET Tasks, heard : SUBSET Slots]

Typed ==
  /\ board \in Boards /\ work \in [Handlers -> Working \cup {Idle}]
  /\ member \in [Slots -> Roster] /\ sweep \in [Tabs -> Sweeping] /\ grace \in BOOLEAN

LEMMA TypedIs == TypeOK <=> Typed
  BY DEF TypeOK, Typed, Boards, Roster, Working, Sweeping

\* No task is taken from anybody, and none disappears.
Kept == \A t \in Created : t \in DOMAIN board' /\ board[t].owner \in {None, board'[t].owner}
\* Nobody is marked or found.
SameLost == \A s \in Slots : member'[s].lost = member[s].lost

LEMMA RowOf ==
  ASSUME Typed, NEW t \in Created
  PROVE  /\ t \in Tasks /\ board[t] \in Row
         /\ board[t].owner \in Slots \cup {None} /\ board[t].status \in Status /\ board[t].deps \subseteq Tasks
<1> PICK n \in 0..MaxTasks : board \in [1..n -> Row]
  BY DEF Typed, Boards
<1>1. t \in 1..n /\ n \in Nat /\ n <= MaxTasks /\ MaxTasks \in Nat
  BY TeamAssumption DEF Created, TeamAssumption
<1> QED BY <1>1 DEF Tasks, Row

\* A word heard marks nobody.
LEMMA HeardKeeps ==
  ASSUME Typed, NEW S, member' = Heard(S)
  PROVE  member' \in [Slots -> Roster] /\ SameLost
<1>1. ASSUME NEW s \in Slots
      PROVE  Heard(S)[s] \in Roster /\ Heard(S)[s].lost = member[s].lost
  BY DEF Heard, Typed, Roster
<1> QED BY <1>1 DEF Heard, SameLost

LEMMA StillKeeps == Typed /\ UNCHANGED member => member' \in [Slots -> Roster] /\ SameLost
  BY DEF Typed, SameLost

\* A statement on one row, whose owner it leaves or which has none.
LEMMA PutKeeps ==
  ASSUME Typed, NEW t, NEW row, Put(t, row),
         t \in Created => row \in Row /\ board[t].owner \in {None, row.owner}
  PROVE  board' \in Boards /\ Kept /\ member' \in [Slots -> Roster] /\ SameLost
<1> PICK n \in 0..MaxTasks : board \in [1..n -> Row]
  BY DEF Typed, Boards
<1>1. board' = [board EXCEPT ![t] = row] /\ member' = Heard(Holder(row))
  BY DEF Put
<1>2. board' \in [1..n -> Row]
  BY <1>1 DEF Created
<1>3. Kept
  BY <1>1, <1>2 DEF Created, Kept
<1> QED BY <1>1, <1>2, <1>3, HeardKeeps DEF Boards

LEMMA CreateKeeps ==
  ASSUME Typed, NEW plan \in Plans, createTeamTask(plan)
  PROVE  board' \in Boards /\ Kept /\ member' \in [Slots -> Roster] /\ SameLost
<1> PICK n \in 0..MaxTasks : board \in [1..n -> Row]
  BY DEF Typed, Boards
<1> DEFINE row == [owner |-> plan.owner, deps |-> plan.deps,
                   status |-> IF plan.deps # {} THEN "blocked"
                              ELSE IF plan.owner # None THEN "claimed" ELSE "open"]
<1>1. n \in Nat /\ MaxTasks \in Nat /\ board \in Seq(Row) /\ Len(board) = n
  BY TeamAssumption DEF TeamAssumption
<1>2. plan.owner \in Slots \cup {None} /\ plan.deps \subseteq Tasks
  BY TeamAssumption DEF TeamAssumption, Tasks
<1>3. row \in Row
  BY <1>2 DEF Row, Status
<1>4. n < MaxTasks /\ board' = Append(board, row) /\ member' = Heard(Holder(row))
  BY <1>1 DEF createTeamTask
<1> HIDE DEF row
<1>5. board' \in [1..(n + 1) -> Row] /\ \A i \in 1..n : board'[i] = board[i]
  <2>1. Append(board, row) \in Seq(Row) /\ Len(Append(board, row)) = n + 1
    BY <1>1, <1>3
  <2>2. \A i \in 1..n : Append(board, row)[i] = board[i]
    BY <1>1, <1>3
  <2>3. \A q \in Seq(Row) : q \in [1..Len(q) -> Row]
    OBVIOUS
  <2> QED BY <1>4, <2>1, <2>2, <2>3
<1>6. Kept
  BY <1>1, <1>5 DEF Kept, Created
<1>7. n + 1 \in 0..MaxTasks
  BY <1>1, <1>4
<1> QED BY <1>4, <1>5, <1>6, <1>7, HeardKeeps DEF Boards

LEMMA ClaimKeeps ==
  ASSUME Typed, NEW t, NEW s \in Slots, claimTeamTask(t, s)
  PROVE  board' \in Boards /\ Kept /\ member' \in [Slots -> Roster] /\ SameLost
<1> DEFINE row == [board[t] EXCEPT !.owner = s, !.status = "claimed"]
<1>1. CASE Claimable(t)
  <2>1. t \in Created => board[t] \in Row /\ board[t].owner = None
    BY <1>1, RowOf DEF Claimable
  <2>2. t \in Created => row \in Row
    BY <2>1 DEF Row, Status
  <2>3. Put(t, row)
    BY <1>1 DEF claimTeamTask
  <2> HIDE DEF row
  <2> QED BY <2>1, <2>2, <2>3, PutKeeps
<1>2. CASE ~Claimable(t)
  <2>1. UNCHANGED <<board, member>>
    BY <1>2 DEF claimTeamTask
  <2> QED BY <2>1, StillKeeps DEF Typed, Kept, Created
<1> QED BY <1>1, <1>2

LEMMA UpdateKeeps ==
  ASSUME Typed, NEW t, NEW status \in Status, updateTeamTaskStatus(t, status)
  PROVE  board' \in Boards /\ Kept /\ member' \in [Slots -> Roster] /\ SameLost
<1> DEFINE row == [board[t] EXCEPT !.status = status]
<1>1. t \in Created => board[t] \in Row
  BY RowOf
<1>2. t \in Created => row \in Row /\ row.owner = board[t].owner
  BY <1>1 DEF Row
<1>3. Put(t, row)
  BY DEF updateTeamTaskStatus
<1> HIDE DEF row
<1> QED BY <1>2, <1>3, PutKeeps

\* A report changes statuses only.
LEMMA ReportKeeps ==
  ASSUME Typed, NEW t, NEW S, board' = Reported(t, S)
  PROVE  board' \in Boards /\ Kept
<1> PICK n \in 0..MaxTasks : board \in [1..n -> Row]
  BY DEF Typed, Boards
<1>1. ASSUME NEW u \in Created
      PROVE  Reported(t, S)[u] \in Row /\ Reported(t, S)[u].owner = board[u].owner
  <2>1. board[u] \in Row
    BY RowOf
  <2>2. /\ [board[u] EXCEPT !.status = "done"] \in Row
        /\ [board[u] EXCEPT !.status = "done"].owner = board[u].owner
        /\ [board[u] EXCEPT !.status = "open"] \in Row
        /\ [board[u] EXCEPT !.status = "open"].owner = board[u].owner
    BY <2>1 DEF Row, Status
  <2> QED BY <2>1, <2>2 DEF Reported
<1>2. board' \in [1..n -> Row]
  BY <1>1 DEF Reported, Created
<1>3. Kept
  BY <1>1 DEF Kept, Created, Reported
<1> QED BY <1>2, <1>3 DEF Boards

-----------------------------------------------------------------------------
(* Calls and rooms.                                                         *)

\* What a step of anybody but a sweep does.
Harmless == /\ Typed' /\ Kept /\ SameLost /\ sweep' = sweep

LEMMA CallOf ==
  ASSUME Typed, NEW h \in Handlers, work[h].pc # "idle"
  PROVE  LET call == work[h].call
         IN /\ work[h] \in Working /\ call \in Call
            /\ call.tool = "create" => call.arg \in Plans
            /\ call.tool = "update" => call.arg \in Status
            /\ call.slot \in Slots
<1>1. work[h] \in Working
  BY DEF Typed, Idle
<1>2. work[h].call \in Call
  BY <1>1 DEF Working
<1> QED BY <1>1, <1>2, TeamAssumption DEF Call, TeamAssumption, Status

LEMMA NobodyMoves ==
  ASSUME Typed, UNCHANGED board
  PROVE  board' \in Boards /\ Kept
BY DEF Typed, Kept, Created

\* A handler that moves on, or is free again.
LEMMA WorkMoves ==
  ASSUME Typed, NEW h \in Handlers, NEW w \in Working \cup {Idle}, work' = [work EXCEPT ![h] = w]
  PROVE  work' \in [Handlers -> Working \cup {Idle}]
BY DEF Typed

LEMMA HandlerHarmless ==
  ASSUME Typed, NEW h \in Handlers, HandlerStep(h) \/ CallFails(h) \/ \E call \in Call : AgentCalls(h, call)
  PROVE  Harmless
<1>1. ASSUME NEW call \in Call, AgentCalls(h, call) PROVE Harmless
  <2>1. [Idle EXCEPT !.pc = "effect", !.call = call] \in Working
    BY DEF Idle, Working
  <2>2. work' \in [Handlers -> Working \cup {Idle}]
    BY <1>1, <2>1, WorkMoves DEF AgentCalls
  <2>3. board' \in Boards /\ Kept
    BY <1>1, NobodyMoves DEF AgentCalls
  <2>4. member' \in [Slots -> Roster] /\ SameLost
    BY <1>1, HeardKeeps DEF AgentCalls
  <2> QED BY <1>1, <2>2, <2>3, <2>4 DEF Harmless, Typed, AgentCalls
<1>2. CASE EffectReads(h)
  <2>1. work[h] \in Working
    BY <1>2, CallOf DEF EffectReads
  <2>2. [work[h] EXCEPT !.pc = "write"] \in Working
    BY <2>1 DEF Working
  <2>3. work' \in [Handlers -> Working \cup {Idle}]
    BY <1>2, <2>2 DEF EffectReads, Typed
  <2> QED BY <1>2, <2>3, NobodyMoves, StillKeeps DEF Harmless, Typed, EffectReads
<1>3. CASE EffectWrites(h)
  <2> DEFINE call == work[h].call
  <2>1. /\ call.tool = "create" => call.arg \in Plans
        /\ call.tool = "update" => call.arg \in Status
        /\ call.slot \in Slots
    BY <1>3, CallOf DEF EffectWrites
  <2>2. work' \in [Handlers -> Working \cup {Idle}]
    BY <1>3, WorkMoves DEF EffectWrites
  <2>3. CASE call.tool = "create" /\ createTeamTask(call.arg)
    BY <1>3, <2>1, <2>2, <2>3, CreateKeeps DEF Harmless, Typed, EffectWrites
  <2>4. CASE call.tool = "claim" /\ claimTeamTask(call.task, call.slot)
    BY <1>3, <2>1, <2>2, <2>4, ClaimKeeps DEF Harmless, Typed, EffectWrites
  <2>5. CASE call.tool = "update" /\ updateTeamTaskStatus(call.task, call.arg)
    BY <1>3, <2>1, <2>2, <2>5, UpdateKeeps DEF Harmless, Typed, EffectWrites
  <2> QED BY <1>3, <2>3, <2>4, <2>5 DEF EffectWrites
<1>4. CASE ReportWrites(h)
  <2> DEFINE opens == OpenedBy(work[h].call.task)
  <2>1. work[h] \in Working
    BY <1>4, CallOf DEF ReportWrites
  <2>2. opens \subseteq Tasks
    BY RowOf DEF OpenedBy
  <2>3. [work[h] EXCEPT !.pc = "commit", !.opens = opens] \in Working
    BY <2>1, <2>2 DEF Working
  <2>4. work' \in [Handlers -> Working \cup {Idle}]
    BY <1>4, <2>3 DEF ReportWrites, Typed
  <2> QED BY <1>4, <2>4, NobodyMoves, StillKeeps DEF Harmless, Typed, ReportWrites
<1>5. CASE ReportCommits(h)
  <2>1. work' \in [Handlers -> Working \cup {Idle}]
    BY <1>5, WorkMoves DEF ReportCommits
  <2>2. board' \in Boards /\ Kept
    BY <1>5, ReportKeeps DEF ReportCommits
  <2>3. member' \in [Slots -> Roster] /\ SameLost
    BY <1>5, HeardKeeps DEF ReportCommits
  <2> QED BY <1>5, <2>1, <2>2, <2>3 DEF Harmless, Typed, ReportCommits
<1>6. CASE CallFails(h)
  <2>1. work' \in [Handlers -> Working \cup {Idle}]
    BY <1>6, WorkMoves DEF CallFails
  <2> QED BY <1>6, <2>1, NobodyMoves, StillKeeps DEF Harmless, Typed, CallFails
<1> QED BY <1>1, <1>2, <1>3, <1>4, <1>5, <1>6 DEF HandlerStep

LEMMA RoomHarmless == Typed /\ Room => Harmless
<1> SUFFICES ASSUME Typed, Room PROVE Harmless
  OBVIOUS
<1>1. ASSUME NEW plan \in Plans, createTeamTaskAction(plan) PROVE Harmless
  BY <1>1, CreateKeeps DEF createTeamTaskAction, ByRoom, Harmless, Typed
<1>2. ASSUME NEW t \in Created, NEW s \in Slots, claimTeamTaskAction(t, s) PROVE Harmless
  BY <1>2, ClaimKeeps DEF claimTeamTaskAction, ByRoom, Harmless, Typed
<1>3. ASSUME NEW t \in Created, NEW status \in Statuses \cup {"done"}, setTeamTaskStatusAction(t, status)
      PROVE  Harmless
  <2>1. status \in Status
    BY TeamAssumption DEF TeamAssumption, Status
  <2> QED BY <1>3, <2>1, UpdateKeeps DEF setTeamTaskStatusAction, ByRoom, Harmless, Typed
<1>4. ASSUME NEW t \in Created, reportTeamTaskDoneAction(t) PROVE Harmless
  BY <1>4, ReportKeeps, HeardKeeps DEF reportTeamTaskDoneAction, ByRoom, Harmless, Typed
<1> QED BY <1>1, <1>2, <1>3, <1>4 DEF Room

LEMMA MembersHarmless == Typed /\ Members => Harmless
<1> SUFFICES ASSUME Typed, Members PROVE Harmless
  OBVIOUS
<1>1. ASSUME NEW s \in Slots, NEW mode \in {"idle", "working", "waiting"}, Becomes(s, mode)
      PROVE  member' \in [Slots -> Roster] /\ SameLost
  <2>1. /\ [member[s] EXCEPT !.mode = mode, !.word = "fresh"] \in Roster
        /\ [member[s] EXCEPT !.mode = mode, !.word = "fresh"].lost = member[s].lost
    BY DEF Typed, Roster
  <2> QED BY <1>1, <2>1 DEF Becomes, Typed, SameLost
<1>2. ASSUME NEW s \in Slots, FallsSilent(s) PROVE member' \in [Slots -> Roster] /\ SameLost
  <2>1. /\ [member[s] EXCEPT !.word = "silent"] \in Roster
        /\ [member[s] EXCEPT !.word = "silent"].lost = member[s].lost
    BY DEF Typed, Roster
  <2> QED BY <1>2, <2>1 DEF FallsSilent, Typed, SameLost
<1>3. member' \in [Slots -> Roster] /\ SameLost
  <2>1. ASSUME NEW s \in Slots, RunStarts(s) \/ RunEnds(s) \/ Speaks(s) \/ AsksPerson(s) \/ PersonAnswers(s)
        PROVE  member' \in [Slots -> Roster] /\ SameLost
    BY <1>1, <2>1 DEF RunStarts, RunEnds, Speaks, AsksPerson, PersonAnswers
  <2> QED BY <1>2, <2>1, StillKeeps DEF Members, stopTeamRoom, GraceEnds
<1>4. UNCHANGED <<board, work, sweep>> /\ grace' \in BOOLEAN
  BY DEF Members, RunStarts, RunEnds, Speaks, AsksPerson, PersonAnswers, FallsSilent, stopTeamRoom,
         GraceEnds, MembersUnchanged, Typed
<1> QED BY <1>3, <1>4, NobodyMoves DEF Harmless, Typed

\* Whoever is to be marked keeps his tasks; so does who was marked, until the sweep comes.
LEMMA HarmlessKeeps == BoardInv /\ Harmless => BoardInv'
<1> SUFFICES ASSUME BoardInv, Harmless PROVE BoardInv'
  OBVIOUS
<1>1. ASSUME NEW b \in Tabs, sweep'[b].lost # {}, NEW s \in Slots, ~member'[s].lost,
             NEW t \in sweep'[b].held[s]
      PROVE  t \in DOMAIN board' /\ board'[t].owner = s
  <2>1. t \in Created /\ board[t].owner = s
    BY <1>1 DEF BoardInv, Awaited, Harmless, SameLost
  <2> QED BY <2>1, TeamAssumption DEF Harmless, Kept, TeamAssumption
<1>2. ASSUME NEW b \in Tabs, sweep'[b].left # {}
      PROVE  /\ sweep'[b].slot \in Slots /\ member'[sweep'[b].slot].lost
             /\ \A t \in sweep'[b].left : t \in DOMAIN board' /\ board'[t].owner = sweep'[b].slot
  BY <1>2, TeamAssumption DEF BoardInv, Forfeit, Harmless, SameLost, Kept, TeamAssumption
<1>3. Awaited' /\ Forfeit'
  BY <1>1, <1>2 DEF Awaited, Forfeit, Created
<1>4. TypeOK'
  BY TypedIs, PTL DEF Harmless
<1> QED BY <1>3, <1>4 DEF BoardInv

-----------------------------------------------------------------------------
(* The sweep.                                                               *)

LEMMA SweepOf ==
  ASSUME Typed, NEW b \in Tabs
  PROVE  /\ sweep[b] \in Sweeping /\ sweep[b].left \subseteq Tasks /\ sweep[b].lost \subseteq Slots
         /\ sweep[b].back \subseteq Slots
         /\ \A s \in Slots : sweep[b].held[s] \subseteq Tasks
BY DEF Typed, Sweeping

LEMMA AfterIsLess ==
  ASSUME NEW S, NEW s, NEW done
  PROVE  After(S, s, done) \subseteq S
BY DEF After

\* A sweep of the only page reads what everybody holds.
LEMMA ReadsKeep ==
  ASSUME OnePage, BoardInv, NEW b \in Tabs, SweepReads(b)
  PROVE  BoardInv'
<1> Typed
  BY TypedIs DEF BoardInv
<1> DEFINE lost == {s \in Slots : ~member[s].lost /\ Silent(s) /\ Accountable(s) /\ ~Explained(s)}
           back == {s \in Slots : member[s].lost /\ ~Silent(s)}
           held == [s \in Slots |-> HeldBy(s)]
           heard == {s \in Slots : ~Silent(s)}
           read == [pc |-> "sweeping", slot |-> None, left |-> {}, lost |-> lost, back |-> back,
                    held |-> held, heard |-> heard]
<1>1. sweep' = [sweep EXCEPT ![b] = read] /\ UNCHANGED <<board, member, work, grace>>
  BY DEF SweepReads, SweepUnchanged
<1>2. held \in [Slots -> SUBSET Tasks]
  BY RowOf DEF HeldBy
<1>3. lost \subseteq Slots /\ back \subseteq Slots /\ heard \subseteq Slots
  OBVIOUS
<1>4. \A s \in Slots : \A t \in held[s] : t \in Created /\ board[t].owner = s
  BY DEF HeldBy
<1> HIDE DEF lost, back, held, heard
<1>5. read \in Sweeping
  BY <1>2, <1>3 DEF Sweeping
<1>6. Typed'
  <2>1. sweep' \in [Tabs -> Sweeping]
    BY <1>1, <1>5 DEF Typed
  <2> QED BY <1>1, <2>1 DEF Typed
<1>7. \A a \in Tabs : sweep'[a].left = {} /\ sweep'[a].held = held
  BY <1>1 DEF OnePage, Typed
<1>8. Awaited' /\ Forfeit'
  BY <1>1, <1>4, <1>7 DEF Awaited, Forfeit, Created
<1> QED BY <1>6, <1>8, TypedIs, PTL DEF BoardInv

\* A member is marked: what he was read to hold, he holds, and it is handed back now.
LEMMA MarksKeep ==
  ASSUME OnePage, BoardInv, NEW b \in Tabs, SweepMarks(b)
  PROVE  BoardInv'
<1> Typed
  BY TypedIs DEF BoardInv
<1> PICK s \in Slots :
      /\ First(sweep[b].lost, s) /\ member' = [member EXCEPT ![s].lost = TRUE]
      /\ sweep' = [sweep EXCEPT ![b].lost = After(@, s, ~member[s].lost), ![b].slot = s,
                                ![b].left = IF ~member[s].lost THEN sweep[b].held[s] ELSE {}]
  BY DEF SweepMarks
<1> DEFINE left == IF ~member[s].lost THEN sweep[b].held[s] ELSE {}
           rest == After(sweep[b].lost, s, ~member[s].lost)
           marked == [sweep[b] EXCEPT !.lost = rest, !.slot = s, !.left = left]
<1>1. UNCHANGED <<board, work, grace>>
  BY DEF SweepMarks, SweepUnchanged
<1>2. rest \subseteq sweep[b].lost /\ s \in sweep[b].lost
  BY AfterIsLess DEF First
<1>3. left \subseteq Tasks /\ \A t \in left : t \in Created /\ board[t].owner = s
  BY <1>2, SweepOf DEF BoardInv, Awaited
<1>4. sweep' = [sweep EXCEPT ![b] = marked]
  BY DEF Typed, Sweeping
<1> HIDE DEF left, rest
<1>5. /\ marked \in Sweeping /\ marked.left = left /\ marked.slot = s
      /\ marked.lost = rest /\ marked.held = sweep[b].held
  BY <1>2, <1>3, SweepOf DEF Sweeping
<1> HIDE DEF marked
<1>6. [member[s] EXCEPT !.lost = TRUE] \in Roster /\ [member[s] EXCEPT !.lost = TRUE].lost
  BY DEF Typed, Roster
<1>7. /\ member' \in [Slots -> Roster] /\ member'[s].lost
      /\ \A o \in Slots : ~member'[o].lost => ~member[o].lost
  BY <1>6 DEF Typed
<1>8. Typed'
  <2>1. sweep' \in [Tabs -> Sweeping]
    BY <1>4, <1>5 DEF Typed
  <2>2. UNCHANGED <<board, work, grace>> /\ member' \in [Slots -> Roster]
    BY <1>1, <1>7
  <2> QED BY <2>1, <2>2 DEF Typed
<1>9. \A a \in Tabs : sweep'[a] = marked
  BY <1>4 DEF OnePage, Typed
<1>10. Awaited'
  BY <1>1, <1>2, <1>5, <1>7, <1>9 DEF BoardInv, Awaited, Created
<1>11. Forfeit'
  BY <1>1, <1>3, <1>5, <1>7, <1>9 DEF Forfeit, Created
<1> QED BY <1>8, <1>10, <1>11, TypedIs, PTL DEF BoardInv

\* A task goes back to the board, from the member that was marked and from nobody else.
LEMMA ReleasesKeep ==
  ASSUME OnePage, BoardInv, NEW b \in Tabs, NEW t \in Tasks, SweepReleases(b, t)
  PROVE  /\ BoardInv'
         /\ \A u \in Created : \/ board[u].owner = board'[u].owner
                               \/ board'[u].owner = None /\ member[board[u].owner].lost
<1> Typed
  BY TypedIs DEF BoardInv
<1> DEFINE row == [board[t] EXCEPT !.owner = None,
                                   !.status = IF board[t].status \in Settled THEN board[t].status ELSE "open"]
           fewer == [sweep[b] EXCEPT !.left = sweep[b].left \ {t}]
<1>1. t \in sweep[b].left /\ sweep' = [sweep EXCEPT ![b] = fewer] /\ UNCHANGED <<work, grace>>
  BY DEF SweepReleases, SweepUnchanged, Typed, Sweeping
<1>2. /\ sweep[b].slot \in Slots /\ member[sweep[b].slot].lost
      /\ \A u \in sweep[b].left : u \in Created /\ board[u].owner = sweep[b].slot
  BY <1>1 DEF BoardInv, Forfeit
<1>3. t \in Created /\ board[t].owner = sweep[b].slot /\ board[t] \in Row
  BY <1>1, <1>2, RowOf
<1>4. row \in Row /\ row.owner = None
  BY <1>3 DEF Row, Status
<1>5. board' = [board EXCEPT ![t] = row] /\ member' = Heard(Holder(row))
  BY DEF SweepReleases, releaseTeamTask, Put
<1> HIDE DEF row
<1>6. /\ board' \in Boards /\ DOMAIN board' = Created
      /\ board'[t].owner = None /\ \A u \in Created \ {t} : board'[u] = board[u]
  <2> PICK n \in 0..MaxTasks : board \in [1..n -> Row]
    BY DEF Typed, Boards
  <2> QED BY <1>3, <1>4, <1>5 DEF Boards, Created
<1>7. /\ fewer \in Sweeping /\ fewer.left = sweep[b].left \ {t} /\ fewer.slot = sweep[b].slot
      /\ fewer.lost = sweep[b].lost /\ fewer.held = sweep[b].held
  BY SweepOf DEF Sweeping
<1> HIDE DEF fewer
<1>8. member' \in [Slots -> Roster] /\ SameLost
  BY <1>5, HeardKeeps
<1>9. Typed'
  <2>1. sweep' \in [Tabs -> Sweeping]
    BY <1>1, <1>7 DEF Typed
  <2>2. board' \in Boards /\ member' \in [Slots -> Roster] /\ UNCHANGED <<work, grace>>
    BY <1>1, <1>6, <1>8
  <2> QED BY <2>1, <2>2 DEF Typed
<1>10. \A a \in Tabs : sweep'[a] = fewer
  BY <1>1 DEF OnePage, Typed
<1>11. ASSUME fewer.lost # {}, NEW s \in Slots, ~member'[s].lost, NEW u \in fewer.held[s]
       PROVE  u \in DOMAIN board' /\ board'[u].owner = s
  <2>1. u \in Created /\ board[u].owner = s /\ ~member[s].lost
    BY <1>7, <1>8, <1>11 DEF BoardInv, Awaited, SameLost
  <2>2. u # t
    BY <1>2, <1>3, <2>1
  <2> QED BY <1>6, <2>1, <2>2
<1>12. Awaited'
  BY <1>10, <1>11 DEF Awaited, Created
<1>13. Forfeit'
  BY <1>2, <1>6, <1>7, <1>8, <1>10 DEF Forfeit, Created, SameLost
<1>14. BoardInv'
  BY <1>9, <1>12, <1>13, TypedIs, PTL DEF BoardInv
<1>15. ASSUME NEW u \in Created
       PROVE  \/ board[u].owner = board'[u].owner
              \/ board'[u].owner = None /\ member[board[u].owner].lost
  BY <1>2, <1>3, <1>6
<1> QED BY <1>14, <1>15

\* The last steps of a sweep: nobody is awaited and nothing is left.
LEMMA RestKeeps ==
  ASSUME OnePage, BoardInv, NEW b \in Tabs, SweepRecovers(b) \/ SweepEnds(b) \/ SweepDies(b)
  PROVE  BoardInv' /\ board' = board
<1> Typed
  BY TypedIs DEF BoardInv
<1>1. NoSweep \in Sweeping /\ NoSweep.lost = {} /\ NoSweep.left = {}
  BY DEF NoSweep, Sweeping
<1>2. UNCHANGED <<board, work, grace>>
  BY DEF SweepRecovers, SweepEnds, SweepDies, SweepUnchanged
<1>3. /\ member' \in [Slots -> Roster] /\ sweep' \in [Tabs -> Sweeping]
      /\ sweep'[b].lost = {} /\ sweep'[b].left = {}
  <2>1. CASE SweepRecovers(b)
    <3> PICK s \in Slots :
          /\ First(sweep[b].back, s) /\ member' = [member EXCEPT ![s].lost = FALSE]
          /\ sweep' = [sweep EXCEPT ![b].back = After(@, s, member[s].lost)]
      BY <2>1 DEF SweepRecovers
    <3> DEFINE rest == After(sweep[b].back, s, member[s].lost)
               found == [sweep[b] EXCEPT !.back = rest]
    <3>1. sweep' = [sweep EXCEPT ![b] = found]
      BY DEF Typed, Sweeping
    <3>2. rest \subseteq Slots
      BY AfterIsLess, SweepOf
    <3> HIDE DEF rest
    <3>3. found \in Sweeping /\ found.lost = {} /\ found.left = {}
      BY <2>1, <3>2, SweepOf DEF SweepRecovers, Sweeping
    <3>4. [member[s] EXCEPT !.lost = FALSE] \in Roster
      BY DEF Typed, Roster
    <3> HIDE DEF found
    <3> QED BY <3>1, <3>3, <3>4 DEF Typed
  <2>2. CASE SweepEnds(b)
    <3>1. \A s \in Slots : [member[s] EXCEPT !.word = "seen"] \in Roster
      BY DEF Typed, Roster
    <3> QED BY <1>1, <2>2, <3>1 DEF SweepEnds, Typed
  <2>3. CASE SweepDies(b)
    BY <1>1, <2>3 DEF SweepDies, Typed
  <2> QED BY <2>1, <2>2, <2>3
<1>4. Typed'
  BY <1>2, <1>3 DEF Typed
<1>5. \A a \in Tabs : sweep'[a].lost = {} /\ sweep'[a].left = {}
  BY <1>3 DEF OnePage
<1>6. Awaited' /\ Forfeit'
  BY <1>5 DEF Awaited, Forfeit
<1>7. TypeOK'
  BY <1>4, TypedIs, PTL
<1> QED BY <1>2, <1>6, <1>7 DEF BoardInv

-----------------------------------------------------------------------------
LEMMA InitBoard == Init => BoardInv
<1> SUFFICES ASSUME Init PROVE BoardInv
  OBVIOUS
<1>1. board \in [1..0 -> Row] /\ 0 \in 0..MaxTasks
  BY TeamAssumption DEF Init, TeamAssumption
<1>2. NoSweep \in Sweeping /\ NoSweep.lost = {} /\ NoSweep.left = {}
  BY DEF NoSweep, Sweeping
<1>3. Typed
  BY <1>1, <1>2 DEF Init, Typed, Boards, Roster
<1>4. \A b \in Tabs : sweep[b].lost = {} /\ sweep[b].left = {}
  BY <1>2 DEF Init
<1> QED BY <1>3, <1>4, TypedIs DEF BoardInv, Awaited, Forfeit

LEMMA StepBoard ==
  ASSUME OnePage, BoardInv, [Next]_vars
  PROVE  /\ BoardInv'
         /\ \A t \in Created : \/ board[t].owner \in {None, board'[t].owner}
                               \/ board'[t].owner = None /\ member[board[t].owner].lost
<1> Typed
  BY TypedIs DEF BoardInv
<1> DEFINE Goal == /\ BoardInv'
                   /\ \A t \in Created : \/ board[t].owner \in {None, board'[t].owner}
                                         \/ board'[t].owner = None /\ member[board[t].owner].lost
<1>1. Harmless => Goal
  BY HarmlessKeeps DEF Harmless, Kept
<1>2. CASE ToolCalls
  BY <1>1, <1>2, HandlerHarmless DEF ToolCalls
<1>3. CASE Room
  BY <1>1, <1>3, RoomHarmless
<1>4. CASE Members
  BY <1>1, <1>4, MembersHarmless
<1>5. CASE Sweeps
  <2> PICK b \in Tabs : SweepStep(b) \/ SweepDies(b)
    BY <1>5 DEF Sweeps
  <2>1. CASE SweepReads(b)
    BY <2>1, ReadsKeep DEF SweepReads
  <2>2. CASE SweepMarks(b)
    BY <2>2, MarksKeep DEF SweepMarks
  <2>3. CASE \E t \in Tasks : SweepReleases(b, t)
    BY <2>3, ReleasesKeep
  <2>4. CASE SweepRecovers(b) \/ SweepEnds(b) \/ SweepDies(b)
    BY <2>4, RestKeeps
  <2> QED BY <2>1, <2>2, <2>3, <2>4 DEF SweepStep
<1>6. CASE UNCHANGED vars
  BY <1>1, <1>6, NobodyMoves, StillKeeps DEF vars, Harmless, Typed
<1> QED BY <1>2, <1>3, <1>4, <1>5, <1>6 DEF Next

LEMMA BoardInvariant ==
  ASSUME OnePage
  PROVE  Spec => []BoardInv
<1>1. BoardInv /\ [Next]_vars => BoardInv'
  BY StepBoard
<1> QED BY <1>1, InitBoard, PTL DEF Spec

\* The hand-back of sweepTeamSlots, from a list that was read before the marks and beside
\* the guarded UPDATE of claimTeamTask: with one page open, a task leaves its owner for the
\* board only, and only an owner who was declared lost.
THEOREM TasksStayWithTheirOwner ==
  ASSUME OnePage
  PROVE  Spec => TasksKeepTheirOwner
<1>1. BoardInv /\ [Next]_vars
        => [\A t \in Created : board[t].owner \in {None, board'[t].owner}
                               \/ (board'[t].owner = None /\ member[board[t].owner].lost)]_vars
  BY StepBoard
<1> QED BY <1>1, BoardInvariant, PTL DEF Spec, TasksKeepTheirOwner

-----------------------------------------------------------------------------
(* With any number of pages.                                                *)

\* What a sweep does to the board: it takes tasks from their owners, and gives them to nobody.
Handed == \A t \in Created : /\ t \in DOMAIN board'
                             /\ board[t].owner \in {None, board'[t].owner} \/ board'[t].owner = None

LEMMA KeptIsHanded == Kept => Handed
BY DEF Kept, Handed

\* A page acts on what it read long ago: the row may have an owner that it never saw.
LEMMA ReleasesHanded ==
  ASSUME Typed, NEW b \in Tabs, NEW t \in Tasks, SweepReleases(b, t)
  PROVE  Typed' /\ Handed
<1> DEFINE row == [board[t] EXCEPT !.owner = None,
                                   !.status = IF board[t].status \in Settled THEN board[t].status ELSE "open"]
           fewer == [sweep[b] EXCEPT !.left = sweep[b].left \ {t}]
<1>1. sweep' = [sweep EXCEPT ![b] = fewer] /\ UNCHANGED <<work, grace>>
  BY DEF SweepReleases, SweepUnchanged, Typed, Sweeping
<1>2. fewer \in Sweeping
  BY SweepOf DEF Sweeping
<1>3. board' = [board EXCEPT ![t] = row] /\ member' = Heard(Holder(row))
  BY DEF SweepReleases, releaseTeamTask, Put
<1>4. t \in Created => row \in Row /\ row.owner = None
  BY RowOf DEF Row, Status
<1> HIDE DEF row, fewer
<1>5. board' \in Boards /\ Handed
  <2> PICK n \in 0..MaxTasks : board \in [1..n -> Row]
    BY DEF Typed, Boards
  <2>1. CASE t \in Created
    BY <1>3, <1>4, <2>1 DEF Boards, Handed, Created
  <2>2. CASE t \notin Created
    <3>1. board' = board
      BY <1>3, <2>2 DEF Created
    <3> QED BY <3>1, NobodyMoves, KeptIsHanded
  <2> QED BY <2>1, <2>2
<1>6. member' \in [Slots -> Roster]
  BY <1>3, HeardKeeps
<1>7. sweep' \in [Tabs -> Sweeping]
  BY <1>1, <1>2 DEF Typed
<1> QED BY <1>1, <1>5, <1>6, <1>7 DEF Typed

LEMMA SweepHanded ==
  ASSUME Typed, NEW b \in Tabs, SweepStep(b) \/ SweepDies(b)
  PROVE  Typed' /\ Handed
<1>1. NoSweep \in Sweeping
  BY DEF NoSweep, Sweeping
<1>2. CASE SweepReads(b)
  <2> DEFINE lost == {s \in Slots : ~member[s].lost /\ Silent(s) /\ Accountable(s) /\ ~Explained(s)}
             back == {s \in Slots : member[s].lost /\ ~Silent(s)}
             held == [s \in Slots |-> HeldBy(s)]
             heard == {s \in Slots : ~Silent(s)}
             read == [pc |-> "sweeping", slot |-> None, left |-> {}, lost |-> lost, back |-> back,
                      held |-> held, heard |-> heard]
  <2>1. sweep' = [sweep EXCEPT ![b] = read] /\ UNCHANGED <<board, member, work, grace>>
    BY <1>2 DEF SweepReads, SweepUnchanged
  <2>2. held \in [Slots -> SUBSET Tasks]
    BY RowOf DEF HeldBy
  <2>3. lost \subseteq Slots /\ back \subseteq Slots /\ heard \subseteq Slots
    OBVIOUS
  <2> HIDE DEF lost, back, held, heard
  <2>4. read \in Sweeping
    BY <2>2, <2>3 DEF Sweeping
  <2>5. sweep' \in [Tabs -> Sweeping]
    BY <2>1, <2>4 DEF Typed
  <2> QED BY <2>1, <2>5, NobodyMoves, KeptIsHanded DEF Typed
<1>3. CASE SweepMarks(b)
  <2> PICK s \in Slots :
        /\ First(sweep[b].lost, s) /\ member' = [member EXCEPT ![s].lost = TRUE]
        /\ sweep' = [sweep EXCEPT ![b].lost = After(@, s, ~member[s].lost), ![b].slot = s,
                                  ![b].left = IF ~member[s].lost THEN sweep[b].held[s] ELSE {}]
    BY <1>3 DEF SweepMarks
  <2> DEFINE left == IF ~member[s].lost THEN sweep[b].held[s] ELSE {}
             rest == After(sweep[b].lost, s, ~member[s].lost)
             marked == [sweep[b] EXCEPT !.lost = rest, !.slot = s, !.left = left]
  <2>1. UNCHANGED <<board, work, grace>>
    BY <1>3 DEF SweepMarks, SweepUnchanged
  <2>2. rest \subseteq Slots /\ left \subseteq Tasks
    BY AfterIsLess, SweepOf
  <2>3. sweep' = [sweep EXCEPT ![b] = marked]
    BY DEF Typed, Sweeping
  <2> HIDE DEF left, rest
  <2>4. marked \in Sweeping
    BY <2>2, SweepOf DEF Sweeping
  <2> HIDE DEF marked
  <2>5. [member[s] EXCEPT !.lost = TRUE] \in Roster
    BY DEF Typed, Roster
  <2>6. member' \in [Slots -> Roster] /\ sweep' \in [Tabs -> Sweeping]
    BY <2>3, <2>4, <2>5 DEF Typed
  <2> QED BY <2>1, <2>6, NobodyMoves, KeptIsHanded DEF Typed
<1>4. CASE \E t \in Tasks : SweepReleases(b, t)
  BY <1>4, ReleasesHanded
<1>5. CASE SweepRecovers(b)
  <2> PICK s \in Slots :
        /\ member' = [member EXCEPT ![s].lost = FALSE]
        /\ sweep' = [sweep EXCEPT ![b].back = After(@, s, member[s].lost)]
    BY <1>5 DEF SweepRecovers
  <2> DEFINE rest == After(sweep[b].back, s, member[s].lost)
             found == [sweep[b] EXCEPT !.back = rest]
  <2>1. sweep' = [sweep EXCEPT ![b] = found] /\ UNCHANGED <<board, work, grace>>
    BY <1>5 DEF SweepRecovers, SweepUnchanged, Typed, Sweeping
  <2>2. rest \subseteq Slots
    BY AfterIsLess, SweepOf
  <2> HIDE DEF rest
  <2>3. found \in Sweeping
    BY <2>2, SweepOf DEF Sweeping
  <2> HIDE DEF found
  <2>4. [member[s] EXCEPT !.lost = FALSE] \in Roster
    BY DEF Typed, Roster
  <2>5. member' \in [Slots -> Roster] /\ sweep' \in [Tabs -> Sweeping]
    BY <2>1, <2>3, <2>4 DEF Typed
  <2> QED BY <2>1, <2>5, NobodyMoves, KeptIsHanded DEF Typed
<1>6. CASE SweepEnds(b)
  <2>1. \A s \in Slots : [member[s] EXCEPT !.word = "seen"] \in Roster
    BY DEF Typed, Roster
  <2>2. member' \in [Slots -> Roster] /\ sweep' \in [Tabs -> Sweeping]
    BY <1>1, <1>6, <2>1 DEF SweepEnds, Typed
  <2>3. UNCHANGED <<board, work, grace>>
    BY <1>6 DEF SweepEnds, SweepUnchanged
  <2> QED BY <2>2, <2>3, NobodyMoves, KeptIsHanded DEF Typed
<1>7. CASE SweepDies(b)
  <2>1. sweep' \in [Tabs -> Sweeping] /\ UNCHANGED <<board, work, member, grace>>
    BY <1>1, <1>7 DEF SweepDies, SweepUnchanged, Typed
  <2> QED BY <2>1, NobodyMoves, KeptIsHanded DEF Typed
<1> QED BY <1>2, <1>3, <1>4, <1>5, <1>6, <1>7 DEF SweepStep

LEMMA StepHanded == Typed /\ [Next]_vars => Typed' /\ Handed
<1> SUFFICES ASSUME Typed, [Next]_vars PROVE Typed' /\ Handed
  OBVIOUS
<1>1. Harmless => Typed' /\ Handed
  BY KeptIsHanded DEF Harmless
<1>2. CASE ToolCalls
  BY <1>1, <1>2, HandlerHarmless DEF ToolCalls
<1>3. CASE Room
  BY <1>1, <1>3, RoomHarmless
<1>4. CASE Members
  BY <1>1, <1>4, MembersHarmless
<1>5. CASE Sweeps
  BY <1>5, SweepHanded DEF Sweeps
<1>6. CASE UNCHANGED vars
  <2>1. UNCHANGED <<board, work, member, sweep, grace>>
    BY <1>6 DEF vars
  <2> QED BY <2>1, NobodyMoves, KeptIsHanded DEF Typed
<1> QED BY <1>2, <1>3, <1>4, <1>5, <1>6 DEF Next

LEMMA BoardTyped == Spec => []Typed
<1>1. Init => Typed
  BY InitBoard, TypedIs DEF BoardInv
<1>2. Typed /\ [Next]_vars => Typed'
  BY StepHanded
<1> QED BY <1>1, <1>2, PTL DEF Spec

\* The rows of team_tasks, the handlers, the members and the sweeps keep their types, with
\* any number of pages that sweep.
THEOREM BoardTypeCorrect == Spec => []TypeOK
BY BoardTyped, TypedIs, PTL

\* The guarded UPDATE of claimTeamTask against the hand-back of releaseTeamTask, with any
\* number of pages that sweep: no task disappears, and none goes from one member to another
\* in a step. A late sweep can take a task from the wrong member; it cannot give it to one.
THEOREM TasksChangeHandsOnTheBoard ==
  Spec => [][\A t \in Created :
               /\ t \in DOMAIN board'
               /\ board[t].owner \in {None, board'[t].owner} \/ board'[t].owner = None]_vars
<1>1. Typed /\ [Next]_vars
        => [\A t \in Created :
              /\ t \in DOMAIN board'
              /\ board[t].owner \in {None, board'[t].owner} \/ board'[t].owner = None]_vars
  BY StepHanded DEF Handed
<1> QED BY <1>1, BoardTyped, PTL DEF Spec

=============================================================================
