-------------------------- MODULE DispatcherProofs --------------------------
(***************************************************************************)
(* Proofs about RunBroker and Dispatcher, for every set of server processes *)
(* and requests, every ceiling, every set of missing profiles and every     *)
(* value of the bounds.                                                     *)
(*                                                                         *)
(* First the run table.  The broker's invariant is inductive together with  *)
(* what it presupposes of the executions: which row each one acts on, that  *)
(* the row exists, and that claims are numbered without gaps.  Then the     *)
(* processes: they implement the run table's specification; none runs more  *)
(* turns of an agent than the agent allows, although slots may leak and     *)
(* executions may outlive their leases; a slot that does not leak comes     *)
(* back; and the registry counts what the process really executes.          *)
(***************************************************************************)
EXTENDS Dispatcher, FiniteSetTheorems, TLAPS

-----------------------------------------------------------------------------
(* The run table.                                                           *)

\* An execution has a row from its claim on, and the row was inserted before.
ActsOnARow(c) ==
  IF exec[c].pc = "free" THEN exec[c].run = None
  ELSE exec[c].run \in RunIds /\ runs[exec[c].run].status # "absent"

\* Claims are numbered in order: nothing is free below one that is not.
NoGapBelow(c) == exec[c].pc = "free" => \A d \in Claims : d > c => exec[d].pc = "free"

\* A settle has an outcome to write, and a page stamp a page.
KnowsItsVerdict(c) == exec[c].pc \in {"settling", "recovering"} => exec[c].verdict \in Verdicts
HasATask(c) == exec[c].writing =>
                 exec[c].run \in RunIds /\ runs[exec[c].run].task # None

Grounded ==
  \A c \in Claims : ActsOnARow(c) /\ NoGapBelow(c) /\ KnowsItsVerdict(c) /\ HasATask(c)

TypeInv == TypeOK /\ Grounded

\* The empty table, before enqueueRun inserts a first row, is well typed.
LEMMA InitType == Init => TypeInv
  <1> SUFFICES ASSUME Init PROVE TypeInv
    OBVIOUS
  <1> USE BrokerAssumption DEF BrokerAssumption
  <1>1. AbsentRow \in Row
    BY DEF AbsentRow, QueuedRow, Row, Tasks, Agents, Pages, Sessions, Status, NoToken, Held, Terminal
  <1>2. FreeExecution \in Execution
    BY DEF FreeExecution, Execution, Phases
  <1>3. TypeOK
    BY <1>1, <1>2 DEF Init, TypeOK
  <1>4. Grounded
    BY DEF Init, Grounded, ActsOnARow, NoGapBelow, KnowsItsVerdict, HasATask, FreeExecution
  <1> QED BY <1>3, <1>4 DEF TypeInv

-----------------------------------------------------------------------------
(* What the helpers return.                                                *)

\* settleRun's UPDATE keeps a row a row, and clears its token.
LEMMA SettledRowType ==
  ASSUME NEW row \in Row, NEW outcome \in Terminal
  PROVE  /\ SettledRow(row, outcome) \in Row
         /\ SettledRow(row, outcome).status = outcome
         /\ SettledRow(row, outcome).token = NoToken
         /\ SettledRow(row, outcome).task = row.task
  BY DEF SettledRow, Row, Status

\* Every verdict that settleRun is given is written as a terminal status.
LEMMA OutcomeIsTerminal ==
  ASSUME NEW verdict \in Verdicts PROVE Outcome(verdict) \in Terminal
  BY DEF Outcome, Verdicts, Terminal

\* The row settleRun inserts for a retry stays within max_attempts.
LEMMA RetryRowType ==
  ASSUME TypeOK, NEW r \in RunIds, NEW verdict, Retries(r, verdict)
  PROVE  /\ RetryOf(r) \in Row
         /\ RetryOf(r).status = "queued"
         /\ RetryOf(r).token = NoToken
  BY BrokerAssumption
  DEF BrokerAssumption, TypeOK, Retries, RetryOf, QueuedRow, Row, Status, Sessions

\* The row enqueueRun inserts is well typed.
LEMMA QueuedRowType ==
  ASSUME NEW q \in Requests
  PROVE  /\ QueuedRow(q, q.session, 1, None) \in Row
         /\ QueuedRow(q, q.session, 1, None).status = "queued"
         /\ QueuedRow(q, q.session, 1, None).token = NoToken
  BY BrokerAssumption
  DEF BrokerAssumption, QueuedRow, Row, Status, Tasks, Agents, Pages, Sessions

\* The committed settle: the row becomes terminal, at most one absent row becomes
\* the queued retry, and every other row is left alone.
LEMMA CommitSettleEffect ==
  ASSUME TypeOK, NEW r \in RunIds, NEW verdict \in Verdicts, CommitSettle(r, verdict),
         runs[r].status # "absent"
  PROVE  /\ runs' \in [RunIds -> Row]
         /\ runs'[r] = SettledRow(runs[r], Outcome(verdict))
         /\ \A s \in RunIds \ {r} :
              \/ runs'[s] = runs[s]
              \/ /\ runs[s].status = "absent"
                 /\ Retries(r, verdict)
                 /\ runs'[s] = RetryOf(r)
  <1> DEFINE row == SettledRow(runs[r], Outcome(verdict))
             settled == [runs EXCEPT ![r] = row]
  <1>1. row \in Row
    BY SettledRowType, OutcomeIsTerminal DEF TypeOK
  <1>2. CASE ~Retries(r, verdict)
    BY <1>1, <1>2 DEF CommitSettle, TypeOK
  <1>3. CASE Retries(r, verdict)
    <2>1. PICK n \in FreshIds : runs' = [settled EXCEPT ![n] = RetryOf(r)]
      BY <1>3 DEF CommitSettle
    <2>2. n \in RunIds /\ runs[n].status = "absent"
      BY DEF FreshIds
    <2>3. RetryOf(r) \in Row
      BY <1>3, RetryRowType
    <2> QED BY <1>1, <1>3, <2>1, <2>2, <2>3 DEF TypeOK
  <1> QED BY <1>2, <1>3

\* A promise that is over is still a well-typed execution.
LEMMA EndType ==
  ASSUME NEW c \in Claims, exec[c] \in Execution, NEW pc \in {"ended", "dead"}
  PROVE  /\ End(c, pc) \in Execution
         /\ End(c, pc).pc = pc
         /\ End(c, pc).run = exec[c].run
         /\ End(c, pc).worker = exec[c].worker
         /\ End(c, pc).writing = exec[c].writing
  BY DEF End, Execution, Phases

\* A claim, whether or not its reply gets home.
Claiming(w) == claimNextRun(w) \/ LoseClaim(w)

\* A claim: one queued row is handed to the worker, one execution starts on it.
LEMMA ClaimEffect ==
  ASSUME TypeOK, NEW w \in Workers, Claiming(w)
  PROVE  \E r \in Claimable(w), c \in FreshClaims, row \in Row, e \in Execution :
           /\ r \in RunIds /\ runs[r].status = "queued"
           /\ c \in Claims /\ exec[c].pc = "free" /\ \A d \in 1..(c - 1) : exec[d].pc # "free"
           /\ runs' = [runs EXCEPT ![r] = row] /\ exec' = [exec EXCEPT ![c] = e]
           /\ row.status = "dispatched" /\ row.worker = w /\ row.token = c /\ row.lease = "live"
           /\ row.task = runs[r].task /\ Key(row) = Key(runs[r]) /\ row.retryOf = runs[r].retryOf
           /\ e.run = r /\ e.worker = w /\ e.pc \in {"claimed", "dead"} /\ ~e.writing
  <1>1. PICK r \in Claimable(w), c \in FreshClaims, pc \in {"claimed", "dead"} :
          /\ runs' = [runs EXCEPT ![r] = [@ EXCEPT !.status = "dispatched", !.worker = w,
                                                   !.lease = "live", !.token = c]]
          /\ exec' = [exec EXCEPT ![c] = [FreeExecution EXCEPT !.run = r, !.worker = w,
                                                              !.pc = pc]]
    BY DEF Claiming, claimNextRun, LoseClaim, ClaimRow
  <1>2. r \in RunIds /\ runs[r].status = "queued"
    BY DEF Claimable
  <1>3. c \in Claims /\ exec[c].pc = "free" /\ \A d \in 1..(c - 1) : exec[d].pc # "free"
    BY DEF FreshClaims
  <1> DEFINE row == [runs[r] EXCEPT !.status = "dispatched", !.worker = w,
                                    !.lease = "live", !.token = c]
             e == [FreeExecution EXCEPT !.run = r, !.worker = w, !.pc = pc]
  <1>4. runs' = [runs EXCEPT ![r] = row] /\ exec' = [exec EXCEPT ![c] = e]
    BY <1>1
  <1>5. runs[r] \in Row
    BY <1>2 DEF TypeOK
  <1>6. /\ row \in Row
        /\ row.status = "dispatched" /\ row.worker = w /\ row.token = c /\ row.lease = "live"
        /\ row.task = runs[r].task /\ Key(row) = Key(runs[r]) /\ row.retryOf = runs[r].retryOf
    BY <1>3, <1>5 DEF Row, Status, Held, Key
  <1>7. e \in Execution /\ e.run = r /\ e.worker = w /\ e.pc = pc /\ ~e.writing
    BY <1>2 DEF FreeExecution, Execution, Phases, Alive
  <1> HIDE DEF row, e
  <1> QED BY <1>2, <1>3, <1>4, <1>6, <1>7

-----------------------------------------------------------------------------
(* Type correctness.                                                       *)

\* What all steps but a claim do to the table and to the executions.
RowsStay ==
  \A r \in RunIds : runs[r].status # "absent" =>
                      runs'[r].status # "absent" /\ runs'[r].task = runs[r].task
StaysOnItsRow(c) ==
  /\ exec'[c].run = exec[c].run /\ exec'[c].worker = exec[c].worker
  /\ exec'[c].pc = "free" <=> exec[c].pc = "free"
  /\ exec'[c].pc \in {"settling", "recovering"} => exec'[c].verdict \in Verdicts

\* If rows stay inserted and executions stay on their rows, every execution still
\* acts on a row that claimNextRun once gave it.
LEMMA GroundedStays ==
  ASSUME Grounded, RowsStay,
         \A c \in Claims : StaysOnItsRow(c) /\ (exec'[c].writing => exec[c].writing)
  PROVE  Grounded'
  <1> SUFFICES ASSUME NEW c \in Claims
               PROVE  (ActsOnARow(c) /\ NoGapBelow(c) /\ KnowsItsVerdict(c) /\ HasATask(c))'
    BY DEF Grounded
  <1>1. ActsOnARow(c) /\ NoGapBelow(c) /\ HasATask(c)
    BY DEF Grounded
  <1>2. ActsOnARow(c)'
    BY <1>1 DEF ActsOnARow, RowsStay, StaysOnItsRow
  <1>3. NoGapBelow(c)'
    BY <1>1 DEF NoGapBelow, StaysOnItsRow
  <1>4. KnowsItsVerdict(c)'
    BY DEF KnowsItsVerdict, StaysOnItsRow
  <1>5. HasATask(c)'
    BY <1>1 , BrokerAssumption DEF BrokerAssumption, HasATask, ActsOnARow, RowsStay, StaysOnItsRow
  <1> QED BY <1>2, <1>3, <1>4, <1>5

\* Goto, Decide and Finish: one execution moves on, its row and page stay.
LEMMA MovesOn ==
  ASSUME TypeInv, NEW c \in Claims, exec[c].pc # "free",
         \/ \E pc \in Phases \ {"free", "settling", "recovering"} : Goto(c, pc)
         \/ \E pc \in Phases \ {"free"}, v \in Verdicts : Decide(c, pc, v)
         \/ Finish(c)
  PROVE  /\ exec' \in [Claims -> Execution]
         /\ \A d \in Claims : StaysOnItsRow(d) /\ exec'[d].writing = exec[d].writing
  <1>1. exec \in [Claims -> Execution]
    BY DEF TypeInv, TypeOK
  <1>2. \A d \in Claims : KnowsItsVerdict(d)
    BY DEF TypeInv, Grounded
  <1>3. CASE \E pc \in Phases \ {"free", "settling", "recovering"} : Goto(c, pc)
    BY <1>1, <1>2, <1>3 DEF TypeInv, Grounded, Goto, Execution, StaysOnItsRow, KnowsItsVerdict
  <1>4. CASE \E pc \in Phases \ {"free"}, v \in Verdicts : Decide(c, pc, v)
    <2>1. PICK pc \in Phases \ {"free"}, v \in Verdicts : Decide(c, pc, v)
      BY <1>4
    <2> DEFINE e == [exec[c] EXCEPT !.pc = pc, !.verdict = v]
    <2>2. /\ e \in Execution /\ e.pc = pc /\ e.verdict = v
          /\ e.run = exec[c].run /\ e.worker = exec[c].worker /\ e.writing = exec[c].writing
      BY <1>1 DEF Execution
    <2>3. exec' = [exec EXCEPT ![c] = e]
      BY <2>1 DEF Decide
    <2> HIDE DEF e
    <2> QED BY <1>1, <1>2, <2>2, <2>3 DEF StaysOnItsRow, KnowsItsVerdict
  <1>5. CASE Finish(c)
    BY <1>1, <1>5, EndType DEF TypeInv, Grounded, Finish, Execution, StaysOnItsRow, KnowsItsVerdict
  <1> QED BY <1>3, <1>4, <1>5


ExecutionsStay == \A c \in Claims : StaysOnItsRow(c)

\* One action per step; each shows its rows typed and still there, and its
\* executions typed and, unless a claim starts one, still on their rows.
LEMMA TypeStep ==
  ASSUME TypeInv, [Next]_vars
  PROVE  TypeInv' /\ (ExecutionsStay \/ \E w \in Workers : Claiming(w))
  <1> DEFINE Goal == TypeInv' /\ (ExecutionsStay \/ \E w \in Workers : Claiming(w))
  <1>ty. /\ runs \in [RunIds -> Row] /\ exec \in [Claims -> Execution] /\ asked \subseteq RunIds
         /\ crashes \in 0..MaxCrashes /\ pauses \in 0..MaxPauses /\ dbFaults \in 0..MaxDbFaults
         /\ TypeOK /\ Grounded
    BY DEF TypeInv, TypeOK
  <1>alive. \A c \in Claims : exec[c].pc # "free" =>
              exec[c].run \in RunIds /\ runs[exec[c].run].status # "absent"
    BY <1>ty DEF Grounded, ActsOnARow
  <1>same. /\ \A c \in Claims : exec' = exec => StaysOnItsRow(c) /\ exec'[c].writing = exec[c].writing
           /\ runs' = runs => RowsStay
    BY <1>ty DEF StaysOnItsRow, RowsStay, Grounded, KnowsItsVerdict
  <1>done. ASSUME TypeOK', RowsStay,
                  \A c \in Claims : StaysOnItsRow(c) /\ (exec'[c].writing => exec[c].writing)
           PROVE  Goal
    BY <1>ty, <1>done, GroundedStays DEF TypeInv, ExecutionsStay
  <1>1. ASSUME NEW q \in Requests, enqueueRun(q) PROVE Goal
    <2>1. PICK n \in FreshIds : runs' = [runs EXCEPT ![n] = QueuedRow(q, q.session, 1, None)]
      BY <1>1 DEF enqueueRun
    <2>2. n \in RunIds /\ runs[n].status = "absent"
      BY DEF FreshIds
    <2>3. TypeOK' /\ RowsStay
      BY <1>1, <1>ty, <2>1, <2>2, QueuedRowType DEF enqueueRun, Rest, Counters, TypeOK, RowsStay
    <2> QED BY <1>1, <1>same, <1>done, <2>3 DEF enqueueRun, Rest
  <1>2. ASSUME NEW r \in RunIds, requestRunCancellation(r) PROVE Goal
    <2> DEFINE row == [runs[r] EXCEPT !.stop = TRUE]
    <2>2. runs' = [runs EXCEPT ![r] = row]
      BY <1>2 DEF requestRunCancellation
    <2>3. row \in Row /\ row.status = runs[r].status /\ row.task = runs[r].task
      BY <1>ty DEF Row
    <2> HIDE DEF row
    <2>1. TypeOK' /\ RowsStay
      BY <1>2, <1>ty, <2>2, <2>3 DEF requestRunCancellation, Rest, Counters, TypeOK, RowsStay
    <2> QED BY <1>2, <1>same, <1>done, <2>1 DEF requestRunCancellation, Rest
  <1>3. ASSUME NEW r \in RunIds, ReadForAsk(r) PROVE Goal
    <2>1. TypeOK'
      BY <1>3, <1>ty, BrokerAssumption DEF BrokerAssumption, ReadForAsk, TypeOK
    <2> QED BY <1>3, <1>same, <1>done, <2>1 DEF ReadForAsk
  <1>4. ASSUME NEW r \in RunIds, SettleFromAsk(r) PROVE Goal
    <2>1. "cancelled" \in Terminal
      BY DEF Terminal
    <2>2. TypeOK' /\ RowsStay
      BY <1>4, <1>ty, <2>1, SettledRowType DEF SettleFromAsk, Counters, TypeOK, RowsStay, Terminal
    <2> QED BY <1>4, <1>same, <1>done, <2>2 DEF SettleFromAsk
  <1>5. ASSUME sweepExpiredLeases PROVE Goal
    <2>2. ASSUME NEW r \in RunIds
          PROVE  /\ runs'[r] \in Row /\ runs'[r].task = runs[r].task
                 /\ runs[r].status # "absent" => runs'[r].status # "absent"
      <3>1. CASE Expired(runs[r])
        <4> DEFINE row == [runs[r] EXCEPT !.status = "queued", !.worker = None, !.lease = "none"]
        <4>1. runs'[r] = row
          BY <1>5, <3>1 DEF sweepExpiredLeases
        <4>2. row \in Row /\ row.task = runs[r].task /\ row.status = "queued"
          BY <1>ty DEF Row, Status
        <4> HIDE DEF row
        <4> QED BY <4>1, <4>2
      <3>2. CASE ~Expired(runs[r])
        BY <1>5, <1>ty, <3>2 DEF sweepExpiredLeases
      <3> QED BY <3>1, <3>2
    <2>3. runs' = [r \in RunIds |-> runs'[r]]
      BY <1>5 DEF sweepExpiredLeases
    <2>4. runs' \in [RunIds -> Row] /\ RowsStay
      BY <2>2, <2>3 DEF RowsStay
    <2>1. TypeOK' /\ RowsStay
      BY <1>5, <1>ty, <2>4 DEF sweepExpiredLeases, Rest, Counters, TypeOK
    <2> QED BY <1>5, <1>same, <1>done, <2>1 DEF sweepExpiredLeases, Rest
  <1>6. ASSUME NEW w \in Workers, Claiming(w) PROVE Goal
    <2>1. PICK r \in Claimable(w), c \in FreshClaims, row \in Row, e \in Execution :
            /\ r \in RunIds /\ runs[r].status = "queued"
            /\ c \in Claims /\ exec[c].pc = "free" /\ \A d \in 1..(c - 1) : exec[d].pc # "free"
            /\ runs' = [runs EXCEPT ![r] = row] /\ exec' = [exec EXCEPT ![c] = e]
            /\ row.status = "dispatched" /\ row.task = runs[r].task
            /\ e.run = r /\ e.pc \in {"claimed", "dead"} /\ ~e.writing
      BY <1>6, <1>ty, ClaimEffect
    <2>2. /\ asked' \subseteq RunIds
          /\ crashes' \in 0..MaxCrashes /\ pauses' \in 0..MaxPauses /\ dbFaults' \in 0..MaxDbFaults
      BY <1>6, <1>ty, BrokerAssumption
      DEF BrokerAssumption, Claiming, claimNextRun, LoseClaim, Rest, Counters
    <2>4. runs' \in [RunIds -> Row] /\ RowsStay /\ runs'[r].status # "absent"
      BY <1>ty, <2>1 DEF RowsStay
    <2>7. TypeOK'
      BY <1>ty, <2>1, <2>2, <2>4 DEF TypeOK
    <2>8. ASSUME NEW d \in Claims
          PROVE  (ActsOnARow(d) /\ KnowsItsVerdict(d) /\ HasATask(d))'
      <3>1. CASE d = c
        BY <1>ty, <2>1, <2>4, <3>1 DEF ActsOnARow, KnowsItsVerdict, HasATask
      <3>2. CASE d # c
        <4>1. exec'[d] = exec[d]
          BY <1>ty, <2>1, <3>2
        <4>2. ActsOnARow(d) /\ KnowsItsVerdict(d) /\ HasATask(d)
          BY <1>ty DEF Grounded
        <4> QED BY <1>alive, <2>4, <4>1, <4>2, BrokerAssumption
                DEF BrokerAssumption, ActsOnARow, KnowsItsVerdict, HasATask, RowsStay
      <3> QED BY <3>1, <3>2
    <2>9. ASSUME NEW d \in Claims PROVE NoGapBelow(d)'
      <3>1. NoGapBelow(d)
        BY <1>ty DEF Grounded
      <3> QED BY <1>ty, <2>1, <3>1 DEF NoGapBelow, Claims
    <2> QED BY <1>6, <2>7, <2>8, <2>9 DEF TypeInv, Grounded
  <1>moves. ASSUME NEW c \in Claims, exec[c].pc # "free", UNCHANGED <<runs, Rest>>,
                   \/ \E pc \in Phases \ {"free", "settling", "recovering"} : Goto(c, pc)
                   \/ \E pc \in Phases \ {"free"}, v \in Verdicts : Decide(c, pc, v)
                   \/ Finish(c)
            PROVE  Goal
    <2>1. /\ exec' \in [Claims -> Execution]
          /\ \A d \in Claims : StaysOnItsRow(d) /\ exec'[d].writing = exec[d].writing
      BY <1>moves, MovesOn
    <2> QED BY <1>moves, <1>ty, <1>same, <1>done, <2>1 DEF TypeOK, Rest, Counters
  <1>7. ASSUME NEW c \in Claims, NEW v \in {"failed", "retryable"},
               RefuseRun(c, v) \/ ThrowBeforeTurn(c, v)
        PROVE  Goal
    <2>1. v \in Verdicts /\ {"settling", "recovering"} \subseteq Phases \ {"free"}
      BY DEF Verdicts, Phases, Alive
    <2> QED BY <1>7, <1>moves, <2>1 DEF RefuseRun, ThrowBeforeTurn
  <1>8. ASSUME NEW c \in Claims, BeginTurn(c) PROVE Goal
    <2>1. "turn" \in Phases \ {"free", "settling", "recovering"}
      BY DEF Phases, Alive
    <2> QED BY <1>8, <1>moves, <2>1 DEF BeginTurn
  <1>9. ASSUME NEW c \in Claims, NEW v \in Verdicts, FinishTurn(c, v) \/ FailTurn(c, v)
        PROVE  Goal
    <2>1. "cancelled" \in Verdicts /\ "settling" \in Phases \ {"free"}
      BY DEF Verdicts, Phases, Alive
    <2> QED BY <1>9, <1>moves, <2>1 DEF FinishTurn, FailTurn
  <1>10. ASSUME NEW c \in Claims, markRunStarted(c) PROVE Goal
    <2>1. "started" \in Phases \ {"free", "settling", "recovering"}
      BY DEF Phases, Alive
    <2>2. exec[c].pc = "claimed" /\ Goto(c, "started")
      BY <1>10 DEF markRunStarted
    <2>3. /\ exec' \in [Claims -> Execution]
          /\ \A d \in Claims : StaysOnItsRow(d) /\ exec'[d].writing = exec[d].writing
      BY <2>1, <2>2, MovesOn
    <2>4. exec[c].run \in RunIds /\ runs[exec[c].run].status # "absent"
      BY <1>alive, <2>2
    <2>5. runs' \in [RunIds -> Row] /\ RowsStay
      BY <1>10, <1>ty, <2>4 DEF markRunStarted, Row, Status, Held, RowsStay
    <2> QED BY <1>10, <1>ty, <1>done, <2>3, <2>5 DEF markRunStarted, TypeOK, Rest, Counters
  <1>11. ASSUME NEW c \in Claims, AuthorisePageWrite(c) PROVE Goal
    <2>1. /\ exec[c].pc = "turn" /\ runs[exec[c].run].task # None
          /\ exec' = [exec EXCEPT ![c].writing = TRUE] /\ UNCHANGED <<runs, Rest>>
      BY <1>11 DEF AuthorisePageWrite
    <2>2. exec[c].run \in RunIds
      BY <1>alive, <2>1
    <2>3. TypeOK'
      BY <1>ty, <2>1 DEF TypeOK, Execution, Rest, Counters
    <2>4. ASSUME NEW d \in Claims
          PROVE  (ActsOnARow(d) /\ NoGapBelow(d) /\ KnowsItsVerdict(d) /\ HasATask(d))'
      <3>1. ActsOnARow(d) /\ NoGapBelow(d) /\ KnowsItsVerdict(d) /\ HasATask(d)
        BY <1>ty DEF Grounded
      <3>2. /\ exec'[d].run = exec[d].run /\ exec'[d].verdict = exec[d].verdict
            /\ \A e \in Claims : exec'[e].pc = exec[e].pc
            /\ exec'[d].writing => exec[d].writing \/ d = c
        BY <1>ty, <2>1 DEF Execution
      <3> QED BY <2>1, <2>2, <3>1, <3>2
              DEF ActsOnARow, NoGapBelow, KnowsItsVerdict, HasATask
    <2>5. ExecutionsStay
      BY <1>ty, <2>1 DEF ExecutionsStay, StaysOnItsRow, Execution, Grounded, KnowsItsVerdict
    <2> QED BY <2>3, <2>4, <2>5 DEF TypeInv, Grounded
  <1>12. ASSUME NEW c \in Claims, setRunPageContext(c) PROVE Goal
    <2> DEFINE r == exec[c].run
               stamped == [runs[r] EXCEPT !.page = TaskPage[runs[r].task]]
    <2>1. /\ exec[c].writing /\ exec' = [exec EXCEPT ![c].writing = FALSE]
          /\ runs' = [runs EXCEPT ![r] = stamped] \/ runs' = runs
          /\ UNCHANGED Rest
      BY <1>12 DEF setRunPageContext
    <2>2. r \in RunIds /\ runs[r].task # None
      BY <1>ty, <2>1 DEF Grounded, HasATask
    <2>3. /\ stamped \in Row /\ stamped.status = runs[r].status /\ stamped.task = runs[r].task
      BY <1>ty, <2>2 DEF Row, Pages
    <2> HIDE DEF r, stamped
    <2>4. runs' \in [RunIds -> Row] /\ RowsStay
      BY <1>ty, <2>1, <2>2, <2>3 DEF RowsStay
    <2>5. /\ exec' \in [Claims -> Execution]
          /\ \A d \in Claims : StaysOnItsRow(d) /\ (exec'[d].writing => exec[d].writing)
      BY <1>ty, <2>1 DEF Execution, StaysOnItsRow, Grounded, KnowsItsVerdict
    <2> QED BY <1>ty, <1>done, <2>1, <2>4, <2>5 DEF TypeOK, Rest, Counters
  <1>commits. ASSUME NEW c \in Claims, exec[c].pc \in {"settling", "recovering"},
                     CommitSettle(exec[c].run, exec[c].verdict)
              PROVE  runs' \in [RunIds -> Row] /\ RowsStay
    <2>1. /\ exec[c].run \in RunIds /\ runs[exec[c].run].status # "absent"
          /\ exec[c].verdict \in Verdicts
      BY <1>commits, <1>alive, <1>ty DEF Grounded, KnowsItsVerdict
    <2> DEFINE r == exec[c].run
               row == SettledRow(runs[r], Outcome(exec[c].verdict))
    <2>2. /\ runs' \in [RunIds -> Row] /\ runs'[r] = row
          /\ \A s \in RunIds \ {r} : runs'[s] = runs[s] \/ runs[s].status = "absent"
      BY <1>commits, <1>ty, <2>1, CommitSettleEffect
    <2>3. row.status # "absent" /\ row.task = runs[r].task
      BY <1>ty, <2>1, OutcomeIsTerminal, SettledRowType DEF Terminal
    <2> QED BY <2>1, <2>2, <2>3 DEF RowsStay
  <1>throws. ASSUME NEW c \in Claims, AfterThrow(c)
             PROVE  /\ exec' \in [Claims -> Execution]
                    /\ \A d \in Claims : StaysOnItsRow(d) /\ exec'[d].writing = exec[d].writing
    <2>1. "retryable" \in Verdicts /\ "recovering" \in Phases \ {"free"}
      BY DEF Verdicts, Phases, Alive
    <2> QED BY <1>throws, <2>1, MovesOn DEF AfterThrow
  <1>13. ASSUME NEW c \in Claims, settleRun(c) PROVE Goal
    <2>1. /\ exec' \in [Claims -> Execution]
          /\ \A d \in Claims : StaysOnItsRow(d) /\ exec'[d].writing = exec[d].writing
      BY <1>13, MovesOn DEF settleRun
    <2> QED BY <1>13, <1>ty, <1>commits, <1>done, <2>1 DEF settleRun, TypeOK, Rest, Counters
  <1>14. ASSUME NEW c \in Claims, RollBackSettle(c) PROVE Goal
    BY <1>14, <1>ty, <1>same, <1>throws, <1>done DEF RollBackSettle, TypeOK, Rest, Counters
  <1>15. ASSUME NEW c \in Claims, BreakSettle(c) PROVE Goal
    <2>1. runs' \in [RunIds -> Row] /\ RowsStay
      BY <1>15, <1>ty, <1>same, <1>commits DEF BreakSettle
    <2>2. dbFaults' \in 0..MaxDbFaults
      BY <1>15, <1>ty, BrokerAssumption DEF BreakSettle, BrokerAssumption
    <2> QED BY <1>15, <1>ty, <1>throws, <1>done, <2>1, <2>2 DEF BreakSettle, TypeOK
  <1>16. ASSUME NEW c \in Claims, renewLease(c) PROVE Goal
    <2>1. exec[c].run \in RunIds
      BY <1>16, <1>alive DEF renewLease, Heartbeats, Alive
    <2>2. runs' \in [RunIds -> Row] /\ RowsStay
      BY <1>16, <1>ty, <2>1 DEF renewLease, Row, RowsStay
    <2> QED BY <1>16, <1>ty, <1>same, <1>done, <2>2 DEF renewLease, TypeOK, Rest, Counters
  <1>17. ASSUME NEW r \in RunIds, LapseLease(r) PROVE Goal
    <2>1. runs' \in [RunIds -> Row] /\ RowsStay
      BY <1>17, <1>ty DEF LapseLease, Row, RowsStay
    <2>2. pauses' \in 0..MaxPauses
      BY <1>17, <1>ty, BrokerAssumption DEF LapseLease, BrokerAssumption
    <2> QED BY <1>17, <1>ty, <1>same, <1>done, <2>1, <2>2 DEF LapseLease, TypeOK
  <1>18. ASSUME NEW w \in Workers, CrashWorker(w) PROVE Goal
    <2>1. ASSUME NEW c \in Claims
          PROVE  /\ exec'[c] \in Execution
                 /\ StaysOnItsRow(c) /\ (exec'[c].writing => exec[c].writing)
      <3>1. /\ End(c, "dead") \in Execution /\ End(c, "dead").pc = "dead"
            /\ End(c, "dead").run = exec[c].run /\ End(c, "dead").worker = exec[c].worker
        BY <1>ty, EndType
      <3>2. /\ exec'[c] = IF exec[c].worker # w THEN exec[c]
                          ELSE [(IF IsAlive(c) THEN End(c, "dead") ELSE exec[c])
                                  EXCEPT !.writing = FALSE]
        BY <1>18 DEF CrashWorker
      <3>3. KnowsItsVerdict(c)
        BY <1>ty DEF Grounded
      <3>4. CASE exec[c].worker # w
        BY <1>ty, <3>2, <3>3, <3>4 DEF StaysOnItsRow, KnowsItsVerdict
      <3>5. CASE exec[c].worker = w /\ IsAlive(c)
        <4> DEFINE e == End(c, "dead")
        <4>1. exec'[c] = [e EXCEPT !.writing = FALSE]
          BY <3>2, <3>5
        <4> HIDE DEF e
        <4> QED BY <1>ty, <3>1, <3>5, <4>1 DEF e, Execution, StaysOnItsRow, IsAlive, Alive
      <3>6. CASE exec[c].worker = w /\ ~IsAlive(c)
        BY <1>ty, <3>2, <3>3, <3>6 DEF Execution, StaysOnItsRow, KnowsItsVerdict
      <3> QED BY <3>4, <3>5, <3>6
    <2>2. exec' \in [Claims -> Execution]
      BY <1>18, <2>1 DEF CrashWorker
    <2>3. crashes' \in 0..MaxCrashes
      BY <1>18, <1>ty, BrokerAssumption DEF CrashWorker, BrokerAssumption
    <2> QED BY <1>18, <1>ty, <1>same, <1>done, <2>1, <2>2, <2>3 DEF CrashWorker, TypeOK
  <1>19. ASSUME UNCHANGED vars PROVE Goal
    BY <1>19, <1>ty, <1>same, <1>done DEF vars, TypeOK
  <1> QED
    BY <1>1, <1>2, <1>3, <1>4, <1>5, <1>6, <1>7, <1>8, <1>9, <1>10, <1>11, <1>12, <1>13,
       <1>14, <1>15, <1>16, <1>17, <1>18, <1>19 DEF Next, Advance, Claiming

\* Every reachable state of the table and of the executions is well typed, and
\* every execution acts on a row that was inserted (runs.ts, worker.ts).
THEOREM TypeCorrect == Spec => []TypeInv
  <1>1. TypeInv /\ [Next]_vars => TypeInv'
    BY TypeStep
  <1> QED BY InitType, <1>1, PTL DEF Spec

\* runs.ts and worker.ts: the table's columns and the executions' states stay
\* within the values the schema and the code give them.
THEOREM TypeIsOK == Spec => []TypeOK
  <1>1. TypeInv => TypeOK
    BY DEF TypeInv
  <1> QED BY TypeCorrect, <1>1, PTL

-----------------------------------------------------------------------------
(* The ways in which a step may change a row.                              *)

SameHolder(r) ==
  runs'[r].status = runs[r].status /\ runs'[r].worker = runs[r].worker /\ runs'[r].token = runs[r].token
Inserted(r) ==
  runs[r].status = "absent" /\ runs'[r].status = "queued" /\ runs'[r].token = NoToken
Started(r) ==
  /\ runs[r].status = "dispatched" /\ runs'[r].status = "running"
  /\ runs'[r].worker = runs[r].worker /\ runs'[r].token = runs[r].token
Requeued(r) ==
  runs[r].status \in Held /\ runs'[r].status = "queued" /\ runs'[r].token = runs[r].token
Settled(r) ==
  runs'[r].status \in Terminal /\ runs'[r].token = NoToken
RowChange(r) ==
  \/ SameHolder(r) \/ Inserted(r) \/ Started(r) \/ Requeued(r) \/ Settled(r)

\* settleRun's transaction, row by row: settled, inserted, or left with its holder.
LEMMA CommitChanges ==
  ASSUME TypeInv, NEW c \in Claims, exec[c].pc \in {"settling", "recovering"},
         CommitSettle(exec[c].run, exec[c].verdict), NEW r \in RunIds
  PROVE  RowChange(r)
  <1>1. /\ exec[c].run \in RunIds /\ runs[exec[c].run].status # "absent"
        /\ exec[c].verdict \in Verdicts /\ TypeOK
    BY DEF TypeInv, Grounded, ActsOnARow, KnowsItsVerdict
  <1> DEFINE s == exec[c].run
             out == Outcome(exec[c].verdict)
  <1>2. /\ runs'[s] = SettledRow(runs[s], out)
        /\ r # s => \/ runs'[r] = runs[r]
                    \/ /\ runs[r].status = "absent"
                       /\ Retries(s, exec[c].verdict)
                       /\ runs'[r] = RetryOf(s)
    BY <1>1, CommitSettleEffect
  <1>3. out \in Terminal /\ SettledRow(runs[s], out).status = out /\ SettledRow(runs[s], out).token = NoToken
    BY <1>1, OutcomeIsTerminal, SettledRowType DEF TypeOK
  <1>4. CASE r = s
    BY <1>1, <1>2, <1>3, <1>4 DEF RowChange, Settled
  <1>5. CASE r # s
    BY <1>1, <1>2, <1>5, RetryRowType DEF RowChange, SameHolder, Inserted
  <1> QED BY <1>4, <1>5

\* Any statement of runs.ts, row by row, apart from claimNextRun.
LEMMA RowsChange ==
  ASSUME TypeInv, Next, ~ \E w \in Workers : Claiming(w), NEW r \in RunIds
  PROVE  RowChange(r)
  <1>ty. runs \in [RunIds -> Row]
    BY DEF TypeInv, TypeOK
  <1>alive. \A c \in Claims : exec[c].pc # "free" => exec[c].run \in RunIds
    BY DEF TypeInv, Grounded, ActsOnARow
  <1>same. runs' = runs => RowChange(r)
    BY DEF RowChange, SameHolder
  <1>1. ASSUME NEW q \in Requests, enqueueRun(q) PROVE RowChange(r)
    <2>1. PICK n \in FreshIds : runs' = [runs EXCEPT ![n] = QueuedRow(q, q.session, 1, None)]
      BY <1>1 DEF enqueueRun
    <2> QED BY <1>ty, <2>1, QueuedRowType DEF FreshIds, RowChange, SameHolder, Inserted
  <1>2. ASSUME NEW s \in RunIds, requestRunCancellation(s) PROVE RowChange(r)
    BY <1>2, <1>ty DEF requestRunCancellation, RowChange, SameHolder, Row
  <1>3. ASSUME NEW s \in RunIds, SettleFromAsk(s) PROVE RowChange(r)
    <2>1. "cancelled" \in Terminal /\ asked \subseteq RunIds
      BY DEF Terminal, TypeInv, TypeOK
    <2> QED BY <1>3, <1>ty, <2>1, SettledRowType DEF SettleFromAsk, RowChange, SameHolder, Settled
  <1>4. ASSUME sweepExpiredLeases PROVE RowChange(r)
    BY <1>4, <1>ty DEF sweepExpiredLeases, Expired, Row, RowChange, SameHolder, Requeued
  <1>5. ASSUME NEW c \in Claims, markRunStarted(c) PROVE RowChange(r)
    BY <1>5, <1>ty, <1>alive DEF markRunStarted, Row, RowChange, SameHolder, Started
  <1>6. ASSUME NEW c \in Claims, setRunPageContext(c) PROVE RowChange(r)
    <2> DEFINE stamped == [runs[exec[c].run] EXCEPT !.page = TaskPage[runs[exec[c].run].task]]
    <2>1. \/ runs' = [runs EXCEPT ![exec[c].run] = stamped]
          \/ runs' = runs
      BY <1>6 DEF setRunPageContext
    <2>2. CASE r = exec[c].run
      <3>1. /\ stamped.status = runs[r].status /\ stamped.worker = runs[r].worker
            /\ stamped.token = runs[r].token
        BY <1>ty, <2>2 DEF Row
      <3> HIDE DEF stamped
      <3> QED BY <1>ty, <1>same, <2>1, <2>2, <3>1 DEF RowChange, SameHolder
    <2>3. CASE r # exec[c].run
      BY <1>ty, <1>same, <2>1, <2>3 DEF RowChange, SameHolder
    <2> QED BY <2>2, <2>3
  <1>7. ASSUME NEW c \in Claims, settleRun(c) \/ BreakSettle(c) PROVE RowChange(r)
    BY <1>7, <1>same, CommitChanges DEF settleRun, BreakSettle
  <1>8. ASSUME NEW c \in Claims, renewLease(c) PROVE RowChange(r)
    BY <1>8, <1>ty DEF renewLease, Row, RowChange, SameHolder
  <1>9. ASSUME NEW s \in RunIds, LapseLease(s) PROVE RowChange(r)
    BY <1>9, <1>ty DEF LapseLease, Row, RowChange, SameHolder
  <1>10. ASSUME UNCHANGED runs PROVE RowChange(r)
    BY <1>10, <1>same
  <1> QED
    BY <1>1, <1>2, <1>3, <1>4, <1>5, <1>6, <1>7, <1>8, <1>9, <1>10
    DEF Next, Claiming, Advance, ReadForAsk, RefuseRun, ThrowBeforeTurn, BeginTurn, FinishTurn, FailTurn,
        AuthorisePageWrite, RollBackSettle, CrashWorker
-----------------------------------------------------------------------------
(* Tokens, and the finality of a settle.                                   *)

BrokerInv == TypeInv /\ TokenDiscipline

\* No row of the empty table has a token.
LEMMA InitTokens == Init => TokenDiscipline
  BY BrokerAssumption
  DEF BrokerAssumption, Init, TokenDiscipline, HeldByItsClaim, TokenIsNewest,
      NoTokenOnceSettled, AbsentRow, Held, Terminal, NoToken

\* No step of the broker or of an execution gives a row a token that is not its
\* newest claim's, or leaves a settled row with one.
LEMMA TokenStep == BrokerInv /\ [Next]_vars => TokenDiscipline'
  <1> SUFFICES ASSUME BrokerInv, [Next]_vars PROVE TokenDiscipline'
    OBVIOUS
  <1>ty. /\ TypeInv /\ TypeOK /\ TypeInv'
         /\ runs \in [RunIds -> Row] /\ exec \in [Claims -> Execution]
    BY TypeStep DEF BrokerInv, TypeInv, TypeOK
  <1>ih. \A r \in RunIds : HeldByItsClaim(r) /\ TokenIsNewest(r) /\ NoTokenOnceSettled(r)
    BY DEF BrokerInv, TokenDiscipline
  <1>tok. \A r \in RunIds : runs[r].token \in Claims \cup {NoToken}
    BY <1>ty DEF Row
  <1>1. ASSUME NEW w \in Workers, Claiming(w) PROVE TokenDiscipline'
    <2>1. PICK r \in Claimable(w), c \in FreshClaims, row \in Row, e \in Execution :
            /\ r \in RunIds /\ runs[r].status = "queued"
            /\ c \in Claims /\ exec[c].pc = "free" /\ \A d \in 1..(c - 1) : exec[d].pc # "free"
            /\ runs' = [runs EXCEPT ![r] = row] /\ exec' = [exec EXCEPT ![c] = e]
            /\ row.status = "dispatched" /\ row.worker = w /\ row.token = c
            /\ e.run = r /\ e.worker = w /\ e.pc \in {"claimed", "dead"}
      BY <1>1, <1>ty, ClaimEffect
    <2>2. \A d \in Claims : d < c \/ d = c \/ exec[d].run = None
      BY <1>ty, <2>1 DEF TypeInv, Grounded, NoGapBelow, ActsOnARow, Claims
    <2>3. \A s \in RunIds : s # r => runs[s].token # c
      BY <1>ih, <1>ty, <2>1, BrokerAssumption
      DEF TokenIsNewest, NoToken, Claims, TypeInv, Grounded, ActsOnARow, BrokerAssumption
    <2>4. (HeldByItsClaim(r) /\ TokenIsNewest(r) /\ NoTokenOnceSettled(r))'
      <3>1. /\ runs'[r] = row /\ exec'[c] = e /\ c # NoToken
            /\ \A d \in Claims \ {c} : exec'[d] = exec[d]
        BY <1>ty, <2>1 DEF Claims, NoToken
      <3>2. \A d \in Claims : exec'[d].run = r => d <= c
        BY <2>1, <2>2, <3>1, BrokerAssumption DEF BrokerAssumption, Claims
      <3> QED BY <2>1, <3>1, <3>2 DEF HeldByItsClaim, TokenIsNewest, NoTokenOnceSettled, Terminal
    <2>5. ASSUME NEW s \in RunIds, s # r
          PROVE  (HeldByItsClaim(s) /\ TokenIsNewest(s) /\ NoTokenOnceSettled(s))'
      <3>1. /\ runs'[s] = runs[s] /\ exec'[c].run # s
            /\ \A d \in Claims \ {c} : exec'[d] = exec[d]
        BY <1>ty, <2>1, <2>5
      <3>2. runs[s].token \in (Claims \ {c}) \cup {NoToken}
        BY <1>tok, <2>3, <2>5
      <3> QED BY <1>ih, <3>1, <3>2 DEF HeldByItsClaim, TokenIsNewest, NoTokenOnceSettled
    <2> QED BY <2>4, <2>5 DEF TokenDiscipline
  <1>2. ASSUME Next, ~ \E w \in Workers : Claiming(w) PROVE TokenDiscipline'
    <2>1. \A c \in Claims : exec'[c].run = exec[c].run /\ exec'[c].worker = exec[c].worker
      BY <1>2, <1>ty, TypeStep DEF ExecutionsStay, StaysOnItsRow
    <2>2. ASSUME NEW r \in RunIds
          PROVE  (HeldByItsClaim(r) /\ TokenIsNewest(r) /\ NoTokenOnceSettled(r))'
      <3>1. RowChange(r)
        BY <1>2, <1>ty, RowsChange
      <3>2. runs[r].token \in Claims \cup {NoToken}
        BY <1>tok
      <3>3. HeldByItsClaim(r) /\ TokenIsNewest(r) /\ NoTokenOnceSettled(r)
        BY <1>ih
      <3>4. CASE SameHolder(r)
        BY <2>1, <3>2, <3>3, <3>4
        DEF SameHolder, HeldByItsClaim, TokenIsNewest, NoTokenOnceSettled
      <3>5. CASE Started(r) \/ Requeued(r)
        BY <2>1, <3>2, <3>3, <3>5
        DEF Started, Requeued, Held, Terminal, HeldByItsClaim, TokenIsNewest, NoTokenOnceSettled
      <3>6. CASE Inserted(r) \/ Settled(r)
        BY <3>6
        DEF Inserted, Settled, Held, Terminal, HeldByItsClaim, TokenIsNewest, NoTokenOnceSettled
      <3> QED BY <3>1, <3>4, <3>5, <3>6 DEF RowChange
    <2> QED BY <2>2 DEF TokenDiscipline
  <1>3. ASSUME UNCHANGED vars PROVE TokenDiscipline'
    BY <1>3, <1>ih DEF vars, TokenDiscipline, HeldByItsClaim, TokenIsNewest, NoTokenOnceSettled
  <1> QED BY <1>1, <1>2, <1>3

\* The inductive invariant: types, and tokens that follow the claims.
LEMMA BrokerInvariant == Spec => []BrokerInv
  <1>1. Init => BrokerInv
    BY InitType, InitTokens DEF BrokerInv
  <1>2. BrokerInv /\ [Next]_vars => BrokerInv'
    BY TypeStep, TokenStep DEF BrokerInv
  <1> QED BY <1>1, <1>2, PTL DEF Spec

\* runs.ts, claimNextRun and settleRun: a token lives from the claim to the settle
\* and is always the newest one of its row, for any number of workers, crashes,
\* paused workers and broken statements.
THEOREM TokensFollowClaims == Spec => []TokenDiscipline
  <1>1. BrokerInv => TokenDiscipline
    BY DEF BrokerInv
  <1> QED BY BrokerInvariant, <1>1, PTL

\* runs.ts: no statement, however stale its author, takes a settled row back.
THEOREM SettledStaysSettled == Spec => TerminalIsForever
  <1>1. TypeInv /\ [Next]_vars =>
          [\A r \in RunIds : runs[r].status \in Terminal => runs'[r].status \in Terminal]_vars
    <2> SUFFICES ASSUME TypeInv, Next, NEW r \in RunIds, runs[r].status \in Terminal
                 PROVE  runs'[r].status \in Terminal
      OBVIOUS
    <2>1. ASSUME NEW w \in Workers, Claiming(w) PROVE runs'[r].status \in Terminal
      <3>1. PICK s \in Claimable(w), row \in Row :
              s \in RunIds /\ runs[s].status = "queued" /\ runs' = [runs EXCEPT ![s] = row]
        BY <2>1, ClaimEffect DEF TypeInv
      <3> QED BY <3>1 DEF TypeInv, TypeOK, Terminal
    <2>2. ASSUME ~ \E w \in Workers : Claiming(w) PROVE runs'[r].status \in Terminal
      BY <2>2, RowsChange
      DEF RowChange, SameHolder, Inserted, Started, Requeued, Settled, Held, Terminal
    <2> QED BY <2>1, <2>2
  <1> QED BY TypeCorrect, <1>1, PTL DEF Spec, TerminalIsForever

-----------------------------------------------------------------------------
(* The active-run index.                                                   *)

\* No row becomes active in such a step, and no active row changes its key.
KeysStay ==
  \A r \in RunIds : Active(runs'[r]) => Active(runs[r]) /\ Key(runs'[r]) = Key(runs[r])

\* A statement that activates no row and changes no active key keeps them distinct.
LEMMA KeysStayUnique ==
  ASSUME ActiveKeyUnique, KeysStay PROVE ActiveKeyUnique'
  BY DEF ActiveKeyUnique, KeysStay

\* A statement that gives one row a new key, once it has found the key free.
LEMMA FreeKeyTaken ==
  ASSUME ActiveKeyUnique, NEW n \in RunIds, NEW row,
         \/ ~Active(row)
         \/ ~KeyTaken(runs, row, n),
         runs \in [RunIds -> Row], runs' = [runs EXCEPT ![n] = row]
  PROVE  ActiveKeyUnique'
  BY DEF ActiveKeyUnique, KeyTaken

\* settleRun's retry takes a key its own settle has freed, or one nobody had.
LEMMA CommitKeepsKeys ==
  ASSUME TypeInv, ActiveKeyUnique, NEW c \in Claims, exec[c].pc \in {"settling", "recovering"},
         CommitSettle(exec[c].run, exec[c].verdict)
  PROVE  ActiveKeyUnique'
  <1>1. /\ exec[c].run \in RunIds /\ exec[c].verdict \in Verdicts
        /\ TypeOK /\ runs \in [RunIds -> Row]
    BY DEF TypeInv, TypeOK, Grounded, ActsOnARow, KnowsItsVerdict
  <1> DEFINE r == exec[c].run
             row == SettledRow(runs[r], Outcome(exec[c].verdict))
             settled == [runs EXCEPT ![r] = row]
  <1>2. row \in Row /\ row.status \in Terminal
    BY <1>1, OutcomeIsTerminal, SettledRowType
  <1>3. ~Active(row)
    BY <1>2 DEF Active
  <1>4. /\ settled \in [RunIds -> Row] /\ settled[r] = row
        /\ \A s \in RunIds \ {r} : settled[s] = runs[s]
    BY <1>1, <1>2
  <1> HIDE DEF row, settled
  <1>5. CASE runs' = settled
    BY <1>1, <1>3, <1>4, <1>5 DEF ActiveKeyUnique
  <1>6. ASSUME NEW n \in FreshIds, runs' = [settled EXCEPT ![n] = RetryOf(r)],
               ~KeyTaken(settled, RetryOf(r), r)
        PROVE  ActiveKeyUnique'
    <2>1. n \in RunIds /\ runs'[n] = RetryOf(r) /\ \A s \in RunIds \ {n} : runs'[s] = settled[s]
      BY <1>4, <1>6 DEF FreshIds
    <2>2. \A s \in RunIds \ {n} : Active(settled[s]) => Key(settled[s]) # Key(RetryOf(r))
      BY <1>3, <1>4, <1>6 DEF KeyTaken
    <2>3. \A s, t \in RunIds : s # t /\ Active(settled[s]) /\ Active(settled[t]) =>
                                 Key(settled[s]) # Key(settled[t])
      BY <1>3, <1>4 DEF ActiveKeyUnique
    <2> QED BY <2>1, <2>2, <2>3 DEF ActiveKeyUnique
  <1> QED BY <1>5, <1>6 DEF CommitSettle, settled, row

\* Every statement that inserts a row, requeues one or stamps a page leaves the
\* active keys distinct.
LEMMA KeyStep == TypeInv /\ ActiveKeyUnique /\ [Next]_vars => ActiveKeyUnique'
  <1> SUFFICES ASSUME TypeInv, ActiveKeyUnique, [Next]_vars PROVE ActiveKeyUnique'
    OBVIOUS
  <1>ty. /\ TypeOK /\ runs \in [RunIds -> Row]
         /\ \A c \in Claims : exec[c].pc # "free" => exec[c].run \in RunIds
         /\ \A c \in Claims : exec[c].writing => exec[c].run \in RunIds
    BY DEF TypeInv, TypeOK, Grounded, ActsOnARow, HasATask
  <1>same. runs' = runs => ActiveKeyUnique'
    BY DEF ActiveKeyUnique
  <1>1. ASSUME NEW q \in Requests, enqueueRun(q) PROVE ActiveKeyUnique'
    <2>1. PICK n \in FreshIds :
            /\ ~KeyTaken(runs, QueuedRow(q, q.session, 1, None), n)
            /\ runs' = [runs EXCEPT ![n] = QueuedRow(q, q.session, 1, None)]
      BY <1>1 DEF enqueueRun
    <2> QED BY <1>ty, <2>1, FreeKeyTaken DEF FreshIds
  <1>2. ASSUME NEW s \in RunIds, requestRunCancellation(s) PROVE ActiveKeyUnique'
    <2>1. KeysStay
      BY <1>2, <1>ty DEF requestRunCancellation, KeysStay, Active, Key, Row
    <2> QED BY <2>1, KeysStayUnique
  <1>3. ASSUME NEW s \in RunIds, SettleFromAsk(s) PROVE ActiveKeyUnique'
    <2>1. "cancelled" \in Terminal /\ SettledRow(runs[s], "cancelled").status = "cancelled"
      BY <1>3, <1>ty, SettledRowType DEF Terminal
    <2>2. KeysStay
      BY <1>3, <1>ty, <2>1 DEF SettleFromAsk, KeysStay, Active
    <2> QED BY <2>2, KeysStayUnique
  <1>4. ASSUME sweepExpiredLeases PROVE ActiveKeyUnique'
    <2>2. ASSUME NEW r \in RunIds, Expired(runs[r])
          PROVE  Active(runs[r]) /\ Key(runs'[r]) = Key(runs[r])
      <3> DEFINE row == [runs[r] EXCEPT !.status = "queued", !.worker = None, !.lease = "none"]
      <3>1. runs'[r] = row
        BY <1>4, <2>2 DEF sweepExpiredLeases
      <3>2. Key(row) = Key(runs[r])
        BY <1>ty DEF Key, Row
      <3> QED BY <2>2, <3>1, <3>2 DEF Expired, Active, Held, Terminal
    <2>1. KeysStay
      BY <1>4, <2>2 DEF sweepExpiredLeases, KeysStay
    <2> QED BY <2>1, KeysStayUnique
  <1>5. ASSUME NEW w \in Workers, Claiming(w) PROVE ActiveKeyUnique'
    <2>1. PICK r \in Claimable(w), row \in Row :
            /\ r \in RunIds /\ runs[r].status = "queued"
            /\ runs' = [runs EXCEPT ![r] = row] /\ Key(row) = Key(runs[r])
      BY <1>5, <1>ty, ClaimEffect
    <2>2. KeysStay
      BY <1>ty, <2>1 DEF KeysStay, Active, Terminal
    <2> QED BY <2>2, KeysStayUnique
  <1>6. ASSUME NEW c \in Claims, markRunStarted(c) PROVE ActiveKeyUnique'
    <2>1. KeysStay
      BY <1>6, <1>ty DEF markRunStarted, KeysStay, Active, Terminal, Key, Row
    <2> QED BY <2>1, KeysStayUnique
  <1>7. ASSUME NEW c \in Claims, setRunPageContext(c) PROVE ActiveKeyUnique'
    BY <1>7, <1>ty, <1>same, FreeKeyTaken DEF setRunPageContext
  <1>8. ASSUME NEW c \in Claims, settleRun(c) \/ BreakSettle(c) PROVE ActiveKeyUnique'
    BY <1>8, <1>same, CommitKeepsKeys DEF settleRun, BreakSettle
  <1>9. ASSUME NEW c \in Claims, renewLease(c) PROVE ActiveKeyUnique'
    <2>1. KeysStay
      BY <1>9, <1>ty DEF renewLease, KeysStay, Active, Key, Row
    <2> QED BY <2>1, KeysStayUnique
  <1>10. ASSUME NEW s \in RunIds, LapseLease(s) PROVE ActiveKeyUnique'
    <2>1. KeysStay
      BY <1>10, <1>ty DEF LapseLease, KeysStay, Active, Key, Row
    <2> QED BY <2>1, KeysStayUnique
  <1>11. ASSUME UNCHANGED runs PROVE ActiveKeyUnique'
    BY <1>11, <1>same
  <1> QED
    BY <1>1, <1>2, <1>3, <1>4, <1>5, <1>6, <1>7, <1>8, <1>9, <1>10, <1>11
    DEF Next, Claiming, Advance, ReadForAsk, RefuseRun, ThrowBeforeTurn, BeginTurn, FinishTurn, FailTurn,
        AuthorisePageWrite, RollBackSettle, CrashWorker, vars

\* Migration 0007's unique index, with the retries and page stamps that move rows
\* under it: two active rows never share a key.
THEOREM ActiveKeysDiffer == Spec => []ActiveKeyUnique
  <1>1. Init => ActiveKeyUnique
    BY DEF Init, ActiveKeyUnique, Active, AbsentRow
  <1> QED BY TypeCorrect, <1>1, KeyStep, PTL DEF Spec

-----------------------------------------------------------------------------
(* One execution at a time, while no lease lapses under a live worker.      *)

\* The counters only grow: what has been disturbed once stays so.
LEMMA CountersGrow ==
  ASSUME TypeInv, [Next]_vars
  PROVE  (pauses' = 0 => pauses = 0) /\ (dbFaults' = 0 => dbFaults = 0)
  <1>1. pauses \in Nat /\ dbFaults \in Nat
    BY BrokerAssumption DEF BrokerAssumption, TypeInv, TypeOK
  <1>2. CASE UNCHANGED vars
    BY <1>2 DEF vars
  <1>3. CASE Next
    <2>1. \/ UNCHANGED <<pauses, dbFaults>>
          \/ pauses' = pauses + 1 /\ UNCHANGED dbFaults
          \/ dbFaults' = dbFaults + 1 /\ UNCHANGED pauses
      BY <1>3
      DEF Next, Advance, Rest, Counters, enqueueRun, claimNextRun, LoseClaim, CrashWorker,
          BreakSettle, renewLease, AuthorisePageWrite, setRunPageContext, requestRunCancellation,
          ReadForAsk, SettleFromAsk, LapseLease, sweepExpiredLeases, markRunStarted, BeginTurn,
          RefuseRun, ThrowBeforeTurn, FinishTurn, FailTurn, settleRun, RollBackSettle
    <2> QED BY <1>1, <2>1
  <1> QED BY <1>2, <1>3

\* A live execution's row is in its hands, or has been settled behind its back
\* (the Ask action; a settle whose reply was lost).
Owns(c) ==
  IsAlive(c) =>
    LET row == runs[exec[c].run] IN
    \/ row.status \in Terminal
    \/ row.status \in Held /\ row.token = c /\ row.lease = "live"

\* OneExecutionPerRun, for the states in which no lease has lapsed too soon.
OneAtATime ==
  \A c, d \in Claims : IsAlive(c) /\ IsAlive(d) /\ exec[c].run = exec[d].run => c = d

LeaseInv == OneExecutionPerRun /\ (pauses = 0 => \A c \in Claims : Owns(c))

\* Apart from claims, no step brings an execution to life.
LEMMA NoneRevives ==
  ASSUME TypeInv, Next, ~ \E w \in Workers : Claiming(w), NEW c \in Claims, IsAlive(c)'
  PROVE  IsAlive(c)
  <1>ty. exec \in [Claims -> Execution]
    BY DEF TypeInv, TypeOK
  <1>end. \A d \in Claims, pc \in {"ended", "dead"} : End(d, pc).pc = pc
    BY <1>ty, EndType
  <1>same. exec' = exec => IsAlive(c)
    BY DEF IsAlive
  <1>moves. ASSUME NEW d \in Claims, IsAlive(d),
                   (\E pc \in Phases : Goto(d, pc)) \/ (\E pc \in Phases, v \in Verdicts : Decide(d, pc, v)) \/ Finish(d)
            PROVE  IsAlive(c)
    <2>1. CASE c = d
      BY <1>moves, <2>1
    <2>2. CASE c # d
      BY <1>ty, <1>moves, <2>2 DEF IsAlive, Goto, Decide, Finish
    <2> QED BY <2>1, <2>2
  <1>1. ASSUME NEW d \in Claims, Advance(d) \/ BreakSettle(d) PROVE IsAlive(c)
    <2>1. IsAlive(d)
      BY <1>1 DEF Advance, BreakSettle, markRunStarted, BeginTurn, RefuseRun, ThrowBeforeTurn,
                  FinishTurn, FailTurn, settleRun, RollBackSettle, IsAlive, Alive
    <2>2. /\ {"started", "turn", "settling", "recovering"} \subseteq Phases
          /\ {"failed", "retryable", "cancelled"} \subseteq Verdicts
      BY DEF Phases, Alive, Verdicts
    <2> QED BY <1>1, <1>moves, <2>1, <2>2
            DEF Advance, BreakSettle, markRunStarted, BeginTurn, RefuseRun, ThrowBeforeTurn,
                FinishTurn, FailTurn, settleRun, RollBackSettle, AfterThrow
  <1>2. ASSUME NEW d \in Claims, AuthorisePageWrite(d) \/ setRunPageContext(d) PROVE IsAlive(c)
    BY <1>2, <1>ty DEF AuthorisePageWrite, setRunPageContext, IsAlive, Execution
  <1>3. ASSUME NEW w \in Workers, CrashWorker(w) PROVE IsAlive(c)
    <2>1. CASE exec[c].worker # w
      BY <1>3, <2>1 DEF CrashWorker, IsAlive
    <2>2. CASE exec[c].worker = w /\ ~IsAlive(c)
      BY <1>3, <1>ty, <2>2 DEF CrashWorker, IsAlive, Execution
    <2> QED BY <2>1, <2>2
  <1> QED
    BY <1>1, <1>2, <1>3, <1>same
    DEF Next, Claiming, Rest, enqueueRun, requestRunCancellation, ReadForAsk, SettleFromAsk,
        sweepExpiredLeases, renewLease, LapseLease

\* A held row with a live lease and a live execution stays so until it is settled.
LEMMA LeaseKept ==
  ASSUME pauses' = 0, TypeInv, Next, ~ \E w \in Workers : Claiming(w),
         NEW c \in Claims, IsAlive(c), NEW r \in RunIds, exec[c].run = r,
         runs[r].status \in Held, runs[r].lease = "live"
  PROVE  \/ runs'[r].status \in Terminal
         \/ runs'[r].status \in Held /\ runs'[r].lease = "live"
  <1> DEFINE Kept == \/ runs'[r].status \in Terminal
                     \/ runs'[r].status \in Held /\ runs'[r].lease = "live"
  <1>ty. /\ runs \in [RunIds -> Row] /\ pauses \in Nat
         /\ \A d \in Claims : exec[d].pc # "free" => exec[d].run \in RunIds
    BY BrokerAssumption DEF BrokerAssumption, TypeInv, TypeOK, Grounded, ActsOnARow
  <1>same. runs'[r] = runs[r] => Kept
    OBVIOUS
  <1>1. ASSUME NEW q \in Requests, enqueueRun(q) PROVE Kept
    BY <1>1, <1>ty, <1>same DEF enqueueRun, FreshIds, Held
  <1>2. ASSUME NEW s \in RunIds, requestRunCancellation(s) PROVE Kept
    BY <1>2, <1>ty DEF requestRunCancellation, Row
  <1>3. ASSUME NEW s \in RunIds, SettleFromAsk(s) PROVE Kept
    <2>1. "cancelled" \in Terminal
      BY DEF Terminal
    <2> QED BY <1>3, <1>ty, <2>1, SettledRowType DEF SettleFromAsk
  <1>4. ASSUME sweepExpiredLeases PROVE Kept
    BY <1>4, <1>ty DEF sweepExpiredLeases, Expired
  <1>5. ASSUME NEW d \in Claims, markRunStarted(d) PROVE Kept
    BY <1>5, <1>ty DEF markRunStarted, Row, Held
  <1>6. ASSUME NEW d \in Claims, setRunPageContext(d) PROVE Kept
    <2> DEFINE stamped == [runs[exec[d].run] EXCEPT !.page = TaskPage[runs[exec[d].run].task]]
    <2>1. runs' = [runs EXCEPT ![exec[d].run] = stamped] \/ runs' = runs
      BY <1>6 DEF setRunPageContext
    <2>2. exec[d].run = r => stamped.status = runs[r].status /\ stamped.lease = runs[r].lease
      BY <1>ty DEF Row
    <2> HIDE DEF stamped
    <2> QED BY <1>ty, <1>same, <2>1, <2>2
  <1>7. ASSUME NEW d \in Claims, settleRun(d) \/ BreakSettle(d) PROVE Kept
    <2>1. CASE runs' = runs
      BY <1>same, <2>1
    <2>2. CASE CommitSettle(exec[d].run, exec[d].verdict)
      <3>1. /\ exec[d].run \in RunIds /\ runs[exec[d].run].status # "absent"
            /\ exec[d].verdict \in Verdicts /\ TypeOK
        BY <1>7 DEF settleRun, BreakSettle, TypeInv, Grounded, ActsOnARow, KnowsItsVerdict
      <3>2. /\ runs'[exec[d].run] = SettledRow(runs[exec[d].run], Outcome(exec[d].verdict))
            /\ r # exec[d].run => runs'[r] = runs[r] \/ runs[r].status = "absent"
        BY <2>2, <3>1, CommitSettleEffect
      <3>3. SettledRow(runs[exec[d].run], Outcome(exec[d].verdict)).status \in Terminal
        BY <1>ty, <3>1, OutcomeIsTerminal, SettledRowType
      <3> QED BY <1>same, <3>2, <3>3 DEF Held
    <2> QED BY <1>7, <2>1, <2>2 DEF settleRun, BreakSettle
  <1>8. ASSUME NEW d \in Claims, renewLease(d) PROVE Kept
    BY <1>8, <1>ty DEF renewLease, Row
  <1>9. ASSUME NEW s \in RunIds, LapseLease(s) PROVE Kept
    BY <1>9, <1>ty, <1>same DEF LapseLease
  <1>10. ASSUME UNCHANGED runs PROVE Kept
    BY <1>10, <1>same
  <1> QED
    BY <1>1, <1>2, <1>3, <1>4, <1>5, <1>6, <1>7, <1>8, <1>9, <1>10
    DEF Next, Claiming, Advance, ReadForAsk, RefuseRun, ThrowBeforeTurn, BeginTurn, FinishTurn, FailTurn,
        AuthorisePageWrite, RollBackSettle, CrashWorker

\* The inductive step of the lease: a live execution owns a live lease, or its row
\* has been settled by someone else and can never be claimed again.
LEMMA LeaseStep ==
  ASSUME BrokerInv, LeaseInv, [Next]_vars
  PROVE  LeaseInv'
  <1> SUFFICES ASSUME pauses' = 0
               PROVE  OneAtATime' /\ \A c \in Claims : Owns(c)'
    BY DEF LeaseInv, OneExecutionPerRun, OneAtATime
  <1>ih. OneAtATime /\ \A c \in Claims : Owns(c)
    BY CountersGrow DEF BrokerInv, LeaseInv, OneExecutionPerRun, OneAtATime
  <1>ty. /\ TypeInv /\ TypeOK /\ runs \in [RunIds -> Row] /\ exec \in [Claims -> Execution]
         /\ \A c \in Claims : exec[c].pc # "free" => exec[c].run \in RunIds
         /\ \A c \in Claims : IsAlive(c) => exec[c].run \in RunIds
    BY DEF BrokerInv, TypeInv, TypeOK, Grounded, ActsOnARow, IsAlive, Alive
  <1>1. ASSUME NEW w \in Workers, Claiming(w) PROVE OneAtATime' /\ \A c \in Claims : Owns(c)'
    <2>1. PICK r \in Claimable(w), c \in FreshClaims, row \in Row, e \in Execution :
            /\ r \in RunIds /\ runs[r].status = "queued" /\ c \in Claims
            /\ runs' = [runs EXCEPT ![r] = row] /\ exec' = [exec EXCEPT ![c] = e]
            /\ row.status = "dispatched" /\ row.token = c /\ row.lease = "live"
            /\ e.run = r /\ e.pc \in {"claimed", "dead"}
      BY <1>1, <1>ty, ClaimEffect
    <2>2. \A d \in Claims : IsAlive(d) => exec[d].run # r
      BY <1>ih, <2>1 DEF Owns, Held, Terminal
    <2>3. /\ runs'[r] = row /\ exec'[c] = e
          /\ \A d \in Claims \ {c} : exec'[d] = exec[d]
          /\ \A s \in RunIds \ {r} : runs'[s] = runs[s]
      BY <1>ty, <2>1
    <2>4. \A d \in Claims \ {c} : IsAlive(d)' => IsAlive(d)
      BY <2>3 DEF IsAlive
    <2>5. ASSUME NEW d \in Claims PROVE Owns(d)'
      <3>1. CASE d = c
        BY <2>1, <2>3, <3>1 DEF Owns, Held
      <3>2. CASE d # c
        BY <1>ih, <1>ty, <2>2, <2>3, <2>4, <3>2 DEF Owns
      <3> QED BY <3>1, <3>2
    <2>6. OneAtATime'
      BY <1>ih, <2>1, <2>2, <2>3, <2>4 DEF OneAtATime
    <2> QED BY <2>5, <2>6
  <1>2. ASSUME Next, ~ \E w \in Workers : Claiming(w)
        PROVE  OneAtATime' /\ \A c \in Claims : Owns(c)'
    <2>1. \A c \in Claims : exec'[c].run = exec[c].run /\ (IsAlive(c)' => IsAlive(c))
      BY <1>2, <1>ty, TypeStep, NoneRevives DEF ExecutionsStay, StaysOnItsRow
    <2>2. OneAtATime'
      BY <1>ih, <2>1 DEF OneAtATime
    <2>3. ASSUME NEW c \in Claims, IsAlive(c)' PROVE Owns(c)'
      <3> DEFINE r == exec[c].run
      <3>1. /\ IsAlive(c) /\ r \in RunIds /\ exec'[c].run = r
            /\ \/ runs[r].status \in Terminal
               \/ runs[r].status \in Held /\ runs[r].token = c /\ runs[r].lease = "live"
        BY <1>ih, <1>ty, <2>1, <2>3 DEF Owns
      <3>2. RowChange(r)
        BY <1>2, <1>ty, <3>1, RowsChange
      <3>3. CASE runs'[r].status \in Terminal
        BY <3>1, <3>3 DEF Owns
      <3>4. CASE runs[r].status \in Terminal
        BY <3>2, <3>3, <3>4
        DEF RowChange, SameHolder, Inserted, Started, Requeued, Settled, Held, Terminal
      <3>5. CASE runs'[r].status \in Held /\ runs'[r].lease = "live" /\ runs[r].status \in Held
        BY <3>1, <3>2, <3>5
        DEF Owns, RowChange, SameHolder, Inserted, Started, Requeued, Settled, Held, Terminal
      <3> QED BY <1>2, <1>ty, <3>1, <3>3, <3>4, <3>5, LeaseKept
    <2> QED BY <2>2, <2>3 DEF Owns
  <1>3. ASSUME UNCHANGED vars PROVE OneAtATime' /\ \A c \in Claims : Owns(c)'
    BY <1>3, <1>ih DEF vars, OneAtATime, Owns, IsAlive
  <1> QED BY <1>1, <1>2, <1>3


\* The inductive invariant of the lease.
LEMMA LeaseInvariant == Spec => []LeaseInv
  <1>1. Init => LeaseInv
    BY DEF Init, LeaseInv, OneExecutionPerRun, Owns, IsAlive, FreeExecution, Alive
  <1>2. BrokerInv /\ LeaseInv /\ [Next]_vars => LeaseInv'
    BY LeaseStep
  <1> QED BY BrokerInvariant, <1>1, <1>2, PTL DEF Spec

\* executeRun's heartbeat and sweepExpiredLeases: as long as no lease has lapsed
\* under a live worker, a row is executed by one execution at a time, whatever
\* crashes, is swept, is claimed again or is settled behind a worker's back.
THEOREM OneExecution == Spec => []OneExecutionPerRun
  <1>1. LeaseInv => OneExecutionPerRun
    BY DEF LeaseInv
  <1> QED BY LeaseInvariant, <1>1, PTL

-----------------------------------------------------------------------------
(* While nothing is disturbed, a settle is the only one of its row.         *)

\* What every step but a settle leaves of a row: where it came from, and its
\* outcome if it has one.  A request's row comes from nowhere.
OutcomeStays(r) ==
  /\ runs[r].status \in Terminal \/ runs'[r].status \in Terminal =>
       runs'[r].status = runs[r].status
  /\ runs'[r].retryOf = runs[r].retryOf \/ runs'[r].retryOf = None

\* Only the worker's settleRun writes an outcome or a retry, as long as no
\* statement has been broken (so no Ask settles, and no reply is lost).
LEMMA OnlySettlesEnd ==
  ASSUME TypeInv, Next, dbFaults' = 0, asked = {}, NEW r \in RunIds,
         ~ \E c \in Claims : settleRun(c)
  PROVE  OutcomeStays(r)
  <1>ty. /\ runs \in [RunIds -> Row] /\ dbFaults \in Nat /\ TypeOK
         /\ \A c \in Claims : exec[c].pc # "free" => exec[c].run \in RunIds
    BY BrokerAssumption DEF BrokerAssumption, TypeInv, TypeOK, Grounded, ActsOnARow
  <1>same. runs' = runs => OutcomeStays(r)
    BY DEF OutcomeStays
  <1>1. ASSUME NEW q \in Requests, enqueueRun(q) PROVE OutcomeStays(r)
    <2>1. PICK n \in FreshIds : runs' = [runs EXCEPT ![n] = QueuedRow(q, q.session, 1, None)]
      BY <1>1 DEF enqueueRun
    <2>2. /\ QueuedRow(q, q.session, 1, None).status = "queued"
          /\ QueuedRow(q, q.session, 1, None).retryOf = None
      BY DEF QueuedRow
    <2> QED BY <1>ty, <2>1, <2>2 DEF FreshIds, OutcomeStays, Terminal
  <1>2. ASSUME NEW s \in RunIds, requestRunCancellation(s) PROVE OutcomeStays(r)
    BY <1>2, <1>ty DEF requestRunCancellation, OutcomeStays, Row
  <1>4. ASSUME sweepExpiredLeases PROVE OutcomeStays(r)
    BY <1>4, <1>ty DEF sweepExpiredLeases, Expired, Row, OutcomeStays, Held, Terminal
  <1>5. ASSUME NEW c \in Claims, markRunStarted(c) PROVE OutcomeStays(r)
    BY <1>5, <1>ty DEF markRunStarted, Row, OutcomeStays, Held, Terminal
  <1>6. ASSUME NEW c \in Claims, setRunPageContext(c) PROVE OutcomeStays(r)
    <2> DEFINE stamped == [runs[exec[c].run] EXCEPT !.page = TaskPage[runs[exec[c].run].task]]
    <2>1. runs' = [runs EXCEPT ![exec[c].run] = stamped] \/ runs' = runs
      BY <1>6 DEF setRunPageContext
    <2>2. r = exec[c].run => stamped.status = runs[r].status /\ stamped.retryOf = runs[r].retryOf
      BY <1>ty DEF Row
    <2> HIDE DEF stamped
    <2> QED BY <1>ty, <1>same, <2>1, <2>2 DEF OutcomeStays
  <1>7. ASSUME NEW c \in Claims, renewLease(c) PROVE OutcomeStays(r)
    BY <1>7, <1>ty DEF renewLease, Row, OutcomeStays
  <1>8. ASSUME NEW s \in RunIds, LapseLease(s) PROVE OutcomeStays(r)
    BY <1>8, <1>ty DEF LapseLease, Row, OutcomeStays
  <1>9. ASSUME NEW w \in Workers, Claiming(w) PROVE OutcomeStays(r)
    <2>1. PICK s \in Claimable(w), row \in Row :
            /\ s \in RunIds /\ runs[s].status = "queued" /\ runs' = [runs EXCEPT ![s] = row]
            /\ row.status = "dispatched" /\ row.retryOf = runs[s].retryOf
      BY <1>9, <1>ty, ClaimEffect
    <2> QED BY <1>ty, <2>1 DEF OutcomeStays, Terminal
  <1>10. ASSUME NEW s \in RunIds, SettleFromAsk(s) PROVE OutcomeStays(r)
    BY <1>10 DEF SettleFromAsk
  <1>11. ASSUME NEW c \in Claims, BreakSettle(c) PROVE OutcomeStays(r)
    BY <1>11, <1>ty DEF BreakSettle
  <1>12. ASSUME UNCHANGED runs PROVE OutcomeStays(r)
    BY <1>12, <1>same
  <1> QED
    BY <1>1, <1>2, <1>4, <1>5, <1>6, <1>7, <1>8, <1>9, <1>10, <1>11, <1>12
    DEF Next, Claiming, Advance, ReadForAsk, RefuseRun, ThrowBeforeTurn, BeginTurn, FinishTurn, FailTurn,
        AuthorisePageWrite, RollBackSettle, CrashWorker

\* settleRun, row by row: its own row ends, at most one row is its retry.
LEMMA SettleEffect ==
  ASSUME TypeInv, NEW c \in Claims, settleRun(c)
  PROVE  \E t \in RunIds, n \in RunIds :
           /\ t = exec[c].run /\ runs[t].status # "absent" /\ IsAlive(c) /\ ~IsAlive(c)'
           /\ runs'[t].status \in Terminal /\ runs'[t].retryOf = runs[t].retryOf
           /\ n # t => \/ runs'[n] = runs[n]
                       \/ /\ runs[n].status = "absent"
                          /\ runs'[n].retryOf = t /\ runs'[n].status = "queued"
           /\ \A s \in RunIds \ {t, n} : runs'[s] = runs[s]
  <1> DEFINE t == exec[c].run
             out == Outcome(exec[c].verdict)
             settled == [runs EXCEPT ![t] = SettledRow(runs[t], out)]
  <1>1. /\ t \in RunIds /\ runs[t].status # "absent" /\ exec[c].verdict \in Verdicts
        /\ runs \in [RunIds -> Row] /\ exec \in [Claims -> Execution] /\ TypeOK
    BY DEF settleRun, TypeInv, TypeOK, Grounded, ActsOnARow, KnowsItsVerdict
  <1>2. IsAlive(c) /\ ~IsAlive(c)'
    <2>1. End(c, "ended").pc = "ended"
      BY <1>1, EndType
    <2> QED BY <1>1, <2>1 DEF settleRun, Finish, IsAlive, Alive
  <1>3. out \in Terminal
    BY <1>1, OutcomeIsTerminal
  <1>4. SettledRow(runs[t], out).status = out /\ SettledRow(runs[t], out).retryOf = runs[t].retryOf
    BY <1>1 DEF SettledRow, Row
  <1>5. /\ settled[t].status \in Terminal /\ settled[t].retryOf = runs[t].retryOf
        /\ \A s \in RunIds \ {t} : settled[s] = runs[s]
        /\ settled \in [RunIds -> Row]
    BY <1>1, <1>3, <1>4, SettledRowType
  <1> HIDE DEF settled
  <1>6. CASE runs' = settled
    BY <1>1, <1>2, <1>5, <1>6
  <1>7. ASSUME NEW n \in FreshIds, runs' = [settled EXCEPT ![n] = RetryOf(t)]
        PROVE  \E m \in RunIds :
                 /\ runs'[t].status \in Terminal /\ runs'[t].retryOf = runs[t].retryOf
                 /\ m # t => /\ runs[m].status = "absent"
                             /\ runs'[m].retryOf = t /\ runs'[m].status = "queued"
                 /\ \A s \in RunIds \ {t, m} : runs'[s] = runs[s]
    <2>1. n \in RunIds /\ runs[n].status = "absent" /\ n # t
      BY <1>1 DEF FreshIds
    <2>2. RetryOf(t).retryOf = t /\ RetryOf(t).status = "queued"
      BY DEF RetryOf, QueuedRow
    <2> QED BY <1>5, <1>7, <2>1, <2>2
  <1>8. runs' = settled \/ \E n \in FreshIds : runs' = [settled EXCEPT ![n] = RetryOf(t)]
    BY DEF settleRun, CommitSettle, settled
  <1> QED BY <1>1, <1>2, <1>6, <1>7, <1>8

\* A live execution's row has no outcome yet, no Ask is under way, and a retry
\* is a retry of a row that has ended.
HoldsItsRow(c) == IsAlive(c) => runs[exec[c].run].status \in Held
RetriesOfEnded ==
  \A r \in RunIds : runs[r].retryOf # None =>
                      runs[r].retryOf \in RunIds /\ runs[runs[r].retryOf].status \in Terminal
SettlesOnce ==
  Undisturbed => asked = {} /\ (\A c \in Claims : HoldsItsRow(c)) /\ RetriesOfEnded

FinalInv == SettlesOnce /\ NoForkedRetry

\* No row is settled a second time, and none is retried a second time.
LEMMA FinalStep ==
  ASSUME BrokerInv, LeaseInv, FinalInv, [Next]_vars, Undisturbed'
  PROVE  /\ FinalInv'
         /\ \A r \in RunIds : runs[r].status \in Terminal => runs'[r].status = runs[r].status
  <1>ty. /\ TypeInv /\ TypeOK /\ runs \in [RunIds -> Row] /\ exec \in [Claims -> Execution]
         /\ \A c \in Claims : IsAlive(c) => exec[c].run \in RunIds
         /\ None \notin RunIds
    BY BrokerAssumption DEF BrokerAssumption, BrokerInv, TypeInv, TypeOK, Grounded, ActsOnARow, IsAlive, Alive
  <1>zero. pauses = 0 /\ dbFaults = 0 /\ pauses' = 0 /\ dbFaults' = 0
    BY <1>ty, CountersGrow DEF Undisturbed
  <1>ih. /\ asked = {} /\ RetriesOfEnded /\ \A c \in Claims : HoldsItsRow(c) /\ Owns(c)
         /\ \A r, s \in RunIds : r # s /\ runs[r].retryOf # None => runs[r].retryOf # runs[s].retryOf
         /\ \A c, d \in Claims : IsAlive(c) /\ IsAlive(d) /\ exec[c].run = exec[d].run => c = d
    BY <1>zero DEF FinalInv, SettlesOnce, NoForkedRetry, LeaseInv, OneExecutionPerRun, Undisturbed
  <1> DEFINE Same == \A r \in RunIds : runs[r].status \in Terminal => runs'[r].status = runs[r].status
             Distinct == \A r, s \in RunIds :
                           r # s /\ runs'[r].retryOf # None => runs'[r].retryOf # runs'[s].retryOf
  <1>goal. ASSUME asked' = {}, \A c \in Claims : HoldsItsRow(c)', RetriesOfEnded', Distinct, Same
           PROVE  FinalInv' /\ Same
    BY <1>goal DEF FinalInv, SettlesOnce, NoForkedRetry
  <1>0. CASE UNCHANGED vars
    BY <1>0, <1>ih, <1>goal DEF vars, HoldsItsRow, IsAlive, RetriesOfEnded
  <1>asks. ASSUME Next PROVE asked' = {}
    <2>1. \/ asked' = asked
          \/ \E r \in RunIds : ReadForAsk(r) \/ SettleFromAsk(r)
      BY <1>asks
      DEF Next, Advance, Rest, Counters, enqueueRun, claimNextRun, LoseClaim, CrashWorker,
          BreakSettle, renewLease, AuthorisePageWrite, setRunPageContext, requestRunCancellation,
          LapseLease, sweepExpiredLeases, markRunStarted, BeginTurn,
          RefuseRun, ThrowBeforeTurn, FinishTurn, FailTurn, settleRun, RollBackSettle
    <2> QED BY <1>zero, <1>ih, <2>1 DEF ReadForAsk, SettleFromAsk
  <1>1. ASSUME Next, NEW d \in Claims, settleRun(d) PROVE FinalInv' /\ Same
    <2>1. PICK t \in RunIds, n \in RunIds :
            /\ t = exec[d].run /\ runs[t].status # "absent" /\ IsAlive(d) /\ ~IsAlive(d)'
            /\ runs'[t].status \in Terminal /\ runs'[t].retryOf = runs[t].retryOf
            /\ n # t => \/ runs'[n] = runs[n]
                        \/ /\ runs[n].status = "absent"
                           /\ runs'[n].retryOf = t /\ runs'[n].status = "queued"
            /\ \A s \in RunIds \ {t, n} : runs'[s] = runs[s]
      BY <1>1, <1>ty, SettleEffect
    <2>2. runs[t].status \in Held /\ runs[t].status \notin Terminal
      BY <1>ih, <2>1 DEF HoldsItsRow, Held, Terminal
    <2>3. Same
      BY <2>1, <2>2 DEF Terminal
    <2>4. \A r \in RunIds : runs[r].retryOf # t
      BY <1>ih, <1>ty, <2>1, <2>2 DEF RetriesOfEnded
    <2>5. /\ runs'[n].retryOf = runs[n].retryOf \/ runs'[n].retryOf = t
          /\ \A r \in RunIds \ {n} : runs'[r].retryOf = runs[r].retryOf
      <3>1. runs'[t].retryOf = runs[t].retryOf
        BY <2>1
      <3>2. n # t => runs'[n] = runs[n] \/ runs'[n].retryOf = t
        BY <2>1
      <3>3. \A r \in RunIds : r # t /\ r # n => runs'[r] = runs[r]
        BY <2>1
      <3>4. ASSUME NEW r \in RunIds \ {n} PROVE runs'[r].retryOf = runs[r].retryOf
        <4>1. CASE r = t
          BY <3>1, <4>1
        <4>2. CASE r # t
          <5>1. runs'[r] = runs[r]
            BY <3>3, <4>2
          <5> QED BY <5>1
        <4> QED BY <4>1, <4>2
      <3>5. runs'[n].retryOf = runs[n].retryOf \/ runs'[n].retryOf = t
        BY <3>1, <3>2
      <3> QED BY <3>4, <3>5
    <2>6. Distinct
      BY <1>ih, <1>ty, <2>4, <2>5
    <2>7. RetriesOfEnded'
      BY <1>ih, <2>1, <2>3, <2>5 DEF RetriesOfEnded
    <2>8. ASSUME NEW c \in Claims, IsAlive(c)' PROVE runs'[exec'[c].run].status \in Held
      <3>1. c # d /\ exec'[c] = exec[c]
        BY <1>ty, <1>1, <2>1, <2>8 DEF settleRun, Finish
      <3>2. IsAlive(c) /\ exec[c].run \in RunIds /\ exec[c].run # t
        BY <1>ih, <1>ty, <2>1, <2>8, <3>1 DEF IsAlive
      <3>3. runs[exec[c].run].status \in Held
        BY <1>ih, <3>2 DEF HoldsItsRow
      <3> QED BY <2>1, <3>1, <3>2, <3>3 DEF Held
    <2> QED BY <1>1, <1>asks, <1>goal, <2>3, <2>6, <2>7, <2>8 DEF HoldsItsRow
  <1>2. ASSUME Next, ~ \E d \in Claims : settleRun(d) PROVE FinalInv' /\ Same
    <2>1. \A r \in RunIds : OutcomeStays(r)
      BY <1>2, <1>ty, <1>zero, <1>ih, OnlySettlesEnd
    <2>2. Same /\ Distinct
      BY <1>ih, <2>1 DEF OutcomeStays
    <2>3. RetriesOfEnded'
      BY <1>ih, <2>1 DEF OutcomeStays, RetriesOfEnded
    <2>4. ASSUME NEW c \in Claims, IsAlive(c)' PROVE runs'[exec'[c].run].status \in Held
      <3>1. CASE \E w \in Workers : Claiming(w)
        <4>1. PICK w \in Workers : Claiming(w)
          BY <3>1
        <4>2. PICK r \in Claimable(w), k \in FreshClaims, row \in Row, e \in Execution :
                /\ r \in RunIds /\ runs[r].status = "queued" /\ k \in Claims
                /\ runs' = [runs EXCEPT ![r] = row] /\ exec' = [exec EXCEPT ![k] = e]
                /\ row.status = "dispatched" /\ e.run = r
          BY <1>ty, <4>1, ClaimEffect
        <4>3. CASE c = k
          BY <1>ty, <4>2, <4>3 DEF Held
        <4>4. CASE c # k
          <5>1. exec'[c] = exec[c] /\ IsAlive(c)
            BY <1>ty, <2>4, <4>2, <4>4 DEF IsAlive
          <5>2. exec[c].run \in RunIds /\ runs[exec[c].run].status \in Held
            BY <1>ih, <1>ty, <5>1 DEF HoldsItsRow
          <5> QED BY <1>ty, <4>2, <5>1, <5>2 DEF Held
        <4> QED BY <4>3, <4>4
      <3>2. CASE ~ \E w \in Workers : Claiming(w)
        <4>1. exec'[c].run = exec[c].run /\ IsAlive(c)
          BY <1>2, <1>ty, <2>4, <3>2, TypeStep, NoneRevives DEF ExecutionsStay, StaysOnItsRow
        <4> DEFINE r == exec[c].run
        <4>2. r \in RunIds /\ runs[r].status \in Held /\ runs[r].lease = "live"
          BY <1>ih, <1>ty, <4>1 DEF HoldsItsRow, Owns, Held, Terminal
        <4>3. runs'[r].status \in Terminal \/ runs'[r].status \in Held
          BY <1>2, <1>ty, <1>zero, <3>2, <4>1, <4>2, LeaseKept
        <4>4. runs'[r].status \in Terminal => runs'[r].status = runs[r].status
          BY <2>1, <4>2 DEF OutcomeStays
        <4> QED BY <4>1, <4>2, <4>3, <4>4
      <3> QED BY <3>1, <3>2
    <2> QED BY <1>2, <1>asks, <1>goal, <2>2, <2>3, <2>4 DEF HoldsItsRow
  <1> QED BY <1>0, <1>1, <1>2

LEMMA FinalInvariant == Spec => []FinalInv
  <1>1. Init => FinalInv
    BY DEF Init, FinalInv, SettlesOnce, NoForkedRetry, HoldsItsRow, RetriesOfEnded, IsAlive,
           FreeExecution, Alive, AbsentRow
  <1>2. BrokerInv /\ LeaseInv /\ FinalInv /\ [Next]_vars => FinalInv'
    <2> SUFFICES ASSUME BrokerInv, LeaseInv, FinalInv, [Next]_vars PROVE FinalInv'
      OBVIOUS
    <2>1. CASE Undisturbed'
      BY <2>1, FinalStep
    <2>2. CASE ~Undisturbed'
      BY <2>2 DEF FinalInv, SettlesOnce, NoForkedRetry
    <2> QED BY <2>1, <2>2
  <1> QED BY BrokerInvariant, LeaseInvariant, <1>1, <1>2, PTL DEF Spec

\* settleRun: as long as heartbeats and statements have done what they should, no
\* row is retried twice, whichever workers crash and execute it again.
THEOREM RetriesDoNotFork == Spec => []NoForkedRetry
  <1>1. FinalInv => NoForkedRetry
    BY DEF FinalInv
  <1> QED BY FinalInvariant, <1>1, PTL

\* settleRun: and then the outcome it writes is the last one of its row, although
\* its UPDATE asks neither the status nor the owner.
THEOREM OutcomesAreFinal == Spec => OutcomeIsFinal
  <1>1. BrokerInv /\ LeaseInv /\ FinalInv /\ [Next]_vars =>
          [Undisturbed' => \A r \in RunIds :
             runs[r].status \in Terminal => runs'[r].status = runs[r].status]_vars
    BY FinalStep
  <1> QED BY BrokerInvariant, LeaseInvariant, FinalInvariant, <1>1, PTL DEF Spec, OutcomeIsFinal

-----------------------------------------------------------------------------
(* Refinement.                                                             *)

\* Whatever a process does, worker.ts reaches the table through runs.ts only.
LEMMA StepRefines == [DNext]_dvars => [Next]_vars
  <1> SUFFICES ASSUME [DNext]_dvars PROVE [Next]_vars
    OBVIOUS
  <1>1. ASSUME NEW w \in Workers, Tick(w) PROVE [Next]_vars
    BY <1>1 DEF Tick, PassCapacity, TickClaims, TickFindsNothing, TickLosesClaim, Next
  <1>2. ASSUME NEW w \in Workers, Crash(w) PROVE [Next]_vars
    BY <1>2 DEF Crash, Next
  <1>3. ASSUME NEW w \in Workers, NEW r \in RunIds, StopHere(w, r) PROVE [Next]_vars
    BY <1>3 DEF StopHere
  <1>4. ASSUME NEW c \in Claims, Proceed(c) PROVE [Next]_vars
    <2>1. Settle(c) => Advance(c) \/ BreakSettle(c)
      BY DEF Settle, Advance
    <2>2. Start(c) \/ EnterTurn(c) => Advance(c)
      BY DEF Start, EnterTurn, Advance
    <2>3. RefuseProfile(c) \/ (\E v \in {"failed", "retryable"} : RefuseEarly(c, v)) => Advance(c)
      BY DEF RefuseProfile, RefuseEarly, Advance
    <2>4. (\E v \in Verdicts : TurnEnds(c, v)) => Advance(c)
      BY DEF TurnEnds, Advance
    <2>5. TakeSlot(c) \/ RegisterControl(c) => UNCHANGED vars
      BY DEF TakeSlot, RegisterControl
    <2>6. Advance(c) \/ BreakSettle(c) => Next
      BY DEF Next
    <2> QED BY <1>4, <2>1, <2>2, <2>3, <2>4, <2>5, <2>6 DEF Proceed
  <1>5. ASSUME NEW c \in Claims, GoWrong(c) PROVE [Next]_vars
    <2>1. Advance(c)
      BY <1>5 DEF GoWrong, ThrowEarly, TurnThrows, Advance
    <2> QED BY <2>1 DEF Next
  <1>6. ASSUME NEW c \in Claims, WatcherNotices(c) PROVE [Next]_vars
    BY <1>6 DEF WatcherNotices
  <1>7. ASSUME Elsewhere PROVE [Next]_vars
    BY <1>7 DEF Elsewhere, Next
  <1>8. ASSUME UNCHANGED dvars PROVE [Next]_vars
    BY <1>8 DEF dvars
  <1> QED BY <1>1, <1>2, <1>3, <1>4, <1>5, <1>6, <1>7, <1>8 DEF DNext

\* The dispatcher (worker.ts) implements the run table (RunBroker): whatever it
\* keeps in memory, its behaviours are behaviours of the table, so that every
\* theorem above holds of the processes too.
THEOREM DispatcherImplementsBroker == DSpec => ImplementsBroker
  <1>1. DInit => Init
    BY DEF DInit
  <1>2. [DNext]_dvars => [Next]_vars
    BY StepRefines
  <1> QED BY <1>1, <1>2, PTL DEF DSpec, ImplementsBroker, Spec

-----------------------------------------------------------------------------
(* What the table's steps leave to an execution.                           *)

\* runs.agent_id is written by the INSERTs only.
LEMMA AgentsStay ==
  ASSUME TypeInv, Next, NEW r \in RunIds, runs[r].status # "absent"
  PROVE  runs'[r].agent = runs[r].agent
  <1>ty. /\ TypeOK /\ runs \in [RunIds -> Row] /\ asked \subseteq RunIds
         /\ \A c \in Claims : exec[c].pc # "free" =>
              exec[c].run \in RunIds /\ runs[exec[c].run].status # "absent"
    BY DEF TypeInv, TypeOK, Grounded, ActsOnARow
  <1>1. ASSUME NEW w \in Workers, Claiming(w) PROVE runs'[r].agent = runs[r].agent
    <2>1. PICK s \in RunIds, row \in Row : runs' = [runs EXCEPT ![s] = row] /\ Key(row) = Key(runs[s])
      BY <1>1, <1>ty, ClaimEffect
    <2> QED BY <1>ty, <2>1 DEF Key
  <1>2. ASSUME NEW q \in Requests, enqueueRun(q) PROVE runs'[r].agent = runs[r].agent
    <2>1. PICK n \in FreshIds : runs' = [runs EXCEPT ![n] = QueuedRow(q, q.session, 1, None)]
      BY <1>2 DEF enqueueRun
    <2> QED BY <1>ty, <2>1 DEF FreshIds
  <1>3. ASSUME NEW c \in Claims, settleRun(c) \/ BreakSettle(c) PROVE runs'[r].agent = runs[r].agent
    <2>1. CASE UNCHANGED runs
      BY <2>1
    <2>2. CASE CommitSettle(exec[c].run, exec[c].verdict)
      <3>1. /\ exec[c].run \in RunIds /\ runs[exec[c].run].status # "absent"
            /\ exec[c].verdict \in Verdicts
        BY <1>3, <1>ty DEF settleRun, BreakSettle, TypeInv, Grounded, KnowsItsVerdict
      <3>2. \/ runs'[r] = SettledRow(runs[r], Outcome(exec[c].verdict))
            \/ runs'[r] = runs[r]
        BY <1>ty, <2>2, <3>1, CommitSettleEffect
      <3> QED BY <1>ty, <3>2 DEF SettledRow, Row
    <2> QED BY <1>3, <2>1, <2>2 DEF settleRun, BreakSettle
  <1>4. ASSUME NEW c \in Claims, setRunPageContext(c) PROVE runs'[r].agent = runs[r].agent
    <2> DEFINE s == exec[c].run
               stamped == [runs[s] EXCEPT !.page = TaskPage[runs[s].task]]
    <2>1. runs' = [runs EXCEPT ![s] = stamped] \/ runs' = runs
      BY <1>4 DEF setRunPageContext
    <2>2. CASE s = r
      <3>1. stamped.agent = runs[r].agent
        BY <1>ty, <2>2 DEF Row
      <3> HIDE DEF stamped
      <3> QED BY <1>ty, <2>1, <2>2, <3>1
    <2>3. CASE s # r
      <3> HIDE DEF stamped
      <3> QED BY <1>ty, <2>1, <2>3
    <2> QED BY <2>2, <2>3
  <1>5. ASSUME NEW c \in Claims, renewLease(c) \/ markRunStarted(c) PROVE runs'[r].agent = runs[r].agent
    BY <1>5, <1>ty DEF renewLease, markRunStarted, Row
  <1>6. ASSUME NEW s \in RunIds, requestRunCancellation(s) \/ SettleFromAsk(s) \/ LapseLease(s)
        PROVE  runs'[r].agent = runs[r].agent
    <2>1. CASE requestRunCancellation(s)
      BY <1>ty, <2>1 DEF requestRunCancellation, Row
    <2>2. CASE SettleFromAsk(s)
      BY <1>ty, <2>2 DEF SettleFromAsk, SettledRow, Row
    <2>3. CASE LapseLease(s)
      BY <1>ty, <2>3 DEF LapseLease, Row
    <2> QED BY <1>6, <2>1, <2>2, <2>3
  <1>7. ASSUME sweepExpiredLeases PROVE runs'[r].agent = runs[r].agent
    BY <1>7, <1>ty DEF sweepExpiredLeases, Row
  <1>8. ASSUME UNCHANGED runs PROVE runs'[r].agent = runs[r].agent
    BY <1>8
  <1> QED
    BY <1>1, <1>2, <1>3, <1>4, <1>5, <1>6, <1>7, <1>8
    DEF Next, Claiming, Advance, ReadForAsk, RefuseRun, ThrowBeforeTurn, BeginTurn, FinishTurn, FailTurn,
        AuthorisePageWrite, RollBackSettle, CrashWorker

\* An execution keeps its row, its worker and its agent for as long as it lives.
Keeps(c) ==
  /\ exec'[c].run = exec[c].run /\ exec'[c].worker = exec[c].worker
  /\ exec'[c].pc # "free" /\ AgentOf(c)' = AgentOf(c)
  /\ IsAlive(c)' => IsAlive(c)

\* executeClaimedRun closes over its run: no statement of another execution, and no
\* claim, changes what an execution acts on.
LEMMA ExecutionsKeep ==
  ASSUME TypeInv, [Next]_vars, NEW c \in Claims, exec[c].pc # "free"
  PROVE  Keeps(c)
  <1>ty. /\ TypeOK /\ exec \in [Claims -> Execution]
         /\ exec[c].run \in RunIds /\ runs[exec[c].run].status # "absent"
    BY DEF TypeInv, TypeOK, Grounded, ActsOnARow
  <1>1. CASE UNCHANGED vars
    BY <1>1 DEF vars, Keeps, AgentOf, IsAlive
  <1>2. CASE Next /\ \E w \in Workers : Claiming(w)
    <2>1. PICK d \in Claims, e \in Execution : exec[d].pc = "free" /\ exec' = [exec EXCEPT ![d] = e]
      BY <1>2, <1>ty, ClaimEffect
    <2>2. exec'[c] = exec[c]
      BY <1>ty, <2>1
    <2> QED BY <1>2, <1>ty, <2>2, AgentsStay DEF Keeps, AgentOf, IsAlive
  <1>3. CASE Next /\ ~ \E w \in Workers : Claiming(w)
    <2>1. StaysOnItsRow(c)
      BY <1>3, TypeStep DEF ExecutionsStay
    <2>2. IsAlive(c)' => IsAlive(c)
      BY <1>3, NoneRevives
    <2> QED BY <1>3, <1>ty, <2>1, <2>2, AgentsStay DEF Keeps, AgentOf, StaysOnItsRow
  <1> QED BY <1>1, <1>2, <1>3

-----------------------------------------------------------------------------
(* The ceiling of an agent.                                                *)

\* agentInFlightCounts may count too many (a slot leaks when a profile is
\* missing), never too few: every execution past the slot wait is counted, and
\* only executions inside the try give a slot back.
Counted(w, a) ==
  /\ slots[w][a] \in Nat
  /\ Cardinality(HoldsSlot(w, a)) <= slots[w][a]
  /\ slots[w][a] <= AgentMax[a]

Staged(c) ==
  /\ stage[c] # "none" => exec[c].pc # "free"
  /\ InTry(c) => exec[c].pc \in {"turn", "settling"}

SlotInv ==
  /\ slots \in [Workers -> [Agents -> Nat]] /\ stage \in [Claims -> Stages]
  /\ \A c \in Claims : Staged(c)
  /\ \A w \in Workers, a \in Agents : Counted(w, a)

\* The holders of a slot are numbered, so they can be counted.
LEMMA HoldersAreFinite ==
  ASSUME BrokerAssumption, NEW w, NEW a
  PROVE  IsFiniteSet(HoldsSlot(w, a)) /\ Cardinality(HoldsSlot(w, a)) \in Nat
  <1>1. IsFiniteSet(Claims)
    BY FS_Interval DEF BrokerAssumption, Claims
  <1>2. HoldsSlot(w, a) \subseteq Claims
    BY DEF HoldsSlot, LiveOn
  <1> QED BY <1>1, <1>2, FS_Subset, FS_CardinalityType

\* Fewer holders under the same count keep the ceiling.
LEMMA FewerHolders ==
  ASSUME BrokerAssumption, NEW w \in Workers, NEW a \in Agents, Counted(w, a),
         slots'[w][a] = slots[w][a], HoldsSlot(w, a)' \subseteq HoldsSlot(w, a)
  PROVE  Counted(w, a)'
  <1>1. /\ IsFiniteSet(HoldsSlot(w, a)) /\ Cardinality(HoldsSlot(w, a)) \in Nat
    BY HoldersAreFinite
  <1>2. /\ Cardinality(HoldsSlot(w, a)') <= Cardinality(HoldsSlot(w, a))
        /\ Cardinality(HoldsSlot(w, a)') \in Nat
    BY <1>1, FS_Subset, FS_CardinalityType
  <1>3. AgentMax[a] \in Nat
    BY DispatcherAssumption DEF DispatcherAssumption
  <1> QED BY <1>1, <1>2, <1>3 DEF Counted

\* A step that counts nobody and lets nobody into the try.
LEMMA QuietStep ==
  ASSUME TypeInv, SlotInv, [Next]_vars, slots' = slots, stage' \in [Claims -> Stages],
         \A c \in Claims : stage'[c] # "none" => stage[c] # "none",
         \A c \in Claims : InTry(c)' => exec'[c].pc \in {"turn", "settling"}
  PROVE  SlotInv'
  <1>1. \A c \in Claims : stage'[c] # "none" => exec[c].pc # "free" /\ Keeps(c)
    BY ExecutionsKeep DEF SlotInv, Staged
  <1>2. \A c \in Claims : Staged(c)'
    BY <1>1 DEF Staged, Keeps
  <1>3. ASSUME NEW w \in Workers, NEW a \in Agents PROVE Counted(w, a)'
    <2>1. HoldsSlot(w, a)' \subseteq HoldsSlot(w, a)
      BY <1>1 DEF HoldsSlot, LiveOn, Keeps
    <2> QED BY <2>1, FewerHolders, BrokerAssumption DEF SlotInv
  <1> QED BY <1>2, <1>3 DEF SlotInv

\* agentInFlightCounts is checked and incremented with nothing awaited between.
LEMMA SlotTaken ==
  ASSUME TypeInv, SlotInv, NEW c \in Claims, TakeSlot(c)
  PROVE  /\ exec' = exec /\ runs' = runs /\ exec[c].pc = "started" /\ stage[c] = "none"
         /\ AgentOf(c) \in Agents /\ stage' = [stage EXCEPT ![c] = "slot"]
         /\ slots' \in [Workers -> [Agents -> Nat]]
         /\ slots[exec[c].worker][AgentOf(c)] < AgentMax[AgentOf(c)]
         /\ \A w \in Workers, a \in Agents :
              slots'[w][a] = IF w = exec[c].worker /\ a = AgentOf(c) THEN slots[w][a] + 1 ELSE slots[w][a]
  <1>ty. /\ exec[c].pc = "started" /\ stage[c] = "none" /\ exec' = exec /\ runs' = runs
         /\ AgentOf(c) \in Agents
         /\ slots \in [Workers -> [Agents -> Nat]] /\ stage \in [Claims -> Stages]
    BY DEF TakeSlot, vars, SlotInv, TypeInv, TypeOK, Grounded, ActsOnARow, AgentOf, Row
  <1> DEFINE v == exec[c].worker
             b == AgentOf(c)
  <1>1. /\ \A w \in Workers, a \in Agents :
             slots'[w][a] = IF w = v /\ a = b THEN slots[w][a] + 1 ELSE slots[w][a]
        /\ slots' \in [Workers -> [Agents -> Nat]]
        /\ stage' = [stage EXCEPT ![c] = "slot"] /\ slots[v][b] < AgentMax[b]
    <2>1. /\ slots' = [slots EXCEPT ![v] = [slots[v] EXCEPT ![b] = slots[v][b] + 1]]
          /\ stage' = [stage EXCEPT ![c] = "slot"] /\ slots[v][b] < AgentMax[b] /\ b \in Agents
      BY <1>ty DEF TakeSlot
    <2> HIDE DEF v, b
    <2>2. CASE v \in Workers
      <3> DEFINE row == [slots[v] EXCEPT ![b] = slots[v][b] + 1]
      <3>1. row \in [Agents -> Nat] /\ \A a \in Agents : row[a] = IF a = b THEN slots[v][a] + 1 ELSE slots[v][a]
        BY <1>ty, <2>1, <2>2
      <3>2. slots' = [slots EXCEPT ![v] = row]
        BY <2>1
      <3> HIDE DEF row
      <3> QED BY <1>ty, <2>1, <2>2, <3>1, <3>2
    <2>3. CASE v \notin Workers
      BY <1>ty, <2>1, <2>3
    <2> QED BY <2>2, <2>3
  <1> QED BY <1>ty, <1>1

\* Whoever takes a slot is counted with it.
LEMMA TakeSlotStep ==
  ASSUME TypeInv, SlotInv, NEW c \in Claims, TakeSlot(c) PROVE SlotInv'
  <1> DEFINE v == exec[c].worker
             b == AgentOf(c)
  <1>1. /\ \A w \in Workers, a \in Agents :
             slots'[w][a] = IF w = v /\ a = b THEN slots[w][a] + 1 ELSE slots[w][a]
        /\ slots' \in [Workers -> [Agents -> Nat]]
        /\ stage' = [stage EXCEPT ![c] = "slot"] /\ slots[v][b] < AgentMax[b]
    BY SlotTaken
  <1>ty. /\ exec[c].pc = "started" /\ stage[c] = "none" /\ exec' = exec /\ runs' = runs
         /\ AgentOf(c) \in Agents
         /\ slots \in [Workers -> [Agents -> Nat]] /\ stage \in [Claims -> Stages]
    BY SlotTaken DEF SlotInv
  <1>2. \A d \in Claims : Staged(d)'
    BY <1>ty, <1>1 DEF SlotInv, Staged, InTry
  <1>3. ASSUME NEW w \in Workers, NEW a \in Agents PROVE Counted(w, a)'
    <2>1. AgentMax[a] \in Nat
      BY DispatcherAssumption DEF DispatcherAssumption
    <2>2. CASE w = v /\ a = b
      <3>1. HoldsSlot(w, a)' = HoldsSlot(w, a) \cup {c}
        BY <1>ty, <1>1, <2>2 DEF HoldsSlot, LiveOn, IsAlive, Alive, AgentOf
      <3>2. /\ IsFiniteSet(HoldsSlot(w, a)) /\ Cardinality(HoldsSlot(w, a)) \in Nat
        BY HoldersAreFinite, BrokerAssumption
      <3>3. Cardinality(HoldsSlot(w, a) \cup {c})
              \in {Cardinality(HoldsSlot(w, a)), Cardinality(HoldsSlot(w, a)) + 1}
        BY <3>2, FS_AddElement
      <3>4. Cardinality(HoldsSlot(w, a)') <= Cardinality(HoldsSlot(w, a)) + 1
        BY <3>1, <3>2, <3>3
      <3>5. Cardinality(HoldsSlot(w, a)') \in Nat
        BY <3>1, <3>2, FS_AddElement, FS_CardinalityType
      <3>6. slots'[w][a] = slots[w][a] + 1 /\ slots[w][a] < AgentMax[a]
        BY <1>1, <2>2
      <3>7. slots[w][a] \in Nat /\ Cardinality(HoldsSlot(w, a)) <= slots[w][a]
        BY DEF SlotInv, Counted
      <3> QED BY <2>1, <3>2, <3>4, <3>5, <3>6, <3>7 DEF Counted
    <2>3. CASE ~(w = v /\ a = b)
      <3>1. HoldsSlot(w, a)' \subseteq HoldsSlot(w, a)
        BY <1>ty, <1>1, <2>3 DEF HoldsSlot, LiveOn, IsAlive, AgentOf
      <3> QED BY <1>1, <2>3, <3>1, FewerHolders, BrokerAssumption DEF SlotInv
    <2> QED BY <2>2, <2>3
  <1>4. stage' \in [Claims -> Stages]
    BY <1>ty, <1>1 DEF Stages
  <1> QED BY <1>1, <1>2, <1>3, <1>4 DEF SlotInv

\* agentInFlightCounts in the finally: one less, never below zero.
LEMMA SlotReturned ==
  ASSUME TypeInv, SlotInv, NEW c \in Claims, InTry(c), LeaveTry(c)
  PROVE  /\ exec[c].pc \in {"turn", "settling"} /\ AgentOf(c) \in Agents /\ IsAlive(c)
         /\ stage' = [stage EXCEPT ![c] = "none"] /\ slots' \in [Workers -> [Agents -> Nat]]
         /\ \A w \in Workers, a \in Agents :
              slots'[w][a] = IF w = exec[c].worker /\ a = AgentOf(c)
                             THEN IF slots[w][a] = 0 THEN 0 ELSE slots[w][a] - 1
                             ELSE slots[w][a]
  <1>ty. /\ exec[c].pc \in {"turn", "settling"} /\ AgentOf(c) \in Agents /\ IsAlive(c)
         /\ slots \in [Workers -> [Agents -> Nat]] /\ stage \in [Claims -> Stages]
    BY DEF SlotInv, Staged, TypeInv, TypeOK, Grounded, ActsOnARow, AgentOf, Row, IsAlive, Alive
  <1> DEFINE v == exec[c].worker
             b == AgentOf(c)
             less(n) == IF n = 0 THEN 0 ELSE n - 1
  <1>1. /\ \A w \in Workers, a \in Agents :
             slots'[w][a] = IF w = v /\ a = b THEN less(slots[w][a]) ELSE slots[w][a]
        /\ slots' \in [Workers -> [Agents -> Nat]]
        /\ stage' = [stage EXCEPT ![c] = "none"]
    <2>1. /\ slots' = [slots EXCEPT ![v] = [slots[v] EXCEPT ![b] = less(slots[v][b])]]
          /\ stage' = [stage EXCEPT ![c] = "none"] /\ b \in Agents
      BY <1>ty DEF LeaveTry
    <2> HIDE DEF v, b
    <2>2. CASE v \in Workers
      <3> DEFINE row == [slots[v] EXCEPT ![b] = less(slots[v][b])]
      <3>0. less(slots[v][b]) \in Nat
        <4>1. slots[v][b] \in Nat
          BY <1>ty, <2>1, <2>2
        <4> QED BY <4>1
      <3>1. row \in [Agents -> Nat] /\ \A a \in Agents : row[a] = IF a = b THEN less(slots[v][a]) ELSE slots[v][a]
        <4> HIDE DEF less
        <4> QED BY <1>ty, <2>1, <2>2, <3>0
      <3>2. slots' = [slots EXCEPT ![v] = row]
        BY <2>1
      <3> HIDE DEF row
      <3> QED BY <1>ty, <2>1, <2>2, <3>1, <3>2
    <2>3. CASE v \notin Workers
      BY <1>ty, <2>1, <2>3
    <2> QED BY <2>2, <2>3
  <1> QED BY <1>ty, <1>1

\* The finally runs once for an execution inside the try, while it is alive.
LEMMA LeaveTryStep ==
  ASSUME TypeInv, SlotInv, [Next]_vars, NEW c \in Claims, InTry(c), LeaveTry(c),
         \A d \in Claims \ {c} : exec'[d].pc = exec[d].pc
  PROVE  SlotInv'
  <1>ty. /\ exec[c].pc \in {"turn", "settling"} /\ AgentOf(c) \in Agents /\ IsAlive(c)
         /\ slots \in [Workers -> [Agents -> Nat]] /\ stage \in [Claims -> Stages]
    BY SlotReturned DEF SlotInv
  <1> DEFINE v == exec[c].worker
             b == AgentOf(c)
             less(n) == IF n = 0 THEN 0 ELSE n - 1
  <1>1. /\ \A w \in Workers, a \in Agents :
             slots'[w][a] = IF w = v /\ a = b THEN less(slots[w][a]) ELSE slots[w][a]
        /\ slots' \in [Workers -> [Agents -> Nat]]
        /\ stage' = [stage EXCEPT ![c] = "none"]
    BY SlotReturned
  <1>2. \A d \in Claims : stage'[d] # "none" => d # c /\ stage[d] = stage'[d] /\ Keeps(d)
    BY <1>ty, <1>1, ExecutionsKeep DEF SlotInv, Staged
  <1>3. \A d \in Claims : Staged(d)'
    BY <1>2 DEF SlotInv, Staged, Keeps, InTry
  <1>4. ASSUME NEW w \in Workers, NEW a \in Agents PROVE Counted(w, a)'
    <2>1. HoldsSlot(w, a)' \subseteq HoldsSlot(w, a) \ {c}
      BY <1>2 DEF HoldsSlot, LiveOn, Keeps
    <2>2. CASE w = v /\ a = b
      <3>1. c \in HoldsSlot(w, a)
        BY <1>ty, <2>2 DEF HoldsSlot, LiveOn, InTry
      <3>2. /\ IsFiniteSet(HoldsSlot(w, a)) /\ Cardinality(HoldsSlot(w, a)) \in Nat
        BY HoldersAreFinite, BrokerAssumption
      <3>3. /\ IsFiniteSet(HoldsSlot(w, a) \ {c})
            /\ Cardinality(HoldsSlot(w, a) \ {c}) = Cardinality(HoldsSlot(w, a)) - 1
        BY <3>1, <3>2, FS_RemoveElement
      <3>4. /\ Cardinality(HoldsSlot(w, a)') <= Cardinality(HoldsSlot(w, a)) - 1
            /\ Cardinality(HoldsSlot(w, a)') \in Nat
        BY <2>1, <3>3, FS_Subset, FS_CardinalityType
      <3>5. AgentMax[a] \in Nat
        BY DispatcherAssumption DEF DispatcherAssumption
      <3> QED BY <1>1, <2>2, <3>2, <3>4, <3>5 DEF SlotInv, Counted
    <2>3. CASE ~(w = v /\ a = b)
      BY <1>1, <2>1, <2>3, FewerHolders, BrokerAssumption DEF SlotInv
    <2> QED BY <2>2, <2>3
  <1>5. stage' \in [Claims -> Stages]
    BY <1>ty, <1>1 DEF Stages
  <1> QED BY <1>1, <1>3, <1>4, <1>5 DEF SlotInv

\* A crash empties the map, and kills whoever was counted in it.
LEMMA CrashStep ==
  ASSUME TypeInv, SlotInv, NEW w \in Workers, Crash(w) PROVE SlotInv'
  <1>ty. /\ slots \in [Workers -> [Agents -> Nat]] /\ stage \in [Claims -> Stages]
         /\ exec \in [Claims -> Execution] /\ [Next]_vars
    BY DEF SlotInv, TypeInv, TypeOK, Crash, Next
  <1>1. /\ slots' = [slots EXCEPT ![w] = [a \in Agents |-> 0]]
        /\ stage' = [c \in Claims |-> IF exec[c].worker = w THEN "none" ELSE stage[c]]
        /\ \A c \in Claims : exec[c].worker # w => exec'[c] = exec[c]
    BY DEF Crash, CrashWorker
  <1>2. \A c \in Claims : stage'[c] # "none" => /\ exec[c].worker # w /\ stage'[c] = stage[c]
                                                /\ Keeps(c)
    BY <1>ty, <1>1, ExecutionsKeep DEF SlotInv, Staged
  <1>3. \A c \in Claims : Staged(c)'
    BY <1>1, <1>2 DEF SlotInv, Staged, InTry, Keeps
  <1>4. ASSUME NEW u \in Workers, NEW a \in Agents PROVE Counted(u, a)'
    <2>1. HoldsSlot(u, a)' \subseteq HoldsSlot(u, a) /\ (u = w => HoldsSlot(u, a)' = {})
      BY <1>2 DEF HoldsSlot, LiveOn, Keeps
    <2>2. CASE u = w
      <3>1. Cardinality(HoldsSlot(u, a)') = 0
        BY <2>1, <2>2, FS_EmptySet
      <3>2. slots'[u][a] = 0
        BY <1>1, <1>ty, <2>2
      <3>3. AgentMax[a] \in Nat
        BY DispatcherAssumption DEF DispatcherAssumption
      <3> QED BY <3>1, <3>2, <3>3 DEF Counted
    <2>3. CASE u # w
      BY <1>1, <1>ty, <2>1, <2>3, FewerHolders, BrokerAssumption DEF SlotInv
    <2> QED BY <2>2, <2>3
  <1>5. /\ slots' \in [Workers -> [Agents -> Nat]] /\ stage' \in [Claims -> Stages]
    BY <1>ty, <1>1 DEF Stages
  <1> QED BY <1>3, <1>4, <1>5 DEF SlotInv

\* What callers, the sweep and the timers do to the table moves no execution on.
LEMMA ElsewhereStays ==
  ASSUME Elsewhere, exec \in [Claims -> Execution]
  PROVE  \A d \in Claims : /\ exec'[d].pc = exec[d].pc /\ exec'[d].run = exec[d].run
                           /\ exec'[d].worker = exec[d].worker
  <1>1. ASSUME NEW c \in Claims, AuthorisePageWrite(c) \/ setRunPageContext(c)
        PROVE  \A d \in Claims : /\ exec'[d].pc = exec[d].pc /\ exec'[d].run = exec[d].run
                                 /\ exec'[d].worker = exec[d].worker
    BY <1>1 DEF AuthorisePageWrite, setRunPageContext, Execution
  <1>2. \/ UNCHANGED exec
        \/ \E c \in Claims : AuthorisePageWrite(c) \/ setRunPageContext(c)
    BY DEF Elsewhere, enqueueRun, requestRunCancellation, ReadForAsk, SettleFromAsk, LapseLease,
           renewLease, sweepExpiredLeases
  <1> QED BY <1>1, <1>2

\* One action per step: what it does to the stages decides which lemma applies.
LEMMA SlotStep ==
  ASSUME TypeInv, SlotInv, [DNext]_dvars PROVE SlotInv'
  <1>ty. /\ stage \in [Claims -> Stages] /\ exec \in [Claims -> Execution]
         /\ \A c \in Claims : Staged(c)
         /\ [Next]_vars
    BY StepRefines DEF SlotInv, TypeInv, TypeOK
  \* A step that leaves slots and stages alone, and pc or moves a turn to its settle.
  <1>quiet. ASSUME UNCHANGED <<slots, stage>>,
                   \A c \in Claims : InTry(c) => exec'[c].pc \in {"turn", "settling"}
            PROVE  SlotInv'
    BY <1>quiet, <1>ty, QuietStep DEF InTry
  <1>still. ASSUME UNCHANGED <<slots, stage>>, \A c \in Claims : InTry(c) => exec'[c].pc = exec[c].pc
            PROVE  SlotInv'
    BY <1>still, <1>ty, <1>quiet DEF Staged
  <1>moved. ASSUME NEW c \in Claims, ~InTry(c), UNCHANGED <<slots, stage>>,
                   \A d \in Claims \ {c} : exec'[d].pc = exec[d].pc
            PROVE  SlotInv'
    BY <1>moved, <1>still
  <1>1. ASSUME NEW w \in Workers, Tick(w) PROVE SlotInv'
    <2>1. CASE Claiming(w) /\ UNCHANGED <<slots, stage>>
      <3>1. PICK d \in Claims, e \in Execution : exec[d].pc = "free" /\ exec' = [exec EXCEPT ![d] = e]
        BY <2>1, ClaimEffect DEF TypeInv
      <3> QED BY <1>ty, <2>1, <3>1, <1>still DEF Staged
    <2>2. CASE UNCHANGED <<vars, slots, stage>>
      BY <2>2, <1>still DEF vars
    <2> QED BY <1>1, <2>1, <2>2
            DEF Tick, PassCapacity, TickClaims, TickFindsNothing, TickLosesClaim, Claiming
  <1>2. ASSUME NEW w \in Workers, Crash(w) PROVE SlotInv'
    BY <1>2, CrashStep
  <1>3. ASSUME NEW w \in Workers, NEW r \in RunIds, StopHere(w, r) PROVE SlotInv'
    BY <1>3, <1>still DEF StopHere, vars
  <1>4. ASSUME NEW c \in Claims, Proceed(c) \/ GoWrong(c) PROVE SlotInv'
    <2>1. CASE Start(c)
      BY <1>ty, <2>1, <1>moved DEF Start, markRunStarted, Goto, memory, Staged
    <2>2. CASE TakeSlot(c)
      BY <2>2, TakeSlotStep
    <2>3. CASE RefuseProfile(c)
      BY <1>ty, <2>3, <1>moved DEF RefuseProfile, RefuseRun, Decide, memory, InTry
    <2>4. CASE EnterTurn(c)
      <3>1. /\ stage' = [stage EXCEPT ![c] = "try"] /\ stage[c] = "slot" /\ slots' = slots
            /\ exec' = [exec EXCEPT ![c].pc = "turn"]
        BY <2>4 DEF EnterTurn, BeginTurn, Goto
      <3>2. \A d \in Claims : InTry(d)' => exec'[d].pc \in {"turn", "settling"}
        BY <1>ty, <3>1 DEF InTry, Staged, Execution
      <3> QED BY <1>ty, <3>1, <3>2, QuietStep DEF Stages
    <2>5. CASE RegisterControl(c)
      <3>1. /\ stage' = [stage EXCEPT ![c] = "control"] /\ stage[c] = "try" /\ slots' = slots
            /\ exec' = exec /\ exec[c].pc = "turn"
        BY <2>5 DEF RegisterControl, vars
      <3>2. \A d \in Claims : InTry(d)' => exec'[d].pc \in {"turn", "settling"}
        BY <1>ty, <3>1 DEF InTry, Staged
      <3> QED BY <1>ty, <3>1, <3>2, QuietStep DEF Stages
    <2>6. ASSUME NEW v \in {"failed", "retryable"}, RefuseEarly(c, v) \/ ThrowEarly(c, v)
          PROVE  SlotInv'
      <3>1. ~InTry(c) /\ UNCHANGED <<slots, stage>> /\ \E pc \in Phases : Decide(c, pc, v)
        BY <1>ty, <2>6 DEF RefuseEarly, RefuseRun, ThrowEarly, ThrowBeforeTurn, memory, InTry, Staged, Phases, Alive
      <3> QED BY <3>1, <1>ty, <1>moved DEF Decide
    <2>7. ASSUME NEW v \in Verdicts, TurnEnds(c, v) PROVE SlotInv'
      <3>1. InTry(c) /\ LeaveTry(c) /\ Decide(c, "settling", v)
        BY <2>7 DEF TurnEnds, FinishTurn, InTry
      <3> QED BY <3>1, <1>ty, LeaveTryStep DEF Decide
    <2>8. ASSUME NEW v \in Verdicts, TurnThrows(c, v) PROVE SlotInv'
      <3>1. UNCHANGED <<slots, stage>> /\ \E u \in Verdicts \cup {v} : Decide(c, "settling", u)
        BY <2>8 DEF TurnThrows, FailTurn, memory, Verdicts
      <3>2. \A d \in Claims : InTry(d) => exec'[d].pc \in {"turn", "settling"}
        BY <1>ty, <3>1 DEF Decide, Staged
      <3> QED BY <3>1, <3>2, <1>quiet
    <2>9. CASE Settle(c)
      <3>1. \A d \in Claims \ {c} : exec'[d].pc = exec[d].pc
        BY <1>ty, <2>9 DEF Settle, settleRun, RollBackSettle, BreakSettle, AfterThrow, Decide, Finish
      <3> QED BY <1>ty, <2>9, <3>1, <1>moved, LeaveTryStep DEF Settle
    <2> QED BY <1>4, <2>1, <2>2, <2>3, <2>4, <2>5, <2>6, <2>7, <2>8, <2>9 DEF Proceed, GoWrong
  <1>5. ASSUME NEW c \in Claims, WatcherNotices(c) PROVE SlotInv'
    BY <1>5, <1>still DEF WatcherNotices, vars
  <1>6. ASSUME Elsewhere PROVE SlotInv'
    <2>1. UNCHANGED <<slots, stage>>
      BY <1>6 DEF Elsewhere, memory
    <2>2. \A d \in Claims : exec'[d].pc = exec[d].pc
      BY <1>6, <1>ty, ElsewhereStays
    <2> QED BY <2>1, <2>2, <1>still
  <1>7. ASSUME UNCHANGED dvars PROVE SlotInv'
    BY <1>7, <1>still DEF dvars, vars, memory
  <1> QED BY <1>1, <1>2, <1>3, <1>4, <1>5, <1>6, <1>7 DEF DNext

\* The maps of a new process are empty.
LEMMA InitSlots == DInit => SlotInv
  <1> SUFFICES ASSUME DInit PROVE SlotInv
    OBVIOUS
  <1>1. /\ slots \in [Workers -> [Agents -> Nat]] /\ stage \in [Claims -> Stages]
        /\ \A c \in Claims : Staged(c)
    BY DEF DInit, Stages, Staged, InTry
  <1>2. ASSUME NEW w \in Workers, NEW a \in Agents PROVE Counted(w, a)
    <2>1. HoldsSlot(w, a) = {}
      BY DEF DInit, HoldsSlot, LiveOn
    <2> QED BY <2>1, FS_EmptySet, DispatcherAssumption DEF DInit, DispatcherAssumption, Counted
  <1> QED BY <1>1, <1>2 DEF SlotInv

\* agent.maxConcurrentRuns, the slot wait of executeClaimedRun: no process ever
\* runs more turns of an agent at once than the agent allows, whichever paths the
\* earlier ones left by, and even when leases lapse and slots leak.
THEOREM AgentCeilingHolds == DSpec => []AgentCeiling
  <1>1. DSpec => []TypeInv
    BY DispatcherImplementsBroker, TypeCorrect DEF ImplementsBroker
  <1>2. DInit => SlotInv
    BY InitSlots
  <1>3. TypeInv /\ SlotInv /\ [DNext]_dvars => SlotInv'
    BY SlotStep
  <1>4. SlotInv => AgentCeiling
    <2> SUFFICES ASSUME SlotInv, NEW w \in Workers, NEW a \in Agents \ {None}
                 PROVE  Cardinality(HoldsSlot(w, a)) <= AgentMax[a]
      BY DEF AgentCeiling
    <2>1. Counted(w, a) /\ AgentMax[a] \in Nat /\ Cardinality(HoldsSlot(w, a)) \in Nat
      BY HoldersAreFinite, BrokerAssumption, DispatcherAssumption DEF DispatcherAssumption, SlotInv
    <2> QED BY <2>1 DEF Counted
  <1> QED BY <1>1, <1>2, <1>3, <1>4, PTL DEF DSpec

-----------------------------------------------------------------------------
(* A slot comes back.                                                      *)

\* An agent whose profile is installed passes from its slot into the try: an
\* execution that is counted for it is waiting at the door, or inside.
GivesBack(c) ==
  stage[c] # "none" /\ AgentOf(c) \notin MissingProfiles =>
    exec[c].pc \in IF stage[c] = "slot" THEN {"started"} ELSE {"turn", "settling"}

SlotsExact ==
  \A w \in Workers, a \in Agents \ MissingProfiles : slots[w][a] = Cardinality(HoldsSlot(w, a))

BackInv == SlotsExact /\ \A c \in Claims : GivesBack(c)

\* No step lets an execution end while the count still holds its slot.
LEMMA GivesBackStep ==
  ASSUME TypeInv, SlotInv, BackInv, [DNext]_dvars, NEW d \in Claims PROVE GivesBack(d)'
  <1>ty. /\ stage \in [Claims -> Stages] /\ exec \in [Claims -> Execution]
         /\ Staged(d) /\ GivesBack(d)
         /\ [Next]_vars
    BY StepRefines DEF SlotInv, BackInv, TypeInv, TypeOK
  <1>keeps. exec[d].pc # "free" => Keeps(d)
    BY <1>ty, ExecutionsKeep
  <1>same. ASSUME stage'[d] = stage[d], exec'[d].pc = exec[d].pc PROVE GivesBack(d)'
    BY <1>same, <1>ty, <1>keeps DEF GivesBack, Staged, Keeps
  <1>none. ASSUME stage'[d] = "none" PROVE GivesBack(d)'
    BY <1>none DEF GivesBack
  \* An execution with such a pc holds no slot, unless it leaks it.
  <1>early. ASSUME stage'[d] = stage[d], exec[d].pc \in {"claimed", "recovering"} PROVE GivesBack(d)'
    BY <1>early, <1>ty, <1>keeps DEF GivesBack, Keeps
  <1>1. ASSUME NEW w \in Workers, Tick(w) PROVE GivesBack(d)'
    <2>1. CASE Claiming(w) /\ UNCHANGED stage
      <3>1. PICK c \in Claims, e \in Execution : exec[c].pc = "free" /\ exec' = [exec EXCEPT ![c] = e]
        BY <2>1, ClaimEffect DEF TypeInv
      <3>2. CASE d = c
        BY <1>ty, <2>1, <3>1, <3>2, <1>none DEF Staged
      <3>3. CASE d # c
        BY <1>ty, <2>1, <3>1, <3>3, <1>same
      <3> QED BY <3>2, <3>3
    <2>2. CASE UNCHANGED <<vars, stage>>
      BY <2>2, <1>same DEF vars
    <2> QED BY <1>1, <2>1, <2>2
            DEF Tick, PassCapacity, TickClaims, TickFindsNothing, TickLosesClaim, Claiming
  <1>2. ASSUME NEW w \in Workers, Crash(w) PROVE GivesBack(d)'
    <2>1. CASE exec[d].worker = w
      BY <1>2, <2>1, <1>none DEF Crash
    <2>2. CASE exec[d].worker # w
      BY <1>2, <2>2, <1>same DEF Crash, CrashWorker
    <2> QED BY <2>1, <2>2
  <1>3. ASSUME NEW w \in Workers, NEW r \in RunIds, StopHere(w, r) PROVE GivesBack(d)'
    BY <1>3, <1>same DEF StopHere, vars
  <1>4. ASSUME NEW c \in Claims, Proceed(c) \/ GoWrong(c) PROVE GivesBack(d)'
    <2>1. CASE c # d
      <3>1. stage'[d] = stage[d]
        BY <1>4, <1>ty, <2>1
        DEF Proceed, GoWrong, Start, TakeSlot, RefuseProfile, EnterTurn, RegisterControl, RefuseEarly,
            TurnEnds, Settle, LeaveTry, ThrowEarly, TurnThrows, memory
      <3>2. exec'[d].pc = exec[d].pc
        BY <1>4, <1>ty, <2>1
        DEF Proceed, GoWrong, Start, TakeSlot, RefuseProfile, EnterTurn, RegisterControl, RefuseEarly,
            TurnEnds, Settle, ThrowEarly, TurnThrows, vars, markRunStarted, RefuseRun, BeginTurn,
            FinishTurn, settleRun, RollBackSettle, BreakSettle, AfterThrow, ThrowBeforeTurn, FailTurn,
            Goto, Decide, Finish
      <3> QED BY <3>1, <3>2, <1>same
    <2>2. CASE c = d
      <3>1. CASE Start(c)
        BY <2>2, <3>1, <1>early DEF Start, markRunStarted, memory
      <3>2. CASE TakeSlot(c)
        BY <1>ty, <2>2, <3>2 DEF TakeSlot, vars, GivesBack
      <3>3. CASE RefuseProfile(c)
        BY <1>keeps, <2>2, <3>3 DEF RefuseProfile, GivesBack, Keeps
      <3>4. CASE EnterTurn(c)
        BY <1>ty, <2>2, <3>4 DEF EnterTurn, BeginTurn, Goto, GivesBack, Execution
      <3>5. CASE RegisterControl(c)
        BY <1>ty, <2>2, <3>5 DEF RegisterControl, vars, GivesBack
      <3>6. ASSUME NEW v \in {"failed", "retryable"}, RefuseEarly(c, v) PROVE GivesBack(d)'
        BY <2>2, <3>6, <1>early DEF RefuseEarly, memory
      <3>7. ASSUME NEW v \in {"failed", "retryable"}, ThrowEarly(c, v) PROVE GivesBack(d)'
        BY <2>2, <3>7, <1>none DEF ThrowEarly, memory
      <3>8. ASSUME NEW v \in Verdicts, TurnEnds(c, v) PROVE GivesBack(d)'
        BY <1>ty, <2>2, <3>8, <1>none DEF TurnEnds, LeaveTry
      <3>9. ASSUME NEW v \in Verdicts, TurnThrows(c, v) PROVE GivesBack(d)'
        <4>1. stage'[d] = stage[d] /\ exec[d].pc = "turn" /\ \E u : Decide(d, "settling", u)
          BY <2>2, <3>9 DEF TurnThrows, FailTurn, memory
        <4>2. exec'[d].pc = "settling"
          BY <1>ty, <4>1 DEF Decide, Execution
        <4> QED BY <1>ty, <1>keeps, <4>1, <4>2 DEF GivesBack, Keeps
      <3>10. CASE Settle(c)
        <4>1. CASE InTry(c)
          BY <1>ty, <2>2, <3>10, <4>1, <1>none DEF Settle, LeaveTry
        <4>2. CASE ~InTry(c)
          <5>1. stage'[d] = stage[d] /\ exec[d].pc \in {"settling", "recovering"}
            BY <2>2, <3>10, <4>2 DEF Settle, settleRun, RollBackSettle, BreakSettle
          <5> QED BY <1>ty, <1>keeps, <2>2, <4>2, <5>1 DEF GivesBack, Keeps, InTry, Stages
        <4> QED BY <4>1, <4>2
      <3> QED BY <1>4, <3>1, <3>2, <3>3, <3>4, <3>5, <3>6, <3>7, <3>8, <3>9, <3>10 DEF Proceed, GoWrong
    <2> QED BY <2>1, <2>2
  <1>5. ASSUME NEW c \in Claims, WatcherNotices(c) PROVE GivesBack(d)'
    BY <1>5, <1>same DEF WatcherNotices, vars
  <1>6. ASSUME Elsewhere PROVE GivesBack(d)'
    <2>1. stage' = stage
      BY <1>6 DEF Elsewhere, memory
    <2>2. exec'[d].pc = exec[d].pc
      BY <1>6, <1>ty, ElsewhereStays
    <2> QED BY <2>1, <2>2, <1>same
  <1>7. ASSUME UNCHANGED dvars PROVE GivesBack(d)'
    BY <1>7, <1>same DEF dvars, vars, memory
  <1> QED BY <1>1, <1>2, <1>3, <1>4, <1>5, <1>6, <1>7 DEF DNext

\* The map and the stages move together: a slot is taken, given back, or lost with
\* its process, and no other step touches either.
LEMMA SlotKinds ==
  ASSUME [DNext]_dvars, stage \in [Claims -> Stages], SlotInv
  PROVE  \/ slots' = slots /\ \A c \in Claims : stage'[c] = "none" <=> stage[c] = "none"
         \/ \E c \in Claims : TakeSlot(c)
         \/ \E c \in Claims : InTry(c) /\ LeaveTry(c)
         \/ \E w \in Workers : Crash(w)
  <1>1. ASSUME NEW c \in Claims, EnterTurn(c) \/ RegisterControl(c)
        PROVE  slots' = slots /\ \A d \in Claims : stage'[d] = "none" <=> stage[d] = "none"
    BY <1>1 DEF EnterTurn, RegisterControl
  <1>2. ASSUME NEW c \in Claims, Settle(c) \/ \E v \in Verdicts : TurnEnds(c, v)
        PROVE  UNCHANGED <<slots, stage>> \/ (InTry(c) /\ LeaveTry(c))
    BY <1>2 DEF Settle, TurnEnds, InTry
  <1>3. ASSUME NEW c \in Claims, Proceed(c)
        PROVE  \/ UNCHANGED <<slots, stage>> \/ EnterTurn(c) \/ RegisterControl(c)
               \/ TakeSlot(c) \/ (InTry(c) /\ LeaveTry(c))
    BY <1>2, <1>3 DEF Proceed, Start, RefuseProfile, RefuseEarly, memory
  <1>4. ASSUME NEW c \in Claims, GoWrong(c) \/ WatcherNotices(c) PROVE UNCHANGED <<slots, stage>>
    BY <1>4 DEF GoWrong, ThrowEarly, TurnThrows, WatcherNotices, memory
  <1>5. ASSUME NEW w \in Workers, Tick(w) \/ \E r \in RunIds : StopHere(w, r)
        PROVE  UNCHANGED <<slots, stage>>
    BY <1>5 DEF Tick, PassCapacity, TickClaims, TickFindsNothing, TickLosesClaim, StopHere
  <1>6. Elsewhere \/ UNCHANGED dvars => UNCHANGED <<slots, stage>>
    BY DEF Elsewhere, dvars, memory
  <1> QED BY <1>1, <1>3, <1>4, <1>5, <1>6 DEF DNext

\* agentInFlightCounts after each kind of step, for an agent that loses no slot.
LEMMA ExactStep ==
  ASSUME TypeInv, SlotInv, BackInv, [DNext]_dvars PROVE SlotsExact'
  <1> SUFFICES ASSUME NEW w \in Workers, NEW a \in Agents \ MissingProfiles
               PROVE  slots'[w][a] = Cardinality(HoldsSlot(w, a)')
    BY DEF SlotsExact
  <1>ty. /\ stage \in [Claims -> Stages] /\ slots \in [Workers -> [Agents -> Nat]]
         /\ \A d \in Claims : Staged(d) /\ GivesBack(d)
         /\ [Next]_vars
         /\ slots[w][a] = Cardinality(HoldsSlot(w, a)) /\ slots[w][a] \in Nat
         /\ IsFiniteSet(HoldsSlot(w, a))
    BY StepRefines, HoldersAreFinite, BrokerAssumption DEF SlotInv, BackInv, SlotsExact
  <1>keeps. \A d \in Claims : exec[d].pc # "free" => Keeps(d)
    BY <1>ty, ExecutionsKeep
  <1>back. \A d \in Claims : GivesBack(d)'
    BY GivesBackStep
  <1>held. ASSUME NEW d \in Claims, stage[d] # "none", stage'[d] # "none"
           PROVE  d \in HoldsSlot(w, a)' <=> d \in HoldsSlot(w, a)
    <2>1. Keeps(d) /\ GivesBack(d)'
      BY <1>held, <1>ty, <1>keeps, <1>back DEF Staged
    <2>2. AgentOf(d) = a => IsAlive(d)'
      BY <1>held, <2>1 DEF Keeps, GivesBack, IsAlive, Alive
    <2> QED BY <1>held, <2>1, <2>2 DEF HoldsSlot, LiveOn, Keeps
  <1>left. ASSUME NEW d \in Claims, stage'[d] = "none" PROVE d \notin HoldsSlot(w, a)'
    BY <1>left DEF HoldsSlot
  <1>new. ASSUME NEW d \in Claims, stage[d] = "none" PROVE d \notin HoldsSlot(w, a)
    BY <1>new DEF HoldsSlot
  <1>sub. HoldsSlot(w, a) \subseteq Claims /\ HoldsSlot(w, a)' \subseteq Claims
    BY DEF HoldsSlot, LiveOn
  <1>1. CASE slots' = slots /\ \A c \in Claims : stage'[c] = "none" <=> stage[c] = "none"
    <2>1. HoldsSlot(w, a)' = HoldsSlot(w, a)
      BY <1>1, <1>held, <1>left, <1>new, <1>sub
    <2> QED BY <1>1, <1>ty, <2>1
  <1>2. ASSUME NEW c \in Claims, TakeSlot(c) PROVE slots'[w][a] = Cardinality(HoldsSlot(w, a)')
    <2>1. /\ stage[c] = "none" /\ stage' = [stage EXCEPT ![c] = "slot"] /\ exec' = exec /\ runs' = runs
          /\ exec[c].pc = "started"
          /\ slots'[w][a] = IF w = exec[c].worker /\ a = AgentOf(c) THEN slots[w][a] + 1 ELSE slots[w][a]
      BY <1>2, SlotTaken
    <2>2. \A d \in Claims \ {c} : d \in HoldsSlot(w, a)' <=> d \in HoldsSlot(w, a)
      BY <1>ty, <2>1 DEF HoldsSlot, LiveOn, IsAlive, AgentOf
    <2>3. c \notin HoldsSlot(w, a) /\ (c \in HoldsSlot(w, a)' <=> w = exec[c].worker /\ a = AgentOf(c))
      BY <1>ty, <2>1 DEF HoldsSlot, LiveOn, IsAlive, Alive, AgentOf
    <2>4. CASE w = exec[c].worker /\ a = AgentOf(c)
      <3>1. HoldsSlot(w, a)' = HoldsSlot(w, a) \cup {c}
        BY <1>sub, <2>2, <2>3, <2>4
      <3>2. Cardinality(HoldsSlot(w, a) \cup {c}) = Cardinality(HoldsSlot(w, a)) + 1
        BY <1>ty, <2>3, FS_AddElement
      <3> QED BY <1>ty, <2>1, <2>4, <3>1, <3>2
    <2>5. CASE ~(w = exec[c].worker /\ a = AgentOf(c))
      <3>1. HoldsSlot(w, a)' = HoldsSlot(w, a)
        BY <1>sub, <2>2, <2>3, <2>5
      <3> QED BY <1>ty, <2>1, <2>5, <3>1
    <2> QED BY <2>4, <2>5
  <1>3. ASSUME NEW c \in Claims, InTry(c), LeaveTry(c)
        PROVE  slots'[w][a] = Cardinality(HoldsSlot(w, a)')
    <2>1. /\ stage' = [stage EXCEPT ![c] = "none"] /\ IsAlive(c) /\ stage[c] # "none"
          /\ slots'[w][a] = IF w = exec[c].worker /\ a = AgentOf(c)
                            THEN IF slots[w][a] = 0 THEN 0 ELSE slots[w][a] - 1
                            ELSE slots[w][a]
      BY <1>3, SlotReturned DEF InTry
    <2>2. \A d \in Claims \ {c} : d \in HoldsSlot(w, a)' <=> d \in HoldsSlot(w, a)
      BY <1>ty, <1>held, <1>left, <1>new, <2>1
    <2>3. c \notin HoldsSlot(w, a)' /\ (c \in HoldsSlot(w, a) <=> w = exec[c].worker /\ a = AgentOf(c))
      BY <1>ty, <2>1 DEF HoldsSlot, LiveOn
    <2>4. CASE w = exec[c].worker /\ a = AgentOf(c)
      <3>1. HoldsSlot(w, a)' = HoldsSlot(w, a) \ {c} /\ c \in HoldsSlot(w, a)
        BY <1>sub, <2>2, <2>3, <2>4
      <3>2. /\ Cardinality(HoldsSlot(w, a) \ {c}) = Cardinality(HoldsSlot(w, a)) - 1
            /\ IsFiniteSet(HoldsSlot(w, a) \ {c})
        BY <1>ty, <3>1, FS_RemoveElement
      <3>3. Cardinality(HoldsSlot(w, a) \ {c}) \in Nat
        BY <3>2, FS_CardinalityType
      <3> QED BY <1>ty, <2>1, <2>4, <3>1, <3>2, <3>3
    <2>5. CASE ~(w = exec[c].worker /\ a = AgentOf(c))
      <3>1. HoldsSlot(w, a)' = HoldsSlot(w, a)
        BY <1>sub, <2>2, <2>3, <2>5
      <3> QED BY <1>ty, <2>1, <2>5, <3>1
    <2> QED BY <2>4, <2>5
  <1>4. ASSUME NEW u \in Workers, Crash(u) PROVE slots'[w][a] = Cardinality(HoldsSlot(w, a)')
    <2>1. /\ slots' = [slots EXCEPT ![u] = [b \in Agents |-> 0]]
          /\ stage' = [c \in Claims |-> IF exec[c].worker = u THEN "none" ELSE stage[c]]
      BY <1>4 DEF Crash
    <2>2. CASE u = w
      <3>1. HoldsSlot(w, a)' = {}
        <4> SUFFICES ASSUME NEW d \in HoldsSlot(w, a)' PROVE FALSE
          OBVIOUS
        <4>1. d \in Claims /\ stage'[d] # "none" /\ exec'[d].worker = w
          BY DEF HoldsSlot, LiveOn
        <4>2. stage[d] # "none" /\ exec[d].worker # u
          BY <2>1, <4>1
        <4>3. Keeps(d)
          BY <1>ty, <1>keeps, <4>1, <4>2 DEF Staged
        <4> QED BY <2>2, <4>1, <4>2, <4>3 DEF Keeps
      <3> QED BY <1>ty, <2>1, <2>2, <3>1, FS_EmptySet
    <2>3. CASE u # w
      <3>1. slots'[w][a] = slots[w][a]
        BY <1>ty, <2>1, <2>3
      <3>2. ASSUME NEW d \in Claims, exec[d].worker = u
            PROVE  d \notin HoldsSlot(w, a)' /\ d \notin HoldsSlot(w, a)
        BY <2>1, <2>3, <3>2, <1>left DEF HoldsSlot, LiveOn
      <3>3. ASSUME NEW d \in Claims, exec[d].worker # u
            PROVE  d \in HoldsSlot(w, a)' <=> d \in HoldsSlot(w, a)
        BY <2>1, <3>3, <1>held, <1>left, <1>new
      <3>4. HoldsSlot(w, a)' = HoldsSlot(w, a)
        BY <1>sub, <3>2, <3>3
      <3> QED BY <1>ty, <3>1, <3>4
    <2> QED BY <2>2, <2>3
  <1> QED BY <1>1, <1>2, <1>3, <1>4, <1>ty, SlotKinds

\* agentInFlightCounts: every way out of a turn, a crash and a throw in the catch
\* included, gives the slot back exactly once, so an agent that may run two turns
\* is never refused one that nobody is using.
THEOREM SlotsAreReturned == DSpec => []SlotsComeBack
  <1>1. DSpec => []TypeInv
    BY DispatcherImplementsBroker, TypeCorrect DEF ImplementsBroker
  <1>2. DInit => SlotInv /\ BackInv
    <2> SUFFICES ASSUME DInit PROVE BackInv
      BY InitSlots
    <2>1. \A c \in Claims : GivesBack(c)
      BY DEF DInit, GivesBack
    <2>2. ASSUME NEW w \in Workers, NEW a \in Agents PROVE slots[w][a] = Cardinality(HoldsSlot(w, a))
      <3>1. HoldsSlot(w, a) = {}
        BY DEF DInit, HoldsSlot, LiveOn
      <3> QED BY <3>1, FS_EmptySet DEF DInit
    <2> QED BY <2>1, <2>2 DEF BackInv, SlotsExact
  <1>3. TypeInv /\ SlotInv /\ BackInv /\ [DNext]_dvars => (SlotInv /\ BackInv)'
    BY SlotStep, GivesBackStep, ExactStep DEF BackInv
  <1>4. BackInv => SlotsComeBack
    BY DEF BackInv, SlotsExact, SlotsComeBack
  <1> QED BY <1>1, <1>2, <1>3, <1>4, PTL DEF DSpec

-----------------------------------------------------------------------------
(* The registry.                                                           *)

\* Entries are keyed by run, and a process may execute a run twice once a lease has
\* lapsed under a live worker: the first to end would take the entry of both.
KnowsItsRuns(w) == inFlight[w] = {exec[c].run : c \in LiveOn(w)}
RegistryInv ==
  /\ inFlight \in [Workers -> SUBSET (RunIds \cup {None})]
  /\ pauses = 0 => RegistryIsExact

\* Where nobody comes to life or dies, the registry may stay as it is.
LEMMA SameLives ==
  ASSUME NEW w \in Workers, KnowsItsRuns(w), inFlight'[w] = inFlight[w],
         \A c \in Claims : (c \in LiveOn(w))' <=> c \in LiveOn(w),
         \A c \in LiveOn(w) : exec'[c].run = exec[c].run
  PROVE  KnowsItsRuns(w)'
  <1>1. LiveOn(w)' = LiveOn(w)
    BY DEF LiveOn
  <1>2. {exec'[c].run : c \in LiveOn(w)} = {exec[c].run : c \in LiveOn(w)}
    OBVIOUS
  <1> QED BY <1>1, <1>2 DEF KnowsItsRuns

\* claimNextRun answered: dispatchNextRun enters the run before anything else.
LEMMA ClaimRegisters ==
  ASSUME TypeInv, RegistryInv, NEW w \in Workers, claimNextRun(w),
         inFlight' = [inFlight EXCEPT ![w] = @ \cup {exec'[c].run : c \in FreshClaims}]
  PROVE  /\ inFlight' \in [Workers -> SUBSET (RunIds \cup {None})]
         /\ \A u \in Workers : KnowsItsRuns(u) => KnowsItsRuns(u)'
  <1>ty. /\ exec \in [Claims -> Execution] /\ inFlight \in [Workers -> SUBSET (RunIds \cup {None})]
    BY DEF TypeInv, TypeOK, RegistryInv
  <1>1. PICK r \in Claimable(w), c \in FreshClaims :
          exec' = [exec EXCEPT ![c] = [FreeExecution EXCEPT !.run = r, !.worker = w, !.pc = "claimed"]]
    BY DEF claimNextRun, ClaimRow
  <1> DEFINE e == [FreeExecution EXCEPT !.run = r, !.worker = w, !.pc = "claimed"]
  <1>2. e.run = r /\ e.worker = w /\ e.pc = "claimed" /\ r \in RunIds
    BY DEF FreeExecution, Claimable
  <1>3. exec' = [exec EXCEPT ![c] = e]
    BY <1>1
  <1> HIDE DEF e
  <1>4. c \in Claims /\ exec[c].pc = "free" /\ \A d \in FreshClaims : d = c
    <2>1. \A d \in FreshClaims : d \in Claims /\ exec[d].pc = "free" /\ \A b \in 1..(d - 1) : exec[b].pc # "free"
      BY DEF FreshClaims
    <2>2. \A d \in Claims : d \in Int /\ 1 <= d
      BY BrokerAssumption DEF BrokerAssumption, Claims
    <2>3. ASSUME NEW d \in FreshClaims, d # c PROVE FALSE
      <3>1. d \in Int /\ c \in Int /\ 1 <= d /\ 1 <= c
        BY <2>1, <2>2
      <3>2. d \in 1..(c - 1) \/ c \in 1..(d - 1)
        BY <2>3, <3>1
      <3> QED BY <2>1, <3>2
    <2> QED BY <2>1, <2>3
  <1>5. exec'[c] = e /\ \A d \in Claims \ {c} : exec'[d] = exec[d]
    BY <1>ty, <1>3, <1>4
  <1>6. {exec'[d].run : d \in FreshClaims} = {r}
    BY <1>2, <1>4, <1>5
  <1>7. inFlight' = [inFlight EXCEPT ![w] = @ \cup {r}]
    BY <1>6
  <1>8. ASSUME NEW u \in Workers, KnowsItsRuns(u) PROVE KnowsItsRuns(u)'
    <2>1. \A d \in Claims \ {c} : d \in LiveOn(u)' <=> d \in LiveOn(u)
      BY <1>5 DEF LiveOn, IsAlive
    <2>2. c \notin LiveOn(u) /\ (c \in LiveOn(u)' <=> u = w)
      BY <1>2, <1>4, <1>5 DEF LiveOn, IsAlive, Alive
    <2>3. LiveOn(u)' = IF u = w THEN LiveOn(u) \cup {c} ELSE LiveOn(u)
      BY <1>4, <2>1, <2>2 DEF LiveOn
    <2>4. \A d \in LiveOn(u) : exec'[d].run = exec[d].run
      BY <1>5, <2>2 DEF LiveOn
    <2>5. CASE u = w
      <3>1. {exec'[d].run : d \in LiveOn(u) \cup {c}} = {exec[d].run : d \in LiveOn(u)} \cup {r}
        BY <1>2, <1>5, <2>4
      <3>2. inFlight'[u] = inFlight[u] \cup {r}
        BY <1>ty, <1>7, <2>5
      <3> QED BY <1>8, <2>3, <2>5, <3>1, <3>2 DEF KnowsItsRuns
    <2>6. CASE u # w
      <3>1. {exec'[d].run : d \in LiveOn(u)} = {exec[d].run : d \in LiveOn(u)}
        BY <2>4
      <3>2. inFlight'[u] = inFlight[u]
        BY <1>ty, <1>7, <2>6
      <3> QED BY <1>8, <2>3, <2>6, <3>1, <3>2 DEF KnowsItsRuns
    <2> QED BY <2>5, <2>6
  <1>9. inFlight' \in [Workers -> SUBSET (RunIds \cup {None})]
    BY <1>ty, <1>2, <1>7
  <1> QED BY <1>8, <1>9

\* The finally of dispatchNextRun: the entry of the run goes with its only execution.
LEMMA EndForgets ==
  ASSUME TypeInv, RegistryInv, OneAtATime, NEW c \in Claims, IsAlive(c),
         exec' = [exec EXCEPT ![c] = End(c, "ended")],
         inFlight' = [inFlight EXCEPT ![exec[c].worker] = @ \ {exec[c].run}]
  PROVE  \A u \in Workers : KnowsItsRuns(u) => KnowsItsRuns(u)'
  <1> SUFFICES ASSUME NEW u \in Workers, KnowsItsRuns(u) PROVE KnowsItsRuns(u)'
    OBVIOUS
  <1>ty. /\ exec \in [Claims -> Execution] /\ inFlight \in [Workers -> SUBSET (RunIds \cup {None})]
    BY DEF TypeInv, TypeOK, RegistryInv
  <1>1. ~IsAlive(c)' /\ \A d \in Claims \ {c} : exec'[d] = exec[d]
    BY <1>ty, EndType DEF IsAlive, Alive
  <1>2. LiveOn(u)' = LiveOn(u) \ {c}
    BY <1>1 DEF LiveOn, IsAlive
  <1>3. \A d \in LiveOn(u) \ {c} : exec'[d].run = exec[d].run
    BY <1>1 DEF LiveOn
  <1>4. {exec'[d].run : d \in LiveOn(u) \ {c}} = {exec[d].run : d \in LiveOn(u) \ {c}}
    BY <1>3
  <1>5. CASE u = exec[c].worker
    <2>1. \A d \in LiveOn(u) \ {c} : exec[d].run # exec[c].run
      BY DEF LiveOn, OneAtATime
    <2>2. {exec[d].run : d \in LiveOn(u) \ {c}} = {exec[d].run : d \in LiveOn(u)} \ {exec[c].run}
      BY <2>1
    <2>3. inFlight'[u] = inFlight[u] \ {exec[c].run}
      BY <1>ty, <1>5
    <2> QED BY <1>2, <1>4, <2>2, <2>3 DEF KnowsItsRuns
  <1>6. CASE u # exec[c].worker
    <2>1. LiveOn(u) \ {c} = LiveOn(u)
      BY <1>6 DEF LiveOn
    <2>2. inFlight'[u] = inFlight[u]
      BY <1>ty, <1>6
    <2> QED BY <1>2, <1>4, <2>1, <2>2 DEF KnowsItsRuns
  <1> QED BY <1>5, <1>6

\* One action per step: a claim registers, an end forgets, a crash empties the map,
\* and every other step leaves the map and the living as they are.
LEMMA RegistryStep ==
  ASSUME TypeInv, SlotInv, LeaseInv, RegistryInv, [DNext]_dvars PROVE RegistryInv'
  <1>ty. /\ exec \in [Claims -> Execution] /\ inFlight \in [Workers -> SUBSET (RunIds \cup {None})]
         /\ [Next]_vars /\ \A c \in Claims : Staged(c)
    BY StepRefines DEF TypeInv, TypeOK, RegistryInv, SlotInv
  <1>was. pauses' = 0 => /\ pauses = 0 /\ OneAtATime /\ \A w \in Workers : KnowsItsRuns(w)
    BY <1>ty, CountersGrow
    DEF LeaseInv, OneExecutionPerRun, OneAtATime, RegistryInv, RegistryIsExact, KnowsItsRuns
  <1>goal. ASSUME inFlight' \in [Workers -> SUBSET (RunIds \cup {None})],
                  pauses' = 0 => \A w \in Workers : KnowsItsRuns(w) => KnowsItsRuns(w)'
           PROVE  RegistryInv'
    BY <1>goal, <1>was DEF RegistryInv, RegistryIsExact, KnowsItsRuns
  <1>still. ASSUME inFlight' = inFlight,
                   \A c \in Claims : /\ IsAlive(c)' <=> IsAlive(c)
                                     /\ IsAlive(c) => exec'[c].run = exec[c].run /\ exec'[c].worker = exec[c].worker
            PROVE  RegistryInv'
    <2>1. ASSUME NEW w \in Workers, KnowsItsRuns(w) PROVE KnowsItsRuns(w)'
      BY <1>still, <2>1, SameLives DEF LiveOn
    <2> QED BY <1>ty, <1>still, <2>1, <1>goal
  <1>lives. ASSUME NEW c \in Claims, IsAlive(c), inFlight' = inFlight,
                   \/ \E pc \in Alive : Goto(c, pc)
                   \/ \E pc \in Alive : \E v : Decide(c, pc, v)
            PROVE  RegistryInv'
    <2>1. \A d \in Claims : /\ IsAlive(d)' <=> IsAlive(d)
                            /\ exec'[d].run = exec[d].run /\ exec'[d].worker = exec[d].worker
      <3>1. CASE \E pc \in Alive : Goto(c, pc)
        BY <1>lives, <1>ty, <3>1 DEF Goto, IsAlive, Execution
      <3>2. CASE \E pc \in Alive : \E v : Decide(c, pc, v)
        <4>pc. PICK pc \in Alive : \E v : Decide(c, pc, v)
          BY <3>2
        <4>1. PICK v : Decide(c, pc, v)
          BY <4>pc
        <4> DEFINE e == [exec[c] EXCEPT !.pc = pc, !.verdict = v]
        <4>2. e.pc = pc /\ e.run = exec[c].run /\ e.worker = exec[c].worker
          BY <1>ty DEF Execution
        <4>3. exec' = [exec EXCEPT ![c] = e]
          BY <4>1 DEF Decide
        <4> HIDE DEF e
        <4> QED BY <1>lives, <1>ty, <4>2, <4>3 DEF IsAlive
      <3> QED BY <1>lives, <3>1, <3>2
    <2> QED BY <1>lives, <2>1, <1>still
  <1>1. ASSUME NEW w \in Workers, Tick(w) PROVE RegistryInv'
    <2>1. CASE TickClaims(w)
      BY <2>1, ClaimRegisters, <1>goal DEF TickClaims
    <2>2. CASE TickLosesClaim(w)
      <3>1. PICK r \in Claimable(w), c \in FreshClaims :
              exec' = [exec EXCEPT ![c] = [FreeExecution EXCEPT !.run = r, !.worker = w, !.pc = "dead"]]
        BY <2>2 DEF TickLosesClaim, LoseClaim, ClaimRow
      <3> DEFINE e == [FreeExecution EXCEPT !.run = r, !.worker = w, !.pc = "dead"]
      <3>2. e.pc = "dead" /\ exec' = [exec EXCEPT ![c] = e] /\ exec[c].pc = "free" /\ c \in Claims
        BY <3>1 DEF FreeExecution, FreshClaims
      <3> HIDE DEF e
      <3>3. \A d \in Claims : /\ IsAlive(d)' <=> IsAlive(d)
                              /\ IsAlive(d) => exec'[d].run = exec[d].run /\ exec'[d].worker = exec[d].worker
        BY <1>ty, <3>2 DEF IsAlive, Alive
      <3> QED BY <2>2, <3>3, <1>still DEF TickLosesClaim
    <2>3. CASE PassCapacity(w) \/ TickFindsNothing(w)
      BY <2>3, <1>still DEF PassCapacity, TickFindsNothing, vars, IsAlive
    <2> QED BY <1>1, <2>1, <2>2, <2>3 DEF Tick
  <1>2. ASSUME NEW w \in Workers, Crash(w) PROVE RegistryInv'
    <2>1. /\ inFlight' = [inFlight EXCEPT ![w] = {}]
          /\ \A c \in Claims : exec[c].worker # w => exec'[c] = exec[c]
      BY <1>2 DEF Crash, CrashWorker
    <2>2. ASSUME NEW c \in Claims, exec[c].worker = w PROVE ~IsAlive(c)' /\ exec'[c].worker = w
      <3> DEFINE e == IF IsAlive(c) THEN End(c, "dead") ELSE exec[c]
      <3>1. e \in Execution /\ e.worker = w /\ e.pc \notin Alive
        BY <1>ty, <2>2, EndType DEF IsAlive, Alive
      <3>2. exec'[c] = [e EXCEPT !.writing = FALSE]
        BY <1>2, <2>2 DEF Crash, CrashWorker
      <3> HIDE DEF e
      <3> QED BY <3>1, <3>2 DEF IsAlive, Execution
    <2>3. ASSUME NEW u \in Workers, KnowsItsRuns(u) PROVE KnowsItsRuns(u)'
      <3>1. CASE u = w
        <4>1. LiveOn(u)' = {}
          BY <2>1, <2>2, <3>1 DEF LiveOn
        <4>2. inFlight'[u] = {}
          BY <1>ty, <2>1, <3>1
        <4> QED BY <4>1, <4>2 DEF KnowsItsRuns
      <3>2. CASE u # w
        <4>1. \A c \in Claims : (c \in LiveOn(u)' <=> c \in LiveOn(u)) /\ (c \in LiveOn(u) => exec'[c].run = exec[c].run)
          BY <2>1, <2>2, <3>2 DEF LiveOn, IsAlive
        <4>2. LiveOn(u) \subseteq Claims /\ inFlight'[u] = inFlight[u]
          BY <1>ty, <2>1, <3>2 DEF LiveOn
        <4> QED BY <2>3, <4>1, <4>2, SameLives
      <3> QED BY <3>1, <3>2
    <2>4. inFlight' \in [Workers -> SUBSET (RunIds \cup {None})]
      BY <1>ty, <2>1
    <2> QED BY <2>3, <2>4, <1>goal
  <1>3. ASSUME NEW w \in Workers, NEW r \in RunIds, StopHere(w, r) PROVE RegistryInv'
    BY <1>3, <1>still DEF StopHere, vars, IsAlive
  <1>4. ASSUME NEW c \in Claims, Proceed(c) \/ GoWrong(c) PROVE RegistryInv'
    <2>1. CASE TakeSlot(c) \/ RegisterControl(c)
      BY <2>1, <1>still DEF TakeSlot, RegisterControl, vars, IsAlive
    <2>2. CASE Start(c) \/ EnterTurn(c)
      <3>1. IsAlive(c) /\ inFlight' = inFlight /\ \E pc \in Alive : Goto(c, pc)
        BY <2>2 DEF Start, EnterTurn, markRunStarted, BeginTurn, memory, IsAlive, Alive
      <3> QED BY <3>1, <1>lives
    <2>3. CASE \/ RefuseProfile(c)
               \/ \E v \in {"failed", "retryable"} : RefuseEarly(c, v) \/ ThrowEarly(c, v)
               \/ \E v \in Verdicts : TurnEnds(c, v) \/ TurnThrows(c, v)
      <3>1. IsAlive(c) /\ inFlight' = inFlight /\ \E pc \in Alive : \E v : Decide(c, pc, v)
        BY <2>3 DEF RefuseProfile, RefuseEarly, RefuseRun, ThrowEarly, ThrowBeforeTurn, TurnEnds, FinishTurn,
                    TurnThrows, FailTurn, memory, IsAlive, Alive
      <3> QED BY <3>1, <1>lives
    <2>4. CASE Settle(c)
      <3>1. /\ IsAlive(c) /\ Forget(c)
            /\ Finish(c) \/ Decide(c, "recovering", "retryable")
        BY <2>4 DEF Settle, settleRun, RollBackSettle, BreakSettle, AfterThrow, IsAlive, Alive
      <3>2. CASE Finish(c)
        <4>1. exec' = [exec EXCEPT ![c] = End(c, "ended")] /\ exec'[c].pc = "ended"
          BY <1>ty, <3>2, EndType DEF Finish
        <4>2. inFlight' = [inFlight EXCEPT ![exec[c].worker] = @ \ {exec[c].run}]
          BY <3>1, <4>1 DEF Forget
        <4>3. pauses' = 0 => \A u \in Workers : KnowsItsRuns(u) => KnowsItsRuns(u)'
          BY <1>was, <3>1, <4>1, <4>2, EndForgets
        <4>4. inFlight' \in [Workers -> SUBSET (RunIds \cup {None})]
          BY <1>ty, <4>2
        <4> QED BY <4>3, <4>4, <1>goal
      <3>3. CASE Decide(c, "recovering", "retryable")
        <4>1. exec'[c].pc = "recovering"
          BY <1>ty, <3>3 DEF Decide, Execution
        <4>2. inFlight' = inFlight
          BY <3>1, <4>1 DEF Forget
        <4> QED BY <3>1, <3>3, <4>2, <1>lives DEF Alive
      <3> QED BY <3>1, <3>2, <3>3
    <2> QED BY <1>4, <2>1, <2>2, <2>3, <2>4 DEF Proceed, GoWrong
  <1>5. ASSUME NEW c \in Claims, WatcherNotices(c) PROVE RegistryInv'
    BY <1>5, <1>still DEF WatcherNotices, vars, IsAlive
  <1>6. ASSUME Elsewhere PROVE RegistryInv'
    <2>1. inFlight' = inFlight
      BY <1>6 DEF Elsewhere, memory
    <2> QED BY <1>6, <1>ty, <2>1, ElsewhereStays, <1>still DEF IsAlive
  <1>7. ASSUME UNCHANGED dvars PROVE RegistryInv'
    BY <1>7, <1>still DEF dvars, vars, memory, IsAlive
  <1> QED BY <1>1, <1>2, <1>3, <1>4, <1>5, <1>6, <1>7 DEF DNext

\* inFlightRuns, the ceiling of the process: it counts the executions the process
\* really has, through crashes, lost claims, throws and failed settles, for as long
\* as no lease has lapsed under a live worker (one entry would then stand for two).
THEOREM RegistryCounts == DSpec => [](pauses = 0 => RegistryIsExact)
  <1>1. DSpec => []TypeInv /\ []LeaseInv
    BY DispatcherImplementsBroker, TypeCorrect, LeaseInvariant, PTL DEF ImplementsBroker
  <1>2. DInit => SlotInv /\ RegistryInv
    <2> SUFFICES ASSUME DInit PROVE RegistryInv
      BY InitSlots
    <2>1. \A w \in Workers : LiveOn(w) = {}
      BY DEF DInit, Init, LiveOn, IsAlive, Alive, FreeExecution
    <2> QED BY <2>1 DEF DInit, RegistryInv, RegistryIsExact
  <1>3. TypeInv /\ LeaseInv /\ SlotInv /\ RegistryInv /\ [DNext]_dvars => (SlotInv /\ RegistryInv)'
    BY SlotStep, RegistryStep
  <1>4. RegistryInv => (pauses = 0 => RegistryIsExact)
    BY DEF RegistryInv
  <1> QED BY <1>1, <1>2, <1>3, <1>4, PTL DEF DSpec
=============================================================================
