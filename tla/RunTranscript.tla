--------------------------- MODULE RunTranscript ---------------------------
(***************************************************************************)
(* The rows of one run: lib/broker/messages.ts, and the write path of       *)
(* executeClaimedRun in lib/dispatcher/worker.ts.                           *)
(*                                                                         *)
(* Two writers number the rows.  The dispatcher reads the highest number    *)
(* once, before a turn, numbers the events of the turn in memory above it,  *)
(* and writes them later in batches, one at a time.  Anything else, the     *)
(* user's own message or a tool of the agent, takes runs.next_seq + 1 in a  *)
(* transaction of its own.  Each transaction is its statements: the batch   *)
(* inserts and then moves next_seq, the other moves next_seq, which locks   *)
(* the row of the run, and then inserts.                                    *)
(***************************************************************************)
EXTENDS Naturals, Sequences, FiniteSets

CONSTANTS
  Batch,         \* events that are written without waiting for the timer (50)
  Skipped, MaxEvents, MaxAttempts, MaxWrites, MaxFaults   \* as in RunLog

ASSUME TranscriptAssumption ==
  /\ Batch \in Nat \ {0}
  /\ Skipped \subseteq BOOLEAN /\ Skipped # {}
  /\ {MaxEvents, MaxAttempts, MaxWrites, MaxFaults} \subseteq Nat

VARIABLES
  rows,      \* run_messages: from seq to event
  next_seq,  \* runs.next_seq
  run,       \* where the run stands: "ending" awaits the writes of its turn
  turn,      \* the executing turn: which attempt, its seqBase, its counter
  alive,     \* the process that executes it lives
  memory,    \* its writeBuffer, its writeChain, and the batches it awaits
  batchTx,   \* the open transaction of appendRunEventsBatch: what it inserted
  pageTx,    \* the number taken by the open transaction of appendRunEvent, or 0
  history    \* what became of the writes: only counters and flags

tvars == <<rows, next_seq, run, turn, alive, memory, batchTx, pageTx, history>>

\* Everything in memory, wherever it is in its way to the table.
Unwritten ==
  LET held == {memory.buffer} \cup {memory.chain[i] : i \in 1..Len(memory.chain)}
  IN [s \in UNION {DOMAIN f : f \in held} |->
        LET f == CHOOSE f \in held : s \in DOMAIN f IN f[s]]

Log == INSTANCE RunLog WITH pending <- Unwritten, writing <- (pageTx # 0)

NoRows == <<>>
Idle == [open |-> FALSE, rows |-> NoRows]
Nothing == [buffer |-> NoRows, chain |-> <<>>, awaiting |-> 0]
GREATEST(a, b) == IF a >= b THEN a ELSE b

TypeOK ==
  /\ Log!IsRows(rows) /\ next_seq \in Nat
  /\ run \in Log!Runs /\ turn \in Log!Turns /\ history \in Log!History
  /\ alive \in BOOLEAN
  /\ Log!IsRows(memory.buffer) /\ memory.awaiting \in Nat
  /\ \A i \in 1..Len(memory.chain) : Log!IsRows(memory.chain[i])
  /\ batchTx.open \in BOOLEAN /\ Log!IsRows(batchTx.rows)
  /\ pageTx \in Nat

Init ==
  /\ rows = NoRows /\ next_seq = 0
  /\ run = "queued" /\ alive = FALSE
  /\ turn = [attempt |-> 0, base |-> 0, events |-> 0, spoken |-> 0]
  /\ memory = Nothing
  /\ batchTx = Idle /\ pageTx = 0
  /\ history = [writes |-> 0, faults |-> 0, lost |-> 0, misread |-> FALSE]

-----------------------------------------------------------------------------
(* The dispatcher.                                                          *)

\* flushWrites on what is held.
Flushed(held) ==
  [buffer |-> NoRows, awaiting |-> memory.awaiting,
   chain |-> IF held = NoRows THEN memory.chain ELSE Append(memory.chain, held)]

\* A turn begins: the notice about plugins that were skipped goes into the buffer.
StartTurn ==
  /\ run = "queued" /\ turn.attempt < MaxAttempts
  /\ \E base \in {Log!Max0(DOMAIN rows), 0}, skipped \in Skipped :
       /\ Log!getRunSeqBase(base)
       /\ turn' = [attempt |-> turn.attempt + 1, base |-> base, events |-> 0, spoken |-> 0]
       /\ memory' = [Nothing EXCEPT
            !.buffer = IF skipped THEN Log!Single(base, <<turn.attempt + 1, 0, FALSE>>) ELSE NoRows]
  /\ run' = "running" /\ alive' = TRUE
  /\ UNCHANGED <<rows, next_seq, batchTx, pageTx>>

\* onEvent, which a client that was given up on may still call after the turn.
OnEvent(done) ==
  /\ alive /\ turn.events < MaxEvents
  /\ turn' = [turn EXCEPT !.events = @ + 1]
  /\ LET held == Log!Merged(memory.buffer, Log!Single(Log!NextSeq, Log!NextEvent(done)))
     IN memory' = IF Cardinality(DOMAIN held) >= Batch
                    THEN Flushed(held) ELSE [memory EXCEPT !.buffer = held]
  /\ UNCHANGED <<rows, next_seq, run, alive, batchTx, pageTx, history>>

FlushTimer ==
  /\ memory.buffer # NoRows
  /\ memory' = Flushed(memory.buffer)
  /\ UNCHANGED <<rows, next_seq, run, turn, alive, batchTx, pageTx, history>>

\* Altered: the end of the turn leaves the buffer to the timer.
EndTurn_NoFlush ==
  /\ run = "running"
  /\ run' = "ending"
  /\ memory' = [memory EXCEPT !.awaiting = Len(memory.chain)]
  /\ turn' = [turn EXCEPT !.spoken = turn.events]
  /\ UNCHANGED <<rows, next_seq, alive, batchTx, pageTx, history>>

\* The turn returns or throws: flushWrites, then await the chain as it is now.
EndTurn ==
  /\ run = "running"
  /\ run' = "ending"
  /\ LET flushed == Flushed(memory.buffer)
     IN memory' = [flushed EXCEPT !.awaiting = Len(flushed.chain)]
  /\ turn' = [turn EXCEPT !.spoken = turn.events]
  /\ UNCHANGED <<rows, next_seq, alive, batchTx, pageTx, history>>

\* Altered: the run is settled without awaiting the chain.
SettleRun_NoAwait ==
  /\ run = "ending"
  /\ run' = "settled"
  /\ UNCHANGED <<rows, next_seq, turn, alive, memory, batchTx, pageTx, history>>

SettleRun ==
  /\ run = "ending" /\ memory.awaiting = 0
  /\ run' = "settled"
  /\ UNCHANGED <<rows, next_seq, turn, alive, memory, batchTx, pageTx, history>>

\* The process dies; the sweep puts a run that was not settled back in the queue.
CrashProcess ==
  /\ alive
  /\ alive' = FALSE /\ memory' = Nothing /\ batchTx' = Idle
  /\ run' = IF run = "settled" THEN run ELSE "queued"
  /\ UNCHANGED <<rows, next_seq, turn, pageTx, history>>

-----------------------------------------------------------------------------
(* The two transactions.                                                    *)

\* The chain goes on to its next batch; the end of the turn may be waiting for it.
NextBatch ==
  [buffer |-> memory.buffer, chain |-> Tail(memory.chain),
   awaiting |-> IF memory.awaiting > 0 THEN memory.awaiting - 1 ELSE 0]

BatchInserts ==
  /\ memory.chain # <<>> /\ ~batchTx.open
  /\ LET batch == Head(memory.chain)
     IN batchTx' = [open |-> TRUE, rows |-> Log!Keep(batch, DOMAIN batch \ DOMAIN rows)]
  /\ UNCHANGED <<rows, next_seq, run, turn, alive, memory, pageTx, history>>

\* Altered: next_seq is left behind.
BatchCommits_KeepsCounter ==
  /\ batchTx.open /\ pageTx = 0
  /\ rows' = Log!Merged(rows, batchTx.rows)
  /\ memory' = NextBatch /\ batchTx' = Idle
  /\ UNCHANGED <<next_seq, run, turn, alive, pageTx, history>>

\* Altered: the number of the other writer is taken outside its transaction.
BatchCommits_NoLock ==
  /\ batchTx.open
  /\ rows' = Log!Merged(rows, batchTx.rows)
  /\ next_seq' = GREATEST(next_seq, Log!Max0(DOMAIN Head(memory.chain)))
  /\ memory' = NextBatch /\ batchTx' = Idle
  /\ UNCHANGED <<run, turn, alive, pageTx, history>>

\* UPDATE runs waits for the lock appendRunEvent holds.
BatchCommits ==
  /\ batchTx.open /\ pageTx = 0
  /\ rows' = Log!Merged(rows, batchTx.rows)
  /\ next_seq' = GREATEST(next_seq, Log!Max0(DOMAIN Head(memory.chain)))
  /\ memory' = NextBatch /\ batchTx' = Idle
  /\ UNCHANGED <<run, turn, alive, pageTx, history>>

\* INSERT waits for a row the batch has inserted, and the batch for the lock on
\* the run: the database aborts one of the two.
Deadlocked == pageTx # 0 /\ pageTx \in DOMAIN batchTx.rows

\* A batch that fails is logged, and its events are in no row.
BatchFails ==
  /\ memory.chain # <<>>
  /\ LET lost == [history EXCEPT !.lost = @ + 1]
     IN (Deadlocked /\ history' = lost) \/ Log!Fault(lost)
  /\ memory' = NextBatch /\ batchTx' = Idle
  /\ UNCHANGED <<rows, next_seq, run, turn, alive, pageTx>>

\* appendRunEvent: UPDATE runs .. RETURNING next_seq, then INSERT and COMMIT.
WriteTakesNumber ==
  /\ pageTx = 0 /\ history.writes < MaxWrites
  /\ pageTx' = next_seq + 1
  /\ history' = [history EXCEPT !.writes = @ + 1]
  /\ UNCHANGED <<rows, next_seq, run, turn, alive, memory, batchTx>>

WriteCommits ==
  /\ pageTx # 0 /\ pageTx \notin DOMAIN rows \cup DOMAIN batchTx.rows
  /\ rows' = Log!Merged(rows, Log!Single(pageTx, <<0, history.writes, FALSE>>))
  /\ next_seq' = pageTx /\ pageTx' = 0
  /\ UNCHANGED <<run, turn, alive, memory, batchTx, history>>

\* A number that is taken, a deadlock, a fault: the transaction is rolled back.
WriteFails ==
  /\ pageTx # 0
  /\ ((Deadlocked \/ pageTx \in DOMAIN rows) /\ UNCHANGED history) \/ Log!Fault(history)
  /\ pageTx' = 0
  /\ UNCHANGED <<rows, next_seq, run, turn, alive, memory, batchTx>>

Next ==
  \/ StartTurn \/ FlushTimer \/ EndTurn \/ SettleRun \/ CrashProcess
  \/ \E done \in BOOLEAN : OnEvent(done)
  \/ BatchInserts \/ BatchCommits \/ BatchFails
  \/ WriteTakesNumber \/ WriteCommits \/ WriteFails

Spec == Init /\ [][Next]_tvars

-----------------------------------------------------------------------------
(* Properties.                                                              *)

\* next_seq is the highest number in the table, whichever of the two writers moved
\* it: a writer that takes the next one never meets a row there.
NumbersAreExact == next_seq = Log!Max0(DOMAIN rows)

\* A row is never changed and never goes: not by a second attempt that numbers
\* its events from a base it could not read, not by a batch over another's row.
RowsAreForever ==
  [][DOMAIN rows \subseteq DOMAIN rows' /\ \A s \in DOMAIN rows : rows'[s] = rows[s]]_tvars

\* Rows appear in ascending order, which is what lets a reader keep one number
\* for all it has seen. Row 0, a notice, and a base that was not read are beside it.
RowsAscend ==
  [][~history'.misread =>
       \A s \in DOMAIN rows' \ DOMAIN rows, t \in DOMAIN rows : s = 0 \/ t < s]_tvars

\* A settled run has every event of its last turn in its rows, as long as no batch
\* was lost: only a row of another writer may stand in the place of one.
TurnIsDurable ==
  run = "settled" /\ history.lost = 0 /\ ~history.misread =>
    \A k \in 1..turn.spoken :
      /\ turn.base + k \in DOMAIN rows
      /\ LET event == rows[turn.base + k]
         IN Log!Written(event) \/ <<event[1], event[2]>> = <<turn.attempt, k>>

\* Transactions, buffer and chain together are the log that readers are promised.
ImplementsLog == Log!LogSpec
=============================================================================
