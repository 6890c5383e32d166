------------------------------ MODULE RunLog ------------------------------
(***************************************************************************)
(* What the transcript of a run promises those who read it: the rows of    *)
(* run_messages, the events its turn has spoken and not yet written, and   *)
(* where the run stands.  RunTranscript is the write path of               *)
(* lib/dispatcher/worker.ts and lib/broker/messages.ts in its transactions *)
(* and implements this; RunStream puts readers on top of this.             *)
(*                                                                         *)
(* Rows and batches are functions from numbers to events, so ON CONFLICT DO*)
(* NOTHING is Merged(rows, batch): what is there already wins.             *)
(***************************************************************************)
EXTENDS Naturals, Sequences, FiniteSets

CONSTANTS
  Skipped,       \* whether plugins are skipped: the values a turn may find
  MaxEvents,     \* bound: events of a turn
  MaxAttempts,   \* bound: turns of the run
  MaxWrites,     \* bound: rows other writers append
  MaxFaults      \* bound: statements the database fails

ASSUME LogAssumption ==
  /\ Skipped \subseteq BOOLEAN /\ Skipped # {}
  /\ {MaxEvents, MaxAttempts, MaxWrites, MaxFaults} \subseteq Nat

VARIABLES
  rows,     \* run_messages: from seq to event
  run,      \* where the run stands: "ending" awaits the writes of its turn
  turn,     \* the executing turn: which attempt, its seqBase, its counter
  alive,    \* the process that executes it lives
  pending,  \* what that process has spoken and has not written, by seq
  writing,  \* another writer has a transaction open
  history   \* what became of the writes: only counters and flags

lvars == <<rows, run, turn, alive, pending, writing, history>>

NoRows == <<>>

\* An event is told apart by its turn, 0 for another writer, by its number there,
\* and by being the done event.
Event == (0..MaxAttempts) \X (0..(MaxEvents + MaxWrites)) \X BOOLEAN
Written(event) == event[1] = 0
Done(event) == event[3]

Max0(S) == IF S = {} THEN 0 ELSE CHOOSE m \in S : \A s \in S : s <= m
Keep(f, S) == [s \in DOMAIN f \cap S |-> f[s]]
Single(seq, event) == [s \in {seq} |-> event]
Merged(there, added) ==
  [s \in DOMAIN there \cup DOMAIN added |-> IF s \in DOMAIN there THEN there[s] ELSE added[s]]

IsRows(f) == DOMAIN f \subseteq Nat /\ \A s \in DOMAIN f : f[s] \in Event

Runs == {"queued", "running", "ending", "settled"}
Turns == [attempt : 0..MaxAttempts, base : Nat, events : 0..MaxEvents, spoken : 0..MaxEvents]
History == [writes : 0..MaxWrites, faults : 0..MaxFaults, lost : Nat, misread : BOOLEAN]

LogTypeOK ==
  /\ IsRows(rows) /\ IsRows(pending)
  /\ run \in Runs /\ turn \in Turns /\ history \in History
  /\ alive \in BOOLEAN /\ writing \in BOOLEAN

LogInit ==
  /\ rows = NoRows /\ pending = NoRows
  /\ run = "queued" /\ alive = FALSE /\ writing = FALSE
  /\ turn = [attempt |-> 0, base |-> 0, events |-> 0, spoken |-> 0]
  /\ history = [writes |-> 0, faults |-> 0, lost |-> 0, misread |-> FALSE]

\* The database fails a statement.
Fault(recorded) ==
  history.faults < MaxFaults /\ history' = [recorded EXCEPT !.faults = @ + 1]

-----------------------------------------------------------------------------

\* getRunSeqBase: the highest number, and 0 for a read that fails.
getRunSeqBase(base) ==
  \/ base = Max0(DOMAIN rows) /\ UNCHANGED history
  \/ base = 0 /\ Fault([history EXCEPT !.misread = TRUE])

\* A turn begins; a notice about plugins that were skipped is numbered seqBase.
Begin ==
  /\ run = "queued" /\ turn.attempt < MaxAttempts
  /\ \E base \in {Max0(DOMAIN rows), 0}, skipped \in Skipped :
       /\ getRunSeqBase(base)
       /\ turn' = [attempt |-> turn.attempt + 1, base |-> base, events |-> 0, spoken |-> 0]
       /\ pending' = IF skipped THEN Single(base, <<turn.attempt + 1, 0, FALSE>>) ELSE NoRows
  /\ run' = "running" /\ alive' = TRUE
  /\ UNCHANGED <<rows, writing>>

\* The agent speaks, and a client that was given up on may do so after the turn.
NextSeq == turn.base + turn.events + 1
NextEvent(done) == <<turn.attempt, turn.events + 1, done>>

Speak(done) ==
  /\ alive /\ turn.events < MaxEvents
  /\ turn' = [turn EXCEPT !.events = @ + 1]
  /\ pending' = Merged(pending, Single(NextSeq, NextEvent(done)))
  /\ UNCHANGED <<rows, run, alive, writing, history>>

\* Events are written from the lowest number up, or lost together.
Oldest(last) == Keep(pending, 0..last)
Later(last) == Keep(pending, {s \in DOMAIN pending : s > last})

Persist ==
  /\ ~writing
  /\ \E last \in DOMAIN pending :
       rows' = Merged(rows, Oldest(last)) /\ pending' = Later(last)
  /\ UNCHANGED <<run, turn, alive, writing, history>>

Lose ==
  /\ \E last \in DOMAIN pending : pending' = Later(last)
  /\ LET lost == [history EXCEPT !.lost = @ + 1]
     IN (writing /\ history' = lost) \/ Fault(lost)
  /\ UNCHANGED <<rows, run, turn, alive, writing>>

\* The turn returns or throws.
End ==
  /\ run = "running"
  /\ run' = "ending" /\ turn' = [turn EXCEPT !.spoken = turn.events]
  /\ UNCHANGED <<rows, alive, pending, writing, history>>

\* The run is settled once nothing its turn spoke is still to be written.
Settle ==
  /\ run = "ending"
  /\ \A s \in DOMAIN pending : s > turn.base + turn.spoken
  /\ run' = "settled"
  /\ UNCHANGED <<rows, turn, alive, pending, writing, history>>

\* The process dies; the sweep puts a run that was not settled back in the queue.
Die ==
  /\ alive
  /\ alive' = FALSE /\ pending' = NoRows
  /\ run' = IF run = "settled" THEN run ELSE "queued"
  /\ UNCHANGED <<rows, turn, writing, history>>

\* Another writer appends above every row, or fails.
WriterBegins ==
  /\ ~writing /\ history.writes < MaxWrites
  /\ writing' = TRUE
  /\ history' = [history EXCEPT !.writes = @ + 1]
  /\ UNCHANGED <<rows, run, turn, alive, pending>>

WriterAppends ==
  /\ writing /\ writing' = FALSE
  /\ rows' = Merged(rows, Single(Max0(DOMAIN rows) + 1, <<0, history.writes, FALSE>>))
  /\ UNCHANGED <<run, turn, alive, pending, history>>

WriterFails ==
  /\ writing /\ writing' = FALSE
  /\ (pending # NoRows /\ UNCHANGED history) \/ Fault(history)
  /\ UNCHANGED <<rows, run, turn, alive, pending>>

LogNext ==
  \/ Begin \/ Persist \/ Lose \/ End \/ Settle \/ Die
  \/ \E done \in BOOLEAN : Speak(done)
  \/ WriterBegins \/ WriterAppends \/ WriterFails

LogSpec == LogInit /\ [][LogNext]_lvars
=============================================================================
