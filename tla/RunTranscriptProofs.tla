------------------------ MODULE RunTranscriptProofs ------------------------
(***************************************************************************)
(* The rows of a run, proved for any number of events, attempts, writers    *)
(* and faults.  The invariant is built in three parts, each on the one      *)
(* before it: Numbered, which is why next_seq is exact; Ordered, which is   *)
(* why rows appear in ascending order; Kept, which is why a turn is durable.*)
(* Queued, on Ordered, is why the write path implements RunLog.             *)
(***************************************************************************)
EXTENDS RunTranscript, TLAPS

\* A function from numbers to events.
Tables == UNION {[S -> Log!Event] : S \in SUBSET Nat}

LEMMA TableIsRows ==
  ASSUME NEW f
  PROVE  f \in Tables <=> f = [s \in DOMAIN f |-> f[s]] /\ Log!IsRows(f)
<1>1. ASSUME f \in Tables PROVE f = [s \in DOMAIN f |-> f[s]] /\ Log!IsRows(f)
  BY <1>1 DEF Tables, Log!IsRows
<1>2. ASSUME f = [s \in DOMAIN f |-> f[s]], Log!IsRows(f) PROVE f \in Tables
  <2>1. f \in [DOMAIN f -> Log!Event] /\ DOMAIN f \in SUBSET Nat
    BY <1>2 DEF Log!IsRows
  <2> QED BY <2>1 DEF Tables
<1> QED BY <1>1, <1>2

\* What is in a table.
LEMMA TableHas ==
  ASSUME NEW f \in Tables
  PROVE  DOMAIN f \subseteq Nat /\ \A s \in DOMAIN f : f[s] \in Log!Event
BY TableIsRows DEF Log!IsRows

LEMMA NoRowsIs == NoRows \in Tables /\ DOMAIN NoRows = {}
<1>1. DOMAIN NoRows = {}
  BY DEF NoRows
<1>2. NoRows \in [{} -> Log!Event]
  BY <1>1 DEF NoRows
<1> QED BY <1>1, <1>2 DEF Tables

LEMMA SingleIs ==
  ASSUME NEW n \in Nat, NEW e \in Log!Event
  PROVE  /\ Log!Single(n, e) \in Tables
         /\ DOMAIN Log!Single(n, e) = {n} /\ Log!Single(n, e)[n] = e
<1>1. Log!Single(n, e) \in [{n} -> Log!Event]
  BY DEF Log!Single
<1> QED BY <1>1 DEF Log!Single, Tables

\* ON CONFLICT DO NOTHING: what is there already wins.
LEMMA MergedIs ==
  ASSUME NEW f \in Tables, NEW g \in Tables
  PROVE  /\ Log!Merged(f, g) \in Tables
         /\ DOMAIN Log!Merged(f, g) = DOMAIN f \cup DOMAIN g
         /\ \A s \in DOMAIN f : Log!Merged(f, g)[s] = f[s]
         /\ \A s \in DOMAIN g \ DOMAIN f : Log!Merged(f, g)[s] = g[s]
<1>1. /\ DOMAIN f \cup DOMAIN g \subseteq Nat
      /\ \A s \in DOMAIN f : f[s] \in Log!Event
      /\ \A s \in DOMAIN g : g[s] \in Log!Event
  BY TableHas
<1>2. Log!Merged(f, g) \in [DOMAIN f \cup DOMAIN g -> Log!Event]
  BY <1>1 DEF Log!Merged
<1>3. Log!Merged(f, g) \in Tables
  BY <1>1, <1>2 DEF Tables
<1> QED BY <1>2, <1>3 DEF Log!Merged

LEMMA KeepIs ==
  ASSUME NEW f \in Tables, NEW S
  PROVE  /\ Log!Keep(f, S) \in Tables
         /\ DOMAIN Log!Keep(f, S) = DOMAIN f \cap S
         /\ \A s \in DOMAIN f \cap S : Log!Keep(f, S)[s] = f[s]
<1>1. DOMAIN f \cap S \subseteq Nat /\ \A s \in DOMAIN f \cap S : f[s] \in Log!Event
  BY TableHas
<1>2. Log!Keep(f, S) \in [DOMAIN f \cap S -> Log!Event]
  BY <1>1 DEF Log!Keep
<1> QED BY <1>1, <1>2 DEF Tables, Log!Keep

\* m is the highest number of S, or S is empty.
Top(S, m) == IF S = {} THEN m = 0 ELSE m \in S /\ \A s \in S : s <= m

LEMMA Max0IsTop ==
  ASSUME NEW S \in SUBSET Nat, NEW m \in Nat, Top(S, m)
  PROVE  Log!Max0(S) = m
<1>1. CASE S = {}
  BY <1>1 DEF Top, Log!Max0
<1>2. CASE S # {}
  <2> DEFINE c == CHOOSE x \in S : \A s \in S : s <= x
  <2>1. m \in S /\ \A s \in S : s <= m
    BY <1>2 DEF Top
  <2>2. c \in S /\ \A s \in S : s <= c
    <3>1. \E x \in S : \A s \in S : s <= x
      BY <2>1
    <3> QED BY <3>1, Zenon
  <2>3. c = m
    <3> HIDE DEF c
    <3>1. c \in Nat /\ c <= m /\ m <= c
      BY <2>1, <2>2
    <3> QED BY <3>1
  <2> QED BY <1>2, <2>3 DEF Log!Max0
<1> QED BY <1>1, <1>2

\* A batch has a highest number, unless it is empty.
Batches == {f \in Tables : \E m \in Nat : Top(DOMAIN f, m)}

LEMMA Max0OfBatch ==
  ASSUME NEW f \in Batches
  PROVE  Log!Max0(DOMAIN f) \in Nat /\ Top(DOMAIN f, Log!Max0(DOMAIN f))
<1>1. PICK m \in Nat : Top(DOMAIN f, m)
  BY DEF Batches
<1>2. Log!Max0(DOMAIN f) = m
  <2>1. DOMAIN f \in SUBSET Nat
    BY TableHas DEF Batches
  <2> QED BY <1>1, <2>1, Max0IsTop
<1> QED BY <1>1, <1>2

LEMMA TopOfBoth ==
  ASSUME NEW S \in SUBSET Nat, NEW U \in SUBSET Nat, NEW m \in Nat, NEW n \in Nat,
         Top(S, m), Top(U, n)
  PROVE  GREATEST(m, n) \in Nat /\ Top(S \cup U, GREATEST(m, n))
<1>1. CASE m >= n
  BY <1>1 DEF Top, GREATEST
<1>2. CASE ~(m >= n)
  <2>1. GREATEST(m, n) = n /\ n # 0 /\ m <= n
    BY <1>2 DEF GREATEST
  <2>2. U # {} /\ n \in U /\ \A s \in U : s <= n
    BY <2>1 DEF Top
  <2>3. \A s \in S : s <= m
    BY DEF Top
  <2>4. \A s \in S \cup U : s <= n
    BY <2>1, <2>2, <2>3
  <2>5. S \cup U # {} /\ n \in S \cup U
    BY <2>2
  <2>6. Top(S \cup U, n)
    BY <2>4, <2>5 DEF Top
  <2> QED BY <2>1, <2>6
<1> QED BY <1>1, <1>2

LEMMA NoRowsIsBatch == NoRows \in Batches
<1>1. Top(DOMAIN NoRows, 0)
  BY NoRowsIs DEF Top
<1> QED BY <1>1, NoRowsIs DEF Batches

LEMMA SingleIsBatch ==
  ASSUME NEW n \in Nat, NEW e \in Log!Event
  PROVE  Log!Single(n, e) \in Batches
<1>1. DOMAIN Log!Single(n, e) = {n} /\ Log!Single(n, e) \in Tables
  BY SingleIs
<1>2. Top({n}, n)
  BY DEF Top
<1> QED BY <1>1, <1>2 DEF Batches

LEMMA MergedIsBatch ==
  ASSUME NEW f \in Batches, NEW g \in Batches
  PROVE  Log!Merged(f, g) \in Batches
<1>1. f \in Tables /\ g \in Tables
  BY DEF Batches
<1>2. PICK m \in Nat : Top(DOMAIN f, m)
  BY DEF Batches
<1>3. PICK n \in Nat : Top(DOMAIN g, n)
  BY DEF Batches
<1>4. GREATEST(m, n) \in Nat /\ Top(DOMAIN f \cup DOMAIN g, GREATEST(m, n))
  BY <1>1, <1>2, <1>3, TableHas, TopOfBoth
<1> QED BY <1>1, <1>4, MergedIs DEF Batches

-----------------------------------------------------------------------------
(* The memory of the process.                                              *)

Memories == [buffer : Batches, chain : Seq(Batches), awaiting : Nat]

LEMMA NothingIs ==
  ASSUME NEW held \in Batches
  PROVE  /\ Nothing \in Memories /\ Nothing.chain = <<>> /\ Nothing.buffer = NoRows
         /\ [Nothing EXCEPT !.buffer = held] \in Memories
         /\ [Nothing EXCEPT !.buffer = held].chain = <<>>
         /\ [Nothing EXCEPT !.buffer = held].buffer = held
<1>1. <<>> \in Seq(Batches)
  OBVIOUS
<1>2. [Nothing EXCEPT !.buffer = held] = [buffer |-> held, chain |-> <<>>, awaiting |-> 0]
  BY DEF Nothing
<1> QED BY <1>1, <1>2, NoRowsIsBatch DEF Nothing, Memories

\* What is flushed is the last of the chain, unless it is nothing.
LEMMA FlushedIs ==
  ASSUME NEW held \in Batches, memory \in Memories
  PROVE  /\ Flushed(held) \in Memories /\ Flushed(held).buffer = NoRows
         /\ Flushed(held).awaiting = memory.awaiting
         /\ Flushed(held).chain = IF held = NoRows THEN memory.chain ELSE Append(memory.chain, held)
         /\ memory.chain # <<>> =>
              Flushed(held).chain # <<>> /\ Head(Flushed(held).chain) = Head(memory.chain)
<1>2. memory.chain \in Seq(Batches) /\ memory.awaiting \in Nat
  BY DEF Memories
<1>3. /\ Append(memory.chain, held) \in Seq(Batches)
      /\ memory.chain # <<>> =>
           /\ Append(memory.chain, held) # <<>>
           /\ Head(Append(memory.chain, held)) = Head(memory.chain)
  BY <1>2
<1> QED BY <1>2, <1>3, NoRowsIsBatch DEF Memories, Flushed

LEMMA NextBatchIs ==
  ASSUME memory \in Memories, memory.chain # <<>>
  PROVE  /\ NextBatch \in Memories /\ NextBatch.buffer = memory.buffer
         /\ NextBatch.chain = Tail(memory.chain)
         /\ NextBatch.awaiting = IF memory.awaiting > 0 THEN memory.awaiting - 1 ELSE 0
         /\ Head(memory.chain) \in Batches
<1>2. /\ memory.chain \in Seq(Batches) /\ memory.awaiting \in Nat
      /\ memory.buffer \in Batches
  BY DEF Memories
<1>3. Tail(memory.chain) \in Seq(Batches) /\ Head(memory.chain) \in Batches
  BY <1>2
<1> QED BY <1>2, <1>3 DEF Memories, NextBatch

-----------------------------------------------------------------------------
(* Numbered: next_seq is the highest number in the table, the transaction of  *)
(* another writer holds the next one, and an open batch inserts exactly what   *)
(* of the head of the chain is not there.                                     *)

Scalars ==
  /\ next_seq \in Nat /\ pageTx \in Nat /\ alive \in BOOLEAN
  /\ run \in Log!Runs /\ turn \in Log!Turns /\ history \in Log!History
Stored == rows \in Tables /\ Top(DOMAIN rows, next_seq)
Held == memory \in Memories /\ batchTx \in [open : BOOLEAN, rows : Tables]
PageIsNext == pageTx # 0 => pageTx = next_seq + 1
OpenIsHead ==
  batchTx.open =>
    /\ memory.chain # <<>>
    /\ DOMAIN batchTx.rows \cap DOMAIN rows = {}
    /\ DOMAIN batchTx.rows \subseteq DOMAIN Head(memory.chain)
    /\ DOMAIN Head(memory.chain) \subseteq DOMAIN rows \cup DOMAIN batchTx.rows
    /\ \A s \in DOMAIN batchTx.rows : batchTx.rows[s] = Head(memory.chain)[s]

Waiting == run = "queued" => ~alive /\ memory.chain = <<>> /\ memory.buffer = NoRows

Numbered == Scalars /\ Stored /\ Held /\ PageIsNext /\ OpenIsHead /\ Waiting

LEMMA IdleIs == Idle \in [open : BOOLEAN, rows : Tables] /\ ~Idle.open
BY NoRowsIs DEF Idle

\* A statement the database fails, which may lose a batch.
LEMMA FaultIs ==
  ASSUME NEW recorded \in Log!History, Log!Fault(recorded), history \in Log!History,
         recorded.faults = history.faults
  PROVE  /\ history' \in Log!History /\ history'.misread = recorded.misread
         /\ history'.lost = recorded.lost /\ history'.writes = recorded.writes
<1>1. history'.faults \in 0..MaxFaults
  BY TranscriptAssumption DEF Log!Fault, Log!History
<1>2. history' = [recorded EXCEPT !.faults = recorded.faults + 1]
  BY DEF Log!Fault
<1> QED BY <1>1, <1>2 DEF Log!History

\* The database fails the read of the highest number, or it is what was read.
LEMMA BaseIs ==
  ASSUME Scalars, Stored, NEW base, Log!getRunSeqBase(base)
  PROVE  /\ base \in Nat /\ history' \in Log!History
         /\ ~history'.misread => base = next_seq /\ history' = history
<1>1. Log!Max0(DOMAIN rows) = next_seq
  <2>1. DOMAIN rows \in SUBSET Nat
    BY TableHas DEF Stored
  <2> QED BY <2>1, Max0IsTop DEF Stored, Scalars
<1>2. CASE base = Log!Max0(DOMAIN rows) /\ UNCHANGED history
  BY <1>1, <1>2 DEF Scalars
<1>3. CASE base = 0 /\ Log!Fault([history EXCEPT !.misread = TRUE])
  <2>1. /\ [history EXCEPT !.misread = TRUE] \in Log!History
        /\ [history EXCEPT !.misread = TRUE].faults = history.faults
        /\ [history EXCEPT !.misread = TRUE].misread = TRUE
    BY DEF Scalars, Log!History
  <2>2. history' \in Log!History /\ history'.misread = TRUE
    BY <1>3, <2>1, FaultIs DEF Scalars
  <2> QED BY <1>3, <2>2
<1> QED BY <1>2, <1>3 DEF Log!getRunSeqBase

LEMMA EventIs ==
  ASSUME Scalars
  PROVE  /\ turn.attempt < MaxAttempts => <<turn.attempt + 1, 0, FALSE>> \in Log!Event
         /\ turn.events < MaxEvents =>
              \A done \in BOOLEAN : Log!NextEvent(done) \in Log!Event /\ Log!NextSeq \in Nat
         /\ <<0, history.writes, FALSE>> \in Log!Event
<1>1. ASSUME turn.attempt < MaxAttempts PROVE <<turn.attempt + 1, 0, FALSE>> \in Log!Event
  <2>1. MaxAttempts \in Nat /\ MaxEvents \in Nat /\ MaxWrites \in Nat
    BY TranscriptAssumption
  <2>2. turn.attempt \in 0..MaxAttempts
    BY DEF Scalars, Log!Turns
  <2>3. turn.attempt + 1 \in 0..MaxAttempts /\ 0 \in 0..(MaxEvents + MaxWrites)
    BY <1>1, <2>1, <2>2
  <2> QED BY <2>3 DEF Log!Event
<1>2. ASSUME turn.events < MaxEvents, NEW done \in BOOLEAN
      PROVE  Log!NextEvent(done) \in Log!Event /\ Log!NextSeq \in Nat
  <2>1. MaxEvents \in Nat /\ MaxWrites \in Nat
    BY TranscriptAssumption
  <2>2. turn.attempt \in 0..MaxAttempts /\ turn.base \in Nat /\ turn.events \in 0..MaxEvents
    BY DEF Scalars, Log!Turns
  <2>3. turn.events + 1 \in 0..(MaxEvents + MaxWrites) /\ turn.base + turn.events + 1 \in Nat
    BY <1>2, <2>1, <2>2
  <2> QED BY <1>2, <2>2, <2>3 DEF Log!Event, Log!NextEvent, Log!NextSeq
<1>3. <<0, history.writes, FALSE>> \in Log!Event
  <2>1. history.writes \in 0..MaxWrites
    BY DEF Scalars, Log!History
  <2>2. MaxAttempts \in Nat /\ MaxEvents \in Nat /\ MaxWrites \in Nat
    BY TranscriptAssumption
  <2>3. 0 \in 0..MaxAttempts /\ history.writes \in 0..(MaxEvents + MaxWrites)
    BY <2>1, <2>2
  <2> QED BY <2>3 DEF Log!Event
<1> QED BY <1>1, <1>2, <1>3

LEMMA StartNumbers ==
  ASSUME Numbered, StartTurn
  PROVE  Numbered'
<1>1. PICK base \in {Log!Max0(DOMAIN rows), 0}, skipped \in Skipped :
        /\ Log!getRunSeqBase(base)
        /\ turn' = [attempt |-> turn.attempt + 1, base |-> base, events |-> 0, spoken |-> 0]
        /\ memory' = [Nothing EXCEPT
             !.buffer = IF skipped THEN Log!Single(base, <<turn.attempt + 1, 0, FALSE>>) ELSE NoRows]
  BY DEF StartTurn
<1>2. base \in Nat /\ history' \in Log!History
  BY <1>1, BaseIs DEF Numbered
<1>3. memory' \in Memories /\ memory'.chain = <<>>
  <2> DEFINE held == IF skipped THEN Log!Single(base, <<turn.attempt + 1, 0, FALSE>>) ELSE NoRows
  <2>1. <<turn.attempt + 1, 0, FALSE>> \in Log!Event
    BY EventIs DEF StartTurn, Numbered
  <2>2. held \in Batches
    BY <1>2, <2>1, SingleIsBatch, NoRowsIsBatch
  <2>3. memory' = [Nothing EXCEPT !.buffer = held]
    BY <1>1
  <2> HIDE DEF held
  <2> QED BY <2>2, <2>3, NothingIs
<1>4. turn' \in Log!Turns
  <2>1. turn.attempt + 1 \in 0..MaxAttempts /\ 0 \in 0..MaxEvents
    <3>1. MaxAttempts \in Nat /\ MaxEvents \in Nat
      BY TranscriptAssumption
    <3>2. turn.attempt \in 0..MaxAttempts /\ turn.attempt < MaxAttempts
      BY DEF Numbered, Scalars, Log!Turns, StartTurn
    <3> QED BY <3>1, <3>2
  <2> QED BY <1>1, <1>2, <2>1 DEF Log!Turns
<1>5. /\ run = "queued" /\ run' = "running" /\ alive' = TRUE
      /\ UNCHANGED <<rows, next_seq, batchTx, pageTx>>
  BY DEF StartTurn
<1>6. Scalars'
  BY <1>2, <1>4, <1>5 DEF Numbered, Scalars, Log!Runs
<1>7. Stored' /\ Held' /\ PageIsNext'
  BY <1>3, <1>5 DEF Numbered, Stored, Held, PageIsNext
<1>8. OpenIsHead' /\ Waiting'
  BY <1>5 DEF Numbered, OpenIsHead, Waiting
<1> QED BY <1>6, <1>7, <1>8 DEF Numbered

\* What only moves memory keeps the head of the chain.
LEMMA MemoryNumbers ==
  ASSUME Numbered, Scalars', memory' \in Memories, run' # "queued",
         memory.chain # <<>> => memory'.chain # <<>> /\ Head(memory'.chain) = Head(memory.chain),
         UNCHANGED <<rows, next_seq, batchTx, pageTx>>
  PROVE  Numbered'
<1>1. Stored' /\ Held' /\ PageIsNext'
  BY DEF Numbered, Stored, Held, PageIsNext
<1>2. OpenIsHead' /\ Waiting'
  BY DEF Numbered, OpenIsHead, Waiting
<1> QED BY <1>1, <1>2 DEF Numbered

\* An event joins the buffer: what is held then, and where it goes.
LEMMA HeldIs ==
  ASSUME Numbered, NEW done \in BOOLEAN, OnEvent(done)
  PROVE  /\ Log!Merged(memory.buffer, Log!Single(Log!NextSeq, Log!NextEvent(done))) \in Batches
         /\ Log!NextSeq \in Nat /\ Log!NextEvent(done) \in Log!Event
<1>1. Log!NextSeq \in Nat /\ Log!NextEvent(done) \in Log!Event
  BY EventIs DEF Numbered, OnEvent
<1>2. memory.buffer \in Batches
  BY DEF Numbered, Held, Memories
<1> QED BY <1>1, <1>2, SingleIsBatch, MergedIsBatch

LEMMA BufferIs ==
  ASSUME memory \in Memories, NEW held \in Batches
  PROVE  /\ [memory EXCEPT !.buffer = held] \in Memories
         /\ [memory EXCEPT !.buffer = held].buffer = held
         /\ [memory EXCEPT !.buffer = held].chain = memory.chain
         /\ [memory EXCEPT !.buffer = held].awaiting = memory.awaiting
BY DEF Memories

LEMMA EventNumbers ==
  ASSUME Numbered, NEW done \in BOOLEAN, OnEvent(done)
  PROVE  Numbered'
<1> DEFINE held == Log!Merged(memory.buffer, Log!Single(Log!NextSeq, Log!NextEvent(done)))
<1>1. held \in Batches /\ memory \in Memories
  BY HeldIs DEF Numbered, Held
<1>2. memory' = Flushed(held) \/ memory' = [memory EXCEPT !.buffer = held]
  BY DEF OnEvent
<1> HIDE DEF held
<1>3. /\ memory' \in Memories
      /\ memory.chain # <<>> => memory'.chain # <<>> /\ Head(memory'.chain) = Head(memory.chain)
  <2>1. CASE memory' = Flushed(held)
    <3>1. /\ Flushed(held) \in Memories
          /\ memory.chain # <<>> =>
               Flushed(held).chain # <<>> /\ Head(Flushed(held).chain) = Head(memory.chain)
      BY <1>1, FlushedIs
    <3> QED BY <2>1, <3>1
  <2>2. CASE memory' = [memory EXCEPT !.buffer = held]
    BY <1>1, <2>2, BufferIs
  <2> QED BY <1>2, <2>1, <2>2
<1>4. turn' \in Log!Turns
  <2>1. turn.events \in 0..MaxEvents /\ turn.events < MaxEvents /\ MaxEvents \in Nat
    BY TranscriptAssumption DEF Numbered, Scalars, Log!Turns, OnEvent
  <2>2. turn.events + 1 \in 0..MaxEvents
    BY <2>1
  <2> QED BY <2>2 DEF Numbered, Scalars, Log!Turns, OnEvent
<1>5. Scalars'
  BY <1>4 DEF Numbered, Scalars, OnEvent
<1>6. run' # "queued"
  BY DEF Numbered, Waiting, OnEvent
<1> QED BY <1>3, <1>5, <1>6, MemoryNumbers DEF OnEvent

LEMMA FlushNumbers ==
  ASSUME Numbered, FlushTimer
  PROVE  Numbered'
<1>1. memory \in Memories /\ memory.buffer \in Batches /\ memory' = Flushed(memory.buffer)
  BY DEF Numbered, Held, Memories, FlushTimer
<1>2. /\ memory' \in Memories
      /\ memory.chain # <<>> => memory'.chain # <<>> /\ Head(memory'.chain) = Head(memory.chain)
  BY <1>1, FlushedIs
<1>3. Scalars'
  BY DEF Numbered, Scalars, FlushTimer
<1>4. run' # "queued"
  BY DEF Numbered, Waiting, FlushTimer
<1> QED BY <1>2, <1>3, <1>4, MemoryNumbers DEF FlushTimer

\* The end of a turn: the buffer is the last batch it awaits.
LEMMA EndIs ==
  ASSUME memory \in Memories, EndTurn
  PROVE  /\ memory' \in Memories
         /\ memory'.buffer = NoRows /\ memory'.awaiting = Len(memory'.chain)
         /\ memory'.chain = Flushed(memory.buffer).chain
<1> DEFINE flushed == Flushed(memory.buffer)
<1>1. flushed \in Memories /\ flushed.buffer = NoRows
  <2>1. memory.buffer \in Batches
    BY DEF Memories
  <2> QED BY <2>1, FlushedIs
<1>2. memory' = [flushed EXCEPT !.awaiting = Len(flushed.chain)]
  BY DEF EndTurn
<1> HIDE DEF flushed
<1>3. Len(flushed.chain) \in Nat
  BY <1>1 DEF Memories
<1>4. memory' \in Memories /\ memory'.buffer = NoRows
      /\ memory'.awaiting = Len(memory'.chain) /\ memory'.chain = flushed.chain
  BY <1>1, <1>2, <1>3 DEF Memories
<1> QED BY <1>4 DEF flushed

LEMMA EndNumbers ==
  ASSUME Numbered, EndTurn
  PROVE  Numbered'
<1>1. memory \in Memories /\ memory.buffer \in Batches
  BY DEF Numbered, Held, Memories
<1>2. memory' \in Memories /\ memory'.chain = Flushed(memory.buffer).chain
  BY <1>1, EndIs
<1>3. memory.chain # <<>> => memory'.chain # <<>> /\ Head(memory'.chain) = Head(memory.chain)
  BY <1>1, <1>2, FlushedIs
<1>4. turn' \in Log!Turns /\ run' = "ending"
  BY DEF Numbered, Scalars, Log!Turns, EndTurn
<1>5. Scalars'
  BY <1>4 DEF Numbered, Scalars, EndTurn, Log!Runs
<1> QED BY <1>2, <1>3, <1>4, <1>5, MemoryNumbers DEF EndTurn

LEMMA SettleNumbers ==
  ASSUME Numbered, SettleRun
  PROVE  Numbered'
<1>1. Scalars' /\ memory' \in Memories
  BY DEF Numbered, Scalars, Held, SettleRun, Log!Runs
<1> QED BY <1>1, MemoryNumbers DEF SettleRun

LEMMA CrashNumbers ==
  ASSUME Numbered, CrashProcess
  PROVE  Numbered'
<1>1. Scalars'
  BY DEF Numbered, Scalars, CrashProcess, Log!Runs
<1>2. Held'
  BY NothingIs, NoRowsIsBatch, IdleIs DEF Held, CrashProcess
<1>3. Stored' /\ PageIsNext' /\ OpenIsHead' /\ Waiting'
  BY IdleIs, NothingIs, NoRowsIsBatch
  DEF Numbered, Stored, PageIsNext, OpenIsHead, Waiting, CrashProcess
<1> QED BY <1>1, <1>2, <1>3 DEF Numbered

\* What INSERT .. ON CONFLICT DO NOTHING inserts of a batch.
LEMMA InsertIs ==
  ASSUME Numbered, BatchInserts
  PROVE  LET batch == Head(memory.chain) IN
         /\ batch \in Batches /\ batch \in Tables
         /\ batchTx'.open = TRUE /\ batchTx'.rows \in Tables
         /\ DOMAIN batchTx'.rows = DOMAIN batch \ DOMAIN rows
         /\ \A s \in DOMAIN batchTx'.rows : batchTx'.rows[s] = batch[s]
<1> DEFINE batch == Head(memory.chain)
<1>1. batch \in Batches /\ batch \in Tables
  BY DEF Numbered, Held, Memories, BatchInserts, Batches
<1>2. batchTx' = [open |-> TRUE, rows |-> Log!Keep(batch, DOMAIN batch \ DOMAIN rows)]
  BY DEF BatchInserts
<1> HIDE DEF batch
<1>3. batchTx'.open = TRUE /\ batchTx'.rows = Log!Keep(batch, DOMAIN batch \ DOMAIN rows)
  BY <1>2
<1>4. /\ batchTx'.rows \in Tables /\ DOMAIN batchTx'.rows = DOMAIN batch \ DOMAIN rows
      /\ \A s \in DOMAIN batchTx'.rows : batchTx'.rows[s] = batch[s]
  BY <1>1, <1>3, KeepIs
<1> QED BY <1>1, <1>3, <1>4 DEF batch

LEMMA InsertNumbers ==
  ASSUME Numbered, BatchInserts
  PROVE  Numbered'
<1>1. memory.chain # <<>> /\ UNCHANGED <<rows, next_seq, run, turn, alive, memory, pageTx, history>>
  BY DEF BatchInserts
<1>2. Scalars' /\ Stored' /\ PageIsNext' /\ Waiting'
  BY <1>1 DEF Numbered, Scalars, Stored, PageIsNext, Waiting
<1>3. batchTx' \in [open : BOOLEAN, rows : Tables]
  <2> DEFINE inserted == Log!Keep(Head(memory.chain), DOMAIN Head(memory.chain) \ DOMAIN rows)
  <2>1. batchTx' = [open |-> TRUE, rows |-> inserted]
    BY DEF BatchInserts
  <2> HIDE DEF inserted
  <2>2. inserted \in Tables
    BY <2>1, InsertIs
  <2> QED BY <2>1, <2>2
<1>4. Held'
  BY <1>1, <1>3 DEF Numbered, Held
<1>5. OpenIsHead'
  BY <1>1, InsertIs DEF OpenIsHead
<1> QED BY <1>2, <1>4, <1>5 DEF Numbered

\* The chain goes on: no transaction is open, and the rest of memory is as it was.
LEMMA ChainNumbers ==
  ASSUME Numbered, memory.chain # <<>>, memory' = NextBatch, batchTx' = Idle, UNCHANGED <<run, alive>>
  PROVE  Held' /\ OpenIsHead' /\ Waiting'
<1>1. Held' /\ OpenIsHead'
  BY NextBatchIs, IdleIs DEF Numbered, Held, OpenIsHead
<1>2. Waiting'
  BY DEF Numbered, Waiting
<1> QED BY <1>1, <1>2

\* What a batch commits: all of the head of the chain is in the table then.
LEMMA CommitIs ==
  ASSUME Numbered, BatchCommits
  PROVE  /\ memory.chain # <<>> /\ Head(memory.chain) \in Batches
         /\ rows' \in Tables /\ DOMAIN rows' = DOMAIN rows \cup DOMAIN Head(memory.chain)
         /\ DOMAIN batchTx.rows \cap DOMAIN rows = {}
         /\ \A s \in DOMAIN rows : rows'[s] = rows[s]
         /\ \A s \in DOMAIN rows' \ DOMAIN rows :
              s \in DOMAIN Head(memory.chain) /\ rows'[s] = Head(memory.chain)[s]
         /\ next_seq' = GREATEST(next_seq, Log!Max0(DOMAIN Head(memory.chain)))
<1>1. rows \in Tables /\ batchTx.rows \in Tables
  BY DEF Numbered, Stored, Held
<1>2. rows' = Log!Merged(rows, batchTx.rows)
  BY DEF BatchCommits
<1>3. /\ rows' \in Tables /\ DOMAIN rows' = DOMAIN rows \cup DOMAIN batchTx.rows
      /\ \A s \in DOMAIN rows : rows'[s] = rows[s]
      /\ \A s \in DOMAIN batchTx.rows \ DOMAIN rows : rows'[s] = batchTx.rows[s]
  BY <1>1, <1>2, MergedIs
<1>4. /\ memory.chain # <<>>
      /\ DOMAIN batchTx.rows \cap DOMAIN rows = {}
      /\ DOMAIN batchTx.rows \subseteq DOMAIN Head(memory.chain)
      /\ DOMAIN Head(memory.chain) \subseteq DOMAIN rows \cup DOMAIN batchTx.rows
      /\ \A s \in DOMAIN batchTx.rows : batchTx.rows[s] = Head(memory.chain)[s]
  BY DEF Numbered, OpenIsHead, BatchCommits
<1>5. Head(memory.chain) \in Batches
  BY <1>4, NextBatchIs DEF Numbered, Held
<1>6. DOMAIN rows' = DOMAIN rows \cup DOMAIN Head(memory.chain)
  BY <1>3, <1>4
<1>7. \A s \in DOMAIN rows' \ DOMAIN rows :
        s \in DOMAIN Head(memory.chain) /\ rows'[s] = Head(memory.chain)[s]
  BY <1>3, <1>4
<1> QED BY <1>3, <1>4, <1>5, <1>6, <1>7 DEF BatchCommits

LEMMA CommitNumbers ==
  ASSUME Numbered, BatchCommits
  PROVE  Numbered'
<1> DEFINE batch == Head(memory.chain)
<1>1. /\ memory.chain # <<>> /\ batch \in Batches /\ rows' \in Tables
      /\ DOMAIN rows' = DOMAIN rows \cup DOMAIN batch
      /\ next_seq' = GREATEST(next_seq, Log!Max0(DOMAIN batch))
  BY CommitIs
<1> HIDE DEF batch
<1>2. next_seq' \in Nat /\ Top(DOMAIN rows', next_seq')
  <2>1. DOMAIN batch \in SUBSET Nat /\ DOMAIN rows \in SUBSET Nat
    BY <1>1, TableHas DEF Batches, Numbered, Stored
  <2>2. Log!Max0(DOMAIN batch) \in Nat /\ Top(DOMAIN batch, Log!Max0(DOMAIN batch))
    BY <1>1, Max0OfBatch
  <2>3. next_seq \in Nat /\ Top(DOMAIN rows, next_seq)
    BY DEF Numbered, Scalars, Stored
  <2> QED BY <1>1, <2>1, <2>2, <2>3, TopOfBoth
<1>3. Scalars' /\ Stored' /\ PageIsNext'
  BY <1>1, <1>2 DEF Numbered, Scalars, Stored, PageIsNext, BatchCommits
<1>4. Held' /\ OpenIsHead' /\ Waiting'
  BY <1>1, ChainNumbers DEF BatchCommits
<1> QED BY <1>3, <1>4 DEF Numbered

\* A batch that fails is counted as lost.
LEMMA FailIs ==
  ASSUME Numbered, BatchFails
  PROVE  /\ history' \in Log!History /\ history'.lost # 0
         /\ history'.misread = history.misread
<1> DEFINE lost == [history EXCEPT !.lost = @ + 1]
<1>1. /\ lost \in Log!History /\ lost.faults = history.faults
      /\ lost.lost # 0 /\ lost.misread = history.misread
  BY DEF Numbered, Scalars, Log!History
<1>2. history' = lost \/ Log!Fault(lost)
  BY DEF BatchFails
<1> HIDE DEF lost
<1>3. history \in Log!History
  BY DEF Numbered, Scalars
<1>4. CASE history' = lost
  BY <1>1, <1>4
<1>5. CASE Log!Fault(lost)
  BY <1>1, <1>3, <1>5, FaultIs
<1> QED BY <1>2, <1>4, <1>5

LEMMA FailNumbers ==
  ASSUME Numbered, BatchFails
  PROVE  Numbered'
<1>1. Scalars' /\ Stored' /\ PageIsNext'
  BY FailIs DEF Numbered, Scalars, Stored, PageIsNext, BatchFails
<1>2. Held' /\ OpenIsHead' /\ Waiting'
  BY ChainNumbers DEF BatchFails
<1> QED BY <1>1, <1>2 DEF Numbered

\* The other writer: its number is the next one for as long as it holds the lock.
LEMMA TakeNumbers ==
  ASSUME Numbered, WriteTakesNumber
  PROVE  Numbered'
<1>1. history' \in Log!History
  <2>1. history.writes \in 0..MaxWrites /\ history.writes < MaxWrites /\ MaxWrites \in Nat
    BY TranscriptAssumption DEF Numbered, Scalars, Log!History, WriteTakesNumber
  <2>2. history.writes + 1 \in 0..MaxWrites
    BY <2>1
  <2> QED BY <2>2 DEF Numbered, Scalars, Log!History, WriteTakesNumber
<1>2. Scalars'
  BY <1>1 DEF Numbered, Scalars, WriteTakesNumber
<1>3. Stored' /\ Held' /\ PageIsNext' /\ OpenIsHead' /\ Waiting'
  BY DEF Numbered, Stored, Held, PageIsNext, OpenIsHead, Waiting, WriteTakesNumber
<1> QED BY <1>2, <1>3 DEF Numbered

LEMMA WriteIs ==
  ASSUME Numbered, WriteCommits
  PROVE  /\ rows' \in Tables /\ DOMAIN rows' = DOMAIN rows \cup {pageTx}
         /\ \A s \in DOMAIN rows : rows'[s] = rows[s]
         /\ rows'[pageTx] = <<0, history.writes, FALSE>>
         /\ pageTx = next_seq + 1 /\ pageTx \notin DOMAIN rows \cup DOMAIN batchTx.rows
<1> DEFINE e == <<0, history.writes, FALSE>>
           s1 == Log!Single(pageTx, e)
<1>1. pageTx \in Nat /\ rows \in Tables /\ pageTx = next_seq + 1
  BY DEF Numbered, Scalars, Stored, PageIsNext, WriteCommits
<1>2. e \in Log!Event
  BY EventIs DEF Numbered
<1>3. rows' = Log!Merged(rows, s1) /\ pageTx \notin DOMAIN rows \cup DOMAIN batchTx.rows
  BY DEF WriteCommits
<1> HIDE DEF e
<1>4. s1 \in Tables /\ DOMAIN s1 = {pageTx} /\ s1[pageTx] = e
  BY <1>1, <1>2, SingleIs
<1> HIDE DEF s1
<1>5. /\ rows' \in Tables /\ DOMAIN rows' = DOMAIN rows \cup {pageTx}
      /\ \A s \in DOMAIN rows : rows'[s] = rows[s]
      /\ rows'[pageTx] = e
  <2>1. /\ Log!Merged(rows, s1) \in Tables
        /\ DOMAIN Log!Merged(rows, s1) = DOMAIN rows \cup DOMAIN s1
        /\ \A s \in DOMAIN rows : Log!Merged(rows, s1)[s] = rows[s]
        /\ \A s \in DOMAIN s1 \ DOMAIN rows : Log!Merged(rows, s1)[s] = s1[s]
    BY <1>1, <1>4, MergedIs
  <2>2. pageTx \in DOMAIN s1 \ DOMAIN rows
    BY <1>3, <1>4
  <2> QED BY <1>3, <1>4, <2>1, <2>2
<1> QED BY <1>1, <1>3, <1>5 DEF e

LEMMA WriteNumbers ==
  ASSUME Numbered, WriteCommits
  PROVE  Numbered'
<1>1. /\ next_seq' = pageTx /\ pageTx' = 0
      /\ UNCHANGED <<run, turn, alive, memory, batchTx, history>>
  BY DEF WriteCommits
<1>2. Scalars' /\ Held' /\ PageIsNext' /\ Waiting'
  BY <1>1 DEF Numbered, Scalars, Held, PageIsNext, Waiting
<1>3. Stored'
  <2>1. next_seq \in Nat /\ Top(DOMAIN rows, next_seq) /\ DOMAIN rows \subseteq Nat
    BY TableHas DEF Numbered, Scalars, Stored
  <2>2. \A s \in DOMAIN rows : s <= next_seq + 1
    BY <2>1 DEF Top
  <2>3. Top(DOMAIN rows', next_seq')
    BY <1>1, <2>1, <2>2, WriteIs DEF Top
  <2> QED BY <2>3, WriteIs DEF Stored
<1>4. OpenIsHead'
  BY <1>1, WriteIs DEF Numbered, OpenIsHead
<1> QED BY <1>2, <1>3, <1>4 DEF Numbered

LEMMA RollbackIs ==
  ASSUME Numbered, WriteFails
  PROVE  /\ history' \in Log!History /\ history'.lost = history.lost
         /\ history'.misread = history.misread
<1>1. history \in Log!History
  BY DEF Numbered, Scalars
<1>2. CASE history' = history
  BY <1>1, <1>2
<1>3. CASE Log!Fault(history)
  BY <1>1, <1>3, FaultIs
<1> QED BY <1>2, <1>3 DEF WriteFails

LEMMA RollbackNumbers ==
  ASSUME Numbered, WriteFails
  PROVE  Numbered'
<1>1. Scalars'
  BY RollbackIs DEF Numbered, Scalars, WriteFails
<1>2. Stored' /\ Held' /\ PageIsNext' /\ OpenIsHead' /\ Waiting'
  BY DEF Numbered, Stored, Held, PageIsNext, OpenIsHead, Waiting, WriteFails
<1> QED BY <1>1, <1>2 DEF Numbered

LEMMA InitNumbers ==
  ASSUME Init
  PROVE  Numbered
<1>1. Scalars
  <2>1. 0 \in 0..MaxAttempts /\ 0 \in 0..MaxEvents /\ 0 \in 0..MaxWrites /\ 0 \in 0..MaxFaults
    BY TranscriptAssumption
  <2>2. turn \in Log!Turns
    BY <2>1 DEF Init, Log!Turns
  <2>3. history \in Log!History
    BY <2>1 DEF Init, Log!History
  <2> QED BY <2>2, <2>3 DEF Init, Scalars, Log!Runs
<1>2. Stored /\ Held
  BY NoRowsIs, NoRowsIsBatch, NothingIs, IdleIs DEF Init, Stored, Held, Top
<1>3. PageIsNext /\ OpenIsHead /\ Waiting
  BY IdleIs, NothingIs, NoRowsIsBatch DEF Init, PageIsNext, OpenIsHead, Waiting
<1> QED BY <1>1, <1>2, <1>3 DEF Numbered

LEMMA StepNumbers ==
  ASSUME Numbered, [Next]_tvars
  PROVE  Numbered'
<1>1. CASE Next
  BY <1>1, StartNumbers, FlushNumbers, EndNumbers, SettleNumbers, CrashNumbers, EventNumbers,
     InsertNumbers, CommitNumbers, FailNumbers, TakeNumbers, WriteNumbers, RollbackNumbers
  DEF Next
<1>2. CASE UNCHANGED tvars
  BY <1>2 DEF tvars, Numbered, Scalars, Stored, Held, PageIsNext, OpenIsHead, Waiting
<1> QED BY <1>1, <1>2

LEMMA NumberedAlways == Spec => []Numbered
<1>1. Init => Numbered
  BY InitNumbers
<1>2. Numbered /\ [Next]_tvars => Numbered'
  BY StepNumbers
<1> QED BY <1>1, <1>2, PTL DEF Spec

\* NumbersAreExact: next_seq, which appendRunEvent takes from and the batch raises
\* to its highest number, is the highest number in run_messages after any two
\* attempts, writers, crashes and failed statements.
THEOREM NumbersStayExact == Spec => []NumbersAreExact
<1>1. Numbered => NumbersAreExact
  <2> SUFFICES ASSUME Numbered PROVE NumbersAreExact
    OBVIOUS
  <2>1. next_seq \in Nat /\ Top(DOMAIN rows, next_seq) /\ DOMAIN rows \in SUBSET Nat
    BY TableHas DEF Numbered, Scalars, Stored
  <2> QED BY <2>1, Max0IsTop DEF NumbersAreExact
<1> QED BY <1>1, NumberedAlways, PTL

\* RowsAreForever: no statement of the two transactions changes or removes a row.
THEOREM RowsStay == Spec => RowsAreForever
<1>1. Numbered /\ [Next]_tvars
        => [DOMAIN rows \subseteq DOMAIN rows' /\ \A s \in DOMAIN rows : rows'[s] = rows[s]]_tvars
  <2> SUFFICES ASSUME Numbered, Next
               PROVE  DOMAIN rows \subseteq DOMAIN rows' /\ \A s \in DOMAIN rows : rows'[s] = rows[s]
    OBVIOUS
  <2>1. CASE BatchCommits
    BY <2>1, CommitIs
  <2>2. CASE WriteCommits
    BY <2>2, WriteIs
  <2>3. CASE rows' = rows
    BY <2>3
  <2>4. BatchCommits \/ WriteCommits \/ rows' = rows
    BY DEF Next, StartTurn, FlushTimer, EndTurn, SettleRun, CrashProcess, OnEvent, BatchInserts,
       BatchFails, WriteTakesNumber, WriteFails
  <2> QED BY <2>1, <2>2, <2>3, <2>4
<1> QED BY <1>1, NumberedAlways, PTL DEF Spec, RowsAreForever

\* The variables keep their types.
THEOREM TypeCorrect == Spec => []TypeOK
<1>1. Numbered => TypeOK
  <2> SUFFICES ASSUME Numbered PROVE TypeOK
    OBVIOUS
  <2>1. \A f \in Tables : Log!IsRows(f)
    BY TableIsRows
  <2>2. Log!IsRows(rows) /\ Log!IsRows(batchTx.rows) /\ batchTx.open \in BOOLEAN
    BY <2>1 DEF Numbered, Stored, Held
  <2>3. /\ memory.awaiting \in Nat /\ memory.buffer \in Batches
        /\ memory.chain \in Seq(Batches)
    BY DEF Numbered, Held, Memories
  <2>4. \A i \in 1..Len(memory.chain) : memory.chain[i] \in Batches
    BY <2>3
  <2>5. Log!IsRows(memory.buffer) /\ \A i \in 1..Len(memory.chain) : Log!IsRows(memory.chain[i])
    BY <2>1, <2>3, <2>4 DEF Batches
  <2> QED BY <2>2, <2>3, <2>5 DEF Numbered, Scalars, TypeOK
<1> QED BY <1>1, NumberedAlways, PTL

-----------------------------------------------------------------------------
(* Ordered: what is in memory ascends from the buffer's end to the head of   *)
(* the chain, and a number in memory that is not above the table is in it.    *)

\* The numbers of the first n batches of a chain, and of all.
Awaited(c, n) == UNION {DOMAIN c[i] : i \in 1..Len(c) \cap 1..n}
Numbers(c) == UNION {DOMAIN c[i] : i \in 1..Len(c)}
InOrder(c) ==
  \A i, j \in 1..Len(c) : i < j => \A s \in DOMAIN c[i], u \in DOMAIN c[j] : s < u

LEMMA AppendHas ==
  ASSUME NEW c \in Seq(Batches), NEW b \in Batches
  PROVE  /\ Numbers(Append(c, b)) = Numbers(c) \cup DOMAIN b
         /\ \A n \in Nat : Awaited(c, n) \subseteq Awaited(Append(c, b), n)
         /\ InOrder(c) /\ (\A s \in Numbers(c), u \in DOMAIN b : s < u) => InOrder(Append(c, b))
<1> DEFINE d == Append(c, b)
<1>1. /\ Len(c) \in Nat /\ Len(d) = Len(c) + 1 /\ d[Len(c) + 1] = b
      /\ \A i \in 1..Len(c) : d[i] = c[i]
  OBVIOUS
<1> HIDE DEF d
<1>2. 1..Len(d) = 1..Len(c) \cup {Len(c) + 1}
  BY <1>1
<1>3. Numbers(d) = Numbers(c) \cup DOMAIN b
  BY <1>1, <1>2 DEF Numbers
<1>4. \A n \in Nat : Awaited(c, n) \subseteq Awaited(d, n)
  BY <1>1, <1>2 DEF Awaited
<1>5. ASSUME InOrder(c), \A s \in Numbers(c), u \in DOMAIN b : s < u
      PROVE  InOrder(d)
  <2> SUFFICES ASSUME NEW i \in 1..Len(d), NEW j \in 1..Len(d), i < j,
                      NEW s \in DOMAIN d[i], NEW u \in DOMAIN d[j]
               PROVE  s < u
    BY DEF InOrder
  <2>1. i \in 1..Len(c) /\ s \in DOMAIN c[i] /\ s \in Numbers(c)
    BY <1>1, <1>2 DEF Numbers
  <2>2. CASE j \in 1..Len(c)
    BY <1>1, <1>5, <2>1, <2>2 DEF InOrder
  <2>3. CASE j = Len(c) + 1
    BY <1>1, <1>5, <2>1, <2>3
  <2> QED BY <1>2, <2>2, <2>3
<1> QED BY <1>3, <1>4, <1>5 DEF d

LEMMA TailHas ==
  ASSUME NEW c \in Seq(Batches), c # <<>>
  PROVE  /\ Numbers(Tail(c)) \subseteq Numbers(c) /\ DOMAIN Head(c) \subseteq Numbers(c)
         /\ \A n \in Nat :
              Awaited(c, n) \subseteq DOMAIN Head(c) \cup Awaited(Tail(c), IF n > 0 THEN n - 1 ELSE 0)
         /\ Numbers(c) \subseteq DOMAIN Head(c) \cup Numbers(Tail(c))
         /\ InOrder(c) => /\ InOrder(Tail(c))
                          /\ \A s \in DOMAIN Head(c), u \in Numbers(Tail(c)) : s < u
<1> DEFINE d == Tail(c)
<1>1. /\ Len(c) \in Nat \ {0} /\ Len(d) = Len(c) - 1 /\ Head(c) = c[1]
      /\ \A i \in 1..Len(d) : i + 1 \in 1..Len(c) /\ d[i] = c[i + 1]
  OBVIOUS
<1> HIDE DEF d
<1>2. 1 \in 1..Len(c) /\ \A i \in 1..Len(c) : i = 1 \/ (i - 1 \in 1..Len(d) /\ d[i - 1] = c[i])
  BY <1>1
<1>3. Numbers(d) \subseteq Numbers(c) /\ DOMAIN Head(c) \subseteq Numbers(c)
  BY <1>1, <1>2 DEF Numbers
<1>4. Numbers(c) \subseteq DOMAIN Head(c) \cup Numbers(d)
  BY <1>1, <1>2 DEF Numbers
<1>5. ASSUME NEW n \in Nat, NEW s \in Awaited(c, n), s \notin DOMAIN Head(c)
      PROVE  s \in Awaited(d, IF n > 0 THEN n - 1 ELSE 0)
  <2>1. PICK i \in 1..Len(c) : i \in 1..n /\ s \in DOMAIN c[i]
    BY DEF Awaited
  <2>2. i # 1 /\ i - 1 \in 1..Len(d) /\ d[i - 1] = c[i]
    BY <1>1, <1>2, <1>5, <2>1
  <2>3. n > 0 /\ i - 1 \in 1..(n - 1)
    BY <2>1, <2>2
  <2> QED BY <2>1, <2>2, <2>3 DEF Awaited
<1>6. ASSUME InOrder(c)
      PROVE  InOrder(d) /\ \A s \in DOMAIN Head(c), u \in Numbers(d) : s < u
  <2>1. InOrder(d)
    <3> SUFFICES ASSUME NEW i \in 1..Len(d), NEW j \in 1..Len(d), i < j,
                        NEW s \in DOMAIN d[i], NEW u \in DOMAIN d[j]
                 PROVE  s < u
      BY DEF InOrder
    <3>1. /\ i + 1 \in 1..Len(c) /\ j + 1 \in 1..Len(c) /\ i + 1 < j + 1
          /\ s \in DOMAIN c[i + 1] /\ u \in DOMAIN c[j + 1]
      BY <1>1
    <3> QED BY <1>6, <3>1 DEF InOrder
  <2>2. ASSUME NEW s \in DOMAIN Head(c), NEW u \in Numbers(d)
        PROVE  s < u
    <3>1. PICK i \in 1..Len(d) : u \in DOMAIN d[i]
      BY DEF Numbers
    <3>2. i + 1 \in 1..Len(c) /\ 1 < i + 1 /\ u \in DOMAIN c[i + 1] /\ s \in DOMAIN c[1]
      BY <1>1, <3>1
    <3> QED BY <1>2, <1>6, <3>2 DEF InOrder
  <2> QED BY <2>1, <2>2
<1> QED BY <1>3, <1>4, <1>5, <1>6 DEF d

LEMMA EmptyHas == Numbers(<<>>) = {} /\ InOrder(<<>>)
BY DEF Numbers, InOrder

Pending == Numbers(memory.chain) \cup DOMAIN memory.buffer

Ascending ==
  /\ \A s \in Pending : s \in Nat /\ turn.base <= s /\ s <= turn.base + turn.events
  /\ InOrder(memory.chain)
  /\ \A s \in Numbers(memory.chain), u \in DOMAIN memory.buffer : s < u
Fresh == ~history.misread => \A s \in Pending : s <= next_seq => s = 0 \/ s \in DOMAIN rows
Passed ==
  ~history.misread =>
    \A s \in Nat : turn.base + turn.events < s /\ s <= next_seq => s \in DOMAIN rows

Ordered == Numbered /\ Ascending /\ Fresh /\ Passed

LEMMA FlushHas ==
  ASSUME memory \in Memories, NEW held \in Batches, InOrder(memory.chain),
         \A s \in Numbers(memory.chain), u \in DOMAIN held : s < u
  PROVE  /\ Numbers(Flushed(held).chain) = Numbers(memory.chain) \cup DOMAIN held
         /\ InOrder(Flushed(held).chain) /\ DOMAIN Flushed(held).buffer = {}
         /\ \A n \in Nat : Awaited(memory.chain, n) \subseteq Awaited(Flushed(held).chain, n)
<1>1. memory.chain \in Seq(Batches)
  BY DEF Memories
<1>2. /\ DOMAIN Flushed(held).buffer = {}
      /\ Flushed(held).chain = IF held = NoRows THEN memory.chain ELSE Append(memory.chain, held)
  BY FlushedIs, NoRowsIs
<1>3. CASE held = NoRows
  <2>1. DOMAIN held = {} /\ Flushed(held).chain = memory.chain
    BY <1>2, <1>3, NoRowsIs
  <2> QED BY <1>2, <2>1
<1>4. CASE held # NoRows
  <2>1. Flushed(held).chain = Append(memory.chain, held)
    BY <1>2, <1>4
  <2> QED BY <1>1, <1>2, <2>1, AppendHas
<1> QED BY <1>3, <1>4

\* What leaves the table and the turn as they are, and the numbers in memory.
LEMMA SamePending ==
  ASSUME Ordered, Numbered', Pending' \subseteq Pending, InOrder(memory.chain)',
         (\A s \in Numbers(memory.chain), u \in DOMAIN memory.buffer : s < u)',
         turn'.base = turn.base, turn'.events = turn.events,
         history'.misread = history.misread, UNCHANGED <<rows, next_seq>>
  PROVE  Ordered'
BY DEF Ordered, Ascending, Fresh, Passed

LEMMA StartOrders ==
  ASSUME Ordered, StartTurn
  PROVE  Ordered'
<1>0. Numbered /\ Numbered'
  BY StartNumbers DEF Ordered
<1>1. PICK base \in {Log!Max0(DOMAIN rows), 0}, skipped \in Skipped :
        /\ Log!getRunSeqBase(base)
        /\ turn' = [attempt |-> turn.attempt + 1, base |-> base, events |-> 0, spoken |-> 0]
        /\ memory' = [Nothing EXCEPT
             !.buffer = IF skipped THEN Log!Single(base, <<turn.attempt + 1, 0, FALSE>>) ELSE NoRows]
  BY DEF StartTurn
<1>2. base \in Nat /\ (~history'.misread => base = next_seq)
  BY <1>0, <1>1, BaseIs DEF Numbered
<1>3. turn'.base = base /\ turn'.events = 0 /\ UNCHANGED <<rows, next_seq>>
  BY <1>1 DEF StartTurn
<1>4. memory'.chain = <<>> /\ DOMAIN memory'.buffer \subseteq {base}
  <2> DEFINE held == IF skipped THEN Log!Single(base, <<turn.attempt + 1, 0, FALSE>>) ELSE NoRows
  <2>1. <<turn.attempt + 1, 0, FALSE>> \in Log!Event
    BY <1>0, EventIs DEF StartTurn, Numbered
  <2>2. held \in Batches /\ DOMAIN held \subseteq {base}
    BY <1>2, <2>1, SingleIs, SingleIsBatch, NoRowsIs, NoRowsIsBatch
  <2>3. memory' = [Nothing EXCEPT !.buffer = held]
    BY <1>1
  <2> HIDE DEF held
  <2> QED BY <2>2, <2>3, NothingIs
<1>5. Pending' \subseteq {base} /\ Numbers(memory'.chain) = {} /\ InOrder(memory'.chain)
  BY <1>4, EmptyHas DEF Pending
<1>6. Ascending'
  BY <1>2, <1>3, <1>5 DEF Ascending
<1>7. Fresh'
  BY <1>0, <1>2, <1>3, <1>5 DEF Fresh, Numbered, Stored, Top
<1>8. Passed'
  BY <1>0, <1>2, <1>3 DEF Passed, Numbered, Scalars
<1> QED BY <1>0, <1>6, <1>7, <1>8 DEF Ordered

\* What the buffer holds once an event joined it.
LEMMA HeldHas ==
  ASSUME Ordered, NEW done \in BOOLEAN, OnEvent(done)
  PROVE  LET held == Log!Merged(memory.buffer, Log!Single(Log!NextSeq, Log!NextEvent(done))) IN
         /\ held \in Batches /\ DOMAIN held = DOMAIN memory.buffer \cup {Log!NextSeq}
         /\ \A s \in DOMAIN memory.buffer : held[s] = memory.buffer[s]
         /\ held[Log!NextSeq] = Log!NextEvent(done)
         /\ \A s \in Numbers(memory.chain), u \in DOMAIN held : s < u
<1> DEFINE single == Log!Single(Log!NextSeq, Log!NextEvent(done))
           held == Log!Merged(memory.buffer, single)
<1>1. held \in Batches /\ Log!NextSeq \in Nat /\ Log!NextEvent(done) \in Log!Event
  BY HeldIs DEF Ordered
<1>2. single \in Tables /\ DOMAIN single = {Log!NextSeq}
      /\ single[Log!NextSeq] = Log!NextEvent(done)
  BY <1>1, SingleIs
<1>3. memory.buffer \in Tables
  BY DEF Ordered, Numbered, Held, Memories, Batches
<1> HIDE DEF single
<1>4. /\ DOMAIN held = DOMAIN memory.buffer \cup {Log!NextSeq}
      /\ \A s \in DOMAIN memory.buffer : held[s] = memory.buffer[s]
      /\ \A s \in {Log!NextSeq} \ DOMAIN memory.buffer : held[s] = single[s]
  BY <1>2, <1>3, MergedIs
<1> HIDE DEF held
<1>5. \A s \in Pending : s \in Nat /\ s < Log!NextSeq
  BY DEF Ordered, Ascending, Log!NextSeq, Numbered, Scalars, Log!Turns
<1>6. held[Log!NextSeq] = Log!NextEvent(done)
  BY <1>2, <1>4, <1>5 DEF Pending
<1>7. \A s \in Numbers(memory.chain), u \in DOMAIN held : s < u
  BY <1>4, <1>5 DEF Pending, Ordered, Ascending
<1> QED BY <1>1, <1>4, <1>6, <1>7 DEF held, single

\* Where it goes then.
LEMMA EventHas ==
  ASSUME Ordered, NEW done \in BOOLEAN, OnEvent(done)
  PROVE  /\ Pending' = Pending \cup {Log!NextSeq}
         /\ InOrder(memory'.chain)
         /\ \A s \in Numbers(memory'.chain), u \in DOMAIN memory'.buffer : s < u
         /\ \A n \in Nat : Awaited(memory.chain, n) \subseteq Awaited(memory'.chain, n)
         /\ memory'.awaiting = memory.awaiting
<1> DEFINE held == Log!Merged(memory.buffer, Log!Single(Log!NextSeq, Log!NextEvent(done)))
<1>1. /\ held \in Batches /\ DOMAIN held = DOMAIN memory.buffer \cup {Log!NextSeq}
      /\ \A s \in Numbers(memory.chain), u \in DOMAIN held : s < u
  BY HeldHas
<1>2. memory' = Flushed(held) \/ memory' = [memory EXCEPT !.buffer = held]
  BY DEF OnEvent
<1>3. memory \in Memories /\ InOrder(memory.chain)
  BY DEF Ordered, Ascending, Numbered, Held
<1> HIDE DEF held
<1>4. CASE memory' = Flushed(held)
  <2>1. /\ Numbers(Flushed(held).chain) = Numbers(memory.chain) \cup DOMAIN held
        /\ InOrder(Flushed(held).chain) /\ DOMAIN Flushed(held).buffer = {}
        /\ \A n \in Nat : Awaited(memory.chain, n) \subseteq Awaited(Flushed(held).chain, n)
        /\ Flushed(held).awaiting = memory.awaiting
    BY <1>1, <1>3, FlushHas, FlushedIs
  <2> QED BY <1>1, <1>4, <2>1 DEF Pending
<1>5. CASE memory' = [memory EXCEPT !.buffer = held]
  <2>1. memory'.buffer = held /\ memory'.chain = memory.chain /\ memory'.awaiting = memory.awaiting
    BY <1>1, <1>3, <1>5, BufferIs
  <2> QED BY <1>1, <1>3, <2>1 DEF Pending
<1> QED BY <1>2, <1>4, <1>5

LEMMA EventOrders ==
  ASSUME Ordered, NEW done \in BOOLEAN, OnEvent(done)
  PROVE  Ordered'
<1>0. Numbered /\ Numbered'
  BY EventNumbers DEF Ordered
<1>1. /\ turn.base \in Nat /\ turn.events \in Nat /\ next_seq \in Nat
      /\ turn'.base = turn.base /\ turn'.events = turn.events + 1
      /\ Log!NextSeq = turn.base + turn.events + 1
      /\ UNCHANGED <<rows, next_seq, history>>
  BY <1>0 DEF OnEvent, Numbered, Scalars, Log!Turns, Log!NextSeq
<1>2. Ascending'
  BY <1>1, EventHas DEF Ordered, Ascending
<1>3. Fresh'
  BY <1>1, EventHas DEF Ordered, Fresh, Passed
<1>4. Passed'
  BY <1>1 DEF Ordered, Passed
<1> QED BY <1>0, <1>2, <1>3, <1>4 DEF Ordered

LEMMA FlushOrders ==
  ASSUME Ordered, FlushTimer
  PROVE  Ordered'
<1>1. /\ memory \in Memories /\ memory.buffer \in Batches /\ InOrder(memory.chain)
      /\ \A s \in Numbers(memory.chain), u \in DOMAIN memory.buffer : s < u
  BY DEF Ordered, Ascending, Numbered, Held, Memories
<1>2. memory' = Flushed(memory.buffer)
  BY DEF FlushTimer
<1>3. /\ Numbers(memory'.chain) = Numbers(memory.chain) \cup DOMAIN memory.buffer
      /\ InOrder(memory'.chain) /\ DOMAIN memory'.buffer = {}
  BY <1>1, <1>2, FlushHas
<1>4. Numbered'
  BY FlushNumbers DEF Ordered
<1> QED BY <1>3, <1>4, SamePending DEF Pending, FlushTimer

\* The end of the turn awaits all that is in memory.
LEMMA EndHas ==
  ASSUME Ordered, EndTurn
  PROVE  /\ Numbers(memory'.chain) = Pending /\ DOMAIN memory'.buffer = {}
         /\ InOrder(memory'.chain) /\ Awaited(memory'.chain, memory'.awaiting) = Pending
<1>1. /\ memory \in Memories /\ memory.buffer \in Batches /\ InOrder(memory.chain)
      /\ \A s \in Numbers(memory.chain), u \in DOMAIN memory.buffer : s < u
  BY DEF Ordered, Ascending, Numbered, Held, Memories
<1>2. /\ memory' \in Memories /\ memory'.chain = Flushed(memory.buffer).chain
      /\ memory'.buffer = NoRows /\ memory'.awaiting = Len(memory'.chain)
  BY <1>1, EndIs
<1>3. /\ Numbers(memory'.chain) = Pending /\ InOrder(memory'.chain)
  BY <1>1, <1>2, FlushHas DEF Pending
<1>4. Awaited(memory'.chain, memory'.awaiting) = Numbers(memory'.chain)
  BY <1>2 DEF Awaited, Numbers
<1> QED BY <1>2, <1>3, <1>4, NoRowsIs

LEMMA EndOrders ==
  ASSUME Ordered, EndTurn
  PROVE  Ordered'
<1>1. Numbered' /\ turn'.base = turn.base /\ turn'.events = turn.events
  BY EndNumbers DEF Ordered, EndTurn, Numbered, Scalars, Log!Turns
<1>2. /\ Numbers(memory'.chain) = Pending /\ DOMAIN memory'.buffer = {}
      /\ InOrder(memory'.chain)
  BY EndHas
<1>3. Pending' = Pending
  BY <1>2 DEF Pending
<1> QED BY <1>1, <1>2, <1>3, SamePending DEF EndTurn

LEMMA SettleOrders ==
  ASSUME Ordered, SettleRun
  PROVE  Ordered'
<1>1. Numbered'
  BY SettleNumbers DEF Ordered
<1> QED BY <1>1 DEF Ordered, SettleRun, Ascending, Fresh, Passed, Pending

LEMMA CrashOrders ==
  ASSUME Ordered, CrashProcess
  PROVE  Ordered'
<1>1. Numbered'
  BY CrashNumbers DEF Ordered
<1>2. memory'.chain = <<>> /\ DOMAIN memory'.buffer = {}
  BY NothingIs, NoRowsIsBatch, NoRowsIs DEF CrashProcess
<1>3. Pending' = {} /\ Numbers(memory'.chain) = {} /\ InOrder(memory'.chain)
  BY <1>2, EmptyHas DEF Pending
<1> QED BY <1>1, <1>3, SamePending DEF CrashProcess

LEMMA InsertOrders ==
  ASSUME Ordered, BatchInserts
  PROVE  Ordered'
<1>1. Numbered'
  BY InsertNumbers DEF Ordered
<1> QED BY <1>1 DEF Ordered, BatchInserts, Ascending, Fresh, Passed, Pending

\* The chain without its head.
LEMMA NextHas ==
  ASSUME Ordered, memory.chain # <<>>, memory' = NextBatch
  PROVE  /\ Pending' \subseteq Pending /\ DOMAIN Head(memory.chain) \subseteq Pending
         /\ InOrder(memory'.chain)
         /\ \A s \in Numbers(memory'.chain), u \in DOMAIN memory'.buffer : s < u
         /\ \A s \in DOMAIN Head(memory.chain), u \in Pending' : s < u
         /\ Pending \subseteq DOMAIN Head(memory.chain) \cup Pending'
         /\ Awaited(memory.chain, memory.awaiting)
              \subseteq DOMAIN Head(memory.chain) \cup Awaited(memory'.chain, memory'.awaiting)
<1>1. memory \in Memories /\ memory.chain \in Seq(Batches) /\ memory.awaiting \in Nat
  BY DEF Ordered, Numbered, Held, Memories
<1>2. /\ memory'.buffer = memory.buffer /\ memory'.chain = Tail(memory.chain)
      /\ memory'.awaiting = IF memory.awaiting > 0 THEN memory.awaiting - 1 ELSE 0
  BY <1>1, NextBatchIs
<1>3. /\ InOrder(memory.chain)
      /\ \A s \in Numbers(memory.chain), u \in DOMAIN memory.buffer : s < u
  BY DEF Ordered, Ascending
<1>4. /\ Numbers(memory'.chain) \subseteq Numbers(memory.chain)
      /\ DOMAIN Head(memory.chain) \subseteq Numbers(memory.chain)
      /\ Numbers(memory.chain) \subseteq DOMAIN Head(memory.chain) \cup Numbers(memory'.chain)
      /\ InOrder(memory'.chain)
      /\ \A s \in DOMAIN Head(memory.chain), u \in Numbers(memory'.chain) : s < u
      /\ Awaited(memory.chain, memory.awaiting)
           \subseteq DOMAIN Head(memory.chain) \cup Awaited(memory'.chain, memory'.awaiting)
  BY <1>1, <1>2, <1>3, TailHas
<1> QED BY <1>2, <1>3, <1>4 DEF Pending

LEMMA CommitOrders ==
  ASSUME Ordered, BatchCommits
  PROVE  Ordered'
<1> DEFINE batch == Head(memory.chain)
           m == Log!Max0(DOMAIN batch)
<1>0. Numbered /\ Numbered'
  BY CommitNumbers DEF Ordered
<1>1. /\ memory.chain # <<>> /\ batch \in Batches
      /\ DOMAIN rows' = DOMAIN rows \cup DOMAIN batch /\ next_seq' = GREATEST(next_seq, m)
      /\ memory' = NextBatch /\ UNCHANGED <<turn, history>>
  BY <1>0, CommitIs DEF BatchCommits
<1>2. /\ Pending' \subseteq Pending /\ DOMAIN batch \subseteq Pending
      /\ InOrder(memory'.chain)
      /\ \A s \in Numbers(memory'.chain), u \in DOMAIN memory'.buffer : s < u
      /\ \A s \in DOMAIN batch, u \in Pending' : s < u
  BY <1>1, NextHas
<1>3. m \in Nat /\ Top(DOMAIN batch, m)
  BY <1>1, Max0OfBatch
<1> HIDE DEF batch, m
<1>4. /\ next_seq \in Nat /\ turn.base \in Nat /\ turn.events \in Nat
      /\ next_seq' = next_seq \/ (next_seq' = m /\ m \in DOMAIN batch)
  <2>1. next_seq \in Nat /\ turn.base \in Nat /\ turn.events \in Nat
    BY <1>0 DEF Numbered, Scalars, Log!Turns
  <2>2. m = 0 \/ m \in DOMAIN batch
    BY <1>3 DEF Top
  <2> QED BY <1>1, <1>3, <2>1, <2>2 DEF GREATEST
<1>5. Ascending'
  BY <1>1, <1>2 DEF Ordered, Ascending
<1>6. \A s \in Pending : s \in Nat /\ s <= turn.base + turn.events
  BY DEF Ordered, Ascending
<1>7. Fresh'
  <2> SUFFICES ASSUME ~history'.misread, NEW s \in Pending', s <= next_seq'
               PROVE  s = 0 \/ s \in DOMAIN rows'
    BY DEF Fresh
  <2>1. CASE next_seq' = next_seq
    BY <1>1, <1>2, <2>1 DEF Ordered, Fresh
  <2>2. CASE next_seq' = m /\ m \in DOMAIN batch
    <3>1. m < s /\ s \in Nat
      BY <1>2, <1>6, <2>2
    <3> QED BY <1>3, <2>2, <3>1
  <2> QED BY <1>4, <2>1, <2>2
<1>8. Passed'
  <2> SUFFICES ASSUME ~history'.misread, NEW s \in Nat,
                      turn'.base + turn'.events < s, s <= next_seq'
               PROVE  s \in DOMAIN rows'
    BY DEF Passed
  <2>1. turn' = turn /\ history' = history
    BY <1>1
  <2>2. s <= next_seq
    BY <1>2, <1>4, <1>6, <2>1
  <2> QED BY <1>1, <2>1, <2>2 DEF Ordered, Passed
<1> QED BY <1>0, <1>5, <1>7, <1>8 DEF Ordered

LEMMA FailOrders ==
  ASSUME Ordered, BatchFails
  PROVE  Ordered'
<1>1. Numbered' /\ history'.misread = history.misread
  BY FailNumbers, FailIs DEF Ordered
<1>2. /\ Pending' \subseteq Pending /\ InOrder(memory'.chain)
      /\ \A s \in Numbers(memory'.chain), u \in DOMAIN memory'.buffer : s < u
  BY NextHas DEF BatchFails
<1> QED BY <1>1, <1>2, SamePending DEF BatchFails

LEMMA TakeOrders ==
  ASSUME Ordered, WriteTakesNumber
  PROVE  Ordered'
<1>1. Numbered'
  BY TakeNumbers DEF Ordered
<1>2. history'.misread = history.misread
  BY DEF WriteTakesNumber, Ordered, Numbered, Scalars, Log!History
<1> QED BY <1>1, <1>2 DEF Ordered, WriteTakesNumber, Ascending, Fresh, Passed, Pending

LEMMA WriteOrders ==
  ASSUME Ordered, WriteCommits
  PROVE  Ordered'
<1>0. Numbered /\ Numbered'
  BY WriteNumbers DEF Ordered
<1>1. /\ DOMAIN rows' = DOMAIN rows \cup {pageTx} /\ pageTx = next_seq + 1
      /\ next_seq' = pageTx /\ UNCHANGED <<turn, memory, history>>
  BY <1>0, WriteIs DEF WriteCommits
<1>2. next_seq \in Nat
  BY <1>0 DEF Numbered, Scalars
<1>3. Ascending'
  BY <1>1 DEF Ordered, Ascending, Pending
<1>4. Pending' = Pending /\ \A s \in Pending : s \in Nat
  BY <1>1 DEF Pending, Ordered, Ascending
<1>5. Fresh'
  BY <1>1, <1>2, <1>4 DEF Ordered, Fresh
<1>6. Passed'
  BY <1>1, <1>2 DEF Ordered, Passed
<1> QED BY <1>0, <1>3, <1>5, <1>6 DEF Ordered

LEMMA RollbackOrders ==
  ASSUME Ordered, WriteFails
  PROVE  Ordered'
<1>1. Numbered' /\ history'.misread = history.misread
  BY RollbackNumbers, RollbackIs DEF Ordered
<1> QED BY <1>1 DEF Ordered, WriteFails, Ascending, Fresh, Passed, Pending

LEMMA InitOrders ==
  ASSUME Init
  PROVE  Ordered
<1>1. Numbered
  BY InitNumbers
<1>2. Pending = {} /\ Numbers(memory.chain) = {} /\ InOrder(memory.chain)
  BY NothingIs, NoRowsIs, NoRowsIsBatch, EmptyHas DEF Init, Pending
<1>3. Ascending /\ Fresh
  BY <1>2 DEF Ascending, Fresh
<1>4. Passed
  BY DEF Init, Passed
<1> QED BY <1>1, <1>3, <1>4 DEF Ordered

LEMMA StepOrders ==
  ASSUME Ordered, [Next]_tvars
  PROVE  Ordered'
<1>1. CASE Next
  BY <1>1, StartOrders, FlushOrders, EndOrders, SettleOrders, CrashOrders, EventOrders,
     InsertOrders, CommitOrders, FailOrders, TakeOrders, WriteOrders, RollbackOrders
  DEF Next
<1>2. CASE UNCHANGED tvars
  <2>1. Numbered'
    BY <1>2, StepNumbers DEF Ordered
  <2> QED BY <1>2, <2>1 DEF tvars, Ordered, Ascending, Fresh, Passed, Pending
<1> QED BY <1>1, <1>2

LEMMA OrderedAlways == Spec => []Ordered
<1>1. Init => Ordered
  BY InitOrders
<1>2. Ordered /\ [Next]_tvars => Ordered'
  BY StepOrders
<1> QED BY <1>1, <1>2, PTL DEF Spec

\* RowsAscend: where the base was read, every row that appears is numbered above all
\* that are there, so a reader who polls above the highest it has seen misses none.
THEOREM RowsComeInOrder == Spec => RowsAscend
<1> DEFINE A == ~history'.misread =>
             \A s \in DOMAIN rows' \ DOMAIN rows, t \in DOMAIN rows : s = 0 \/ t < s
<1>1. Ordered /\ [Next]_tvars => [A]_tvars
  <2> SUFFICES ASSUME Ordered, Next, ~history'.misread,
                      NEW s \in DOMAIN rows' \ DOMAIN rows, NEW t \in DOMAIN rows
               PROVE  s = 0 \/ t < s
    OBVIOUS
  <2>1. Numbered /\ next_seq \in Nat /\ t \in Nat /\ t <= next_seq
    BY TableHas DEF Ordered, Numbered, Scalars, Stored, Top
  <2>2. CASE BatchCommits
    <3>1. s \in DOMAIN Head(memory.chain) /\ memory.chain # <<>>
      BY <2>1, <2>2, CommitIs
    <3>2. s \in Pending
      BY <2>2, <3>1, NextHas DEF BatchCommits
    <3>3. s \in Nat /\ ~(s <= next_seq /\ s # 0)
      BY <2>2, <3>2 DEF Ordered, Ascending, Fresh, BatchCommits
    <3> QED BY <2>1, <3>3
  <2>3. CASE WriteCommits
    BY <2>1, <2>3, WriteIs
  <2>4. CASE rows' = rows
    BY <2>4
  <2>5. BatchCommits \/ WriteCommits \/ rows' = rows
    BY DEF Next, StartTurn, FlushTimer, EndTurn, SettleRun, CrashProcess, OnEvent, BatchInserts,
       BatchFails, WriteTakesNumber, WriteFails
  <2> QED BY <2>2, <2>3, <2>4, <2>5
<1> QED BY <1>1, OrderedAlways, PTL DEF Spec, RowsAscend

-----------------------------------------------------------------------------
(* Kept: what is in memory is what the turn said under that number, what is   *)
(* above the base is that or another writer's, and nothing the turn said is   *)
(* anywhere but in the table, or in what the end of the turn awaits.          *)

\* f holds what the turn of attempt a said above base b.
SaidOf(f, a, b) == \A s \in DOMAIN f : f[s][1] = a /\ f[s][2] = s - b
AllSaid(c, a, b) == \A i \in 1..Len(c) : SaidOf(c[i], a, b)

LEMMA AppendSaid ==
  ASSUME NEW c \in Seq(Batches), NEW f \in Batches, NEW a, NEW b, AllSaid(c, a, b), SaidOf(f, a, b)
  PROVE  AllSaid(Append(c, f), a, b)
<1> DEFINE d == Append(c, f)
<1>1. /\ Len(c) \in Nat /\ Len(d) = Len(c) + 1 /\ d[Len(c) + 1] = f
      /\ \A i \in 1..Len(c) : d[i] = c[i]
  OBVIOUS
<1> HIDE DEF d
<1>2. \A i \in 1..Len(d) : i \in 1..Len(c) \/ i = Len(c) + 1
  BY <1>1
<1>3. AllSaid(d, a, b)
  BY <1>1, <1>2 DEF AllSaid
<1> QED BY <1>3 DEF d

LEMMA TailSaid ==
  ASSUME NEW c \in Seq(Batches), c # <<>>, NEW a, NEW b, AllSaid(c, a, b)
  PROVE  AllSaid(Tail(c), a, b) /\ SaidOf(Head(c), a, b)
<1>1. /\ 1 \in 1..Len(c) /\ Head(c) = c[1]
      /\ \A i \in 1..Len(Tail(c)) : i + 1 \in 1..Len(c) /\ Tail(c)[i] = c[i + 1]
  OBVIOUS
<1> QED BY <1>1 DEF AllSaid

Said ==
  /\ SaidOf(memory.buffer, turn.attempt, turn.base)
  /\ AllSaid(memory.chain, turn.attempt, turn.base)
There ==
  ~history.misread =>
    \A s \in DOMAIN rows : turn.base < s =>
      Log!Written(rows[s]) \/ (rows[s][1] = turn.attempt /\ rows[s][2] = s - turn.base)
Whole ==
  ~history.misread /\ history.lost = 0 =>
    /\ run = "running" => \A k \in 1..turn.events : turn.base + k \in DOMAIN rows \cup Pending
    /\ run = "ending" => \A k \in 1..turn.spoken :
         turn.base + k \in DOMAIN rows \cup Awaited(memory.chain, memory.awaiting)
    /\ run = "settled" => \A k \in 1..turn.spoken : turn.base + k \in DOMAIN rows

Kept == Ordered /\ Said /\ There /\ Whole

\* Nothing of no rows was said by anyone else.
LEMMA NothingSaid == \A a, b : SaidOf(NoRows, a, b) /\ AllSaid(<<>>, a, b)
<1>1. \A a, b : SaidOf(NoRows, a, b)
  BY NoRowsIs DEF SaidOf
<1>2. \A a, b : AllSaid(<<>>, a, b)
  BY DEF AllSaid
<1> QED BY <1>1, <1>2

LEMMA FlushSaid ==
  ASSUME memory \in Memories, NEW held \in Batches, NEW a, NEW b,
         AllSaid(memory.chain, a, b), SaidOf(held, a, b)
  PROVE  AllSaid(Flushed(held).chain, a, b) /\ SaidOf(Flushed(held).buffer, a, b)
<1>1. memory.chain \in Seq(Batches)
  BY DEF Memories
<1>2. /\ Flushed(held).buffer = NoRows
      /\ Flushed(held).chain = memory.chain \/ Flushed(held).chain = Append(memory.chain, held)
  BY FlushedIs
<1>3. AllSaid(Append(memory.chain, held), a, b) /\ SaidOf(NoRows, a, b)
  BY <1>1, AppendSaid, NothingSaid
<1> QED BY <1>2, <1>3

LEMMA StartKeeps ==
  ASSUME Kept, StartTurn
  PROVE  Kept'
<1>0. Ordered /\ Numbered /\ Ordered'
  BY StartOrders DEF Kept, Ordered
<1>1. PICK base \in {Log!Max0(DOMAIN rows), 0}, skipped \in Skipped :
        /\ Log!getRunSeqBase(base)
        /\ turn' = [attempt |-> turn.attempt + 1, base |-> base, events |-> 0, spoken |-> 0]
        /\ memory' = [Nothing EXCEPT
             !.buffer = IF skipped THEN Log!Single(base, <<turn.attempt + 1, 0, FALSE>>) ELSE NoRows]
  BY DEF StartTurn
<1>2. base \in Nat /\ (~history'.misread => base = next_seq)
  BY <1>0, <1>1, BaseIs DEF Numbered
<1>3. /\ turn'.base = base /\ turn'.events = 0 /\ turn'.attempt = turn.attempt + 1
      /\ run' = "running" /\ UNCHANGED <<rows, next_seq>>
  BY <1>1 DEF StartTurn
<1>4. Said'
  <2> DEFINE e == <<turn.attempt + 1, 0, FALSE>>
             held == IF skipped THEN Log!Single(base, e) ELSE NoRows
  <2>1. e \in Log!Event
    BY <1>0, EventIs DEF StartTurn, Numbered
  <2>2. held \in Batches /\ (\A s \in DOMAIN held : s = base /\ held[s] = e)
    <3> HIDE DEF e
    <3>1. /\ Log!Single(base, e) \in Batches /\ DOMAIN Log!Single(base, e) = {base}
          /\ Log!Single(base, e)[base] = e
      BY <1>2, <2>1, SingleIs, SingleIsBatch
    <3> QED BY <3>1, NoRowsIs, NoRowsIsBatch
  <2>3. memory' = [Nothing EXCEPT !.buffer = held]
    BY <1>1
  <2>4. base - base = 0 /\ e[1] = turn.attempt + 1 /\ e[2] = 0
    BY <1>2
  <2> HIDE DEF held, e
  <2>5. memory'.buffer = held /\ memory'.chain = <<>>
    BY <2>2, <2>3, NothingIs
  <2>6. SaidOf(held, turn.attempt + 1, base)
    BY <2>2, <2>4 DEF SaidOf
  <2> QED BY <1>3, <2>5, <2>6, NothingSaid DEF Said
<1>5. There'
  BY <1>0, <1>2, <1>3, TableHas DEF There, Numbered, Scalars, Stored, Top
<1>6. Whole'
  BY <1>3 DEF Whole
<1> QED BY <1>0, <1>4, <1>5, <1>6 DEF Kept

LEMMA EventKeeps ==
  ASSUME Kept, NEW done \in BOOLEAN, OnEvent(done)
  PROVE  Kept'
<1> DEFINE held == Log!Merged(memory.buffer, Log!Single(Log!NextSeq, Log!NextEvent(done)))
<1>0. Ordered /\ Numbered /\ Ordered' /\ memory \in Memories
  BY EventOrders DEF Kept, Ordered, Numbered, Held
<1>1. /\ held \in Batches /\ DOMAIN held = DOMAIN memory.buffer \cup {Log!NextSeq}
      /\ \A s \in DOMAIN memory.buffer : held[s] = memory.buffer[s]
      /\ held[Log!NextSeq] = Log!NextEvent(done)
  BY <1>0, HeldHas
<1>2. memory' = Flushed(held) \/ memory' = [memory EXCEPT !.buffer = held]
  BY DEF OnEvent
<1>3. /\ turn.base \in Nat /\ turn.events \in Nat
      /\ turn'.base = turn.base /\ turn'.events = turn.events + 1 /\ turn'.spoken = turn.spoken
      /\ turn'.attempt = turn.attempt /\ UNCHANGED <<rows, run, history>>
  BY <1>0 DEF OnEvent, Numbered, Scalars, Log!Turns
<1>4. /\ Log!NextSeq = turn.base + turn.events + 1 /\ Log!NextSeq - turn.base = turn.events + 1
      /\ Log!NextEvent(done)[1] = turn.attempt /\ Log!NextEvent(done)[2] = turn.events + 1
  BY <1>3 DEF Log!NextSeq, Log!NextEvent
<1> HIDE DEF held
<1>5. SaidOf(held, turn.attempt, turn.base)
  BY <1>1, <1>4 DEF SaidOf, Kept, Said
<1>6. Said'
  <2>1. CASE memory' = Flushed(held)
    <3>1. /\ AllSaid(Flushed(held).chain, turn.attempt, turn.base)
          /\ SaidOf(Flushed(held).buffer, turn.attempt, turn.base)
      BY <1>0, <1>1, <1>5, FlushSaid DEF Kept, Said
    <3> QED BY <1>3, <2>1, <3>1 DEF Said
  <2>2. CASE memory' = [memory EXCEPT !.buffer = held]
    <3>1. memory'.buffer = held /\ memory'.chain = memory.chain
      BY <1>0, <1>1, <2>2, BufferIs
    <3> QED BY <1>3, <1>5, <3>1 DEF Kept, Said
  <2> QED BY <1>2, <2>1, <2>2
<1>7. There'
  BY <1>3 DEF Kept, There
<1>8. Whole'
  <2>1. /\ Pending' = Pending \cup {Log!NextSeq}
        /\ \A n \in Nat : Awaited(memory.chain, n) \subseteq Awaited(memory'.chain, n)
        /\ memory'.awaiting = memory.awaiting /\ memory.awaiting \in Nat
    BY <1>0, EventHas DEF Memories
  <2>2. \A k \in 1..(turn.events + 1) : k \in 1..turn.events \/ turn.base + k = Log!NextSeq
    BY <1>3, <1>4
  <2> QED BY <1>3, <2>1, <2>2 DEF Kept, Whole
<1> QED BY <1>0, <1>6, <1>7, <1>8 DEF Kept

LEMMA FlushKeeps ==
  ASSUME Kept, FlushTimer
  PROVE  Kept'
<1>1. /\ Ordered /\ Ordered' /\ memory \in Memories /\ memory.buffer \in Batches
      /\ memory.awaiting \in Nat /\ InOrder(memory.chain)
      /\ \A s \in Numbers(memory.chain), u \in DOMAIN memory.buffer : s < u
  BY FlushOrders DEF Kept, Ordered, Ascending, Numbered, Held, Memories
<1>2. memory' = Flushed(memory.buffer) /\ UNCHANGED <<rows, run, turn, history>>
  BY DEF FlushTimer
<1>3. /\ Pending' = Pending /\ memory'.awaiting = memory.awaiting
      /\ \A n \in Nat : Awaited(memory.chain, n) \subseteq Awaited(memory'.chain, n)
  BY <1>1, <1>2, FlushHas, FlushedIs DEF Pending
<1>4. Said'
  BY <1>1, <1>2, FlushSaid DEF Kept, Said
<1>5. There' /\ Whole'
  BY <1>1, <1>2, <1>3 DEF Kept, There, Whole
<1> QED BY <1>1, <1>4, <1>5 DEF Kept

LEMMA EndKeeps ==
  ASSUME Kept, EndTurn
  PROVE  Kept'
<1>1. /\ Ordered /\ Ordered' /\ memory \in Memories /\ memory.buffer \in Batches
  BY EndOrders DEF Kept, Ordered, Numbered, Held, Memories
<1>2. /\ run = "running" /\ run' = "ending" /\ UNCHANGED <<rows, history>>
      /\ turn'.attempt = turn.attempt /\ turn'.base = turn.base /\ turn'.spoken = turn.events
  BY <1>1 DEF EndTurn, Ordered, Numbered, Scalars, Log!Turns
<1>3. Awaited(memory'.chain, memory'.awaiting) = Pending
  BY <1>1, EndHas
<1>4. Said'
  <2>1. memory'.chain = Flushed(memory.buffer).chain /\ memory'.buffer = NoRows
    BY <1>1, EndIs
  <2>2. AllSaid(Flushed(memory.buffer).chain, turn.attempt, turn.base)
    BY <1>1, FlushSaid DEF Kept, Said
  <2> QED BY <1>2, <2>1, <2>2, NothingSaid DEF Said
<1>5. There' /\ Whole'
  BY <1>2, <1>3 DEF Kept, There, Whole
<1> QED BY <1>1, <1>4, <1>5 DEF Kept

LEMMA SettleKeeps ==
  ASSUME Kept, SettleRun
  PROVE  Kept'
<1>1. Ordered'
  BY SettleOrders DEF Kept
<1>2. Awaited(memory.chain, memory.awaiting) = {}
  BY DEF SettleRun, Awaited
<1> QED BY <1>1, <1>2 DEF Kept, Said, There, Whole, SettleRun

LEMMA CrashKeeps ==
  ASSUME Kept, CrashProcess
  PROVE  Kept'
<1>1. Ordered'
  BY CrashOrders DEF Kept
<1>2. memory'.chain = <<>> /\ memory'.buffer = NoRows
  BY NothingIs, NoRowsIsBatch DEF CrashProcess
<1>3. Said'
  BY <1>2, NothingSaid DEF Said
<1>4. There' /\ Whole'
  BY DEF Kept, There, Whole, CrashProcess
<1> QED BY <1>1, <1>3, <1>4 DEF Kept

LEMMA InsertKeeps ==
  ASSUME Kept, BatchInserts
  PROVE  Kept'
<1>1. Ordered'
  BY InsertOrders DEF Kept
<1> QED BY <1>1 DEF Kept, Said, There, Whole, Pending, BatchInserts

\* The chain without its head is what was said, and so is the head.
LEMMA NextSaid ==
  ASSUME Kept, memory.chain # <<>>, memory' = NextBatch, turn' = turn
  PROVE  Said' /\ SaidOf(Head(memory.chain), turn.attempt, turn.base)
<1>1. memory \in Memories /\ memory.chain \in Seq(Batches)
  BY DEF Kept, Ordered, Numbered, Held, Memories
<1>2. memory'.buffer = memory.buffer /\ memory'.chain = Tail(memory.chain)
  BY <1>1, NextBatchIs
<1>3. /\ AllSaid(Tail(memory.chain), turn.attempt, turn.base)
      /\ SaidOf(Head(memory.chain), turn.attempt, turn.base)
  BY <1>1, TailSaid DEF Kept, Said
<1> QED BY <1>2, <1>3 DEF Kept, Said

LEMMA CommitKeeps ==
  ASSUME Kept, BatchCommits
  PROVE  Kept'
<1>1. Ordered /\ Ordered' /\ Numbered
  BY CommitOrders DEF Kept, Ordered
<1>2. /\ memory.chain # <<>> /\ DOMAIN rows' = DOMAIN rows \cup DOMAIN Head(memory.chain)
      /\ \A s \in DOMAIN rows : rows'[s] = rows[s]
      /\ \A s \in DOMAIN rows' \ DOMAIN rows :
           s \in DOMAIN Head(memory.chain) /\ rows'[s] = Head(memory.chain)[s]
      /\ memory' = NextBatch /\ UNCHANGED <<turn, run, history>>
  BY <1>1, CommitIs DEF BatchCommits
<1>3. Said' /\ SaidOf(Head(memory.chain), turn.attempt, turn.base)
  BY <1>2, NextSaid
<1>4. There'
  BY <1>2, <1>3 DEF Kept, There, SaidOf
<1>5. /\ Pending \subseteq DOMAIN Head(memory.chain) \cup Pending'
      /\ Awaited(memory.chain, memory.awaiting)
           \subseteq DOMAIN Head(memory.chain) \cup Awaited(memory'.chain, memory'.awaiting)
  BY <1>1, <1>2, NextHas
<1>6. Whole'
  BY <1>2, <1>5 DEF Kept, Whole
<1> QED BY <1>1, <1>3, <1>4, <1>6 DEF Kept

LEMMA FailKeeps ==
  ASSUME Kept, BatchFails
  PROVE  Kept'
<1>1. Ordered' /\ history'.lost # 0 /\ history'.misread = history.misread
  BY FailOrders, FailIs DEF Kept, Ordered
<1>2. memory.chain # <<>> /\ memory' = NextBatch /\ UNCHANGED <<turn, rows, run>>
  BY DEF BatchFails
<1>3. Said'
  BY <1>2, NextSaid
<1>4. There' /\ Whole'
  BY <1>1, <1>2 DEF Kept, There, Whole
<1> QED BY <1>1, <1>3, <1>4 DEF Kept

LEMMA TakeKeeps ==
  ASSUME Kept, WriteTakesNumber
  PROVE  Kept'
<1>1. Ordered' /\ history'.misread = history.misread /\ history'.lost = history.lost
  BY TakeOrders DEF WriteTakesNumber, Kept, Ordered, Numbered, Scalars, Log!History
<1> QED BY <1>1 DEF Kept, Said, There, Whole, Pending, WriteTakesNumber

LEMMA WriteKeeps ==
  ASSUME Kept, WriteCommits
  PROVE  Kept'
<1>1. Ordered' /\ Numbered
  BY WriteOrders DEF Kept, Ordered
<1>2. /\ DOMAIN rows' = DOMAIN rows \cup {pageTx}
      /\ \A s \in DOMAIN rows : rows'[s] = rows[s]
      /\ rows'[pageTx] = <<0, history.writes, FALSE>>
      /\ UNCHANGED <<turn, memory, run, history>>
  BY <1>1, WriteIs DEF WriteCommits
<1>3. Log!Written(rows'[pageTx])
  BY <1>2 DEF Log!Written
<1>4. Said'
  BY <1>2 DEF Kept, Said
<1>5. There'
  BY <1>2, <1>3 DEF Kept, There
<1>6. Whole'
  BY <1>2 DEF Kept, Whole, Pending
<1> QED BY <1>1, <1>4, <1>5, <1>6 DEF Kept

LEMMA RollbackKeeps ==
  ASSUME Kept, WriteFails
  PROVE  Kept'
<1>1. Ordered' /\ history'.misread = history.misread /\ history'.lost = history.lost
  BY RollbackOrders, RollbackIs DEF Kept, Ordered
<1> QED BY <1>1 DEF Kept, Said, There, Whole, Pending, WriteFails

LEMMA InitKeeps ==
  ASSUME Init
  PROVE  Kept
<1>1. Ordered
  BY InitOrders
<1>2. Said
  BY NothingIs, NoRowsIsBatch, NothingSaid DEF Init, Said
<1>3. There /\ Whole
  BY NoRowsIs DEF Init, There, Whole
<1> QED BY <1>1, <1>2, <1>3 DEF Kept

LEMMA StepKeeps ==
  ASSUME Kept, [Next]_tvars
  PROVE  Kept'
<1>1. CASE Next
  BY <1>1, StartKeeps, FlushKeeps, EndKeeps, SettleKeeps, CrashKeeps, EventKeeps,
     InsertKeeps, CommitKeeps, FailKeeps, TakeKeeps, WriteKeeps, RollbackKeeps
  DEF Next
<1>2. CASE UNCHANGED tvars
  <2>1. Ordered'
    BY <1>2, StepOrders DEF Kept
  <2> QED BY <1>2, <2>1 DEF tvars, Kept, Said, There, Whole, Pending
<1> QED BY <1>1, <1>2

\* TurnIsDurable: a run is settled after the chain its end awaited, so every event of
\* its last turn is in a row, under the number it was given in memory, unless another
\* writer had taken the number; a turn that lost no batch and read its base.
THEOREM TurnsAreDurable == Spec => []TurnIsDurable
<1>1. Init => Kept
  BY InitKeeps
<1>2. Kept /\ [Next]_tvars => Kept'
  BY StepKeeps
<1>3. Kept => TurnIsDurable
  <2> SUFFICES ASSUME Kept, run = "settled", history.lost = 0, ~history.misread,
                      NEW k \in 1..turn.spoken
               PROVE  /\ turn.base + k \in DOMAIN rows
                      /\ \/ Log!Written(rows[turn.base + k])
                         \/ <<rows[turn.base + k][1], rows[turn.base + k][2]>> = <<turn.attempt, k>>
    BY DEF TurnIsDurable
  <2>1. turn.base + k \in DOMAIN rows
    BY DEF Kept, Whole
  <2>2. turn.base \in Nat /\ turn.base < turn.base + k /\ turn.base + k - turn.base = k
    BY DEF Kept, Ordered, Numbered, Scalars, Log!Turns
  <2> QED BY <2>1, <2>2 DEF Kept, There
<1> QED BY <1>1, <1>2, <1>3, PTL DEF Spec

-----------------------------------------------------------------------------
(* The write path implements the log that readers are promised: every step *)
(* of the buffer, the chain and the two transactions is a step of RunLog    *)
(* or leaves all it shows unchanged.  What is pending in the log is all     *)
(* that is in memory, wherever it is in its way to the table.               *)

(* What is in memory, as one table.                                         *)

LEMMA SameTable ==
  ASSUME NEW f \in Tables, NEW g \in Tables, DOMAIN f = DOMAIN g,
         \A s \in DOMAIN f : f[s] = g[s]
  PROVE  f = g
<1>1. f = [s \in DOMAIN f |-> f[s]] /\ g = [s \in DOMAIN g |-> g[s]]
  BY TableIsRows
<1> QED BY <1>1

LEMMA EmptyIsNoRows ==
  ASSUME NEW f \in Tables, DOMAIN f = {}
  PROVE  f = NoRows
BY SameTable, NoRowsIs

Items(c) == {c[i] : i \in 1..Len(c)}
Parts(m) == {m.buffer} \cup Items(m.chain)
All(m) == [s \in UNION {DOMAIN f : f \in Parts(m)} |->
             LET f == CHOOSE f \in Parts(m) : s \in DOMAIN f IN f[s]]

LEMMA UnwrittenIsAll == Unwritten = All(memory) /\ Unwritten' = All(memory')
BY DEF Unwritten, All, Parts, Items

LEMMA ItemsHave ==
  ASSUME NEW c \in Seq(Batches)
  PROVE  /\ Items(c) \subseteq Batches
         /\ Numbers(c) = UNION {DOMAIN f : f \in Items(c)}
         /\ \A b \in Batches : Items(Append(c, b)) = Items(c) \cup {b}
         /\ c # <<>> => Items(c) = {Head(c)} \cup Items(Tail(c))
<1>1. Items(c) \subseteq Batches
  BY DEF Items
<1>2. Numbers(c) = UNION {DOMAIN f : f \in Items(c)}
  BY DEF Items, Numbers
<1>3. ASSUME NEW b \in Batches PROVE Items(Append(c, b)) = Items(c) \cup {b}
  <2> DEFINE d == Append(c, b)
  <2>1. /\ Len(c) \in Nat /\ Len(d) = Len(c) + 1 /\ d[Len(c) + 1] = b
        /\ \A i \in 1..Len(c) : d[i] = c[i]
    OBVIOUS
  <2> HIDE DEF d
  <2>2. 1..Len(d) = 1..Len(c) \cup {Len(c) + 1}
    BY <2>1
  <2>3. Items(d) = Items(c) \cup {b}
    BY <2>1, <2>2 DEF Items
  <2> QED BY <2>3 DEF d
<1>4. ASSUME c # <<>> PROVE Items(c) = {Head(c)} \cup Items(Tail(c))
  <2> DEFINE d == Tail(c)
  <2>1. /\ Len(c) \in Nat \ {0} /\ Len(d) = Len(c) - 1 /\ Head(c) = c[1]
        /\ \A i \in 1..Len(d) : i + 1 \in 1..Len(c) /\ d[i] = c[i + 1]
    BY <1>4
  <2> HIDE DEF d
  <2>2. 1 \in 1..Len(c) /\ \A i \in 1..Len(c) : i = 1 \/ (i - 1 \in 1..Len(d) /\ d[i - 1] = c[i])
    BY <2>1
  <2>3. Items(c) \subseteq {Head(c)} \cup Items(d)
    BY <2>1, <2>2 DEF Items
  <2>4. {Head(c)} \cup Items(d) \subseteq Items(c)
    BY <2>1, <2>2 DEF Items
  <2>5. Items(c) = {Head(c)} \cup Items(d)
    BY <2>3, <2>4
  <2> QED BY <2>5 DEF d
<1> QED BY <1>1, <1>2, <1>3, <1>4

\* The parts of memory, their numbers, and that no number is in two of them.
Apart(m) ==
  /\ InOrder(m.chain)
  /\ \A s \in Numbers(m.chain), u \in DOMAIN m.buffer : s < u

LEMMA PartsAre ==
  ASSUME NEW m \in Memories, Apart(m)
  PROVE  /\ Parts(m) \subseteq Batches
         /\ UNION {DOMAIN f : f \in Parts(m)} = Numbers(m.chain) \cup DOMAIN m.buffer
         /\ \A f \in Parts(m), g \in Parts(m), s \in Nat :
              s \in DOMAIN f /\ s \in DOMAIN g => f = g
<1>1. m.chain \in Seq(Batches) /\ m.buffer \in Batches
  BY DEF Memories
<1>2. Parts(m) \subseteq Batches
  BY <1>1, ItemsHave DEF Parts
<1>3. UNION {DOMAIN f : f \in Parts(m)} = Numbers(m.chain) \cup DOMAIN m.buffer
  BY <1>1, ItemsHave DEF Parts
<1>4. ASSUME NEW f \in Parts(m), NEW g \in Parts(m), NEW s \in Nat, s \in DOMAIN f, s \in DOMAIN g
      PROVE  f = g
  <2>1. ASSUME NEW i \in 1..Len(m.chain), f = m.chain[i], NEW j \in 1..Len(m.chain), g = m.chain[j]
        PROVE  f = g
    <3>1. i \in Nat /\ j \in Nat /\ ~(s < s)
      OBVIOUS
    <3>2. ~(i < j) /\ ~(j < i)
      BY <1>4, <2>1, <3>1 DEF Apart, InOrder
    <3> QED BY <2>1, <3>1, <3>2
  <2>2. ASSUME NEW i \in 1..Len(m.chain), f = m.chain[i] \/ g = m.chain[i],
               f = m.buffer \/ g = m.buffer
        PROVE  f = g
    <3>1. s \in DOMAIN m.chain[i] => s \in Numbers(m.chain)
      BY DEF Numbers
    <3>2. ~(s < s)
      OBVIOUS
    <3> QED BY <1>4, <2>2, <3>1, <3>2 DEF Apart
  <2> QED BY <2>1, <2>2 DEF Parts, Items
<1> QED BY <1>2, <1>3, <1>4

LEMMA AllIs ==
  ASSUME NEW m \in Memories, Apart(m)
  PROVE  /\ All(m) \in Tables
         /\ DOMAIN All(m) = Numbers(m.chain) \cup DOMAIN m.buffer
         /\ \A f \in Parts(m) : \A s \in DOMAIN f : All(m)[s] = f[s]
<1> DEFINE D == UNION {DOMAIN f : f \in Parts(m)}
<1>1. /\ Parts(m) \subseteq Batches /\ D = Numbers(m.chain) \cup DOMAIN m.buffer
      /\ \A f \in Parts(m), g \in Parts(m), s \in Nat :
           s \in DOMAIN f /\ s \in DOMAIN g => f = g
  BY PartsAre
<1>2. \A f \in Parts(m) : f \in Tables /\ DOMAIN f \subseteq Nat
                          /\ \A s \in DOMAIN f : f[s] \in Log!Event
  BY <1>1, TableHas DEF Batches
<1>3. DOMAIN All(m) = D /\ All(m) = [s \in D |-> All(m)[s]]
  BY DEF All
<1>4. ASSUME NEW f \in Parts(m), NEW s \in DOMAIN f
      PROVE  All(m)[s] = f[s]
  <2> DEFINE g == CHOOSE g \in Parts(m) : s \in DOMAIN g
  <2>1. \E h \in Parts(m) : s \in DOMAIN h
    BY <1>4
  <2>2. g \in Parts(m) /\ s \in DOMAIN g
    BY <2>1, Zenon
  <2>3. s \in Nat /\ s \in D
    BY <1>2, <1>4
  <2>4. g = f
    BY <1>1, <2>2, <2>3
  <2>5. All(m)[s] = g[s]
    BY <2>3 DEF All
  <2> QED BY <2>4, <2>5
<1>5. D \subseteq Nat /\ \A s \in D : All(m)[s] \in Log!Event
  BY <1>2, <1>4
<1>6. All(m) \in [D -> Log!Event] /\ D \in SUBSET Nat
  BY <1>3, <1>5
<1>7. All(m) \in Tables
  BY <1>6 DEF Tables
<1> QED BY <1>1, <1>3, <1>4, <1>7

\* Two memories with the same parts, but for empty ones, hold the same.
LEMMA SameAll ==
  ASSUME NEW m \in Memories, Apart(m), NEW n \in Memories, Apart(n),
         \A f \in Parts(m) : f \in Parts(n) \/ DOMAIN f = {},
         \A f \in Parts(n) : f \in Parts(m) \/ DOMAIN f = {}
  PROVE  All(m) = All(n)
<1>1. /\ All(m) \in Tables /\ \A f \in Parts(m) : \A s \in DOMAIN f : All(m)[s] = f[s]
      /\ All(n) \in Tables /\ \A f \in Parts(n) : \A s \in DOMAIN f : All(n)[s] = f[s]
  BY AllIs
<1>2. /\ DOMAIN All(m) = UNION {DOMAIN f : f \in Parts(m)}
      /\ DOMAIN All(n) = UNION {DOMAIN f : f \in Parts(n)}
  BY DEF All
<1>3. DOMAIN All(m) = DOMAIN All(n)
  BY <1>2
<1>4. ASSUME NEW s \in DOMAIN All(m) PROVE All(m)[s] = All(n)[s]
  <2>1. PICK f \in Parts(m) : s \in DOMAIN f
    BY <1>2
  <2>2. f \in Parts(n)
    BY <2>1
  <2> QED BY <1>1, <2>1, <2>2
<1> QED BY <1>1, <1>3, <1>4, SameTable

-----------------------------------------------------------------------------
(* What the steps need beside the order of the numbers: a batch is not empty, *)
(* and what the end of the turn does not await was said after it.             *)

Chained == \A f \in Items(memory.chain) : DOMAIN f # {}
AwaitsAll ==
  run = "ending" =>
    /\ turn.spoken <= turn.events
    /\ \A s \in Pending : s \in Awaited(memory.chain, memory.awaiting) \/ turn.base + turn.spoken < s

ClosedIsEmpty == ~batchTx.open => DOMAIN batchTx.rows = {}

Queued == Ordered /\ Chained /\ AwaitsAll /\ ClosedIsEmpty

LEMMA IdleIsEmpty ==
  ASSUME batchTx' = Idle
  PROVE  ClosedIsEmpty'
BY NoRowsIs DEF ClosedIsEmpty, Idle

LEMMA MemoryIs ==
  ASSUME Ordered
  PROVE  /\ memory \in Memories /\ memory.chain \in Seq(Batches) /\ memory.buffer \in Batches
         /\ memory.awaiting \in Nat /\ Apart(memory) /\ Pending \subseteq Nat
BY DEF Ordered, Numbered, Held, Memories, Ascending, Apart

LEMMA MemoryIsThen ==
  ASSUME Ordered'
  PROVE  memory' \in Memories /\ memory'.chain \in Seq(Batches) /\ Apart(memory')
BY DEF Ordered, Numbered, Held, Memories, Ascending, Apart

LEMMA FlushChained ==
  ASSUME memory \in Memories, NEW held \in Batches, Chained
  PROVE  /\ \A f \in Items(Flushed(held).chain) : DOMAIN f # {}
         /\ Items(Flushed(held).chain) \subseteq Items(memory.chain) \cup {held}
         /\ Items(memory.chain) \subseteq Items(Flushed(held).chain)
         /\ DOMAIN held # {} => held \in Items(Flushed(held).chain)
<1>1. memory.chain \in Seq(Batches) /\ held \in Tables
  BY DEF Memories, Batches
<1>2. CASE held = NoRows
  <2>1. Flushed(held).chain = memory.chain /\ DOMAIN held = {}
    BY <1>2, FlushedIs, NoRowsIs
  <2> QED BY <2>1 DEF Chained
<1>3. CASE held # NoRows
  <2>1. Flushed(held).chain = Append(memory.chain, held) /\ DOMAIN held # {}
    BY <1>1, <1>3, FlushedIs, EmptyIsNoRows
  <2>2. Items(Append(memory.chain, held)) = Items(memory.chain) \cup {held}
    BY <1>1, ItemsHave
  <2> QED BY <2>1, <2>2 DEF Chained
<1> QED BY <1>2, <1>3

LEMMA StartQueues ==
  ASSUME Queued, StartTurn
  PROVE  Queued'
<1>1. Ordered'
  BY StartOrders DEF Queued
<1>2. memory'.chain = <<>>
  <2>1. PICK base \in {Log!Max0(DOMAIN rows), 0}, skipped \in Skipped :
          /\ Log!getRunSeqBase(base)
          /\ memory' = [Nothing EXCEPT
               !.buffer = IF skipped THEN Log!Single(base, <<turn.attempt + 1, 0, FALSE>>) ELSE NoRows]
    BY DEF StartTurn
  <2> QED BY <2>1 DEF Nothing
<1>3. Items(memory'.chain) = {}
  BY <1>2 DEF Items
<1> QED BY <1>1, <1>3 DEF Queued, Chained, AwaitsAll, ClosedIsEmpty, StartTurn

LEMMA EventQueues ==
  ASSUME Queued, NEW done \in BOOLEAN, OnEvent(done)
  PROVE  Queued'
<1> DEFINE held == Log!Merged(memory.buffer, Log!Single(Log!NextSeq, Log!NextEvent(done)))
<1>1. Ordered /\ Numbered /\ Ordered' /\ memory \in Memories
  BY EventOrders DEF Queued, Ordered, Numbered, Held
<1>2. held \in Batches /\ (memory' = Flushed(held) \/ memory' = [memory EXCEPT !.buffer = held])
  BY <1>1, HeldHas DEF OnEvent
<1> HIDE DEF held
<1>3. Chained'
  <2>1. CASE memory' = Flushed(held)
    BY <1>1, <1>2, <2>1, FlushChained DEF Queued, Chained
  <2>2. CASE memory' = [memory EXCEPT !.buffer = held]
    BY <1>1, <1>2, <2>2, BufferIs DEF Queued, Chained
  <2> QED BY <1>2, <2>1, <2>2
<1>4. AwaitsAll'
  <2>1. /\ Pending' = Pending \cup {Log!NextSeq}
        /\ Awaited(memory.chain, memory.awaiting) \subseteq Awaited(memory'.chain, memory'.awaiting)
    BY <1>1, EventHas, MemoryIs
  <2>2. /\ turn'.spoken = turn.spoken /\ turn'.base = turn.base /\ turn'.events = turn.events + 1
        /\ turn.base \in Nat /\ turn.events \in Nat /\ turn.spoken \in Nat
        /\ Log!NextSeq = turn.base + turn.events + 1 /\ run' = run
    BY <1>1 DEF Numbered, Scalars, Log!Turns, Log!NextSeq, OnEvent
  <2> QED BY <2>1, <2>2 DEF Queued, AwaitsAll
<1>5. ClosedIsEmpty'
  BY DEF Queued, ClosedIsEmpty, OnEvent
<1> QED BY <1>1, <1>3, <1>4, <1>5 DEF Queued

LEMMA FlushQueues ==
  ASSUME Queued, FlushTimer
  PROVE  Queued' /\ Unwritten' = Unwritten
<1>1. /\ Ordered /\ Ordered' /\ memory \in Memories /\ memory' \in Memories
      /\ memory.buffer \in Batches /\ memory.awaiting \in Nat
      /\ Apart(memory) /\ Apart(memory')
  BY FlushOrders, MemoryIs, MemoryIsThen DEF Queued
<1>2. memory' = Flushed(memory.buffer) /\ UNCHANGED <<rows, run, turn, history>>
  BY DEF FlushTimer
<1>3. Chained'
  BY <1>1, <1>2, FlushChained DEF Queued, Chained
<1>4. /\ Pending' = Pending
      /\ Awaited(memory.chain, memory.awaiting) \subseteq Awaited(memory'.chain, memory'.awaiting)
  BY <1>1, <1>2, FlushHas, FlushedIs DEF Pending, Apart
<1>5. AwaitsAll'
  BY <1>2, <1>4 DEF Queued, AwaitsAll
<1>6. All(memory') = All(memory)
  <2>1. memory'.buffer = NoRows /\ DOMAIN NoRows = {}
    BY <1>1, <1>2, FlushedIs, NoRowsIs
  <2>2. /\ Items(memory'.chain) \subseteq Items(memory.chain) \cup {memory.buffer}
        /\ Items(memory.chain) \subseteq Items(memory'.chain)
        /\ DOMAIN memory.buffer # {} => memory.buffer \in Items(memory'.chain)
    BY <1>1, <1>2, FlushChained DEF Queued
  <2>3. /\ \A f \in Parts(memory) : f \in Parts(memory') \/ DOMAIN f = {}
        /\ \A f \in Parts(memory') : f \in Parts(memory) \/ DOMAIN f = {}
    BY <2>1, <2>2 DEF Parts
  <2> QED BY <1>1, <2>3, SameAll
<1>7. ClosedIsEmpty'
  BY DEF Queued, ClosedIsEmpty, FlushTimer
<1> QED BY <1>1, <1>3, <1>5, <1>6, <1>7, UnwrittenIsAll DEF Queued

LEMMA EndQueues ==
  ASSUME Queued, EndTurn
  PROVE  Queued' /\ Unwritten' = Unwritten
<1>1. /\ Ordered /\ Ordered' /\ memory \in Memories /\ memory' \in Memories
      /\ memory.buffer \in Batches /\ Apart(memory) /\ Apart(memory')
  BY EndOrders, MemoryIs, MemoryIsThen DEF Queued
<1>2. memory'.chain = Flushed(memory.buffer).chain /\ memory'.buffer = NoRows
  BY <1>1, EndIs
<1>3. Chained'
  BY <1>1, <1>2, FlushChained DEF Queued, Chained
<1>4. AwaitsAll'
  <2>1. turn'.spoken = turn.events /\ turn'.events = turn.events /\ turn.events \in Nat
    BY <1>1 DEF EndTurn, Ordered, Numbered, Scalars, Log!Turns
  <2>2. Pending' = Awaited(memory'.chain, memory'.awaiting)
    BY <1>1, EndHas DEF Pending
  <2> QED BY <2>1, <2>2 DEF AwaitsAll
<1>5. All(memory') = All(memory)
  <2>1. DOMAIN NoRows = {}
    BY NoRowsIs
  <2>2. /\ Items(memory'.chain) \subseteq Items(memory.chain) \cup {memory.buffer}
        /\ Items(memory.chain) \subseteq Items(memory'.chain)
        /\ DOMAIN memory.buffer # {} => memory.buffer \in Items(memory'.chain)
    BY <1>1, <1>2, FlushChained DEF Queued
  <2>3. /\ \A f \in Parts(memory) : f \in Parts(memory') \/ DOMAIN f = {}
        /\ \A f \in Parts(memory') : f \in Parts(memory) \/ DOMAIN f = {}
    BY <1>2, <2>1, <2>2 DEF Parts
  <2> QED BY <1>1, <2>3, SameAll
<1>6. ClosedIsEmpty'
  BY DEF Queued, ClosedIsEmpty, EndTurn
<1> QED BY <1>1, <1>3, <1>4, <1>5, <1>6, UnwrittenIsAll DEF Queued

LEMMA CrashQueues ==
  ASSUME Queued, CrashProcess
  PROVE  Queued' /\ Unwritten' = NoRows
<1>1. Ordered' /\ run' # "ending"
  BY CrashOrders DEF Queued, CrashProcess
<1>2. memory'.chain = <<>> /\ DOMAIN memory'.buffer = {}
  BY NothingIs, NoRowsIsBatch, NoRowsIs DEF CrashProcess
<1>3. Items(memory'.chain) = {} /\ Numbers(memory'.chain) = {}
  BY <1>2, EmptyHas DEF Items
<1>4. All(memory') = NoRows
  BY <1>1, <1>2, <1>3, AllIs, MemoryIsThen, EmptyIsNoRows
<1>5. ClosedIsEmpty'
  BY IdleIsEmpty DEF CrashProcess
<1> QED BY <1>1, <1>3, <1>4, <1>5, UnwrittenIsAll DEF Queued, Chained, AwaitsAll

\* The chain goes on: what is pending is what is above its head, which was below it.
LEMMA NextQueues ==
  ASSUME Queued, Ordered', memory.chain # <<>>, memory' = NextBatch,
         batchTx' = Idle, UNCHANGED <<run, turn>>
  PROVE  /\ Queued'
         /\ \E last \in DOMAIN Unwritten :
              /\ last = Log!Max0(DOMAIN Head(memory.chain))
              /\ Log!Oldest(last) = Head(memory.chain) /\ Unwritten' = Log!Later(last)
<1> DEFINE head == Head(memory.chain)
           last == Log!Max0(DOMAIN head)
<1>1. /\ Ordered /\ memory \in Memories /\ memory' \in Memories
      /\ memory.chain \in Seq(Batches) /\ memory'.chain \in Seq(Batches)
      /\ Apart(memory) /\ Apart(memory') /\ Pending \subseteq Nat
  BY MemoryIs, MemoryIsThen DEF Queued
<1>2. /\ memory'.buffer = memory.buffer /\ memory'.chain = Tail(memory.chain) /\ head \in Batches
  BY <1>1, NextBatchIs
<1>3. Items(memory.chain) = {head} \cup Items(memory'.chain)
  BY <1>1, <1>2, ItemsHave
<1>4. /\ Pending' \subseteq Pending /\ DOMAIN head \subseteq Pending
      /\ \A s \in DOMAIN head, u \in Pending' : s < u
      /\ Pending \subseteq DOMAIN head \cup Pending'
      /\ Awaited(memory.chain, memory.awaiting)
           \subseteq DOMAIN head \cup Awaited(memory'.chain, memory'.awaiting)
  BY <1>1, NextHas
<1>5. DOMAIN head # {}
  BY <1>3 DEF Queued, Chained
<1>6. last \in DOMAIN head /\ \A s \in DOMAIN head : s <= last
  BY <1>2, <1>5, Max0OfBatch DEF Top
<1> HIDE DEF head, last
<1>7. last \in Nat /\ \A s \in DOMAIN head : s \in Nat
  BY <1>1, <1>4, <1>6
<1>8. Queued'
  <2>1. Chained'
    BY <1>3 DEF Queued, Chained
  <2>2. ASSUME run' = "ending", NEW s \in Pending'
        PROVE  s \in Awaited(memory'.chain, memory'.awaiting) \/ turn'.base + turn'.spoken < s
    <3>1. s \in Pending /\ run = "ending" /\ turn' = turn /\ s \in Nat
      BY <1>1, <1>4, <2>2
    <3>2. s \notin DOMAIN head
      <4>1. s \in DOMAIN head => s < s
        BY <1>4
      <4> QED BY <3>1, <4>1
    <3> QED BY <1>4, <3>1, <3>2 DEF Queued, AwaitsAll
  <2>3. AwaitsAll'
    BY <2>2 DEF Queued, AwaitsAll
  <2> QED BY <2>1, <2>3, IdleIsEmpty DEF Queued
<1>9. /\ All(memory) \in Tables /\ DOMAIN All(memory) = Pending
      /\ \A f \in Parts(memory) : \A s \in DOMAIN f : All(memory)[s] = f[s]
      /\ All(memory') \in Tables /\ DOMAIN All(memory') = Pending'
      /\ \A f \in Parts(memory') : \A s \in DOMAIN f : All(memory')[s] = f[s]
  BY <1>1, AllIs DEF Pending
<1>10. Parts(memory) = {head} \cup Parts(memory')
  BY <1>2, <1>3 DEF Parts
<1>11. Log!Keep(All(memory), 0..last) = head
  <2>1. /\ Log!Keep(All(memory), 0..last) \in Tables
        /\ DOMAIN Log!Keep(All(memory), 0..last) = Pending \cap 0..last
        /\ \A s \in Pending \cap 0..last : Log!Keep(All(memory), 0..last)[s] = All(memory)[s]
    <3>1. All(memory) \in Tables /\ DOMAIN All(memory) = Pending
      BY <1>9
    <3> QED BY <3>1, KeepIs
  <2>2. Pending \cap 0..last \subseteq DOMAIN head
    <3> SUFFICES ASSUME NEW s \in Pending, s \in 0..last PROVE s \in DOMAIN head
      OBVIOUS
    <3>1. ~(s \in Pending')
      BY <1>4, <1>6, <1>7
    <3> QED BY <1>4, <3>1
  <2>3. DOMAIN head \subseteq Pending \cap 0..last
    BY <1>4, <1>6, <1>7
  <2>4. \A s \in DOMAIN head : All(memory)[s] = head[s]
    BY <1>9, <1>10
  <2>5. DOMAIN Log!Keep(All(memory), 0..last) = DOMAIN head
    BY <2>1, <2>2, <2>3
  <2>6. head \in Tables
    BY <1>2 DEF Batches
  <2> QED BY <2>1, <2>3, <2>4, <2>5, <2>6, SameTable
<1>12. All(memory') = Log!Keep(All(memory), {s \in DOMAIN All(memory) : s > last})
  <2> DEFINE L == {s \in DOMAIN All(memory) : s > last}
  <2>1. /\ Log!Keep(All(memory), L) \in Tables
        /\ DOMAIN Log!Keep(All(memory), L) = Pending \cap L
        /\ \A s \in Pending \cap L : Log!Keep(All(memory), L)[s] = All(memory)[s]
    <3>1. All(memory) \in Tables /\ DOMAIN All(memory) = Pending
      BY <1>9
    <3> QED BY <3>1, KeepIs
  <2>2. Pending \cap L = Pending'
    <3>1. Pending \cap L \subseteq Pending'
      <4> SUFFICES ASSUME NEW s \in Pending, s > last PROVE s \in Pending'
        OBVIOUS
      <4>1. s \notin DOMAIN head
        BY <1>1, <1>6, <1>7
      <4> QED BY <1>4, <4>1
    <3>2. Pending' \subseteq L
      BY <1>1, <1>4, <1>6, <1>7, <1>9
    <3> QED BY <1>4, <3>1, <3>2
  <2> HIDE DEF L
  <2>3. ASSUME NEW s \in Pending' PROVE All(memory')[s] = All(memory)[s]
    <3>1. PICK f \in Parts(memory') : s \in DOMAIN f
      BY <1>9 DEF All
    <3> QED BY <1>9, <1>10, <3>1
  <2>4. All(memory') = Log!Keep(All(memory), L)
    <3>1. /\ All(memory') \in Tables /\ DOMAIN All(memory') = Pending'
          /\ DOMAIN Log!Keep(All(memory), L) = Pending'
      BY <1>9, <2>1, <2>2
    <3>2. \A s \in Pending' : Log!Keep(All(memory), L)[s] = All(memory)[s]
      BY <2>1, <2>2
    <3>3. \A s \in Pending' : All(memory')[s] = Log!Keep(All(memory), L)[s]
      BY <2>3, <3>2
    <3> QED BY <2>1, <3>1, <3>3, SameTable
  <2> QED BY <2>4 DEF L
<1>13. /\ last \in DOMAIN Unwritten /\ Log!Oldest(last) = head
       /\ Unwritten' = Log!Later(last)
  BY <1>4, <1>6, <1>9, <1>11, <1>12, UnwrittenIsAll DEF Log!Oldest, Log!Later
<1> QED BY <1>8, <1>13 DEF head, last

-----------------------------------------------------------------------------
(* Each action is one of the log, or shows nothing.                         *)

LEMMA UnwrittenIs ==
  ASSUME Ordered
  PROVE  /\ Unwritten \in Tables /\ DOMAIN Unwritten = Pending
         /\ \A f \in Parts(memory) : \A s \in DOMAIN f : Unwritten[s] = f[s]
<1>1. memory \in Memories /\ Apart(memory)
  BY MemoryIs
<1> QED BY <1>1, AllIs, UnwrittenIsAll DEF Pending

LEMMA UnwrittenIsThen ==
  ASSUME Ordered'
  PROVE  /\ Unwritten' \in Tables /\ DOMAIN Unwritten' = Pending'
         /\ \A f \in Parts(memory') : \A s \in DOMAIN f : Unwritten'[s] = f[s]
<1>1. memory' \in Memories /\ Apart(memory')
  BY MemoryIsThen
<1> QED BY <1>1, AllIs, UnwrittenIsAll DEF Pending

LEMMA StartImplements ==
  ASSUME Queued, StartTurn
  PROVE  Log!Begin
<1>0. Ordered /\ Numbered /\ Ordered'
  BY StartOrders DEF Queued, Ordered
<1>1. PICK base \in {Log!Max0(DOMAIN rows), 0}, skipped \in Skipped :
        /\ Log!getRunSeqBase(base)
        /\ turn' = [attempt |-> turn.attempt + 1, base |-> base, events |-> 0, spoken |-> 0]
        /\ memory' = [Nothing EXCEPT
             !.buffer = IF skipped THEN Log!Single(base, <<turn.attempt + 1, 0, FALSE>>) ELSE NoRows]
  BY DEF StartTurn
<1> DEFINE held == IF skipped THEN Log!Single(base, <<turn.attempt + 1, 0, FALSE>>) ELSE NoRows
<1>2. held \in Batches
  <2>1. base \in Nat
    BY <1>0, <1>1, BaseIs DEF Numbered
  <2>2. <<turn.attempt + 1, 0, FALSE>> \in Log!Event
    BY <1>0, EventIs DEF StartTurn, Numbered
  <2> QED BY <2>1, <2>2, SingleIsBatch, NoRowsIsBatch
<1>3. memory' = [Nothing EXCEPT !.buffer = held]
  BY <1>1
<1> HIDE DEF held
<1>4. memory'.buffer = held /\ memory'.chain = <<>>
  BY <1>2, <1>3, NothingIs
<1>5. Unwritten' = held
  <2>1. Pending' = DOMAIN held /\ held \in Parts(memory')
    BY <1>4, EmptyHas DEF Pending, Parts
  <2>2. held \in Tables
    BY <1>2 DEF Batches
  <2> QED BY <1>0, <2>1, <2>2, UnwrittenIsThen, SameTable
<1>6. Unwritten' = IF skipped THEN Log!Single(base, <<turn.attempt + 1, 0, FALSE>>) ELSE Log!NoRows
  BY <1>5 DEF held, NoRows, Log!NoRows
<1> QED BY <1>1, <1>6 DEF Log!Begin, StartTurn

LEMMA EventImplements ==
  ASSUME Queued, NEW done \in BOOLEAN, OnEvent(done)
  PROVE  Log!Speak(done)
<1> DEFINE single == Log!Single(Log!NextSeq, Log!NextEvent(done))
           held == Log!Merged(memory.buffer, single)
<1>0. /\ Ordered /\ Ordered' /\ memory \in Memories
      /\ memory.chain \in Seq(Batches) /\ Chained
  BY EventOrders, MemoryIs DEF Queued
<1>1. /\ held \in Batches /\ DOMAIN held = DOMAIN memory.buffer \cup {Log!NextSeq}
      /\ \A s \in DOMAIN memory.buffer : held[s] = memory.buffer[s]
      /\ held[Log!NextSeq] = Log!NextEvent(done)
  BY <1>0, HeldHas
<1>2. memory' = Flushed(held) \/ memory' = [memory EXCEPT !.buffer = held]
  BY DEF OnEvent
<1>3. single \in Tables /\ DOMAIN single = {Log!NextSeq}
      /\ single[Log!NextSeq] = Log!NextEvent(done)
  BY <1>0, HeldIs, SingleIs DEF Ordered
<1> HIDE DEF held, single
<1>4. held \in Parts(memory') /\ Items(memory.chain) \subseteq Parts(memory')
  <2>1. CASE memory' = Flushed(held)
    BY <1>0, <1>1, <2>1, FlushChained DEF Parts
  <2>2. CASE memory' = [memory EXCEPT !.buffer = held]
    BY <1>0, <1>1, <2>2, BufferIs DEF Parts
  <2> QED BY <1>2, <2>1, <2>2
<1>5. Pending' = Pending \cup {Log!NextSeq} /\ Log!NextSeq \notin Pending
  <2>1. \A s \in Pending : s \in Nat /\ s < Log!NextSeq
    BY <1>0 DEF Ordered, Ascending, Log!NextSeq, Numbered, Scalars, Log!Turns
  <2> QED BY <1>0, <2>1, EventHas
<1>6. Unwritten' = Log!Merged(Unwritten, single)
  <2>1. /\ Unwritten \in Tables /\ DOMAIN Unwritten = Pending
        /\ \A f \in Parts(memory) : \A s \in DOMAIN f : Unwritten[s] = f[s]
    BY <1>0, UnwrittenIs
  <2>2. /\ Unwritten' \in Tables /\ DOMAIN Unwritten' = Pending'
        /\ \A f \in Parts(memory') : \A s \in DOMAIN f : Unwritten'[s] = f[s]
    BY <1>0, UnwrittenIsThen
  <2>3. /\ Log!Merged(Unwritten, single) \in Tables
        /\ DOMAIN Log!Merged(Unwritten, single) = DOMAIN Unwritten \cup DOMAIN single
        /\ \A s \in DOMAIN Unwritten : Log!Merged(Unwritten, single)[s] = Unwritten[s]
        /\ \A s \in DOMAIN single \ DOMAIN Unwritten : Log!Merged(Unwritten, single)[s] = single[s]
    BY <1>3, <2>1, MergedIs
  <2>4. DOMAIN Unwritten' = DOMAIN Log!Merged(Unwritten, single)
    BY <1>3, <1>5, <2>1, <2>2, <2>3
  <2>5. ASSUME NEW s \in Pending PROVE Unwritten'[s] = Unwritten[s]
    <3>1. CASE s \in DOMAIN memory.buffer
      BY <1>1, <1>4, <2>1, <2>2, <3>1 DEF Parts
    <3>2. CASE s \in Numbers(memory.chain)
      <4>1. PICK f \in Items(memory.chain) : s \in DOMAIN f
        BY <1>0, <3>2, ItemsHave
      <4> QED BY <1>4, <2>1, <2>2, <4>1 DEF Parts
    <3> QED BY <3>1, <3>2 DEF Pending
  <2>6. Unwritten'[Log!NextSeq] = single[Log!NextSeq]
    BY <1>1, <1>3, <1>4, <2>2
  <2>7. Log!Merged(Unwritten, single)[Log!NextSeq] = single[Log!NextSeq]
    BY <1>3, <1>5, <2>1, <2>3
  <2>8. \A s \in DOMAIN Unwritten' : Unwritten'[s] = Log!Merged(Unwritten, single)[s]
    BY <1>5, <2>1, <2>2, <2>3, <2>5, <2>6, <2>7
  <2> QED BY <2>2, <2>3, <2>4, <2>8, SameTable
<1> QED BY <1>6 DEF Log!Speak, OnEvent, single

LEMMA SettleImplements ==
  ASSUME Queued, SettleRun
  PROVE  Log!Settle
<1>1. Awaited(memory.chain, memory.awaiting) = {}
  BY DEF SettleRun, Awaited
<1>2. \A s \in DOMAIN Unwritten : s > turn.base + turn.spoken
  <2>1. DOMAIN Unwritten = Pending
    BY UnwrittenIs DEF Queued
  <2>2. \A s \in Pending : s \in Nat /\ turn.base + turn.spoken < s
    BY <1>1, MemoryIs DEF Queued, AwaitsAll, SettleRun
  <2>3. turn.base + turn.spoken \in Nat
    BY DEF Queued, Ordered, Numbered, Scalars, Log!Turns
  <2> QED BY <2>1, <2>2, <2>3
<1>3. Unwritten' = Unwritten
  BY DEF Unwritten, SettleRun
<1> QED BY <1>2, <1>3 DEF Log!Settle, SettleRun

LEMMA CommitImplements ==
  ASSUME Queued, BatchCommits
  PROVE  Log!Persist /\ Queued'
<1>0. Ordered /\ Numbered /\ Ordered'
  BY CommitOrders DEF Queued, Ordered
<1>1. /\ memory.chain # <<>> /\ Head(memory.chain) \in Batches
      /\ rows' \in Tables /\ DOMAIN rows' = DOMAIN rows \cup DOMAIN Head(memory.chain)
      /\ \A s \in DOMAIN rows : rows'[s] = rows[s]
      /\ \A s \in DOMAIN rows' \ DOMAIN rows :
           s \in DOMAIN Head(memory.chain) /\ rows'[s] = Head(memory.chain)[s]
  BY <1>0, CommitIs
<1>2. /\ memory' = NextBatch /\ batchTx' = Idle
      /\ pageTx = 0 /\ pageTx' = 0 /\ UNCHANGED <<run, turn, alive, history>>
  BY DEF BatchCommits
<1>3. PICK last \in DOMAIN Unwritten :
        Log!Oldest(last) = Head(memory.chain) /\ Unwritten' = Log!Later(last)
  BY <1>0, <1>1, <1>2, NextQueues
<1>4. rows' = Log!Merged(rows, Head(memory.chain))
  <2> DEFINE head == Head(memory.chain)
  <2>1. rows \in Tables /\ head \in Tables
    BY <1>0, <1>1 DEF Numbered, Stored, Batches
  <2> HIDE DEF head
  <2>2. /\ Log!Merged(rows, head) \in Tables
        /\ DOMAIN Log!Merged(rows, head) = DOMAIN rows \cup DOMAIN head
        /\ \A s \in DOMAIN rows : Log!Merged(rows, head)[s] = rows[s]
        /\ \A s \in DOMAIN head \ DOMAIN rows : Log!Merged(rows, head)[s] = head[s]
    BY <2>1, MergedIs
  <2>3. /\ rows' \in Tables /\ DOMAIN rows' = DOMAIN rows \cup DOMAIN head
        /\ \A s \in DOMAIN rows : rows'[s] = rows[s]
        /\ \A s \in DOMAIN rows' \ DOMAIN rows : s \in DOMAIN head /\ rows'[s] = head[s]
    BY <1>1 DEF head
  <2>4. rows' = Log!Merged(rows, head)
    BY <2>2, <2>3, SameTable
  <2> QED BY <2>4 DEF head
<1>5. Queued'
  BY <1>0, <1>1, <1>2, NextQueues
<1> QED BY <1>2, <1>3, <1>4, <1>5 DEF Log!Persist

LEMMA FailImplements ==
  ASSUME Queued, BatchFails
  PROVE  Log!Lose /\ Queued'
<1>0. Ordered /\ Numbered /\ Ordered'
  BY FailOrders DEF Queued, Ordered
<1>1. /\ memory.chain # <<>> /\ memory' = NextBatch /\ batchTx' = Idle
      /\ pageTx' = pageTx /\ UNCHANGED <<rows, run, turn, alive>>
  BY DEF BatchFails
<1>2. PICK last \in DOMAIN Unwritten : Unwritten' = Log!Later(last)
  BY <1>0, <1>1, NextQueues
<1>3. \/ pageTx # 0 /\ history' = [history EXCEPT !.lost = @ + 1]
      \/ Log!Fault([history EXCEPT !.lost = @ + 1])
  BY DEF BatchFails, Deadlocked
<1>4. Queued'
  BY <1>0, <1>1, NextQueues
<1> QED BY <1>1, <1>2, <1>3, <1>4 DEF Log!Lose

LEMMA WriteImplements ==
  ASSUME Queued, WriteCommits
  PROVE  Log!WriterAppends
<1>1. /\ next_seq \in Nat /\ Top(DOMAIN rows, next_seq) /\ DOMAIN rows \in SUBSET Nat
      /\ pageTx = next_seq + 1 /\ pageTx # 0
  BY TableHas DEF Queued, Ordered, Numbered, Scalars, Stored, PageIsNext, WriteCommits
<1>2. pageTx = Log!Max0(DOMAIN rows) + 1
  BY <1>1, Max0IsTop
<1>3. Unwritten' = Unwritten /\ pageTx' = 0
  BY DEF Unwritten, WriteCommits
<1> QED BY <1>1, <1>2, <1>3 DEF Log!WriterAppends, WriteCommits

LEMMA RollbackImplements ==
  ASSUME Queued, WriteFails
  PROVE  Log!WriterFails
<1>1. /\ next_seq \in Nat /\ Top(DOMAIN rows, next_seq) /\ DOMAIN rows \in SUBSET Nat
      /\ pageTx = next_seq + 1 /\ pageTx # 0 /\ pageTx' = 0
  BY TableHas DEF Queued, Ordered, Numbered, Scalars, Stored, PageIsNext, WriteFails
<1>2. pageTx \notin DOMAIN rows
  BY <1>1 DEF Top
<1>3. Unwritten' = Unwritten
  BY DEF Unwritten, WriteFails
<1>4. Deadlocked => Unwritten # Log!NoRows
  <2> SUFFICES ASSUME Deadlocked PROVE DOMAIN Unwritten # {}
    BY NoRowsIs DEF NoRows, Log!NoRows
  <2>1. pageTx \in DOMAIN batchTx.rows /\ batchTx.open
    BY DEF Deadlocked, Queued, ClosedIsEmpty
  <2>2. memory.chain # <<>> /\ pageTx \in DOMAIN Head(memory.chain)
    BY <2>1 DEF Queued, Ordered, Numbered, OpenIsHead
  <2>3. pageTx \in Pending /\ DOMAIN Unwritten = Pending
    <3>1. DOMAIN Head(memory.chain) \subseteq Numbers(memory.chain)
      BY <2>2, MemoryIs, TailHas DEF Queued
    <3> QED BY <2>2, <3>1, UnwrittenIs DEF Queued, Pending
  <2> QED BY <2>3
<1> QED BY <1>1, <1>2, <1>3, <1>4 DEF Log!WriterFails, WriteFails

\* The actions that leave memory alone.
LEMMA OthersQueue ==
  ASSUME Queued, SettleRun \/ BatchInserts \/ WriteTakesNumber \/ WriteCommits \/ WriteFails
  PROVE  Queued' /\ Unwritten' = Unwritten
<1>1. memory' = memory
  BY DEF SettleRun, BatchInserts, WriteTakesNumber, WriteCommits, WriteFails
<1>2. Ordered'
  BY SettleOrders, InsertOrders, TakeOrders, WriteOrders, RollbackOrders DEF Queued
<1>3. Chained' /\ Pending' = Pending /\ Unwritten' = Unwritten
  BY <1>1 DEF Queued, Chained, Pending, Unwritten
<1>4. AwaitsAll'
  BY <1>1, <1>3 DEF Queued, AwaitsAll, SettleRun, BatchInserts, WriteTakesNumber, WriteCommits, WriteFails
<1>5. ClosedIsEmpty'
  BY DEF Queued, ClosedIsEmpty, SettleRun, BatchInserts, WriteTakesNumber, WriteCommits, WriteFails
<1> QED BY <1>2, <1>3, <1>4, <1>5 DEF Queued

LEMMA StepImplements ==
  ASSUME Queued, [Next]_tvars
  PROVE  Queued' /\ [Log!LogNext]_(Log!lvars)
<1>1. CASE StartTurn
  BY <1>1, StartQueues, StartImplements DEF Log!LogNext
<1>2. CASE FlushTimer
  BY <1>2, FlushQueues DEF Log!lvars, FlushTimer
<1>3. CASE EndTurn
  BY <1>3, EndQueues DEF Log!LogNext, Log!End, EndTurn
<1>4. CASE SettleRun
  BY <1>4, OthersQueue, SettleImplements DEF Log!LogNext
<1>5. CASE CrashProcess
  BY <1>5, CrashQueues DEF Log!LogNext, Log!Die, CrashProcess, NoRows, Log!NoRows
<1>6. CASE \E done \in BOOLEAN : OnEvent(done)
  BY <1>6, EventQueues, EventImplements DEF Log!LogNext
<1>7. CASE BatchInserts
  BY <1>7, OthersQueue DEF Log!lvars, BatchInserts
<1>8. CASE BatchCommits
  BY <1>8, CommitImplements DEF Log!LogNext
<1>9. CASE BatchFails
  BY <1>9, FailImplements DEF Log!LogNext
<1>10. CASE WriteTakesNumber
  <2>1. pageTx = 0 /\ pageTx' # 0
    BY <1>10 DEF WriteTakesNumber, Queued, Ordered, Numbered, Scalars
  <2> QED BY <1>10, <2>1, OthersQueue DEF Log!LogNext, Log!WriterBegins, WriteTakesNumber
<1>11. CASE WriteCommits
  BY <1>11, OthersQueue, WriteImplements DEF Log!LogNext
<1>12. CASE WriteFails
  BY <1>12, OthersQueue, RollbackImplements DEF Log!LogNext
<1>13. CASE UNCHANGED tvars
  <2>1. Ordered'
    BY <1>13, StepOrders DEF Queued
  <2>2. Chained' /\ AwaitsAll' /\ ClosedIsEmpty'
    BY <1>13 DEF tvars, Queued, Chained, AwaitsAll, ClosedIsEmpty, Pending
  <2>3. UNCHANGED Log!lvars
    BY <1>13 DEF tvars, Log!lvars, Unwritten
  <2> QED BY <2>1, <2>2, <2>3 DEF Queued
<1> QED BY <1>1, <1>2, <1>3, <1>4, <1>5, <1>6, <1>7, <1>8, <1>9, <1>10, <1>11, <1>12, <1>13 DEF Next

\* ImplementsLog: buffer, chain and the two transactions are, step by step, the log of
\* RunLog: events are written from the lowest number up or lost together, another
\* writer appends above every row, a run is settled once its turn is written.
THEOREM TranscriptImplementsLog == Spec => ImplementsLog
<1>1. Init => Queued /\ Log!LogInit
  <2> SUFFICES ASSUME Init PROVE Queued /\ Log!LogInit
    OBVIOUS
  <2>1. Ordered
    BY InitOrders
  <2>2. memory.chain = <<>> /\ memory.buffer = NoRows
    BY NothingIs, NoRowsIsBatch DEF Init
  <2>3. Items(memory.chain) = {} /\ Pending = {}
    BY <2>2, EmptyHas, NoRowsIs DEF Items, Pending
  <2>4. Chained /\ AwaitsAll /\ ClosedIsEmpty
    BY <2>3, NoRowsIs DEF Init, Chained, AwaitsAll, ClosedIsEmpty, Idle
  <2>5. Unwritten = NoRows
    BY <2>1, <2>3, UnwrittenIs, EmptyIsNoRows
  <2>6. Log!LogInit
    BY <2>5 DEF Init, Log!LogInit, NoRows, Log!NoRows
  <2> QED BY <2>1, <2>4, <2>6 DEF Queued
<1>2. Queued /\ [Next]_tvars => Queued' /\ [Log!LogNext]_(Log!lvars)
  BY StepImplements
<1> QED BY <1>1, <1>2, PTL DEF Spec, ImplementsLog, Log!LogSpec
=============================================================================
