-------------------------- MODULE RunStreamProofs --------------------------
(***************************************************************************)
(* What a reader of a run is shown, proved for any backlog and any number   *)
(* of events, writers, faults, crashes and lost connections.  As long as    *)
(* nothing of the only turn was lost (Whole), whatever carries events to    *)
(* the screen carries them without a gap: the rows (RowsWhole), the backlog *)
(* of the bus (BacklogWhole), the frames on the way and what a connection   *)
(* and the page take as seen (WireWhole, ConnWhole, PageWhole).  A turn may  *)
(* speak after it was settled: what is numbered after that is InTime no more*)
(* and nothing is said of it.                                               *)
(***************************************************************************)
EXTENDS RunStream, FiniteSetTheorems, SequenceTheorems, TLAPS

\* A function from numbers to events.
Tables == UNION {[S -> Event] : S \in SUBSET Nat}

\* m is the highest number of S, or S is empty.
Top(S, m) == IF S = {} THEN m = 0 ELSE m \in S /\ \A s \in S : s <= m

\* A batch has a highest number, unless it is empty.
Batches == {f \in Tables : \E m \in Nat : Top(DOMAIN f, m)}
Sends == {f \in Tables : DOMAIN f # {}}

Polls == [at : {"idle", "rows", "status"}, from : Nat, status : BOOLEAN,
          again : BOOLEAN, againStatus : BOOLEAN]
Conns == [open : BOOLEAN, cursor : Nat, poll : Polls]
Pages == [source : {"none", "connecting", "open"}, lastId : Nat,
          tries : Nat, finished : BOOLEAN]

LogTyped ==
  /\ rows \in Batches /\ pending \in Tables
  /\ run \in Runs /\ turn \in Turns /\ history \in History
  /\ alive \in BOOLEAN /\ writing \in BOOLEAN

StreamTyped ==
  /\ backlog \in Batches /\ local \in BOOLEAN
  /\ conn \in Conns /\ wire \in Seq(Sends)
  /\ page \in Pages /\ screen \in Tables /\ trips \in Nat

Typed == LogTyped /\ StreamTyped

\* The hypothesis of EndShowsAll, before the first turn too: once false, false.
Whole ==
  turn.attempt <= 1 /\ history.lost = 0 /\ ~history.misread /\ turn.events <= Backlog

InTime(s) == run = "settled" => s <= turn.base + turn.spoken
UpTo(s) == (turn.base + 1)..s
Spoken == UpTo(turn.base + turn.events)

\* The done event stands where its turn numbered it.
DonesStand(f) ==
  \A s \in DOMAIN f : Done(f[s]) => turn.attempt = 1 /\ s = turn.base + f[s][2]

TurnSane ==
  /\ turn.attempt = 0 =>
       turn.base = 0 /\ turn.events = 0 /\ run = "queued" /\ alive = FALSE
  /\ alive = FALSE => DOMAIN pending = {}
  /\ turn.spoken <= turn.events

RowsWhole ==
  /\ DonesStand(rows) /\ DonesStand(pending)
  /\ \A s \in DOMAIN pending : turn.base <= s /\ s <= turn.base + turn.events
  /\ alive => \A k \in Spoken : k \in DOMAIN rows \cup DOMAIN pending
  /\ \A s \in DOMAIN rows : \A k \in UpTo(s) : k \in DOMAIN rows

BacklogWhole ==
  /\ alive = FALSE => DOMAIN backlog = {}
  /\ DonesStand(backlog)
  /\ \A s \in DOMAIN backlog : s \in Spoken
  /\ \A s \in DOMAIN backlog : \A k \in s..(turn.base + turn.events) : k \in DOMAIN backlog
  /\ alive /\ run # "settled" => \A k \in Spoken : k \in DOMAIN backlog
  /\ \A s \in DOMAIN backlog : InTime(s) => \A k \in UpTo(s) : k \in DOMAIN backlog

PageWhole ==
  /\ DonesStand(screen)
  /\ \A s \in DOMAIN screen : InTime(s) => \A k \in UpTo(s) : k \in DOMAIN screen
  /\ InTime(page.lastId) => \A k \in UpTo(page.lastId) : k \in DOMAIN screen

\* On the screen, or in one of the first sends that are on their way to it.
Shown(k, i) == k \in DOMAIN screen \/ \E j \in 1..i : k \in DOMAIN wire[j]

WireWhole ==
  /\ \A i \in 1..Len(wire) : DonesStand(wire[i])
  /\ \A i \in 1..Len(wire) : \A s \in DOMAIN wire[i] :
       InTime(s) => \A k \in UpTo(s) : Shown(k, i)

Seen(n) == InTime(n) => \A k \in UpTo(n) : Shown(k, Len(wire))

ConnWhole ==
  conn.open =>
    /\ Seen(conn.cursor) /\ Seen(conn.poll.from)
    /\ alive /\ run # "settled" /\ local => \A k \in Spoken : Shown(k, Len(wire))

ReaderInv == RowsWhole /\ BacklogWhole /\ PageWhole /\ WireWhole /\ ConnWhole

-----------------------------------------------------------------------------
(* Tables and their highest numbers.                                        *)

LEMMA TableIsRows ==
  ASSUME NEW f
  PROVE  f \in Tables <=> f = [s \in DOMAIN f |-> f[s]] /\ IsRows(f)
<1>1. ASSUME f \in Tables PROVE f = [s \in DOMAIN f |-> f[s]] /\ IsRows(f)
  BY <1>1 DEF Tables, IsRows
<1>2. ASSUME f = [s \in DOMAIN f |-> f[s]], IsRows(f) PROVE f \in Tables
  <2>1. f \in [DOMAIN f -> Event] /\ DOMAIN f \in SUBSET Nat
    BY <1>2 DEF IsRows
  <2> QED BY <2>1 DEF Tables
<1> QED BY <1>1, <1>2

\* What is in a table.
LEMMA TableHas ==
  ASSUME NEW f \in Tables
  PROVE  DOMAIN f \subseteq Nat /\ \A s \in DOMAIN f : f[s] \in Event
BY TableIsRows DEF IsRows

LEMMA NoRowsIs == NoRows \in Tables /\ DOMAIN NoRows = {}
<1>1. DOMAIN NoRows = {}
  BY DEF NoRows
<1>2. NoRows \in [{} -> Event]
  BY <1>1 DEF NoRows
<1> QED BY <1>1, <1>2 DEF Tables

LEMMA SingleIs ==
  ASSUME NEW n \in Nat, NEW e \in Event
  PROVE  /\ Single(n, e) \in Tables
         /\ DOMAIN Single(n, e) = {n} /\ Single(n, e)[n] = e
<1>1. Single(n, e) \in [{n} -> Event]
  BY DEF Single
<1> QED BY <1>1 DEF Single, Tables

\* ON CONFLICT DO NOTHING: what is there already wins.
LEMMA MergedIs ==
  ASSUME NEW f \in Tables, NEW g \in Tables
  PROVE  /\ Merged(f, g) \in Tables
         /\ DOMAIN Merged(f, g) = DOMAIN f \cup DOMAIN g
         /\ \A s \in DOMAIN f : Merged(f, g)[s] = f[s]
         /\ \A s \in DOMAIN g \ DOMAIN f : Merged(f, g)[s] = g[s]
<1>1. /\ DOMAIN f \cup DOMAIN g \subseteq Nat
      /\ \A s \in DOMAIN f : f[s] \in Event
      /\ \A s \in DOMAIN g : g[s] \in Event
  BY TableHas
<1>2. Merged(f, g) \in [DOMAIN f \cup DOMAIN g -> Event]
  BY <1>1 DEF Merged
<1>3. Merged(f, g) \in Tables
  BY <1>1, <1>2 DEF Tables
<1> QED BY <1>2, <1>3 DEF Merged

LEMMA KeepIs ==
  ASSUME NEW f \in Tables, NEW S
  PROVE  /\ Keep(f, S) \in Tables
         /\ DOMAIN Keep(f, S) = DOMAIN f \cap S
         /\ \A s \in DOMAIN f \cap S : Keep(f, S)[s] = f[s]
<1>1. DOMAIN f \cap S \subseteq Nat /\ \A s \in DOMAIN f \cap S : f[s] \in Event
  BY TableHas
<1>2. Keep(f, S) \in [DOMAIN f \cap S -> Event]
  BY <1>1 DEF Keep
<1> QED BY <1>1, <1>2 DEF Tables, Keep

LEMMA Max0IsTop ==
  ASSUME NEW S \in SUBSET Nat, NEW m \in Nat, Top(S, m)
  PROVE  Max0(S) = m
<1>1. CASE S = {}
  BY <1>1 DEF Top, Max0
<1>2. CASE S # {}
  <2> DEFINE c == CHOOSE x \in S : \A s \in S : s <= x
  <2>1. m \in S /\ \A s \in S : s <= m
    BY <1>2 DEF Top
  <2>2. c \in S /\ \A s \in S : s <= c
    <3>1. \E x \in S : \A s \in S : s <= x
      BY <2>1
    <3> QED BY <3>1, Zenon
  <2>3. c = m
    <3> HIDE DEF c
    <3>1. c \in Nat /\ c <= m /\ m <= c
      BY <2>1, <2>2
    <3> QED BY <3>1
  <2> QED BY <1>2, <2>3 DEF Max0
<1> QED BY <1>1, <1>2

LEMMA Max0OfBatch ==
  ASSUME NEW f \in Batches
  PROVE  Max0(DOMAIN f) \in Nat /\ Top(DOMAIN f, Max0(DOMAIN f))
<1>1. PICK m \in Nat : Top(DOMAIN f, m)
  BY DEF Batches
<1>2. Max0(DOMAIN f) = m
  <2>1. DOMAIN f \in SUBSET Nat
    BY TableHas DEF Batches
  <2> QED BY <1>1, <2>1, Max0IsTop
<1> QED BY <1>1, <1>2

\* Whoever keeps the upper part of a batch has a batch.
LEMMA UpperIsBatch ==
  ASSUME NEW f \in Batches, NEW S,
         \A s \in DOMAIN f \cap S : \A t \in DOMAIN f : t > s => t \in S
  PROVE  Keep(f, S) \in Batches
<1>1. PICK m \in Nat : Top(DOMAIN f, m)
  BY DEF Batches
<1>2. f \in Tables /\ DOMAIN f \subseteq Nat
  BY TableHas DEF Batches
<1>3. Keep(f, S) \in Tables /\ DOMAIN Keep(f, S) = DOMAIN f \cap S
  BY <1>2, KeepIs
<1>4. CASE DOMAIN f \cap S = {}
  BY <1>3, <1>4 DEF Batches, Top
<1>5. CASE DOMAIN f \cap S # {}
  <2>1. PICK s \in DOMAIN f \cap S : TRUE
    BY <1>5
  <2>2. m \in DOMAIN f /\ \A t \in DOMAIN f : t <= m
    BY <2>1, <1>1 DEF Top
  <2>3. m \in S
    <3>1. s \in Nat /\ m \in Nat /\ s <= m
      BY <2>1, <2>2, <1>2
    <3>2. CASE s = m
      BY <2>1, <3>2
    <3>3. CASE s # m
      <4>1. m > s
        BY <3>1, <3>3
      <4> QED BY <4>1, <2>1, <2>2
    <3> QED BY <3>2, <3>3
  <2>4. Top(DOMAIN f \cap S, m)
    BY <2>2, <2>3 DEF Top
  <2> QED BY <2>4, <1>3 DEF Batches
<1> QED BY <1>4, <1>5

\* The highest of a number and a batch.
LEMMA Max0With ==
  ASSUME NEW f \in Batches, NEW n \in Nat
  PROVE  /\ Max0({n} \cup DOMAIN f) \in Nat
         /\ Max0({n} \cup DOMAIN f) \in {n} \cup DOMAIN f
         /\ n <= Max0({n} \cup DOMAIN f)
         /\ \A s \in DOMAIN f : s <= Max0({n} \cup DOMAIN f)
<1>1. PICK m \in Nat : Top(DOMAIN f, m)
  BY DEF Batches
<1>2. DOMAIN f \subseteq Nat
  BY TableHas DEF Batches
<1> DEFINE top == IF m > n THEN m ELSE n
<1>3. top \in Nat /\ top \in {n} \cup DOMAIN f /\ n <= top /\ \A s \in DOMAIN f : s <= top
  <2>1. CASE DOMAIN f = {}
    BY <2>1, <1>1 DEF Top
  <2>2. CASE DOMAIN f # {}
    <3>1. m \in DOMAIN f /\ \A s \in DOMAIN f : s <= m
      BY <2>2, <1>1 DEF Top
    <3> QED BY <3>1, <1>2
  <2> QED BY <2>1, <2>2
<1>4. Max0({n} \cup DOMAIN f) = top
  <2> HIDE DEF top
  <2>1. Top({n} \cup DOMAIN f, top)
    BY <1>3 DEF Top
  <2>2. {n} \cup DOMAIN f \in SUBSET Nat
    BY <1>2
  <2> QED BY <2>1, <2>2, <1>3, Max0IsTop
<1> HIDE DEF top
<1> QED BY <1>3, <1>4

\* A batch stays one when a row is added, and when another's lower part is.
LEMMA AddedIsBatch ==
  ASSUME NEW f \in Batches, NEW g \in Batches
  PROVE  Merged(f, g) \in Batches
<1>1. PICK m \in Nat : Top(DOMAIN f, m)
  BY DEF Batches
<1>2. PICK n \in Nat : Top(DOMAIN g, n)
  BY DEF Batches
<1>3. f \in Tables /\ g \in Tables /\ DOMAIN f \subseteq Nat /\ DOMAIN g \subseteq Nat
  BY TableHas DEF Batches
<1>4. Merged(f, g) \in Tables /\ DOMAIN Merged(f, g) = DOMAIN f \cup DOMAIN g
  BY <1>3, MergedIs
<1>5. \E t \in Nat : Top(DOMAIN f \cup DOMAIN g, t)
  <2>1. CASE DOMAIN f = {}
    <3>1. Top(DOMAIN f \cup DOMAIN g, n)
      BY <2>1, <1>2 DEF Top
    <3> QED BY <3>1
  <2>2. CASE DOMAIN g = {}
    <3>1. Top(DOMAIN f \cup DOMAIN g, m)
      BY <2>2, <1>1 DEF Top
    <3> QED BY <3>1
  <2>3. CASE DOMAIN f # {} /\ DOMAIN g # {}
    <3>1. /\ m \in DOMAIN f /\ \A s \in DOMAIN f : s <= m
          /\ n \in DOMAIN g /\ \A s \in DOMAIN g : s <= n
      BY <2>3, <1>1, <1>2 DEF Top
    <3>2. CASE m <= n
      <4>1. Top(DOMAIN f \cup DOMAIN g, n)
        BY <3>1, <3>2, <1>3 DEF Top
      <4> QED BY <4>1
    <3>3. CASE n <= m
      <4>1. Top(DOMAIN f \cup DOMAIN g, m)
        BY <3>1, <3>3, <1>3 DEF Top
      <4> QED BY <4>1
    <3> QED BY <3>2, <3>3
  <2> QED BY <2>1, <2>2, <2>3
<1> QED BY <1>4, <1>5 DEF Batches

LEMMA SingleIsBatch ==
  ASSUME NEW n \in Nat, NEW e \in Event
  PROVE  Single(n, e) \in Batches
<1>1. Single(n, e) \in Tables /\ DOMAIN Single(n, e) = {n}
  BY SingleIs
<1>2. Top({n}, n)
  BY DEF Top
<1> QED BY <1>1, <1>2 DEF Batches

\* A row is added, unless its number is taken.
LEMMA AddedIs ==
  ASSUME NEW f \in Tables, NEW n \in Nat, NEW e \in Event
  PROVE  /\ Merged(f, Single(n, e)) \in Tables
         /\ DOMAIN Merged(f, Single(n, e)) = DOMAIN f \cup {n}
         /\ \A s \in DOMAIN f : Merged(f, Single(n, e))[s] = f[s]
         /\ n \notin DOMAIN f => Merged(f, Single(n, e))[n] = e
<1> DEFINE g == Single(n, e)
<1>1. g \in Tables /\ DOMAIN g = {n} /\ g[n] = e
  BY SingleIs
<1> HIDE DEF g
<1>2. /\ Merged(f, g) \in Tables
      /\ DOMAIN Merged(f, g) = DOMAIN f \cup {n}
      /\ \A s \in DOMAIN f : Merged(f, g)[s] = f[s]
      /\ \A s \in DOMAIN g \ DOMAIN f : Merged(f, g)[s] = g[s]
  BY <1>1, MergedIs
<1>3. n \notin DOMAIN f => Merged(f, g)[n] = e
  BY <1>1, <1>2
<1> QED BY <1>2, <1>3 DEF g

LEMMA NoRowsIsBatch == NoRows \in Batches
<1>1. Top(DOMAIN NoRows, 0)
  BY NoRowsIs DEF Top
<1> QED BY <1>1, NoRowsIs DEF Batches

-----------------------------------------------------------------------------
(* The rows and the turn: every step of a reader is one of RunLog.          *)

\* A reader changes nothing of what the dispatcher writes.
LEMMA StreamIsLog ==
  ASSUME [Next]_vars
  PROVE  [LogNext]_lvars
BY DEF Next, vars, LogNext, Start, Crash, Publish, SettleAndClear, Writing, PollAsked,
       PollDelivers, PollReadsStatus, PollFails, Connect, Deliver, StreamEnds, Disconnect,
       Receive, Discover

\* The stream is built on the log that RunTranscript writes.
THEOREM ReaderOnlyReads == Spec => LogSpec
<1>1. Init => LogInit
  BY DEF Init
<1>2. [Next]_vars => [LogNext]_lvars
  BY StreamIsLog
<1> QED BY <1>1, <1>2, PTL DEF Spec, LogSpec

LEMMA BoundsAreNumbers ==
  MaxEvents \in Nat /\ MaxAttempts \in Nat /\ MaxWrites \in Nat /\ MaxFaults \in Nat
BY LogAssumption

\* A turn has a number from 1 on, another writer has 0.
LEMMA IsEvent ==
  ASSUME NEW a \in 0..MaxAttempts, NEW n \in 0..(MaxEvents + MaxWrites), NEW d \in BOOLEAN
  PROVE  <<a, n, d>> \in Event
BY DEF Event

LEMMA NumbersTyped ==
  ASSUME LogTyped
  PROVE  /\ turn.attempt \in Nat /\ turn.base \in Nat /\ turn.events \in Nat /\ turn.spoken \in Nat
         /\ Max0(DOMAIN rows) \in Nat
         /\ DOMAIN rows \subseteq Nat /\ DOMAIN pending \subseteq Nat
<1>1. Max0(DOMAIN rows) \in Nat
  BY Max0OfBatch DEF LogTyped
<1>2. DOMAIN rows \subseteq Nat /\ DOMAIN pending \subseteq Nat
  BY TableHas DEF LogTyped, Batches
<1> QED BY <1>1, <1>2, LogAssumption DEF LogTyped, Turns

LEMMA NextTyped ==
  ASSUME LogTyped, NEW done \in BOOLEAN, turn.events < MaxEvents
  PROVE  NextSeq \in Nat /\ NextEvent(done) \in Event
BY NumbersTyped, LogAssumption DEF LogTyped, Turns, NextSeq, NextEvent, Event

LEMMA OldestIsBatch ==
  ASSUME LogTyped, NEW last \in DOMAIN pending
  PROVE  Oldest(last) \in Batches
<1>1. Oldest(last) \in Tables /\ DOMAIN Oldest(last) = DOMAIN pending \cap (0..last)
  BY KeepIs DEF Oldest, LogTyped
<1>2. Top(DOMAIN Oldest(last), last)
  BY <1>1, NumbersTyped DEF Top
<1> QED BY <1>1, <1>2, NumbersTyped DEF Batches

LEMMA HistoryStays ==
  ASSUME LogTyped, NEW recorded \in History, Fault(recorded), recorded.faults = history.faults
  PROVE  history' \in History
BY LogAssumption DEF Fault, History, LogTyped

LEMMA LogTypedStep ==
  ASSUME LogTyped, [LogNext]_lvars
  PROVE  LogTyped'
<1> USE DEF LogTyped
<1>1. CASE Begin
  <2>1. PICK base \in {Max0(DOMAIN rows), 0}, skipped \in Skipped :
          /\ getRunSeqBase(base)
          /\ turn' = [attempt |-> turn.attempt + 1, base |-> base, events |-> 0, spoken |-> 0]
          /\ pending' = IF skipped THEN Single(base, <<turn.attempt + 1, 0, FALSE>>) ELSE NoRows
    BY <1>1 DEF Begin
  <2>2. base \in Nat
    BY NumbersTyped
  <2>3. turn.attempt + 1 \in 0..MaxAttempts /\ turn.attempt \in Nat
    BY <1>1, NumbersTyped, LogAssumption DEF Begin, Turns
  <2>4. turn' \in Turns
    BY <2>1, <2>2, <2>3, LogAssumption DEF Turns
  <2>5. pending' \in Tables
    <3>1. <<turn.attempt + 1, 0, FALSE>> \in Event
      <4>1. 0 \in 0..(MaxEvents + MaxWrites)
        BY BoundsAreNumbers
      <4> QED BY <2>3, <4>1, IsEvent
    <3> QED BY <2>1, <2>2, <3>1, SingleIs, NoRowsIs
  <2>6. history' \in History
    <3>1. CASE UNCHANGED history
      BY <3>1
    <3>2. CASE Fault([history EXCEPT !.misread = TRUE])
      <4>1. [history EXCEPT !.misread = TRUE] \in History
        BY DEF History
      <4>2. [history EXCEPT !.misread = TRUE].faults = history.faults
        BY DEF History
      <4> QED BY <3>2, <4>1, <4>2, HistoryStays
    <3> QED BY <2>1, <3>1, <3>2 DEF getRunSeqBase
  <2> QED BY <1>1, <2>4, <2>5, <2>6 DEF Begin, Runs
<1>2. CASE Persist
  <2>1. PICK last \in DOMAIN pending :
          rows' = Merged(rows, Oldest(last)) /\ pending' = Later(last)
    BY <1>2 DEF Persist
  <2>2. rows' \in Batches
    BY <2>1, OldestIsBatch, AddedIsBatch
  <2>3. pending' \in Tables
    BY <2>1, KeepIs DEF Later
  <2> QED BY <1>2, <2>2, <2>3 DEF Persist
<1>3. CASE Lose
  <2>1. PICK last \in DOMAIN pending : pending' = Later(last)
    BY <1>3 DEF Lose
  <2>2. pending' \in Tables
    BY <2>1, KeepIs DEF Later
  <2>3. history' \in History
    <3> DEFINE lost == [history EXCEPT !.lost = @ + 1]
    <3>1. lost \in History /\ lost.faults = history.faults
      BY DEF History
    <3>2. history' = lost \/ Fault(lost)
      BY <1>3 DEF Lose
    <3> HIDE DEF lost
    <3> QED BY <3>1, <3>2, HistoryStays
  <2> QED BY <1>3, <2>2, <2>3 DEF Lose
<1>4. CASE End
  BY <1>4 DEF End, Runs, Turns
<1>5. CASE Settle
  BY <1>5 DEF Settle, Runs
<1>6. CASE Die
  BY <1>6, NoRowsIs DEF Die, Runs
<1>7. ASSUME NEW done \in BOOLEAN, Speak(done) PROVE LogTyped'
  <2>1. pending' \in Tables
    BY <1>7, NextTyped, SingleIs, MergedIs DEF Speak
  <2>2. turn' \in Turns
    BY <1>7, LogAssumption DEF Speak, Turns
  <2> QED BY <1>7, <2>1, <2>2 DEF Speak
<1>8. CASE WriterBegins
  <2>1. history' \in History
    BY <1>8, LogAssumption DEF WriterBegins, History
  <2> QED BY <1>8, <2>1 DEF WriterBegins
<1>9. CASE WriterAppends
  <2>1. <<0, history.writes, FALSE>> \in Event
    <3>1. 0 \in 0..MaxAttempts /\ history.writes \in 0..(MaxEvents + MaxWrites)
      BY BoundsAreNumbers DEF History
    <3> QED BY <3>1, IsEvent
  <2>2. Max0(DOMAIN rows) + 1 \in Nat
    BY NumbersTyped
  <2>3. rows' \in Batches
    BY <1>9, <2>1, <2>2, SingleIsBatch, AddedIsBatch DEF WriterAppends
  <2> QED BY <1>9, <2>3 DEF WriterAppends
<1>10. CASE WriterFails
  <2>1. history' \in History
    BY <1>10, HistoryStays DEF WriterFails
  <2> QED BY <1>10, <2>1 DEF WriterFails
<1>11. CASE UNCHANGED lvars
  BY <1>11 DEF lvars
<1> QED BY <1>1, <1>2, <1>3, <1>4, <1>5, <1>6, <1>7, <1>8, <1>9, <1>10, <1>11 DEF LogNext

LEMMA TurnSaneStep ==
  ASSUME LogTyped, TurnSane, [LogNext]_lvars
  PROVE  TurnSane'
<1> USE DEF TurnSane
<1>t. /\ turn.attempt \in Nat /\ turn.base \in Nat /\ turn.events \in Nat /\ turn.spoken \in Nat
      /\ turn \in Turns /\ run \in Runs /\ alive \in BOOLEAN
  BY NumbersTyped DEF LogTyped
<1>1. CASE Begin
  <2>1. PICK base \in {Max0(DOMAIN rows), 0} :
          turn' = [attempt |-> turn.attempt + 1, base |-> base, events |-> 0, spoken |-> 0]
    BY <1>1 DEF Begin
  <2>2. turn'.attempt # 0 /\ turn'.spoken <= turn'.events
    BY <2>1, <1>t
  <2> QED BY <1>1, <2>2 DEF Begin
<1>2. CASE Persist
  <2>1. alive = FALSE => FALSE
    BY <1>2 DEF Persist
  <2> QED BY <1>2, <2>1 DEF Persist
<1>3. CASE Lose
  <2>1. alive = FALSE => FALSE
    BY <1>3 DEF Lose
  <2> QED BY <1>3, <2>1 DEF Lose
<1>4. CASE End
  BY <1>4, <1>t DEF End, Turns
<1>5. CASE Settle
  BY <1>5 DEF Settle
<1>6. CASE Die
  <2>1. DOMAIN pending' = {}
    BY <1>6, NoRowsIs DEF Die
  <2> QED BY <1>6, <2>1 DEF Die
<1>7. ASSUME NEW done \in BOOLEAN, Speak(done) PROVE TurnSane'
  <2>1. /\ alive /\ alive' = alive /\ run' = run
        /\ turn'.attempt = turn.attempt /\ turn'.base = turn.base
        /\ turn'.events = turn.events + 1 /\ turn'.spoken = turn.spoken
    BY <1>7, <1>t DEF Speak, Turns
  <2> QED BY <2>1, <1>t
<1>8. CASE WriterBegins
  BY <1>8 DEF WriterBegins
<1>9. CASE WriterAppends
  BY <1>9 DEF WriterAppends
<1>10. CASE WriterFails
  BY <1>10 DEF WriterFails
<1>11. CASE UNCHANGED lvars
  BY <1>11 DEF lvars
<1> QED BY <1>1, <1>2, <1>3, <1>4, <1>5, <1>6, <1>7, <1>8, <1>9, <1>10, <1>11 DEF LogNext

\* What was lost stays lost.
LEMMA WholeBefore ==
  ASSUME LogTyped, TurnSane, [LogNext]_lvars, Whole'
  PROVE  Whole
<1> USE DEF Whole
<1>t. /\ turn.attempt \in Nat /\ turn.base \in Nat /\ turn.events \in Nat /\ turn.spoken \in Nat
      /\ turn \in Turns /\ history \in History /\ history.lost \in Nat /\ Backlog \in Nat
  BY NumbersTyped, StreamAssumption DEF LogTyped, History
<1>1. CASE Begin
  <2>1. PICK base \in {Max0(DOMAIN rows), 0} :
          /\ getRunSeqBase(base)
          /\ turn' = [attempt |-> turn.attempt + 1, base |-> base, events |-> 0, spoken |-> 0]
    BY <1>1 DEF Begin
  <2>2. turn.attempt = 0 /\ turn.events = 0
    BY <2>1, <1>t DEF TurnSane
  <2>3. CASE UNCHANGED history
    BY <2>2, <2>3, <1>t
  <2>4. CASE Fault([history EXCEPT !.misread = TRUE])
    BY <2>4, <1>t DEF Fault, History
  <2> QED BY <2>1, <2>3, <2>4 DEF getRunSeqBase
<1>2. CASE Persist
  BY <1>2 DEF Persist
<1>3. CASE Lose
  <2>1. history'.lost = history.lost + 1
    BY <1>3, <1>t DEF Lose, Fault, History
  <2> QED BY <2>1, <1>t
<1>4. CASE End
  BY <1>4, <1>t DEF End, Turns
<1>5. CASE Settle
  BY <1>5 DEF Settle
<1>6. CASE Die
  BY <1>6 DEF Die
<1>7. ASSUME NEW done \in BOOLEAN, Speak(done) PROVE Whole
  <2>1. turn'.attempt = turn.attempt /\ turn'.events = turn.events + 1 /\ history' = history
    BY <1>7, <1>t DEF Speak, Turns
  <2> QED BY <2>1, <1>t
<1>8. CASE WriterBegins
  BY <1>8, <1>t DEF WriterBegins, History
<1>9. CASE WriterAppends
  BY <1>9 DEF WriterAppends
<1>10. CASE WriterFails
  BY <1>10, <1>t DEF WriterFails, Fault, History
<1>11. CASE UNCHANGED lvars
  BY <1>11 DEF lvars
<1> QED BY <1>1, <1>2, <1>3, <1>4, <1>5, <1>6, <1>7, <1>8, <1>9, <1>10, <1>11 DEF LogNext

\* While nothing is lost the only turn keeps its numbers and what was in time remains so.
LEMMA TurnGoesOn ==
  ASSUME LogTyped, TurnSane, [LogNext]_lvars, Whole'
  PROVE  /\ turn.base <= turn'.base
         /\ turn'.base \in Nat /\ turn'.events \in Nat /\ turn'.spoken \in Nat
         /\ turn.attempt = 1 => turn'.attempt = 1 /\ turn'.base = turn.base
         /\ \A s \in Nat : InTime(s)' => InTime(s)
<1> USE DEF InTime
<1>t. /\ turn.attempt \in Nat /\ turn.base \in Nat /\ turn.events \in Nat /\ turn.spoken \in Nat
      /\ turn \in Turns /\ Max0(DOMAIN rows) \in Nat
  BY NumbersTyped DEF LogTyped
<1>u. /\ turn'.attempt \in Nat /\ turn'.base \in Nat
      /\ turn'.events \in Nat /\ turn'.spoken \in Nat
  <2>1. LogTyped'
    BY LogTypedStep
  <2> QED BY <2>1, BoundsAreNumbers DEF LogTyped, Turns
<1>1. CASE Begin
  <2>1. PICK base \in {Max0(DOMAIN rows), 0} :
          turn' = [attempt |-> turn.attempt + 1, base |-> base, events |-> 0, spoken |-> 0]
    BY <1>1 DEF Begin
  <2>2. turn.attempt = 0 /\ turn.base = 0 /\ run = "queued"
    BY <2>1, <1>t DEF TurnSane, Whole
  <2> QED BY <2>1, <2>2, <1>t, <1>u
<1>2. CASE End
  <2>1. turn'.base = turn.base /\ turn'.attempt = turn.attempt /\ run = "running"
    BY <1>2, <1>t DEF End, Turns
  <2> QED BY <2>1, <1>t, <1>u
<1>3. CASE Settle
  BY <1>3, <1>t, <1>u DEF Settle
<1>4. ASSUME NEW done \in BOOLEAN, Speak(done)
      PROVE  turn'.base = turn.base /\ turn'.attempt = turn.attempt
             /\ turn'.spoken = turn.spoken /\ run' = run
  BY <1>4, <1>t DEF Speak, Turns
<1>5. CASE Die
  BY <1>5, <1>t, <1>u DEF Die
<1>6. CASE Persist \/ Lose \/ WriterBegins \/ WriterAppends \/ WriterFails \/ UNCHANGED lvars
  <2>1. UNCHANGED <<turn, run>>
    BY <1>6 DEF Persist, Lose, WriterBegins, WriterAppends, WriterFails, lvars
  <2> QED BY <2>1, <1>t, <1>u
<1>7. ASSUME NEW done \in BOOLEAN, Speak(done)
      PROVE  /\ turn.base <= turn'.base
             /\ turn.attempt = 1 => turn'.attempt = 1 /\ turn'.base = turn.base
             /\ \A s \in Nat : InTime(s)' => InTime(s)
  BY <1>4, <1>7, <1>t, <1>u
<1> QED BY <1>1, <1>2, <1>3, <1>5, <1>6, <1>7, <1>u DEF LogNext

\* So is what a table holds.
LEMMA DonesGoOn ==
  ASSUME LogTyped, TurnSane, [LogNext]_lvars, Whole', NEW f, DonesStand(f)
  PROVE  DonesStand(f)'
BY TurnGoesOn DEF DonesStand

LEMMA UpToGoesOn ==
  ASSUME LogTyped, TurnSane, [LogNext]_lvars, Whole', NEW s \in Nat
  PROVE  UpTo(s)' \subseteq UpTo(s)
BY TurnGoesOn, NumbersTyped DEF UpTo

LEMMA NextEventStands ==
  ASSUME LogTyped, NEW done \in BOOLEAN
  PROVE  NextEvent(done)[1] = turn.attempt /\ NextEvent(done)[2] = turn.events + 1
         /\ (Done(NextEvent(done)) => done)
BY DEF NextEvent, Done

LEMMA RowsWholeStep ==
  ASSUME LogTyped, TurnSane, RowsWhole, [LogNext]_lvars, Whole'
  PROVE  RowsWhole'
<1>t. /\ turn.attempt \in Nat /\ turn.base \in Nat /\ turn.events \in Nat /\ turn.spoken \in Nat
      /\ turn \in Turns /\ Max0(DOMAIN rows) \in Nat
      /\ DOMAIN rows \subseteq Nat /\ DOMAIN pending \subseteq Nat
      /\ rows \in Tables /\ pending \in Tables /\ rows \in Batches
  BY NumbersTyped DEF LogTyped, Batches
<1>g. Whole /\ LogTyped'
  BY WholeBefore, LogTypedStep
<1>r. DonesStand(rows) /\ DonesStand(pending)
  BY DEF RowsWhole
<1>1. CASE Begin
  <2>1. PICK base \in {Max0(DOMAIN rows), 0}, skipped \in Skipped :
          /\ turn' = [attempt |-> turn.attempt + 1, base |-> base, events |-> 0, spoken |-> 0]
          /\ pending' = IF skipped THEN Single(base, <<turn.attempt + 1, 0, FALSE>>) ELSE NoRows
    BY <1>1 DEF Begin
  <2>2. turn.attempt = 0 /\ turn.base = 0 /\ base \in Nat
    BY <2>1, <1>t, <1>g DEF TurnSane, Whole
  <2>3. rows' = rows /\ turn'.base = base /\ turn'.events = 0
    BY <1>1, <2>1 DEF Begin
  <2>4. DonesStand(rows)'
    BY <1>r, <2>2, <2>3 DEF DonesStand
  <2>5. DOMAIN pending' \subseteq {base} /\ \A s \in DOMAIN pending' : ~Done(pending'[s])
    <3> DEFINE notice == <<1, 0, FALSE>>
    <3>1. notice \in Event
      <4>1. 1 \in 0..MaxAttempts /\ 0 \in 0..(MaxEvents + MaxWrites)
        BY <1>1, <2>2, BoundsAreNumbers DEF Begin
      <4> QED BY <4>1, IsEvent
    <3>2. ~Done(notice)
      BY DEF Done
    <3>3. pending' = Single(base, notice) \/ pending' = NoRows
      BY <2>1, <2>2
    <3> HIDE DEF notice
    <3>4. DOMAIN Single(base, notice) = {base} /\ Single(base, notice)[base] = notice
      BY <3>1, <2>2, SingleIs
    <3>5. CASE pending' = Single(base, notice)
      BY <3>2, <3>4, <3>5
    <3>6. CASE pending' = NoRows
      BY <3>6, NoRowsIs
    <3> QED BY <3>3, <3>5, <3>6
  <2>6. DonesStand(pending)'
    BY <2>5 DEF DonesStand
  <2>7. \A s \in DOMAIN pending' : turn'.base <= s /\ s <= turn'.base + turn'.events
    BY <2>5, <2>3, <2>2
  <2>8. \A k \in Spoken' : FALSE
    BY <2>3, <2>2 DEF Spoken, UpTo
  <2>9. \A s \in DOMAIN rows : \A k \in UpTo(s)' : k \in UpTo(s)
    BY <2>2, <2>3, <1>t DEF UpTo
  <2> QED BY <2>3, <2>4, <2>6, <2>7, <2>8, <2>9 DEF RowsWhole
<1>2. CASE Persist
  <2>1. PICK last \in DOMAIN pending :
          rows' = Merged(rows, Oldest(last)) /\ pending' = Later(last)
    BY <1>2 DEF Persist
  <2>2. /\ Oldest(last) \in Tables
        /\ DOMAIN Oldest(last) = DOMAIN pending \cap (0..last)
        /\ \A s \in DOMAIN Oldest(last) : Oldest(last)[s] = pending[s]
    BY <1>t, KeepIs DEF Oldest
  <2>3. /\ DOMAIN rows' = DOMAIN rows \cup (DOMAIN pending \cap (0..last))
        /\ \A s \in DOMAIN rows : rows'[s] = rows[s]
        /\ \A s \in DOMAIN rows' : s \notin DOMAIN rows => s \in DOMAIN pending /\ rows'[s] = pending[s]
    BY <2>1, <2>2, <1>t, MergedIs
  <2>4. /\ DOMAIN pending' = {s \in DOMAIN pending : s > last}
        /\ \A s \in DOMAIN pending' : pending'[s] = pending[s]
    <3>1. DOMAIN pending' = DOMAIN pending \cap {s \in DOMAIN pending : s > last}
      BY <2>1, <1>t, KeepIs DEF Later
    <3>2. \A s \in DOMAIN pending' : pending'[s] = pending[s]
      BY <2>1, <1>t, KeepIs DEF Later
    <3> QED BY <3>1, <3>2
  <2>5. UNCHANGED <<run, turn, alive, writing, history>>
    BY <1>2 DEF Persist
  <2>6. DonesStand(rows)'
    BY <1>r, <2>3, <2>5 DEF DonesStand
  <2>7. DonesStand(pending)'
    BY <1>r, <2>4, <2>5 DEF DonesStand
  <2>8. alive
    BY <2>1 DEF TurnSane, LogTyped
  <2>9. \A k \in Spoken : k \in DOMAIN rows' \cup DOMAIN pending'
    <3>1. \A k \in Spoken : k \in DOMAIN rows \cup DOMAIN pending /\ k \in Nat
      BY <2>8, <1>t DEF RowsWhole, Spoken, UpTo
    <3>2. \A k \in DOMAIN pending : k \in 0..last \/ k > last
      BY <1>t
    <3> QED BY <3>1, <3>2, <2>3, <2>4
  <2>10. ASSUME NEW s \in DOMAIN rows', NEW k \in UpTo(s)
         PROVE  k \in DOMAIN rows'
    <3>1. CASE s \in DOMAIN rows
      BY <3>1, <2>3 DEF RowsWhole
    <3>2. CASE s \notin DOMAIN rows
      <4>1. s \in DOMAIN pending /\ s <= last /\ s \in Nat
        BY <3>2, <2>3, <1>t
      <4>2. s <= turn.base + turn.events
        BY <4>1 DEF RowsWhole
      <4>3. k \in Spoken /\ k \in 0..last
        BY <4>1, <4>2, <1>t DEF Spoken, UpTo
      <4>4. k \in DOMAIN rows \cup DOMAIN pending
        BY <4>3, <2>8 DEF RowsWhole
      <4> QED BY <4>3, <4>4, <2>3
    <3> QED BY <3>1, <3>2
  <2>11. /\ \A s \in DOMAIN pending' : turn'.base <= s /\ s <= turn'.base + turn'.events
         /\ Spoken' = Spoken
    BY <2>4, <2>5 DEF RowsWhole, Spoken, UpTo
  <2>12. \A s \in DOMAIN rows' : UpTo(s)' = UpTo(s)
    BY <2>5 DEF UpTo
  <2> QED BY <2>6, <2>7, <2>9, <2>10, <2>11, <2>12 DEF RowsWhole
<1>3. CASE Lose
  <2>1. history'.lost = history.lost + 1 /\ history.lost \in Nat
    BY <1>3 DEF Lose, Fault, History, LogTyped
  <2> QED BY <2>1 DEF Whole
<1>4. CASE End
  <2>1. /\ UNCHANGED <<rows, alive, pending>>
        /\ turn'.attempt = turn.attempt /\ turn'.base = turn.base /\ turn'.events = turn.events
    BY <1>4, <1>t DEF End, Turns
  <2> QED BY <2>1 DEF RowsWhole, DonesStand, Spoken, UpTo
<1>5. CASE Settle \/ WriterBegins \/ WriterFails \/ UNCHANGED lvars
  <2>1. UNCHANGED <<rows, alive, pending, turn>>
    BY <1>5 DEF Settle, WriterBegins, WriterFails, lvars
  <2> QED BY <2>1 DEF RowsWhole, DonesStand, Spoken, UpTo
<1>6. CASE Die
  <2>1. UNCHANGED <<rows, turn>> /\ alive' = FALSE /\ DOMAIN pending' = {}
    BY <1>6, NoRowsIs DEF Die
  <2> QED BY <2>1 DEF RowsWhole, DonesStand, Spoken, UpTo
<1>7. ASSUME NEW done \in BOOLEAN, Speak(done) PROVE RowsWhole'
  <2>1. /\ alive /\ UNCHANGED <<rows, run, alive>>
        /\ turn'.attempt = turn.attempt /\ turn'.base = turn.base
        /\ turn'.events = turn.events + 1
        /\ turn.events < MaxEvents
    BY <1>7, <1>t DEF Speak, Turns
  <2>2. turn.attempt = 1
    BY <2>1, <1>t, <1>g DEF TurnSane, Whole
  <2>3. NextSeq \in Nat /\ NextEvent(done) \in Event
    BY <2>1, NextTyped
  <2>4. pending' = Merged(pending, Single(NextSeq, NextEvent(done)))
    BY <1>7 DEF Speak
  <2>5. /\ DOMAIN pending' = DOMAIN pending \cup {NextSeq}
        /\ \A s \in DOMAIN pending : pending'[s] = pending[s]
        /\ NextSeq \notin DOMAIN pending => pending'[NextSeq] = NextEvent(done)
    BY <2>3, <2>4, <1>t, AddedIs
  <2>6. NextSeq = turn.base + turn.events + 1
    BY DEF NextSeq
  <2>7. DonesStand(rows)'
    BY <1>r, <2>1 DEF DonesStand
  <2>8. DonesStand(pending)'
    <3>1. NextEvent(done)[2] = turn.events + 1
      BY NextEventStands
    <3>2. \A s \in DOMAIN pending' : s \in DOMAIN pending \/ (s = NextSeq /\ pending'[s] = NextEvent(done))
      BY <2>5
    <3>3. NextSeq = turn.base + NextEvent(done)[2]
      BY <3>1, <2>6, <1>t
    <3> QED BY <1>r, <2>1, <2>2, <2>5, <3>2, <3>3 DEF DonesStand
  <2>9. \A s \in DOMAIN pending' : turn'.base <= s /\ s <= turn'.base + turn'.events
    BY <2>1, <2>5, <2>6, <1>t DEF RowsWhole
  <2>10. \A k \in Spoken' : k \in Spoken \/ k = NextSeq
    BY <2>1, <2>6, <1>t DEF Spoken, UpTo
  <2>11. \A s \in DOMAIN rows' : UpTo(s)' = UpTo(s)
    BY <2>1 DEF UpTo
  <2> QED BY <2>1, <2>5, <2>7, <2>8, <2>9, <2>10, <2>11 DEF RowsWhole
<1>8. CASE WriterAppends
  <2>1. PICK m \in Nat : m = Max0(DOMAIN rows)
    BY <1>t
  <2>2. PICK e \in Event : e = <<0, history.writes, FALSE>>
    <3>1. 0 \in 0..MaxAttempts /\ history.writes \in 0..(MaxEvents + MaxWrites)
      BY BoundsAreNumbers DEF History, LogTyped
    <3> QED BY <3>1, IsEvent
  <2>3. ~Done(e)
    BY <2>2 DEF Done
  <2>n. PICK n \in Nat : n = m + 1
    OBVIOUS
  <2>4. rows' = Merged(rows, Single(n, e)) /\ UNCHANGED <<run, turn, alive, pending>>
    BY <1>8, <2>1, <2>2, <2>n DEF WriterAppends
  <2>6. /\ DOMAIN rows' = DOMAIN rows \cup {m + 1}
        /\ \A s \in DOMAIN rows : rows'[s] = rows[s]
        /\ m + 1 \notin DOMAIN rows => rows'[m + 1] = e
    BY <2>4, <2>n, <1>t, AddedIs
  <2>7. DonesStand(rows)'
    BY <1>r, <2>3, <2>4, <2>6 DEF DonesStand
  <2>8. Top(DOMAIN rows, m)
    BY <2>1, <1>t, Max0OfBatch
  <2>9. ASSUME NEW s \in DOMAIN rows', NEW k \in UpTo(s)
        PROVE  k \in DOMAIN rows'
    <3>1. CASE s \in DOMAIN rows
      BY <3>1, <2>6 DEF RowsWhole
    <3>2. CASE s = m + 1
      <4>1. CASE k = m + 1
        BY <4>1, <2>6
      <4>2. CASE k # m + 1
        <5>1. k \in Nat /\ k <= m /\ turn.base + 1 <= k
          BY <4>2, <3>2, <1>t DEF UpTo
        <5>2. m \in DOMAIN rows
          BY <5>1, <2>8, <1>t DEF Top
        <5>3. k \in UpTo(m)
          BY <5>1, <1>t DEF UpTo
        <5> QED BY <5>2, <5>3, <2>6 DEF RowsWhole
      <4> QED BY <4>1, <4>2
    <3> QED BY <3>1, <3>2, <2>6
  <2>10. DonesStand(pending)' /\ Spoken' = Spoken /\ \A s \in DOMAIN rows' : UpTo(s)' = UpTo(s)
    BY <1>r, <2>4 DEF DonesStand, Spoken, UpTo
  <2>11. alive' => \A k \in Spoken : k \in DOMAIN rows' \cup DOMAIN pending'
    BY <2>4, <2>6 DEF RowsWhole
  <2>12. \A s \in DOMAIN pending' : turn'.base <= s /\ s <= turn'.base + turn'.events
    BY <2>4 DEF RowsWhole
  <2> QED BY <2>7, <2>9, <2>10, <2>11, <2>12 DEF RowsWhole
<1> QED BY <1>1, <1>2, <1>3, <1>4, <1>5, <1>6, <1>7, <1>8 DEF LogNext

-----------------------------------------------------------------------------
(* What the route and the page do to what they keep.                        *)

LEMMA BatchIsTable ==
  ASSUME NEW f \in Batches
  PROVE  f \in Tables /\ DOMAIN f \subseteq Nat
BY TableHas DEF Batches

LEMMA FreshIs ==
  ASSUME NEW f \in Batches, NEW n \in Nat
  PROVE  /\ Fresh(f, n) \in Batches
         /\ \A s : s \in DOMAIN Fresh(f, n) <=> s \in DOMAIN f /\ s > n
         /\ \A s \in DOMAIN Fresh(f, n) : Fresh(f, n)[s] = f[s]
<1> DEFINE above == {s \in DOMAIN f : s > n}
<1>1. DOMAIN f \subseteq Nat /\ f \in Tables
  BY BatchIsTable
<1>2. \A s \in DOMAIN f \cap above : \A t \in DOMAIN f : t > s => t \in above
  BY <1>1
<1>3. \A s : s \in DOMAIN f \cap above <=> s \in DOMAIN f /\ s > n
  OBVIOUS
<1>4. Fresh(f, n) = Keep(f, above)
  BY DEF Fresh
<1> HIDE DEF above
<1>5. Keep(f, above) \in Batches
  BY <1>2, UpperIsBatch
<1>6. /\ DOMAIN Keep(f, above) = DOMAIN f \cap above
      /\ \A s \in DOMAIN f \cap above : Keep(f, above)[s] = f[s]
  BY <1>1, KeepIs
<1> QED BY <1>3, <1>4, <1>5, <1>6

LEMMA UpToDoneIs ==
  ASSUME NEW f \in Tables
  PROVE  /\ UpToDone(f) \in Tables
         /\ \A s \in DOMAIN UpToDone(f) : s \in DOMAIN f /\ UpToDone(f)[s] = f[s]
         /\ \A s \in DOMAIN UpToDone(f) : \A k \in DOMAIN f : k <= s => k \in DOMAIN UpToDone(f)
         /\ ~Ends(f) => DOMAIN UpToDone(f) = DOMAIN f
<1> DEFINE heard == {s \in DOMAIN f : \A d \in DOMAIN f : Done(f[d]) => s <= d}
<1>1. DOMAIN f \subseteq Nat
  BY TableHas
<1>2. UpToDone(f) = Keep(f, heard)
  BY DEF UpToDone
<1>3. \A s \in heard : \A k \in DOMAIN f : k <= s => k \in heard
  BY <1>1
<1>4. ~Ends(f) => heard = DOMAIN f
  BY DEF Ends
<1>5. heard \subseteq DOMAIN f
  OBVIOUS
<1> HIDE DEF heard
<1>6. DOMAIN UpToDone(f) = heard
  BY <1>2, <1>5, KeepIs
<1> QED BY <1>2, <1>3, <1>4, <1>5, <1>6, KeepIs

LEMMA SentIs ==
  ASSUME StreamTyped, NEW f \in Tables
  PROVE  /\ Sent(f) \in Seq(Sends)
         /\ Len(wire) \in Nat /\ Len(Sent(f)) \in Nat /\ Len(wire) <= Len(Sent(f))
         /\ \A i \in 1..Len(wire) : Sent(f)[i] = wire[i]
         /\ \A i \in 1..Len(Sent(f)) :
              i \in 1..Len(wire) \/ (i = Len(Sent(f)) /\ Sent(f)[i] = f)
         /\ DOMAIN f # {} => Len(Sent(f)) \in 1..Len(Sent(f)) /\ Sent(f)[Len(Sent(f))] = f
<1>1. wire \in Seq(Sends)
  BY DEF StreamTyped
<1>2. CASE DOMAIN f = {}
  BY <1>1, <1>2 DEF Sent
<1>3. CASE DOMAIN f # {}
  <2>1. f \in Sends
    BY <1>3 DEF Sends
  <2>2. Sent(f) = Append(wire, f)
    BY <1>3 DEF Sent
  <2> QED BY <1>1, <2>1, <2>2
<1> QED BY <1>2, <1>3

LEMMA ClosedIs == Closed \in Conns /\ Closed.open = FALSE
BY DEF Closed, NoPoll, Conns, Polls

LEMMA PassingIs ==
  ASSUME NEW c \in Conns, NEW f \in Batches
  PROVE  /\ Passing(c, f) \in Conns
         /\ Passing(c, f).open = c.open /\ Passing(c, f).poll = c.poll
         /\ Passing(c, f).cursor \in Nat /\ Passing(c, f).cursor \in {c.cursor} \cup DOMAIN f
<1>1. c.cursor \in Nat
  BY DEF Conns
<1>2. PICK m \in Nat : m = Max0({c.cursor} \cup DOMAIN f) /\ m \in {c.cursor} \cup DOMAIN f
  BY <1>1, Max0With
<1>3. Passing(c, f) = [c EXCEPT !.cursor = m]
  BY <1>2 DEF Passing
<1> QED BY <1>2, <1>3 DEF Conns

LEMMA StartPollIs ==
  ASSUME NEW c \in Conns, NEW status \in BOOLEAN
  PROVE  /\ StartPoll(c, status) \in Conns
         /\ StartPoll(c, status).open = c.open /\ StartPoll(c, status).cursor = c.cursor
         /\ StartPoll(c, status).poll.from \in {c.poll.from, c.cursor}
<1> DEFINE started == [NoPoll EXCEPT !.at = "rows", !.from = c.cursor, !.status = status]
           wished == [c.poll EXCEPT !.again = TRUE, !.againStatus = @ \/ status]
<1>1. c.poll \in Polls /\ c.cursor \in Nat /\ c.open \in BOOLEAN
  BY DEF Conns
<1>2. started \in Polls /\ started.from = c.cursor
  BY <1>1 DEF Polls, NoPoll
<1>3. wished \in Polls /\ wished.from = c.poll.from
  <2>1. c.poll.againStatus \/ status \in BOOLEAN
    BY <1>1 DEF Polls
  <2> QED BY <1>1, <2>1 DEF Polls
<1>4. StartPoll(c, status) = [c EXCEPT !.poll = started]
      \/ StartPoll(c, status) = [c EXCEPT !.poll = wished]
  <2>1. CASE c.poll.at = "idle"
    BY <2>1 DEF StartPoll
  <2>2. CASE c.poll.at # "idle"
    <3>1. StartPoll(c, status) =
            [c EXCEPT !.poll = [c.poll EXCEPT !.again = TRUE, !.againStatus = @ \/ status]]
      BY <2>2 DEF StartPoll
    <3> QED BY <3>1
  <2> QED BY <2>1, <2>2
<1> HIDE DEF started, wished
<1> QED BY <1>1, <1>2, <1>3, <1>4 DEF Conns

LEMMA EndPollIs ==
  ASSUME NEW c \in Conns
  PROVE  /\ EndPoll(c) \in Conns
         /\ EndPoll(c).open = c.open /\ EndPoll(c).cursor = c.cursor
         /\ EndPoll(c).poll.from \in {0, c.cursor}
<1> DEFINE ended == [c EXCEPT !.poll = NoPoll]
<1>1. /\ ended \in Conns /\ ended.open = c.open /\ ended.cursor = c.cursor
      /\ ended.poll.from = 0
  BY DEF Conns, Polls, NoPoll
<1>2. c.poll.againStatus \in BOOLEAN
  BY DEF Conns, Polls
<1>3. EndPoll(c) = ended \/ EndPoll(c) = StartPoll(ended, c.poll.againStatus)
  BY DEF EndPoll
<1> HIDE DEF ended
<1> QED BY <1>1, <1>2, <1>3, StartPollIs

\* What is sent is a lower part of what is new, and a stream that stays open has
\* passed all of it.
LEMMA DeliverIs ==
  ASSUME NEW c \in Conns, NEW events \in Batches, Deliver(c, events)
  PROVE  \E g \in Tables :
           /\ wire' = Sent(g)
           /\ \A s \in DOMAIN g : s \in DOMAIN events /\ s > c.cursor /\ g[s] = events[s]
           /\ \A s \in DOMAIN g : \A k \in DOMAIN events : k > c.cursor /\ k <= s => k \in DOMAIN g
           /\ conn' \in Conns
           /\ \/ conn' = Closed
              \/ /\ conn'.open = c.open /\ conn'.poll = c.poll
                 /\ conn'.cursor \in {c.cursor} \cup DOMAIN g
                 /\ \A s \in DOMAIN events : s > c.cursor => s \in DOMAIN g
<1>1. c.cursor \in Nat
  BY DEF Conns
<1>2. PICK fresh \in Batches :
        /\ fresh = Fresh(events, c.cursor)
        /\ \A s : s \in DOMAIN fresh <=> s \in DOMAIN events /\ s > c.cursor
        /\ \A s \in DOMAIN fresh : fresh[s] = events[s]
  BY <1>1, FreshIs
<1>3. fresh \in Tables
  BY BatchIsTable
<1>4. PICK g \in Tables :
        /\ g = UpToDone(fresh)
        /\ \A s \in DOMAIN g : s \in DOMAIN fresh /\ g[s] = fresh[s]
        /\ \A s \in DOMAIN g : \A k \in DOMAIN fresh : k <= s => k \in DOMAIN g
        /\ ~Ends(fresh) => DOMAIN g = DOMAIN fresh
  BY <1>3, UpToDoneIs
<1>5. /\ wire' = Sent(g)
      /\ conn' = IF Ends(fresh) THEN Closed ELSE Passing(c, fresh)
  BY <1>2, <1>4 DEF Deliver
<1>6. \/ conn' = Closed
      \/ /\ conn' \in Conns /\ conn'.open = c.open /\ conn'.poll = c.poll
         /\ conn'.cursor \in {c.cursor} \cup DOMAIN g
         /\ \A s \in DOMAIN events : s > c.cursor => s \in DOMAIN g
  <2>1. CASE Ends(fresh)
    BY <2>1, <1>5
  <2>2. CASE ~Ends(fresh)
    <3>1. DOMAIN g = DOMAIN fresh /\ conn' = Passing(c, fresh)
      BY <2>2, <1>4, <1>5
    <3> QED BY <3>1, <1>2, PassingIs
  <2> QED BY <2>1, <2>2
<1>7. conn' \in Conns
  BY <1>6, ClosedIs
<1>8. /\ \A s \in DOMAIN g : s \in DOMAIN events /\ s > c.cursor /\ g[s] = events[s]
      /\ \A s \in DOMAIN g : \A k \in DOMAIN events : k > c.cursor /\ k <= s => k \in DOMAIN g
  BY <1>2, <1>4
<1> QED BY <1>5, <1>6, <1>7, <1>8

\* A frame is taken from the first send, and the send with its last frame.
LEMMA UnreadIs ==
  ASSUME StreamTyped, wire # <<>>, NEW s \in DOMAIN wire[1]
  PROVE  /\ Unread(s) \in Seq(Sends) /\ Len(Unread(s)) \in Nat /\ Len(wire) \in Nat
         /\ \/ /\ DOMAIN wire[1] = {s} /\ Len(wire) = Len(Unread(s)) + 1
               /\ \A j \in 1..Len(Unread(s)) : Unread(s)[j] = wire[j + 1]
            \/ /\ Len(Unread(s)) = Len(wire) /\ 1 \in 1..Len(wire)
               /\ \A j \in 1..Len(wire) : j # 1 => Unread(s)[j] = wire[j]
               /\ DOMAIN Unread(s)[1] = DOMAIN wire[1] \ {s}
               /\ \A t \in DOMAIN Unread(s)[1] : Unread(s)[1][t] = wire[1][t]
<1>1. wire \in Seq(Sends) /\ Len(wire) \in Nat /\ Len(wire) # 0
  BY DEF StreamTyped
<1>2. 1 \in 1..Len(wire)
  BY <1>1
<1>3. wire[1] \in Sends /\ wire[1] \in Tables
  BY <1>1, <1>2 DEF Sends
<1>4. PICK rest \in Tables :
        /\ rest = Keep(wire[1], DOMAIN wire[1] \ {s})
        /\ DOMAIN rest = DOMAIN wire[1] \ {s}
        /\ \A t \in DOMAIN rest : rest[t] = wire[1][t]
  <2>1. PICK f \in Tables : f = wire[1]
    BY <1>3
  <2> DEFINE r == Keep(f, DOMAIN f \ {s})
  <2>2. /\ r \in Tables /\ DOMAIN r = DOMAIN f \cap (DOMAIN f \ {s})
        /\ \A t \in DOMAIN r : r[t] = f[t]
    BY KeepIs
  <2> HIDE DEF r
  <2>3. DOMAIN r = DOMAIN f \ {s}
    BY <2>2
  <2> QED BY <2>1, <2>2, <2>3 DEF r
<1>5. CASE DOMAIN rest = {}
  <2>1. Unread(s) = Tail(wire)
    BY <1>4, <1>5 DEF Unread
  <2>2. DOMAIN wire[1] = {s}
    BY <1>4, <1>5
  <2>3. /\ Tail(wire) \in Seq(Sends) /\ Len(Tail(wire)) = Len(wire) - 1
        /\ \A j \in 1..Len(Tail(wire)) : Tail(wire)[j] = wire[j + 1]
    BY <1>1, wire # <<>>, HeadTailProperties
  <2>4. Len(Tail(wire)) \in Nat /\ Len(wire) = Len(Tail(wire)) + 1
    BY <2>3, <1>1
  <2>5. /\ Unread(s) \in Seq(Sends) /\ Len(Unread(s)) \in Nat
        /\ Len(wire) = Len(Unread(s)) + 1
        /\ \A j \in 1..Len(Unread(s)) : Unread(s)[j] = wire[j + 1]
    BY <2>1, <2>3, <2>4, Zenon
  <2> QED BY <2>2, <2>5, <1>1, Zenon
<1>6. CASE DOMAIN rest # {}
  <2>1. Unread(s) = [wire EXCEPT ![1] = rest]
    BY <1>4, <1>6 DEF Unread
  <2>2. rest \in Sends
    BY <1>6 DEF Sends
  <2>3. Unread(s) \in Seq(Sends) /\ Len(Unread(s)) = Len(wire)
    BY <1>1, <2>1, <2>2
  <2>4. Unread(s)[1] = rest /\ \A j \in 1..Len(wire) : j # 1 => Unread(s)[j] = wire[j]
    BY <1>1, <1>2, <2>1
  <2> QED BY <2>3, <2>4, <1>1, <1>2, <1>4
<1> QED BY <1>5, <1>6

LEMMA AskedIs ==
  ASSUME NEW c \in Conns
  PROVE  /\ [c EXCEPT !.poll.at = "status", !.poll.from = 0] \in Conns
         /\ [c EXCEPT !.poll.at = "status", !.poll.from = 0].open = c.open
         /\ [c EXCEPT !.poll.at = "status", !.poll.from = 0].cursor = c.cursor
         /\ [c EXCEPT !.poll.at = "status", !.poll.from = 0].poll.from = 0
BY DEF Conns, Polls

\* A connection that is opened, and the poll it begins with.
LEMMA OpenedIs ==
  ASSUME NEW n \in Nat
  PROVE  \E c \in Conns :
           /\ c = StartPoll([Closed EXCEPT !.open = TRUE, !.cursor = n], TRUE)
           /\ c.open = TRUE /\ c.cursor = n /\ c.poll.from \in {0, n}
<1> DEFINE opened == [Closed EXCEPT !.open = TRUE, !.cursor = n]
<1>1. opened \in Conns /\ opened.open = TRUE /\ opened.cursor = n /\ opened.poll.from = 0
  BY DEF Closed, NoPoll, Conns, Polls
<1> HIDE DEF opened
<1>2. /\ StartPoll(opened, TRUE) \in Conns
      /\ StartPoll(opened, TRUE).open = TRUE /\ StartPoll(opened, TRUE).cursor = n
      /\ StartPoll(opened, TRUE).poll.from \in {0, n}
  BY <1>1, StartPollIs
<1> QED BY <1>2 DEF opened

\* The poll that reads rows ends, waits for the status, or ends the stream.
LEMMA PollDeliversIs ==
  ASSUME Typed, PollDelivers
  PROVE  \E g \in Tables :
           /\ wire' = Sent(g)
           /\ \A s : s \in DOMAIN g <=> s \in DOMAIN rows /\ s > conn.poll.from
           /\ \A s \in DOMAIN g : g[s] = rows[s]
           /\ conn' \in Conns
           /\ \/ conn' = Closed
              \/ /\ conn'.open = conn.open /\ conn'.cursor \in {conn.cursor} \cup DOMAIN g
                 /\ conn'.poll.from \in {0, conn'.cursor}
<1>1. /\ conn \in Conns /\ conn.poll.from \in Nat /\ rows \in Batches
  BY DEF Typed, StreamTyped, LogTyped, Conns, Polls
<1>2. PICK g \in Batches :
        /\ g = Fresh(rows, conn.poll.from)
        /\ \A s : s \in DOMAIN g <=> s \in DOMAIN rows /\ s > conn.poll.from
        /\ \A s \in DOMAIN g : g[s] = rows[s]
  BY <1>1, FreshIs
<1>3. g \in Tables
  BY BatchIsTable
<1>4. PICK c \in Conns :
        /\ c = Passing(conn, g)
        /\ c.open = conn.open /\ c.cursor \in {conn.cursor} \cup DOMAIN g
  BY <1>1, PassingIs
<1>5. wire' = Sent(g)
  BY <1>2 DEF PollDelivers
<1>6. \/ conn' = Closed
      \/ conn' = [c EXCEPT !.poll.at = "status", !.poll.from = 0]
      \/ conn' = EndPoll(c)
  BY <1>2, <1>4 DEF PollDelivers
<1>7. CASE conn' = Closed
  BY <1>2, <1>3, <1>5, <1>7, ClosedIs
<1>8. CASE conn' = [c EXCEPT !.poll.at = "status", !.poll.from = 0]
  <2>1. /\ conn' \in Conns /\ conn'.open = c.open /\ conn'.cursor = c.cursor
        /\ conn'.poll.from = 0
    BY <1>8, AskedIs
  <2> QED BY <1>2, <1>3, <1>4, <1>5, <2>1
<1>9. CASE conn' = EndPoll(c)
  <2>1. /\ conn' \in Conns /\ conn'.open = c.open /\ conn'.cursor = c.cursor
        /\ conn'.poll.from \in {0, c.cursor}
    BY <1>9, EndPollIs
  <2> QED BY <1>2, <1>3, <1>4, <1>5, <2>1
<1> QED BY <1>6, <1>7, <1>8, <1>9

\* A connection is made: what is sent comes from the backlog of its own process.
LEMMA ConnectIs ==
  ASSUME Typed, Connect
  PROVE  \E c \in Conns, events \in Batches :
           /\ Deliver(c, events)
           /\ c.open = TRUE /\ c.cursor = page.lastId /\ c.poll.from \in {0, page.lastId}
           /\ events = IF local THEN backlog ELSE NoRows
<1>1. page.lastId \in Nat /\ backlog \in Batches
  BY DEF Typed, StreamTyped, Pages
<1>2. PICK c \in Conns :
        /\ c = StartPoll([Closed EXCEPT !.open = TRUE, !.cursor = page.lastId], TRUE)
        /\ c.open = TRUE /\ c.cursor = page.lastId /\ c.poll.from \in {0, page.lastId}
  BY <1>1, OpenedIs
<1>3. PICK events \in Batches : events = IF local THEN backlog ELSE NoRows
  BY <1>1, NoRowsIsBatch
<1>4. Deliver(c, events)
  BY <1>2, <1>3 DEF Connect
<1> QED BY <1>2, <1>3, <1>4

\* A live event, and what it does to a stream of the same process.
LEMMA PublishIs ==
  ASSUME Typed, NEW done \in BOOLEAN, Publish(done)
  PROVE  \E live \in Batches :
           /\ DOMAIN live = {NextSeq} /\ live[NextSeq] = NextEvent(done)
           /\ backlog' = Buffered(Merged(backlog, live))
           /\ IF local /\ conn.open THEN Deliver(conn, live) ELSE UNCHANGED <<conn, wire>>
<1>1. NextSeq \in Nat /\ NextEvent(done) \in Event
  BY NextTyped DEF Typed, Publish, Speak
<1>2. PICK live \in Batches :
        /\ live = Single(NextSeq, NextEvent(done))
        /\ DOMAIN live = {NextSeq} /\ live[NextSeq] = NextEvent(done)
  BY <1>1, SingleIsBatch, SingleIs
<1> QED BY <1>2 DEF Publish

LEMMA BufferedIs ==
  ASSUME NEW kept \in Batches
  PROVE  Buffered(kept) \in Batches
<1> DEFINE later == {s \in DOMAIN kept : \E t \in DOMAIN kept : t < s}
<1>1. DOMAIN kept \subseteq Nat
  BY BatchIsTable
<1>2. \A s \in DOMAIN kept \cap later : \A t \in DOMAIN kept : t > s => t \in later
  BY <1>1
<1>3. Buffered(kept) = Keep(kept, later) \/ Buffered(kept) = kept
  BY DEF Buffered
<1> HIDE DEF later
<1> QED BY <1>2, <1>3, UpperIsBatch

LEMMA PageIs ==
  ASSUME NEW p \in Pages, NEW source \in {"none", "connecting", "open"}, NEW n \in Nat,
         NEW b \in BOOLEAN
  PROVE  /\ [p EXCEPT !.finished = b] \in Pages /\ [p EXCEPT !.finished = b].lastId = p.lastId
         /\ [p EXCEPT !.source = source] \in Pages /\ [p EXCEPT !.source = source].lastId = p.lastId
         /\ [p EXCEPT !.lastId = n] \in Pages /\ [p EXCEPT !.lastId = n].lastId = n
         /\ [p EXCEPT !.source = source, !.lastId = n] \in Pages
         /\ [p EXCEPT !.source = source, !.lastId = n].lastId = n
         /\ [p EXCEPT !.source = source, !.finished = b, !.lastId = n] \in Pages
         /\ [p EXCEPT !.source = source, !.finished = b, !.lastId = n].lastId = n
BY DEF Pages

\* A frame arrives; the done event closes the source.
LEMMA ReceiveIs ==
  ASSUME Typed, Receive
  PROVE  \E s \in Nat :
           /\ 1 \in 1..Len(wire) /\ wire # <<>> /\ s \in DOMAIN wire[1]
           /\ \A t \in DOMAIN wire[1] : s <= t
           /\ screen' \in Tables /\ DOMAIN screen' = DOMAIN screen \cup {s}
           /\ \A t \in DOMAIN screen : t # s => screen'[t] = screen[t]
           /\ screen'[s] = wire[1][s]
           /\ page' \in Pages
           /\ \/ conn' = Closed /\ wire' = <<>> /\ page'.lastId = 0
              \/ conn' = conn /\ wire' = Unread(s) /\ page'.lastId = s
<1>1. /\ wire \in Seq(Sends) /\ wire # <<>> /\ screen \in Tables /\ page \in Pages
  BY DEF Typed, StreamTyped, Receive
<1>2. 1 \in 1..Len(wire)
  BY <1>1
<1>3. wire[1] \in Tables
  BY <1>1, <1>2 DEF Sends
<1>4. PICK s \in DOMAIN wire[1] :
        /\ \A t \in DOMAIN wire[1] : s <= t
        /\ screen' = mergeRunEvents(screen, Single(s, wire[1][s]))
        /\ IF Done(wire[1][s])
             THEN /\ page' = [page EXCEPT !.source = "none", !.finished = TRUE, !.lastId = 0]
                  /\ conn' = Closed /\ wire' = <<>>
             ELSE /\ page' = [page EXCEPT !.lastId = s]
                  /\ wire' = Unread(s) /\ UNCHANGED conn
  BY DEF Receive
<1>5. s \in Nat
  BY <1>3, TableHas
<1>6. PICK e \in Event : e = wire[1][s]
  BY <1>3, TableHas
<1>7. PICK frame \in Tables : frame = Single(s, e) /\ DOMAIN frame = {s} /\ frame[s] = e
  BY <1>5, SingleIs
<1>8. PICK seen \in Tables : seen = screen
  BY <1>1
<1>9. screen' = Merged(frame, seen)
  BY <1>4, <1>6, <1>7, <1>8 DEF mergeRunEvents
<1>10. /\ screen' \in Tables /\ DOMAIN screen' = DOMAIN screen \cup {s}
       /\ \A t \in DOMAIN screen : t # s => screen'[t] = screen[t]
       /\ screen'[s] = wire[1][s]
  <2>1. /\ Merged(frame, seen) \in Tables
        /\ DOMAIN Merged(frame, seen) = DOMAIN frame \cup DOMAIN seen
        /\ \A t \in DOMAIN frame : Merged(frame, seen)[t] = frame[t]
        /\ \A t \in DOMAIN seen \ DOMAIN frame : Merged(frame, seen)[t] = seen[t]
    BY MergedIs
  <2> QED BY <2>1, <1>6, <1>7, <1>8, <1>9
<1>11. /\ page' \in Pages
       /\ \/ conn' = Closed /\ wire' = <<>> /\ page'.lastId = 0
          \/ conn' = conn /\ wire' = Unread(s) /\ page'.lastId = s
  <2>1. CASE Done(wire[1][s])
    <3>1. page' = [page EXCEPT !.source = "none", !.finished = TRUE, !.lastId = 0]
      BY <2>1, <1>4
    <3>2. page' \in Pages /\ page'.lastId = 0
      BY <3>1, <1>1, PageIs
    <3> QED BY <3>2, <2>1, <1>4
  <2>2. CASE ~Done(wire[1][s])
    <3>1. page' = [page EXCEPT !.lastId = s]
      BY <2>2, <1>4
    <3>2. page' \in Pages /\ page'.lastId = s
      BY <3>1, <1>1, <1>5, PageIs
    <3> QED BY <3>2, <2>2, <1>4
  <2> QED BY <2>1, <2>2
<1> QED BY <1>1, <1>2, <1>4, <1>5, <1>10, <1>11

\* The list is merged in: what it holds is shown as it is.
LEMMA DiscoverIs ==
  ASSUME Typed, Discover
  PROVE  /\ screen' \in Tables /\ DOMAIN screen' = DOMAIN screen \cup DOMAIN rows
         /\ \A s \in DOMAIN rows : screen'[s] = rows[s]
         /\ \A s \in DOMAIN screen : s \notin DOMAIN rows => screen'[s] = screen[s]
         /\ page' \in Pages /\ page'.lastId \in {page.lastId, Max0(DOMAIN rows)}
<1>1. PICK r \in Tables : r = rows
  BY DEF Typed, LogTyped, Batches
<1>2. PICK seen \in Tables : seen = screen
  BY DEF Typed, StreamTyped
<1>3. screen' = Merged(r, seen)
  BY <1>1, <1>2 DEF Discover, mergeRunEvents
<1>4. page' \in Pages /\ page'.lastId \in {page.lastId, Max0(DOMAIN rows)}
  <2>1. Max0(DOMAIN rows) \in Nat /\ page \in Pages
    BY NumbersTyped DEF Typed, StreamTyped
  <2>2. PICK p \in Pages, m \in Nat : p = page /\ m = Max0(DOMAIN rows)
    BY <2>1
  <2>3. CASE page' = [p EXCEPT !.finished = TRUE]
    BY <2>2, <2>3, PageIs
  <2>4. CASE page' = p
    BY <2>2, <2>4
  <2>5. CASE page' = [p EXCEPT !.source = "connecting", !.lastId = m]
    <3>1. /\ [p EXCEPT !.source = "connecting", !.lastId = m] \in Pages
          /\ [p EXCEPT !.source = "connecting", !.lastId = m].lastId = m
      BY DEF Pages
    <3> QED BY <2>2, <2>5, <3>1
  <2> QED BY <2>2, <2>3, <2>4, <2>5 DEF Discover
<1>5. /\ Merged(r, seen) \in Tables
      /\ DOMAIN Merged(r, seen) = DOMAIN r \cup DOMAIN seen
      /\ \A t \in DOMAIN r : Merged(r, seen)[t] = r[t]
      /\ \A t \in DOMAIN seen \ DOMAIN r : Merged(r, seen)[t] = seen[t]
  BY MergedIs
<1> QED BY <1>1, <1>2, <1>3, <1>4, <1>5

LEMMA onerrorIs ==
  ASSUME StreamTyped, onerror
  PROVE  page' \in Pages /\ page'.lastId = page.lastId
<1>1. PICK p \in Pages, n \in Nat : p = page /\ n = page.tries + 1
  BY DEF StreamTyped, Pages
<1>2. PICK source \in {"none", "connecting", "open"} :
        source = IF n >= MaxReconnects THEN "none" ELSE "connecting"
  OBVIOUS
<1>3. CASE page' = [p EXCEPT !.source = "connecting"]
  BY <1>1, <1>3, PageIs
<1>4. CASE page' = [p EXCEPT !.tries = n, !.source = source]
  <2>1. /\ [p EXCEPT !.tries = n, !.source = source] \in Pages
        /\ [p EXCEPT !.tries = n, !.source = source].lastId = p.lastId
    BY DEF Pages
  <2> QED BY <1>1, <1>4, <2>1
<1> QED BY <1>1, <1>2, <1>3, <1>4 DEF onerror

LEMMA ConnectPage ==
  ASSUME StreamTyped, Connect
  PROVE  page' \in Pages /\ page'.lastId = page.lastId
<1>1. PICK p \in Pages : p = page
  BY DEF StreamTyped
<1>2. /\ [p EXCEPT !.source = "open", !.tries = 0] \in Pages
      /\ [p EXCEPT !.source = "open", !.tries = 0].lastId = p.lastId
  BY DEF Pages
<1> QED BY <1>1, <1>2 DEF Connect

\* A step either leaves the reader alone or is one of these.
LEMMA ReaderSteps ==
  ASSUME [Next]_vars
  PROVE  \/ UNCHANGED <<wire, conn, page, screen>>
         \/ PollDelivers \/ Connect \/ Disconnect \/ Receive \/ Discover \/ StreamEnds \/ Crash
         \/ \E status \in BOOLEAN : PollAsked(status)
         \/ PollReadsStatus \/ PollFails
         \/ \E done \in BOOLEAN : Publish(done)
BY DEF Next, vars, svars, Start, SettleAndClear

\* And so for the backlog.
LEMMA BusSteps ==
  ASSUME [Next]_vars
  PROVE  \/ UNCHANGED backlog /\ (Begin \/ End \/ UNCHANGED <<run, turn, alive>>)
         \/ Crash
         \/ \E threw \in BOOLEAN : SettleAndClear(threw)
         \/ \E done \in BOOLEAN : Publish(done)
BY DEF Next, vars, svars, lvars, Start, Writing, Persist, Lose, WriterBegins, WriterAppends,
       WriterFails, PollDelivers, Connect, Disconnect, Receive, Discover, StreamEnds,
       PollAsked, PollReadsStatus, PollFails

LEMMA StreamTypedStep ==
  ASSUME Typed, [Next]_vars
  PROVE  StreamTyped'
<1>t. /\ backlog \in Batches /\ local \in BOOLEAN /\ conn \in Conns /\ wire \in Seq(Sends)
      /\ page \in Pages /\ screen \in Tables /\ trips \in Nat /\ StreamTyped
  BY DEF Typed, StreamTyped
<1>1. trips' \in Nat
  <2>1. trips' = trips \/ trips' = trips + 1
    BY DEF Next, vars, svars, Start, Crash, Publish, SettleAndClear, PollAsked, PollDelivers,
       PollReadsStatus, PollFails, Connect, StreamEnds, Disconnect, Receive, Discover
  <2> QED BY <2>1, <1>t
<1>2. local' \in BOOLEAN
  BY <1>t DEF Next, vars, svars, Start, Crash, Publish, SettleAndClear, PollAsked, PollDelivers,
       PollReadsStatus, PollFails, Connect, StreamEnds, Disconnect, Receive, Discover
<1>3. backlog' \in Batches
  <2>1. CASE Crash
    BY <2>1, NoRowsIsBatch DEF Crash
  <2>2. ASSUME NEW threw \in BOOLEAN, SettleAndClear(threw) PROVE backlog' \in Batches
    BY <2>2, <1>t, NoRowsIsBatch DEF SettleAndClear
  <2>3. ASSUME NEW done \in BOOLEAN, Publish(done) PROVE backlog' \in Batches
    <3>1. PICK live \in Batches : backlog' = Buffered(Merged(backlog, live))
      BY <2>3, PublishIs
    <3>2. PICK kept \in Batches : kept = Merged(backlog, live)
      BY <1>t, AddedIsBatch
    <3> QED BY <3>1, <3>2, BufferedIs
  <2> QED BY <2>1, <2>2, <2>3, <1>t, BusSteps
<1>4. wire' \in Seq(Sends) /\ conn' \in Conns /\ page' \in Pages /\ screen' \in Tables
  <2> DEFINE Goal == wire' \in Seq(Sends) /\ conn' \in Conns /\ page' \in Pages /\ screen' \in Tables
  <2>e. <<>> \in Seq(Sends)
    OBVIOUS
  <2>1. CASE PollDelivers
    <3>1. wire' \in Seq(Sends) /\ conn' \in Conns
      BY <2>1, <1>t, PollDeliversIs, SentIs
    <3> QED BY <3>1, <2>1, <1>t DEF PollDelivers
  <2>2. CASE Connect
    <3>1. wire' \in Seq(Sends) /\ conn' \in Conns
      BY <2>2, <1>t, ConnectIs, DeliverIs, SentIs
    <3>2. page' \in Pages
      BY <2>2, <1>t, ConnectPage
    <3> QED BY <3>1, <3>2, <2>2, <1>t DEF Connect
  <2>3. CASE Disconnect
    BY <2>3, <2>e, <1>t, onerrorIs, ClosedIs DEF Disconnect
  <2>4. CASE Receive
    <3>1. PICK s \in DOMAIN wire[1] :
            /\ screen' \in Tables /\ page' \in Pages /\ wire # <<>>
            /\ (conn' = Closed /\ wire' = <<>>) \/ (conn' = conn /\ wire' = Unread(s))
      BY <2>4, ReceiveIs
    <3>2. Unread(s) \in Seq(Sends)
      BY <3>1, <1>t, UnreadIs
    <3> QED BY <3>1, <3>2, <2>e, <1>t, ClosedIs
  <2>5. CASE Discover
    BY <2>5, <1>t, DiscoverIs DEF Discover
  <2>6. CASE StreamEnds
    BY <2>6, <1>t, onerrorIs DEF StreamEnds
  <2>7. CASE Crash
    BY <2>7, <2>e, <1>t, ClosedIs DEF Crash
  <2>8. ASSUME NEW status \in BOOLEAN, PollAsked(status) PROVE Goal
    BY <2>8, <1>t, StartPollIs DEF PollAsked
  <2>9. CASE PollReadsStatus
    BY <2>9, <1>t, ClosedIs, EndPollIs DEF PollReadsStatus
  <2>10. CASE PollFails
    BY <2>10, <1>t, EndPollIs DEF PollFails
  <2>11. ASSUME NEW done \in BOOLEAN, Publish(done) PROVE Goal
    <3>1. PICK live \in Batches :
            IF local /\ conn.open THEN Deliver(conn, live) ELSE UNCHANGED <<conn, wire>>
      BY <2>11, PublishIs
    <3>2. wire' \in Seq(Sends) /\ conn' \in Conns
      <4>1. CASE local /\ conn.open
        <5>1. PICK c \in Conns : c = conn
          BY <1>t
        <5>2. Deliver(c, live)
          BY <3>1, <4>1, <5>1
        <5> QED BY <5>2, <1>t, DeliverIs, SentIs
      <4>2. CASE ~(local /\ conn.open)
        BY <3>1, <4>2, <1>t
      <4> QED BY <4>1, <4>2
    <3> QED BY <3>2, <2>11, <1>t DEF Publish
  <2>12. CASE UNCHANGED <<wire, conn, page, screen>>
    BY <2>12, <1>t
  <2> QED BY <2>1, <2>2, <2>3, <2>4, <2>5, <2>6, <2>7, <2>8, <2>9, <2>10, <2>11, <2>12, ReaderSteps
<1> QED BY <1>1, <1>2, <1>3, <1>4 DEF StreamTyped

-----------------------------------------------------------------------------
(* The backlog holds all the turn has spoken until it is settled.           *)

\* While the turn fits in it nothing is forgotten.
LEMMA NothingForgotten ==
  ASSUME Typed, NEW kept, NEW n \in Nat, n <= Backlog,
         \A s \in DOMAIN kept : s \in (turn.base + 1)..(turn.base + n)
  PROVE  Buffered(kept) = kept
<1>1. turn.base \in Nat /\ Backlog \in Nat
  BY NumbersTyped, StreamAssumption DEF Typed
<1> DEFINE room == (turn.base + 1)..(turn.base + n)
<1>2. IsFiniteSet(room) /\ Cardinality(room) = n
  <2>1. turn.base + 1 \in Int /\ turn.base + n \in Int
    BY <1>1
  <2>2. IsFiniteSet(room)
    BY <2>1, FS_Interval
  <2>3. Cardinality(room) = IF turn.base + 1 > turn.base + n THEN 0
                            ELSE (turn.base + n) - (turn.base + 1) + 1
    BY <2>1, FS_Interval
  <2>4. Cardinality(room) = n
    <3> DEFINE size == Cardinality(room)
    <3>1. size = IF turn.base + 1 > turn.base + n THEN 0
                 ELSE (turn.base + n) - (turn.base + 1) + 1
      BY <2>3
    <3> HIDE DEF size
    <3>2. size = n
      BY <3>1, <1>1
    <3> QED BY <3>2 DEF size
  <2> QED BY <2>2, <2>4
<1>3. DOMAIN kept \subseteq room
  OBVIOUS
<1> HIDE DEF room
<1>4. Cardinality(DOMAIN kept) \in Nat /\ Cardinality(DOMAIN kept) <= n
  <2>1. IsFiniteSet(DOMAIN kept) /\ Cardinality(DOMAIN kept) <= Cardinality(room)
    BY <1>2, <1>3, FS_Subset
  <2>2. Cardinality(DOMAIN kept) \in Nat
    BY <2>1, FS_CardinalityType
  <2> QED BY <1>2, <2>1, <2>2
<1>5. ~(Cardinality(DOMAIN kept) > Backlog)
  BY <1>1, <1>4
<1> QED BY <1>5 DEF Buffered

LEMMA BacklogWholeStep ==
  ASSUME Typed, TurnSane, BacklogWhole, [Next]_vars, Whole'
  PROVE  BacklogWhole'
<1>l. LogTyped /\ [LogNext]_lvars
  BY StreamIsLog DEF Typed
<1>t. /\ turn.attempt \in Nat /\ turn.base \in Nat /\ turn.events \in Nat /\ turn.spoken \in Nat
      /\ turn \in Turns /\ Max0(DOMAIN rows) \in Nat
      /\ backlog \in Tables /\ DOMAIN backlog \subseteq Nat
  BY <1>l, NumbersTyped, BatchIsTable DEF Typed, LogTyped, StreamTyped
<1>g. Whole
  BY <1>l, WholeBefore
<1>s. /\ \A s \in Nat : InTime(s)' => InTime(s)
      /\ DonesStand(backlog)
  BY <1>l, TurnGoesOn DEF BacklogWhole
<1>1. CASE Crash
  <2>1. DOMAIN backlog' = {} /\ alive' = FALSE
    BY <1>1, NoRowsIs DEF Crash, Die
  <2> QED BY <2>1 DEF BacklogWhole, DonesStand
<1>2. ASSUME NEW threw \in BOOLEAN, SettleAndClear(threw) PROVE BacklogWhole'
  <2>1. UNCHANGED <<turn, alive>> /\ run' = "settled" /\ run # "settled"
    BY <1>2 DEF SettleAndClear, Settle
  <2>2. CASE backlog' = backlog
    BY <2>1, <2>2, <1>s DEF BacklogWhole, DonesStand, Spoken, UpTo, InTime
  <2>3. CASE backlog' = NoRows
    <3>1. DOMAIN backlog' = {}
      BY <2>3, NoRowsIs
    <3> QED BY <3>1, <2>1 DEF BacklogWhole, DonesStand
  <2> QED BY <1>2, <2>2, <2>3 DEF SettleAndClear
<1>3. ASSUME NEW done \in BOOLEAN, Publish(done) PROVE BacklogWhole'
  <2>1. /\ alive /\ UNCHANGED <<run, alive>>
        /\ turn'.attempt = turn.attempt /\ turn'.base = turn.base
        /\ turn'.spoken = turn.spoken /\ turn'.events = turn.events + 1
        /\ turn.events < MaxEvents
    BY <1>3, <1>t DEF Publish, Speak, Turns
  <2>2. turn.attempt = 1 /\ NextSeq = turn.base + turn.events + 1 /\ NextSeq \in Nat
    BY <2>1, <1>t, <1>g DEF TurnSane, Whole, NextSeq
  <2>3. PICK live \in Batches :
          /\ DOMAIN live = {NextSeq} /\ live[NextSeq] = NextEvent(done)
          /\ backlog' = Buffered(Merged(backlog, live))
    BY <1>3, PublishIs
  <2>4. PICK kept : kept = Merged(backlog, live)
    OBVIOUS
  <2>5. /\ DOMAIN kept = DOMAIN backlog \cup {NextSeq}
        /\ \A s \in DOMAIN backlog : kept[s] = backlog[s]
        /\ NextSeq \notin DOMAIN backlog => kept[NextSeq] = NextEvent(done)
    <3>1. PICK there \in Tables : there = backlog
      BY <1>t
    <3>2. live \in Tables
      BY BatchIsTable
    <3>3. /\ DOMAIN Merged(there, live) = DOMAIN there \cup DOMAIN live
          /\ \A s \in DOMAIN there : Merged(there, live)[s] = there[s]
          /\ \A s \in DOMAIN live \ DOMAIN there : Merged(there, live)[s] = live[s]
      BY <3>2, MergedIs
    <3> QED BY <3>1, <3>3, <2>3, <2>4
  <2>6. \A s \in DOMAIN kept : s \in (turn.base + 1)..(turn.base + (turn.events + 1))
    <3>1. \A s \in DOMAIN backlog : s \in (turn.base + 1)..(turn.base + turn.events)
      BY DEF BacklogWhole, Spoken, UpTo
    <3> QED BY <3>1, <2>2, <2>5, <1>t
  <2>7. backlog' = kept
    <3>1. PICK n \in Nat : n = turn.events + 1
      BY <1>t
    <3>2. n <= Backlog
      BY <3>1, <2>1 DEF Whole
    <3> QED BY <3>1, <3>2, <2>3, <2>4, <2>6, NothingForgotten
  <2>8. DonesStand(backlog)'
    <3>1. NextEvent(done)[2] = turn.events + 1
      BY <1>l, NextEventStands
    <3>2. NextSeq = turn.base + NextEvent(done)[2]
      BY <3>1, <2>2, <1>t
    <3>3. \A s \in DOMAIN kept : s \in DOMAIN backlog \/ (s = NextSeq /\ kept[s] = NextEvent(done))
      BY <2>5
    <3> QED BY <1>s, <2>1, <2>2, <2>5, <2>7, <3>2, <3>3 DEF DonesStand
  <2>9. \A s \in DOMAIN backlog' : s \in Spoken'
    BY <2>1, <2>6, <2>7, <1>t DEF Spoken, UpTo
  <2>10. ASSUME NEW s \in DOMAIN backlog', NEW k \in s..(turn'.base + turn'.events)
         PROVE  k \in DOMAIN backlog'
    <3>1. s \in Nat /\ s <= NextSeq
      BY <2>2, <2>6, <2>7, <1>t
    <3>2. k \in Nat /\ s <= k /\ k <= NextSeq
      BY <3>1, <2>1, <2>2, <1>t
    <3>3. CASE k = NextSeq
      BY <3>3, <2>5, <2>7
    <3>4. CASE k # NextSeq
      <4>1. s \in DOMAIN backlog /\ k \in s..(turn.base + turn.events)
        BY <3>1, <3>2, <3>4, <2>2, <2>5, <2>7, <1>t
      <4> QED BY <4>1, <2>5, <2>7 DEF BacklogWhole
    <3> QED BY <3>3, <3>4
  <2>11. ASSUME run # "settled", NEW k \in Spoken' PROVE k \in DOMAIN backlog'
    <3>1. k \in Spoken \/ k = NextSeq
      BY <2>1, <2>2, <1>t DEF Spoken, UpTo
    <3> QED BY <3>1, <2>1, <2>5, <2>7, <2>11 DEF BacklogWhole
  <2>12. ASSUME NEW s \in DOMAIN backlog', InTime(s)', NEW k \in UpTo(s)'
         PROVE  k \in DOMAIN backlog'
    <3>1. s \in Nat /\ InTime(s) /\ k \in UpTo(s)
      BY <2>1, <2>2, <2>5, <2>7, <2>12, <1>s, <1>t DEF UpTo
    <3>2. CASE s \in DOMAIN backlog
      BY <3>1, <3>2, <2>5, <2>7 DEF BacklogWhole
    <3>3. CASE s = NextSeq
      <4>1. run # "settled"
        BY <3>1, <3>3, <2>2, <1>t DEF InTime, TurnSane
      <4>2. k \in Spoken'
        BY <3>1, <3>3, <2>1, <2>2, <1>t DEF Spoken, UpTo
      <4> QED BY <4>1, <4>2, <2>11
    <3> QED BY <3>2, <3>3, <2>5, <2>7
  <2> QED BY <2>1, <2>8, <2>9, <2>10, <2>11, <2>12 DEF BacklogWhole
<1>4. CASE UNCHANGED backlog /\ Begin
  <2>1. turn.attempt = 0
    <3>1. turn'.attempt = turn.attempt + 1
      BY <1>4 DEF Begin
    <3> QED BY <3>1, <1>t DEF Whole
  <2>2. DOMAIN backlog = {} /\ alive' = TRUE
    BY <1>4, <2>1 DEF TurnSane, BacklogWhole, Begin
  <2>3. \A k \in Spoken' : FALSE
    <3>1. turn'.events = 0 /\ turn'.base \in Nat
      BY <1>4, <1>t DEF Begin
    <3> QED BY <3>1 DEF Spoken, UpTo
  <2> QED BY <1>4, <2>2, <2>3 DEF BacklogWhole, DonesStand
<1>5. CASE UNCHANGED backlog /\ End
  <2>1. /\ UNCHANGED <<alive, backlog>> /\ run = "running" /\ run' = "ending"
        /\ turn'.attempt = turn.attempt /\ turn'.base = turn.base /\ turn'.events = turn.events
    BY <1>5, <1>t DEF End, Turns
  <2> QED BY <2>1 DEF BacklogWhole, DonesStand, Spoken, UpTo, InTime
<1>6. CASE UNCHANGED backlog /\ UNCHANGED <<run, turn, alive>>
  BY <1>6 DEF BacklogWhole, DonesStand, Spoken, UpTo, InTime
<1> QED BY <1>1, <1>2, <1>3, <1>4, <1>5, <1>6, BusSteps

-----------------------------------------------------------------------------
(* The screen and the frames on their way to it.                            *)

LEMMA NumbersSent ==
  ASSUME Typed
  PROVE  /\ DOMAIN screen \subseteq Nat /\ DOMAIN rows \subseteq Nat /\ DOMAIN backlog \subseteq Nat
         /\ Len(wire) \in Nat
         /\ \A i \in 1..Len(wire) : wire[i] \in Tables /\ DOMAIN wire[i] \subseteq Nat
         /\ page.lastId \in Nat /\ conn.cursor \in Nat /\ conn.poll.from \in Nat
<1>1. /\ screen \in Tables /\ rows \in Batches /\ backlog \in Batches /\ wire \in Seq(Sends)
      /\ page \in Pages /\ conn \in Conns
  BY DEF Typed, LogTyped, StreamTyped
<1>2. /\ DOMAIN screen \subseteq Nat /\ DOMAIN rows \subseteq Nat /\ DOMAIN backlog \subseteq Nat
  BY <1>1, TableHas, BatchIsTable
<1>3. \A i \in 1..Len(wire) : wire[i] \in Sends
  BY <1>1
<1>4. \A f \in Sends : f \in Tables /\ DOMAIN f \subseteq Nat
  BY TableHas DEF Sends
<1>5. page.lastId \in Nat /\ conn.cursor \in Nat /\ conn.poll.from \in Nat /\ Len(wire) \in Nat
  BY <1>1 DEF Pages, Conns, Polls
<1> QED BY <1>2, <1>3, <1>4, <1>5

LEMMA PageStays ==
  ASSUME Typed, TurnSane, PageWhole, [LogNext]_lvars, Whole',
         screen' = screen, page'.lastId = page.lastId
  PROVE  PageWhole'
<1>1. LogTyped
  BY DEF Typed
<1>2. \A s \in Nat : (InTime(s)' => InTime(s)) /\ UpTo(s)' \subseteq UpTo(s)
  BY <1>1, TurnGoesOn, UpToGoesOn
<1>3. DonesStand(screen)'
  BY <1>1, TurnGoesOn DEF PageWhole, DonesStand
<1> QED BY <1>2, <1>3, NumbersSent DEF PageWhole

\* What a reader does leaves the rows and the turn alone.
LEMMA ReaderStays ==
  ASSUME UNCHANGED lvars
  PROVE  /\ \A s : (InTime(s)' <=> InTime(s)) /\ UpTo(s)' = UpTo(s)
         /\ Spoken' = Spoken
         /\ turn'.attempt = turn.attempt /\ turn'.base = turn.base
BY DEF lvars, InTime, UpTo, Spoken

LEMMA PageWholeStep ==
  ASSUME Typed, TurnSane, RowsWhole, PageWhole, WireWhole, [Next]_vars, Whole'
  PROVE  PageWhole'
<1>l. LogTyped /\ [LogNext]_lvars
  BY StreamIsLog DEF Typed
<1>1. CASE Discover
  <2>1. /\ DOMAIN screen' = DOMAIN screen \cup DOMAIN rows
        /\ \A s \in DOMAIN rows : screen'[s] = rows[s]
        /\ \A s \in DOMAIN screen : s \notin DOMAIN rows => screen'[s] = screen[s]
        /\ page'.lastId \in {page.lastId, Max0(DOMAIN rows)}
    BY <1>1, DiscoverIs
  <2>2. UNCHANGED lvars
    BY <1>1 DEF Discover
  <2>3. DonesStand(screen)'
    BY <2>1, <2>2, ReaderStays DEF DonesStand, PageWhole, RowsWhole
  <2>4. ASSUME NEW s \in DOMAIN screen', InTime(s), NEW k \in UpTo(s) PROVE k \in DOMAIN screen'
    BY <2>1, <2>4 DEF PageWhole, RowsWhole
  <2>5. ASSUME InTime(page'.lastId), NEW k \in UpTo(page'.lastId) PROVE k \in DOMAIN screen'
    <3>1. CASE page'.lastId = page.lastId
      BY <3>1, <2>1, <2>5 DEF PageWhole
    <3>2. CASE page'.lastId = Max0(DOMAIN rows)
      <4>1. PICK m \in Nat : m = Max0(DOMAIN rows) /\ Top(DOMAIN rows, m)
        BY <1>l, Max0OfBatch DEF LogTyped
      <4>2. k \in UpTo(m)
        BY <2>5, <3>2, <4>1
      <4>3. k \in Nat /\ k <= m /\ k # 0
        BY <4>2, <1>l, NumbersTyped DEF UpTo
      <4>4. m \in DOMAIN rows
        BY <4>1, <4>3 DEF Top
      <4> QED BY <4>2, <4>4, <2>1 DEF RowsWhole
    <3> QED BY <3>1, <3>2, <2>1
  <2>6. \A s : (InTime(s)' <=> InTime(s)) /\ UpTo(s)' = UpTo(s)
    BY <2>2, ReaderStays
  <2>7. InTime(page.lastId)' => \A k \in UpTo(page.lastId)' : k \in DOMAIN screen'
    <3>1. PICK n : n = page'.lastId
      OBVIOUS
    <3>2. InTime(page.lastId)' <=> InTime(n)
      BY <3>1, <2>2 DEF InTime, lvars
    <3>3. UpTo(page.lastId)' = UpTo(n)
      BY <3>1, <2>2 DEF UpTo, lvars
    <3> QED BY <3>1, <3>2, <3>3, <2>5
  <2> QED BY <2>3, <2>4, <2>6, <2>7 DEF PageWhole
<1>2. CASE Receive
  <2>1. PICK s \in Nat :
           /\ 1 \in 1..Len(wire) /\ s \in DOMAIN wire[1]
           /\ \A t \in DOMAIN wire[1] : s <= t
           /\ DOMAIN screen' = DOMAIN screen \cup {s}
           /\ \A t \in DOMAIN screen : t # s => screen'[t] = screen[t]
           /\ screen'[s] = wire[1][s]
           /\ page'.lastId = 0 \/ page'.lastId = s
    BY <1>2, ReceiveIs
  <2>2. UNCHANGED lvars
    BY <1>2 DEF Receive
  <2>3. DonesStand(screen)'
    BY <2>1, <2>2, ReaderStays DEF DonesStand, PageWhole, WireWhole
  <2>4. ASSUME InTime(s), NEW k \in UpTo(s) PROVE k \in DOMAIN screen'
    <3>1. Shown(k, 1)
      BY <2>1, <2>4 DEF WireWhole
    <3>2. k \in DOMAIN screen \/ k \in DOMAIN wire[1]
      BY <3>1 DEF Shown
    <3>3. k <= s /\ k \in Nat
      BY <1>l, NumbersTyped DEF UpTo
    <3>4. k \in DOMAIN wire[1] => k = s
      BY <3>3, <2>1
    <3> QED BY <3>2, <3>4, <2>1
  <2>5. ASSUME NEW t \in DOMAIN screen', InTime(t), NEW k \in UpTo(t) PROVE k \in DOMAIN screen'
    BY <2>1, <2>4, <2>5 DEF PageWhole
  <2>6. ASSUME InTime(page'.lastId), NEW k \in UpTo(page'.lastId) PROVE k \in DOMAIN screen'
    <3>1. CASE page'.lastId = s
      BY <3>1, <2>4, <2>6
    <3>2. CASE page'.lastId = 0
      <4>1. k \in (turn.base + 1)..0
        BY <3>2 DEF UpTo
      <4> QED BY <4>1, <1>l, NumbersTyped
    <3> QED BY <3>1, <3>2, <2>1
  <2>7. \A t : (InTime(t)' <=> InTime(t)) /\ UpTo(t)' = UpTo(t)
    BY <2>2, ReaderStays
  <2>8. InTime(page.lastId)' => \A k \in UpTo(page.lastId)' : k \in DOMAIN screen'
    <3>1. PICK n : n = page'.lastId
      OBVIOUS
    <3>2. InTime(page.lastId)' <=> InTime(n)
      BY <3>1, <2>2 DEF InTime, lvars
    <3>3. UpTo(page.lastId)' = UpTo(n)
      BY <3>1, <2>2 DEF UpTo, lvars
    <3> QED BY <3>1, <3>2, <3>3, <2>6
  <2> QED BY <2>3, <2>5, <2>7, <2>8 DEF PageWhole
<1>3. CASE Connect
  <2>1. page'.lastId = page.lastId /\ screen' = screen
    BY <1>3, ConnectPage DEF Typed, Connect
  <2> QED BY <2>1, <1>l, PageStays
<1>4. CASE Disconnect \/ StreamEnds
  <2>1. page'.lastId = page.lastId /\ screen' = screen
    BY <1>4, onerrorIs DEF Typed, Disconnect, StreamEnds
  <2> QED BY <2>1, <1>l, PageStays
<1>5. CASE UNCHANGED <<page, screen>>
  BY <1>5, <1>l, PageStays
<1>6. \/ PollDelivers \/ Crash \/ PollReadsStatus \/ PollFails
      \/ (\E status \in BOOLEAN : PollAsked(status)) \/ (\E done \in BOOLEAN : Publish(done))
      => UNCHANGED <<page, screen>>
  BY DEF PollDelivers, Crash, PollReadsStatus, PollFails, PollAsked, Publish
<1> QED BY <1>1, <1>2, <1>3, <1>4, <1>5, <1>6, ReaderSteps

\* What was on its way stays on its way when more is sent.
LEMMA SendKeeps ==
  ASSUME Typed, TurnSane, WireWhole, [LogNext]_lvars, Whole',
         NEW g \in Tables, wire' = Sent(g), screen' = screen,
         DonesStand(g)',
         \A s \in DOMAIN g : InTime(s)' =>
           \A k \in UpTo(s)' : k \in DOMAIN g \/ Shown(k, Len(wire))
  PROVE  /\ WireWhole'
         /\ \A k : k \in DOMAIN g \/ Shown(k, Len(wire)) => Shown(k, Len(wire))'
<1>1. LogTyped /\ StreamTyped
  BY DEF Typed
<1>2. \A s \in Nat : (InTime(s)' => InTime(s)) /\ UpTo(s)' \subseteq UpTo(s)
  BY <1>1, TurnGoesOn, UpToGoesOn
<1>3. PICK w : w = Sent(g)
  OBVIOUS
<1>4. /\ Len(wire) \in Nat /\ Len(w) \in Nat /\ Len(wire) <= Len(w)
      /\ \A i \in 1..Len(wire) : w[i] = wire[i]
      /\ \A i \in 1..Len(w) : i \in 1..Len(wire) \/ (i = Len(w) /\ w[i] = g)
      /\ DOMAIN g # {} => Len(w) \in 1..Len(w) /\ w[Len(w)] = g
  BY <1>1, <1>3, SentIs
<1>5. wire' = w
  BY <1>3
<1>6. \A k : \A i \in 1..Len(wire) : Shown(k, i) => Shown(k, i)'
  <2>1. ASSUME NEW k, NEW i \in 1..Len(wire), NEW j \in 1..i
        PROVE  w[j] = wire[j]
    <3>1. j \in 1..Len(wire)
      BY <1>4
    <3> QED BY <3>1, <1>4
  <2> QED BY <2>1, <1>5 DEF Shown
<1>7. \A k : k \in DOMAIN g \/ Shown(k, Len(wire)) => Shown(k, Len(w))'
  <2>1. ASSUME NEW k, Shown(k, Len(wire)) PROVE Shown(k, Len(w))'
    <3>1. CASE k \in DOMAIN screen
      BY <3>1 DEF Shown
    <3>2. ASSUME NEW j \in 1..Len(wire), k \in DOMAIN wire[j] PROVE Shown(k, Len(w))'
      <4>1. j \in 1..Len(w) /\ w[j] = wire[j]
        BY <1>4
      <4> QED BY <4>1, <3>2, <1>5 DEF Shown
    <3> QED BY <2>1, <3>1, <3>2 DEF Shown
  <2>2. ASSUME NEW k \in DOMAIN g PROVE Shown(k, Len(w))'
    BY <1>4, <1>5 DEF Shown
  <2> QED BY <2>1, <2>2
<1>8. \A k : Shown(k, Len(wire))' <=> Shown(k, Len(w))'
  BY <1>5 DEF Shown
<1>9. ASSUME NEW i \in 1..Len(w) PROVE DonesStand(w[i])'
  <2>1. CASE i \in 1..Len(wire)
    <3>1. DonesStand(wire[i])
      BY <2>1 DEF WireWhole
    <3>2. PICK f : f = wire[i]
      OBVIOUS
    <3>3. DonesStand(f)'
      BY <3>1, <3>2, <1>1, DonesGoOn
    <3>4. w[i] = f
      BY <3>2, <2>1, <1>4
    <3> QED BY <3>3, <3>4
  <2>2. CASE w[i] = g
    BY <2>2
  <2> QED BY <2>1, <2>2, <1>4
<1>10. ASSUME NEW i \in 1..Len(w), NEW s \in DOMAIN w[i], InTime(s)', NEW k \in UpTo(s)'
       PROVE  Shown(k, i)'
  <2>1. CASE i \in 1..Len(wire)
    <3>1. s \in DOMAIN wire[i] /\ s \in Nat
      BY <2>1, <1>4, NumbersSent
    <3>2. InTime(s) /\ k \in UpTo(s)
      BY <3>1, <1>2, <1>10
    <3>3. Shown(k, i)
      BY <3>1, <3>2, <2>1 DEF WireWhole
    <3> QED BY <3>3, <2>1, <1>6
  <2>2. CASE i = Len(w) /\ w[i] = g
    BY <2>2, <1>7, <1>10
  <2> QED BY <2>1, <2>2, <1>4
<1>11. WireWhole'
  BY <1>5, <1>9, <1>10 DEF WireWhole
<1> QED BY <1>7, <1>8, <1>11

\* A list that is merged in leaves what is on its way.
LEMMA WireStays ==
  ASSUME Typed, TurnSane, WireWhole, [LogNext]_lvars, Whole',
         wire' = wire, DOMAIN screen \subseteq DOMAIN screen'
  PROVE  /\ WireWhole'
         /\ \A k : Shown(k, Len(wire)) => Shown(k, Len(wire))'
<1>1. LogTyped
  BY DEF Typed
<1>2. \A s \in Nat : (InTime(s)' => InTime(s)) /\ UpTo(s)' \subseteq UpTo(s)
  BY <1>1, TurnGoesOn, UpToGoesOn
<1>3. PICK w : w = wire
  OBVIOUS
<1>4. \A k, i : Shown(k, i) => Shown(k, i)'
  BY DEF Shown
<1>5. \A i \in 1..Len(w) : DonesStand(w[i])'
  <2>1. ASSUME NEW i \in 1..Len(w) PROVE DonesStand(w[i])'
    <3>1. DonesStand(w[i])
      BY <1>3 DEF WireWhole
    <3> QED BY <3>1, <1>1, DonesGoOn
  <2> QED BY <2>1
<1>6. ASSUME NEW i \in 1..Len(w), NEW s \in DOMAIN w[i], InTime(s)', NEW k \in UpTo(s)'
      PROVE  Shown(k, i)'
  <2>1. s \in Nat
    BY <1>3, NumbersSent
  <2>2. InTime(s) /\ k \in UpTo(s)
    BY <2>1, <1>2, <1>6
  <2> QED BY <2>2, <1>3, <1>4 DEF WireWhole
<1>7. WireWhole'
  BY <1>3, <1>5, <1>6 DEF WireWhole
<1>8. \A k : Shown(k, Len(w)) => Shown(k, Len(w))'
  BY <1>4
<1>9. \A k : (Shown(k, Len(wire))' <=> Shown(k, Len(w))') /\ (Shown(k, Len(wire)) <=> Shown(k, Len(w)))
  BY <1>3 DEF Shown
<1> QED BY <1>7, <1>8, <1>9

LEMMA WireEmptied ==
  ASSUME wire' = <<>>
  PROVE  WireWhole'
BY DEF WireWhole

\* What a frame takes from the first send it puts on the screen.
LEMMA UnreadKeeps ==
  ASSUME Typed, WireWhole, UNCHANGED lvars, wire # <<>>,
         NEW s \in DOMAIN wire[1], wire' = Unread(s),
         DOMAIN screen' = DOMAIN screen \cup {s}
  PROVE  /\ WireWhole'
         /\ \A k : Shown(k, Len(wire)) => Shown(k, Len(wire))'
<1>1. StreamTyped
  BY DEF Typed
<1>2. PICK w : w = wire
  OBVIOUS
<1>3. PICK u : u = Unread(s)
  OBVIOUS
<1>4. /\ Len(u) \in Nat /\ Len(w) \in Nat
      /\ \/ /\ DOMAIN w[1] = {s} /\ Len(w) = Len(u) + 1
            /\ \A j \in 1..Len(u) : u[j] = w[j + 1]
         \/ /\ Len(u) = Len(w) /\ 1 \in 1..Len(w)
            /\ \A j \in 1..Len(w) : j # 1 => u[j] = w[j]
            /\ DOMAIN u[1] = DOMAIN w[1] \ {s}
            /\ \A t \in DOMAIN u[1] : u[1][t] = w[1][t]
  BY <1>1, <1>2, <1>3, UnreadIs
<1>5. wire' = u /\ wire = w
  BY <1>2, <1>3
<1>6. /\ \A t : (InTime(t)' <=> InTime(t)) /\ UpTo(t)' = UpTo(t)
      /\ turn'.attempt = turn.attempt /\ turn'.base = turn.base
  BY ReaderStays
<1>7. \A k, i : Shown(k, i)' <=> k \in DOMAIN screen \/ k = s \/ \E j \in 1..i : k \in DOMAIN u[j]
  BY <1>5 DEF Shown
<1>8. \A k, i : Shown(k, i) <=> k \in DOMAIN screen \/ \E j \in 1..i : k \in DOMAIN w[j]
  BY <1>5 DEF Shown
<1>9. /\ \A i \in 1..Len(w) : DonesStand(w[i])
      /\ \A i \in 1..Len(w) : \A t \in DOMAIN w[i] : InTime(t) => \A k \in UpTo(t) : Shown(k, i)
  BY <1>5 DEF WireWhole
<1>10. CASE /\ DOMAIN w[1] = {s} /\ Len(w) = Len(u) + 1
            /\ \A j \in 1..Len(u) : u[j] = w[j + 1]
  <2>1. \A i \in 1..Len(u) : i + 1 \in 1..Len(w)
    BY <1>4, <1>10
  <2>2. ASSUME NEW k, NEW i \in 0..Len(u), NEW j \in 1..(i + 1), k \in DOMAIN w[j] PROVE Shown(k, i)'
    <3>1. CASE j = 1
      BY <3>1, <2>2, <1>7, <1>10
    <3>2. CASE j # 1
      <4>1. j - 1 \in 1..i /\ j - 1 \in 1..Len(u) /\ (j - 1) + 1 = j
        BY <3>2, <1>4
      <4>2. u[j - 1] = w[j]
        BY <4>1, <1>10
      <4> QED BY <4>1, <4>2, <2>2, <1>7
    <3> QED BY <3>1, <3>2
  <2>3. \A k : \A i \in 0..Len(u) : Shown(k, i + 1) => Shown(k, i)'
    BY <2>2, <1>7, <1>8
  <2>4. ASSUME NEW i \in 1..Len(u) PROVE DonesStand(u[i])'
    <3>1. DonesStand(w[i + 1])
      BY <2>1, <1>9
    <3> QED BY <3>1, <1>6, <1>10 DEF DonesStand
  <2>5. ASSUME NEW i \in 1..Len(u), NEW t \in DOMAIN u[i], InTime(t), NEW k \in UpTo(t)
        PROVE  Shown(k, i)'
    <3>1. i + 1 \in 1..Len(w) /\ t \in DOMAIN w[i + 1] /\ i \in 0..Len(u)
      BY <2>1, <1>10
    <3>2. Shown(k, i + 1)
      BY <3>1, <2>5, <1>9
    <3> QED BY <3>1, <3>2, <2>3
  <2>6. WireWhole'
    BY <2>4, <2>5, <1>5, <1>6 DEF WireWhole
  <2>7. \A k : Shown(k, Len(w)) => Shown(k, Len(u))'
    <3>1. Len(u) \in 0..Len(u) /\ Len(w) = Len(u) + 1
      BY <1>4, <1>10
    <3> QED BY <3>1, <2>3
  <2> QED BY <2>6, <2>7, <1>5, <1>7, <1>8
<1>11. CASE /\ Len(u) = Len(w) /\ 1 \in 1..Len(w)
            /\ \A j \in 1..Len(w) : j # 1 => u[j] = w[j]
            /\ DOMAIN u[1] = DOMAIN w[1] \ {s}
            /\ \A t \in DOMAIN u[1] : u[1][t] = w[1][t]
  <2>1. \A j \in 1..Len(w) : \A t \in DOMAIN u[j] : t \in DOMAIN w[j] /\ u[j][t] = w[j][t]
    BY <1>11
  <2>2. \A j \in 1..Len(w) : \A t \in DOMAIN w[j] : t = s \/ t \in DOMAIN u[j]
    BY <1>11
  <2>3. \A k : \A i \in 1..Len(w) : Shown(k, i) => Shown(k, i)'
    <3>1. \A i \in 1..Len(w) : \A j \in 1..i : j \in 1..Len(w)
      BY <1>4
    <3> QED BY <3>1, <2>2, <1>7, <1>8
  <2>4. ASSUME NEW i \in 1..Len(u) PROVE DonesStand(u[i])'
    <3>1. DonesStand(w[i])
      BY <1>9, <1>11
    <3> QED BY <3>1, <2>1, <1>6, <1>11 DEF DonesStand
  <2>5. ASSUME NEW i \in 1..Len(u), NEW t \in DOMAIN u[i], InTime(t), NEW k \in UpTo(t)
        PROVE  Shown(k, i)'
    BY <2>1, <2>3, <2>5, <1>9, <1>11
  <2>6. WireWhole'
    BY <2>4, <2>5, <1>5, <1>6 DEF WireWhole
  <2>7. \A k : Shown(k, Len(w)) => Shown(k, Len(u))'
    <3>1. Len(w) \in 1..Len(w) /\ Len(u) = Len(w)
      BY <1>4, <1>11
    <3> QED BY <3>1, <2>3
  <2> QED BY <2>6, <2>7, <1>5, <1>7, <1>8
<1> QED BY <1>4, <1>10, <1>11

\* What is sent of events that hold all that is new adds to what is on its way.
LEMMA DeliverKeeps ==
  ASSUME Typed, TurnSane, WireWhole, [LogNext]_lvars, Whole', screen' = screen,
         NEW c \in Conns, NEW events \in Batches, Deliver(c, events),
         DonesStand(events)',
         InTime(c.cursor)' => \A k \in UpTo(c.cursor)' : Shown(k, Len(wire)),
         \A s \in DOMAIN events : InTime(s)' =>
           \A k \in UpTo(s)' : k \in DOMAIN events \/ Shown(k, Len(wire))
  PROVE  /\ WireWhole'
         /\ \A k : Shown(k, Len(wire)) => Shown(k, Len(wire))'
         /\ \/ conn' = Closed
            \/ /\ conn' \in Conns /\ conn'.open = c.open /\ conn'.poll = c.poll
               /\ \A n \in Nat : n = conn'.cursor => Seen(n)'
               /\ \A k \in DOMAIN events : k > c.cursor => Shown(k, Len(wire))'
<1>1. PICK g \in Tables :
        /\ wire' = Sent(g)
        /\ \A s \in DOMAIN g : s \in DOMAIN events /\ s > c.cursor /\ g[s] = events[s]
        /\ \A s \in DOMAIN g : \A k \in DOMAIN events : k > c.cursor /\ k <= s => k \in DOMAIN g
        /\ conn' \in Conns
        /\ \/ conn' = Closed
           \/ /\ conn'.open = c.open /\ conn'.poll = c.poll
              /\ conn'.cursor \in {c.cursor} \cup DOMAIN g
              /\ \A s \in DOMAIN events : s > c.cursor => s \in DOMAIN g
  BY DeliverIs
<1>2. c.cursor \in Nat /\ DOMAIN events \subseteq Nat /\ turn'.base \in Nat
  <2>1. LogTyped
    BY DEF Typed
  <2> QED BY <2>1, TurnGoesOn, BatchIsTable DEF Conns
<1>3. ASSUME NEW s \in DOMAIN g, InTime(s)', NEW k \in UpTo(s)'
      PROVE  k \in DOMAIN g \/ Shown(k, Len(wire))
  <2>1. s \in Nat /\ s > c.cursor /\ s \in DOMAIN events
    BY <1>1, <1>2
  <2>2. k \in Nat /\ k <= s /\ turn'.base + 1 <= k
    BY <2>1, <1>2 DEF UpTo
  <2>3. CASE k <= c.cursor
    <3>1. InTime(c.cursor)'
      BY <2>1, <1>2, <1>3, TurnGoesOn DEF InTime, Typed
    <3>2. k \in UpTo(c.cursor)'
      BY <2>2, <2>3, <1>2 DEF UpTo
    <3> QED BY <3>1, <3>2
  <2>4. CASE k > c.cursor
    <3>1. k \in DOMAIN events \/ Shown(k, Len(wire))
      BY <2>1, <1>3
    <3> QED BY <3>1, <2>2, <2>4, <1>1
  <2> QED BY <2>2, <2>3, <2>4, <1>2
<1>4. DonesStand(g)'
  BY <1>1 DEF DonesStand
<1>5. /\ WireWhole'
      /\ \A k : k \in DOMAIN g \/ Shown(k, Len(wire)) => Shown(k, Len(wire))'
  BY <1>1, <1>3, <1>4, SendKeeps
<1>6. ASSUME NEW n \in Nat, n \in {c.cursor} \cup DOMAIN g PROVE Seen(n)'
  <2>1. ASSUME InTime(n)', NEW k \in UpTo(n)' PROVE Shown(k, Len(wire))'
    <3>1. CASE n = c.cursor
      BY <3>1, <2>1, <1>5
    <3>2. CASE n \in DOMAIN g
      BY <3>2, <2>1, <1>3, <1>5
    <3> QED BY <3>1, <3>2, <1>6
  <2> QED BY <2>1 DEF Seen
<1> QED BY <1>1, <1>5, <1>6

-----------------------------------------------------------------------------
(* The connection.                                                          *)

LEMMA SeenGoesOn ==
  ASSUME Typed, TurnSane, [LogNext]_lvars, Whole', NEW n \in Nat, Seen(n),
         \A k : Shown(k, Len(wire)) => Shown(k, Len(wire))'
  PROVE  Seen(n)'
<1>1. LogTyped
  BY DEF Typed
<1>2. (InTime(n)' => InTime(n)) /\ UpTo(n)' \subseteq UpTo(n)
  BY <1>1, TurnGoesOn, UpToGoesOn
<1> QED BY <1>2 DEF Seen

LEMMA NothingSeen ==
  ASSUME Typed
  PROVE  Seen(0)
<1>1. turn.base \in Nat
  BY NumbersTyped DEF Typed
<1>2. UpTo(0) = {}
  BY <1>1 DEF UpTo
<1> QED BY <1>2 DEF Seen

LEMMA ConnGoal ==
  ASSUME NEW c, conn' = c,
         c.open =>
           /\ \A n : n = c.cursor \/ n = c.poll.from => Seen(n)'
           /\ alive' /\ run' # "settled" /\ local' => \A k \in Spoken' : Shown(k, Len(wire))'
  PROVE  ConnWhole'
<1>1. c.open => Seen(c.cursor)' /\ Seen(c.poll.from)'
  OBVIOUS
<1>2. (Seen(conn.cursor)' <=> Seen(c.cursor)') /\ (Seen(conn.poll.from)' <=> Seen(c.poll.from)')
  BY DEF Seen, InTime, UpTo, Shown
<1> QED BY <1>1, <1>2 DEF ConnWhole

LEMMA ConnClosed ==
  ASSUME conn' = Closed
  PROVE  ConnWhole'
BY ClosedIs DEF ConnWhole

\* A connection that is kept, with a poll that begins at its cursor or nowhere.
LEMMA ConnStays ==
  ASSUME Typed, TurnSane, ConnWhole, [LogNext]_lvars, Whole',
         \A k : Shown(k, Len(wire)) => Shown(k, Len(wire))',
         NEW c \in Conns, conn' = c, c.open = conn.open, c.cursor = conn.cursor,
         c.poll.from \in {0, conn.cursor, conn.poll.from},
         alive' /\ run' # "settled" /\ local' =>
           \/ \A k \in Spoken' : FALSE
           \/ alive /\ run # "settled" /\ local /\ Spoken' = Spoken
  PROVE  ConnWhole'
<1>1. conn.cursor \in Nat /\ conn.poll.from \in Nat
  BY NumbersSent
<1>2. Seen(0)'
  BY NothingSeen, SeenGoesOn
<1>3. CASE conn.open
  <2>1. Seen(conn.cursor) /\ Seen(conn.poll.from)
    BY <1>3 DEF ConnWhole
  <2>2. \A n : n = c.cursor \/ n = c.poll.from => Seen(n)'
    <3>1. ASSUME NEW n \in Nat, n = conn.cursor \/ n = conn.poll.from PROVE Seen(n)'
      <4>1. Seen(n)
        BY <2>1, <3>1
      <4> QED BY <4>1, SeenGoesOn
    <3> QED BY <3>1, <1>1, <1>2
  <2>3. alive' /\ run' # "settled" /\ local' => \A k \in Spoken' : Shown(k, Len(wire))'
    BY <1>3 DEF ConnWhole
  <2> QED BY <2>2, <2>3, ConnGoal
<1>4. CASE ~conn.open
  BY <1>4 DEF ConnWhole
<1> QED BY <1>3, <1>4

\* A step of the dispatcher that no stream hears of.
LEMMA UnheardSteps ==
  ASSUME [Next]_vars, UNCHANGED <<wire, conn, page, screen>>,
         ~(\E done \in BOOLEAN : Publish(done))
  PROVE  \/ Begin \/ (End /\ local' = local) \/ run' = "settled" \/ alive' = FALSE
         \/ UNCHANGED <<run, turn, alive, local>>
BY DEF Next, vars, svars, lvars, Start, Crash, Die, SettleAndClear, Settle, Writing, Persist, Lose,
       WriterBegins, WriterAppends, WriterFails, PollDelivers, Connect, Disconnect, Receive,
       Discover, StreamEnds, PollAsked, PollReadsStatus, PollFails

LEMMA WireConnStep ==
  ASSUME Typed, TurnSane, ReaderInv, [Next]_vars, Whole'
  PROVE  WireWhole' /\ ConnWhole'
<1>l. LogTyped /\ StreamTyped /\ [LogNext]_lvars
  BY StreamIsLog DEF Typed
<1>i. RowsWhole /\ BacklogWhole /\ PageWhole /\ WireWhole /\ ConnWhole
  BY DEF ReaderInv
<1>t. /\ turn.attempt \in Nat /\ turn.base \in Nat /\ turn.events \in Nat /\ turn.spoken \in Nat
      /\ turn \in Turns
  BY <1>l, NumbersTyped DEF LogTyped
<1>c. PICK c \in Conns : c = conn /\ c.cursor \in Nat
  BY NumbersSent DEF Typed, StreamTyped
<1>1. CASE PollDelivers
  <2>1. PICK g \in Tables :
          /\ wire' = Sent(g)
          /\ \A s : s \in DOMAIN g <=> s \in DOMAIN rows /\ s > conn.poll.from
          /\ \A s \in DOMAIN g : g[s] = rows[s]
          /\ conn' \in Conns
          /\ \/ conn' = Closed
             \/ /\ conn'.open = conn.open /\ conn'.cursor \in {conn.cursor} \cup DOMAIN g
                /\ conn'.poll.from \in {0, conn'.cursor}
    BY <1>1, PollDeliversIs
  <2>2. UNCHANGED <<lvars, local, screen>> /\ conn.open
    BY <1>1 DEF PollDelivers
  <2>3. ASSUME NEW s \in DOMAIN g, InTime(s)', NEW k \in UpTo(s)'
        PROVE  k \in DOMAIN g \/ Shown(k, Len(wire))
    <3>1. s \in DOMAIN rows /\ s \in Nat /\ s > conn.poll.from /\ conn.poll.from \in Nat
      BY <2>1, NumbersSent
    <3>2. InTime(s) /\ k \in UpTo(s)
      BY <2>2, <2>3, ReaderStays
    <3>3. k \in Nat /\ k <= s /\ turn.base + 1 <= k
      BY <3>1, <3>2, <1>t DEF UpTo
    <3>4. CASE k <= conn.poll.from
      <4>1. InTime(conn.poll.from) /\ k \in UpTo(conn.poll.from)
        BY <3>1, <3>2, <3>3, <3>4, <1>t DEF InTime, UpTo
      <4> QED BY <4>1, <2>2, <1>i DEF ConnWhole, Seen
    <3>5. CASE k > conn.poll.from
      <4>1. k \in DOMAIN rows
        BY <3>1, <3>2, <1>i DEF RowsWhole
      <4> QED BY <4>1, <3>5, <2>1
    <3> QED BY <3>1, <3>3, <3>4, <3>5
  <2>4. DonesStand(g)'
    <3>1. DonesStand(rows)
      BY <1>i DEF RowsWhole
    <3> QED BY <3>1, <2>1, <2>2, ReaderStays DEF DonesStand
  <2>5. /\ WireWhole'
        /\ \A k : k \in DOMAIN g \/ Shown(k, Len(wire)) => Shown(k, Len(wire))'
    BY <2>1, <2>2, <2>3, <2>4, <1>l, <1>i, SendKeeps
  <2>6. ConnWhole'
    <3>1. CASE conn' = Closed
      BY <3>1, ConnClosed
    <3>2. CASE conn' # Closed
      <4>1. PICK d \in Conns : d = conn'
        BY <2>1
      <4>2. Seen(conn.cursor) /\ conn.cursor \in Nat /\ Seen(0)
        BY <2>2, <1>i, NumbersSent, NothingSeen DEF ConnWhole
      <4>3. ASSUME NEW n \in Nat, n = conn.cursor \/ n = 0 PROVE Seen(n)'
        BY <4>2, <4>3, <2>5, <1>l, SeenGoesOn
      <4>4. ASSUME NEW n \in DOMAIN g PROVE Seen(n)'
        BY <2>3, <2>5 DEF Seen
      <4>5. \A n : n = d.cursor \/ n = d.poll.from => Seen(n)'
        BY <4>1, <4>2, <4>3, <4>4, <3>2, <2>1
      <4>6. alive' /\ run' # "settled" /\ local' => \A k \in Spoken' : Shown(k, Len(wire))'
        BY <2>2, <2>5, <1>i, ReaderStays DEF ConnWhole, lvars
      <4> QED BY <4>1, <4>5, <4>6, ConnGoal
    <3> QED BY <3>1, <3>2
  <2> QED BY <2>5, <2>6
<1>2. CASE Connect
  <2>1. PICK o \in Conns, events \in Batches :
          /\ Deliver(o, events)
          /\ o.open = TRUE /\ o.cursor = page.lastId /\ o.poll.from \in {0, page.lastId}
          /\ events = IF local THEN backlog ELSE NoRows
    BY <1>2, ConnectIs
  <2>2. UNCHANGED <<lvars, local, screen>>
    BY <1>2 DEF Connect
  <2>3. \A s : (InTime(s)' <=> InTime(s)) /\ UpTo(s)' = UpTo(s)
    BY <2>2, ReaderStays
  <2>4. DonesStand(events)'
    <3>1. DonesStand(events)
      <4>1. DonesStand(backlog)
        BY <1>i DEF BacklogWhole
      <4>2. DOMAIN NoRows = {}
        BY NoRowsIs
      <4> QED BY <4>1, <4>2, <2>1 DEF DonesStand
    <3> QED BY <3>1, <2>2, ReaderStays DEF DonesStand
  <2>5. PICK last \in Nat : last = page.lastId
    BY NumbersSent
  <2>6. InTime(last) => \A k \in UpTo(last) : Shown(k, Len(wire))
    BY <2>5, <1>i DEF PageWhole, Shown
  <2>7. \A s \in DOMAIN events : InTime(s) => \A k \in UpTo(s) : k \in DOMAIN events
    BY <2>1, <1>i, NoRowsIs DEF BacklogWhole
  <2>8. /\ WireWhole'
        /\ \A k : Shown(k, Len(wire)) => Shown(k, Len(wire))'
        /\ \/ conn' = Closed
           \/ /\ conn' \in Conns /\ conn'.open = o.open /\ conn'.poll = o.poll
              /\ \A n \in Nat : n = conn'.cursor => Seen(n)'
              /\ \A k \in DOMAIN events : k > o.cursor => Shown(k, Len(wire))'
    BY <2>1, <2>2, <2>3, <2>4, <2>5, <2>6, <2>7, <1>l, <1>i, DeliverKeeps
  <2>9. ConnWhole'
    <3>1. CASE conn' = Closed
      BY <3>1, ConnClosed
    <3>2. CASE conn' # Closed
      <4>1. PICK d \in Conns : d = conn' /\ d.cursor \in Nat
        BY <2>8, <3>2 DEF Conns
      <4>2. Seen(last)'
        <5>1. Seen(last)
          BY <2>6 DEF Seen
        <5> QED BY <5>1, <2>8, <1>l, SeenGoesOn
      <4>3. Seen(0)'
        BY NothingSeen, <2>8, <1>l, SeenGoesOn
      <4>4. d.poll.from \in {0, last}
        BY <4>1, <2>1, <2>5, <2>8, <3>2
      <4>5. Seen(d.cursor)'
        BY <4>1, <2>8, <3>2
      <4>6. ASSUME alive, run # "settled", local, NEW k \in Spoken PROVE Shown(k, Len(wire))'
        <5>1. k \in DOMAIN events /\ k \in Nat
          BY <4>6, <2>1, <1>i, NumbersSent DEF BacklogWhole
        <5>2. CASE k > last
          BY <5>1, <5>2, <2>1, <2>5, <2>8, <3>2
        <5>3. CASE k <= last
          <6>1. InTime(last) /\ k \in UpTo(last)
            BY <4>6, <5>1, <5>3, <1>t DEF InTime, Spoken, UpTo
          <6> QED BY <6>1, <2>6, <2>8
        <5> QED BY <5>1, <5>2, <5>3
      <4>7. alive' /\ run' # "settled" /\ local' => \A k \in Spoken' : Shown(k, Len(wire))'
        <5>1. alive' = alive /\ run' = run /\ local' = local /\ Spoken' = Spoken
          BY <2>2, ReaderStays DEF lvars
        <5> QED BY <5>1, <4>6
      <4>8. \A n : n = d.cursor \/ n = d.poll.from => Seen(n)'
        BY <4>2, <4>3, <4>4, <4>5
      <4> QED BY <4>1, <4>7, <4>8, ConnGoal
    <3> QED BY <3>1, <3>2
  <2> QED BY <2>8, <2>9
<1>3. CASE Disconnect
  <2>1. wire' = <<>> /\ conn' = Closed
    BY <1>3 DEF Disconnect
  <2> QED BY <2>1, WireEmptied, ConnClosed
<1>4. CASE Receive
  <2>1. PICK s \in Nat :
          /\ wire # <<>> /\ s \in DOMAIN wire[1] /\ DOMAIN screen' = DOMAIN screen \cup {s}
          /\ (conn' = Closed /\ wire' = <<>>) \/ (conn' = conn /\ wire' = Unread(s))
    BY <1>4, ReceiveIs
  <2>2. UNCHANGED <<lvars, local>>
    BY <1>4 DEF Receive
  <2>3. CASE conn' = Closed /\ wire' = <<>>
    BY <2>3, WireEmptied, ConnClosed
  <2>4. CASE conn' = conn /\ wire' = Unread(s)
    <3>1. WireWhole' /\ \A k : Shown(k, Len(wire)) => Shown(k, Len(wire))'
      BY <2>1, <2>2, <2>4, <1>i, UnreadKeeps
    <3>2. alive' = alive /\ run' = run /\ local' = local /\ Spoken' = Spoken
      BY <2>2, ReaderStays DEF lvars
    <3>3. ConnWhole'
      BY <3>1, <3>2, <2>4, <1>c, <1>l, <1>i, ConnStays
    <3> QED BY <3>1, <3>3
  <2> QED BY <2>1, <2>3, <2>4
<1>5. CASE Crash
  <2>1. alive' = FALSE /\ screen' = screen
    BY <1>5 DEF Crash, Die
  <2>2. CASE local
    BY <2>2, <1>5, WireEmptied, ConnClosed DEF Crash
  <2>3. CASE ~local
    <3>1. conn' = conn /\ wire' = wire
      BY <2>3, <1>5 DEF Crash
    <3>2. WireWhole' /\ \A k : Shown(k, Len(wire)) => Shown(k, Len(wire))'
      BY <2>1, <3>1, <1>l, <1>i, WireStays
    <3>3. ConnWhole'
      BY <2>1, <3>1, <3>2, <1>c, <1>l, <1>i, ConnStays
    <3> QED BY <3>2, <3>3
  <2> QED BY <2>2, <2>3
<1>6. CASE Discover \/ StreamEnds
  <2>1. conn' = conn /\ wire' = wire /\ UNCHANGED <<lvars, local>>
    BY <1>6 DEF Discover, StreamEnds
  <2>2. DOMAIN screen \subseteq DOMAIN screen'
    BY <1>6, DiscoverIs DEF StreamEnds
  <2>3. WireWhole' /\ \A k : Shown(k, Len(wire)) => Shown(k, Len(wire))'
    BY <2>1, <2>2, <1>l, <1>i, WireStays
  <2>4. alive' = alive /\ run' = run /\ local' = local /\ Spoken' = Spoken
    BY <2>1, ReaderStays DEF lvars
  <2>5. ConnWhole'
    BY <2>1, <2>3, <2>4, <1>c, <1>l, <1>i, ConnStays
  <2> QED BY <2>3, <2>5
<1>7. CASE (\E status \in BOOLEAN : PollAsked(status)) \/ PollReadsStatus \/ PollFails
  <2>1. wire' = wire /\ screen' = screen /\ UNCHANGED <<lvars, local>>
    BY <1>7 DEF PollAsked, PollReadsStatus, PollFails
  <2>2. \/ conn' = Closed
        \/ \E d \in Conns : /\ conn' = d /\ d.open = c.open /\ d.cursor = c.cursor
                            /\ d.poll.from \in {0, c.cursor, c.poll.from}
    <3>1. ASSUME NEW status \in BOOLEAN, PollAsked(status)
          PROVE  conn' = StartPoll(c, status)
      BY <3>1, <1>c DEF PollAsked
    <3>2. PollReadsStatus \/ PollFails => conn' = Closed \/ conn' = EndPoll(c)
      BY <1>c DEF PollReadsStatus, PollFails
    <3> QED BY <3>1, <3>2, <1>7, StartPollIs, EndPollIs
  <2>3. WireWhole' /\ \A k : Shown(k, Len(wire)) => Shown(k, Len(wire))'
    BY <2>1, <1>l, <1>i, WireStays
  <2>4. alive' = alive /\ run' = run /\ local' = local /\ Spoken' = Spoken
    BY <2>1, ReaderStays DEF lvars
  <2>5. ConnWhole'
    BY <2>2, <2>3, <2>4, <1>c, <1>l, <1>i, ConnStays, ConnClosed
  <2> QED BY <2>3, <2>5
<1>8. ASSUME NEW done \in BOOLEAN, Publish(done) PROVE WireWhole' /\ ConnWhole'
  <2>1. PICK live \in Batches :
          /\ DOMAIN live = {NextSeq} /\ live[NextSeq] = NextEvent(done)
          /\ IF local /\ conn.open THEN Deliver(conn, live) ELSE UNCHANGED <<conn, wire>>
    BY <1>8, PublishIs
  <2>2. /\ alive /\ UNCHANGED <<run, alive, local, screen>>
        /\ turn'.attempt = turn.attempt /\ turn'.base = turn.base
        /\ turn'.events = turn.events + 1 /\ turn'.spoken = turn.spoken
    BY <1>8, <1>t DEF Publish, Speak, Turns
  <2>3. turn.attempt = 1 /\ NextSeq = turn.base + turn.events + 1 /\ NextSeq \in Nat
    <3>1. Whole
      BY <1>l, WholeBefore
    <3> QED BY <3>1, <2>2, <1>t DEF TurnSane, Whole, NextSeq
  <2>4. CASE ~(local /\ conn.open)
    <3>1. conn' = conn /\ wire' = wire
      BY <2>1, <2>4
    <3>2. WireWhole' /\ \A k : Shown(k, Len(wire)) => Shown(k, Len(wire))'
      BY <2>2, <3>1, <1>l, <1>i, WireStays
    <3>3. CASE conn.open
      <4>1. ~local'
        BY <2>2, <2>4, <3>3
      <4>2. c.open = conn.open /\ c.cursor = conn.cursor /\ c.poll.from = conn.poll.from /\ conn' = c
        BY <3>1, <1>c
      <4> QED BY <4>1, <4>2, <3>2, <1>l, <1>i, ConnStays
    <3>4. CASE ~conn.open
      BY <3>1, <3>2, <3>4 DEF ConnWhole
    <3> QED BY <3>2, <3>3, <3>4
  <2>5. CASE local /\ conn.open
    <3>1. Deliver(c, live)
      BY <2>1, <2>5, <1>c
    <3>2. DonesStand(live)'
      <4>1. NextEvent(done)[2] = turn.events + 1
        BY <1>l, NextEventStands
      <4>2. NextSeq = turn.base + NextEvent(done)[2]
        BY <4>1, <2>3, <1>t
      <4> QED BY <4>2, <2>1, <2>2, <2>3 DEF DonesStand
    <3>3. Seen(c.cursor)
      BY <2>5, <1>c, <1>i DEF ConnWhole
    <3>4. InTime(c.cursor)' => \A k \in UpTo(c.cursor)' : Shown(k, Len(wire))
      <4>1. (InTime(c.cursor)' => InTime(c.cursor)) /\ UpTo(c.cursor)' \subseteq UpTo(c.cursor)
        BY <1>c, <1>l, TurnGoesOn, UpToGoesOn
      <4> QED BY <4>1, <3>3 DEF Seen
    <3>5. run # "settled" => \A k \in Spoken : Shown(k, Len(wire))
      BY <2>2, <2>5, <1>i DEF ConnWhole
    <3>6. ASSUME NEW s \in DOMAIN live, InTime(s)', NEW k \in UpTo(s)'
          PROVE  k \in DOMAIN live \/ Shown(k, Len(wire))
      <4>1. s = NextSeq
        BY <2>1
      <4>2. run # "settled"
        BY <4>1, <3>6, <2>2, <2>3, <1>t DEF InTime, TurnSane
      <4>3. k \in Spoken \/ k = NextSeq
        BY <4>1, <3>6, <2>2, <2>3, <1>t DEF Spoken, UpTo
      <4> QED BY <4>2, <4>3, <3>5, <2>1
    <3>7. /\ WireWhole'
          /\ \A k : Shown(k, Len(wire)) => Shown(k, Len(wire))'
          /\ \/ conn' = Closed
             \/ /\ conn' \in Conns /\ conn'.open = c.open /\ conn'.poll = c.poll
                /\ \A n \in Nat : n = conn'.cursor => Seen(n)'
                /\ \A k \in DOMAIN live : k > c.cursor => Shown(k, Len(wire))'
      BY <3>1, <3>2, <3>4, <3>6, <2>2, <1>l, <1>i, DeliverKeeps
    <3>8. CASE conn' = Closed
      BY <3>7, <3>8, ConnClosed
    <3>9. CASE conn' # Closed
      <4>1. PICK d \in Conns : d = conn' /\ d.cursor \in Nat
        BY <3>7, <3>9 DEF Conns
      <4>2. d.poll.from = c.poll.from /\ c.poll.from \in Nat /\ Seen(c.poll.from)
        BY <4>1, <3>7, <3>9, <2>5, <1>c, <1>i, NumbersSent DEF ConnWhole
      <4>3. Seen(d.poll.from)'
        BY <4>2, <3>7, <1>l, SeenGoesOn
      <4>4. Seen(d.cursor)'
        BY <4>1, <3>7, <3>9
      <4>5. ASSUME run' # "settled", NEW k \in Spoken' PROVE Shown(k, Len(wire))'
        <5>1. k \in Spoken \/ k = NextSeq
          BY <2>2, <2>3, <1>t DEF Spoken, UpTo
        <5>2. CASE k \in Spoken
          BY <5>2, <4>5, <3>5, <3>7, <2>2
        <5>3. CASE k = NextSeq /\ k > c.cursor
          BY <5>3, <3>7, <3>9, <2>1
        <5>4. CASE k = NextSeq /\ k <= c.cursor
          <6>1. InTime(c.cursor) /\ k \in UpTo(c.cursor)
            BY <5>4, <4>5, <2>2, <2>3, <1>c, <1>t DEF InTime, UpTo
          <6> QED BY <6>1, <3>3, <3>7 DEF Seen
        <5> QED BY <5>1, <5>2, <5>3, <5>4, <2>3, <1>c
      <4>6. \A n : n = d.cursor \/ n = d.poll.from => Seen(n)'
        BY <4>3, <4>4
      <4>7. ConnWhole'
        BY <4>1, <4>5, <4>6, ConnGoal
      <4> QED BY <4>7, <3>7
    <3> QED BY <3>7, <3>8, <3>9
  <2> QED BY <2>4, <2>5
<1>9. CASE UNCHANGED <<wire, conn, page, screen>> /\ ~(\E done \in BOOLEAN : Publish(done))
  <2>1. \/ Begin \/ (End /\ local' = local) \/ run' = "settled" \/ alive' = FALSE
        \/ UNCHANGED <<run, turn, alive, local>>
    BY <1>9, UnheardSteps
  <2>2. WireWhole' /\ \A k : Shown(k, Len(wire)) => Shown(k, Len(wire))'
    BY <1>9, <1>l, <1>i, WireStays
  <2>3. alive' /\ run' # "settled" /\ local' =>
          \/ \A k \in Spoken' : FALSE
          \/ alive /\ run # "settled" /\ local /\ Spoken' = Spoken
    <3>1. CASE Begin
      <4>1. turn'.events = 0 /\ turn'.base \in Nat
        BY <3>1, <1>l, NumbersTyped DEF Begin
      <4> QED BY <4>1 DEF Spoken, UpTo
    <3>2. CASE End /\ local' = local
      <4>1. turn'.base = turn.base /\ turn'.events = turn.events /\ alive' = alive /\ run = "running"
        BY <3>2, <1>t DEF End, Turns
      <4> QED BY <4>1, <3>2 DEF Spoken, UpTo
    <3>3. CASE UNCHANGED <<run, turn, alive, local>>
      BY <3>3 DEF Spoken, UpTo
    <3> QED BY <2>1, <3>1, <3>2, <3>3
  <2>4. ConnWhole'
    BY <2>2, <2>3, <1>9, <1>c, <1>l, <1>i, ConnStays
  <2> QED BY <2>2, <2>4
<1> QED BY <1>1, <1>2, <1>3, <1>4, <1>5, <1>6, <1>7, <1>8, <1>9, ReaderSteps

-----------------------------------------------------------------------------
(* The theorems.                                                            *)

ReaderIInv == Typed /\ TurnSane /\ (Whole => ReaderInv)

LEMMA InitReader ==
  ASSUME Init
  PROVE  ReaderIInv
<1> USE DEF Init, LogInit
<1>1. DOMAIN rows = {} /\ DOMAIN pending = {} /\ DOMAIN backlog = {} /\ DOMAIN screen = {}
  BY NoRowsIs
<1>2. LogTyped
  <2>1. rows \in Batches /\ pending \in Tables
    BY NoRowsIs, NoRowsIsBatch
  <2>2. turn \in Turns /\ history \in History
    BY BoundsAreNumbers DEF Turns, History
  <2> QED BY <2>1, <2>2 DEF LogTyped, Runs
<1>3. StreamTyped
  <2>1. backlog \in Batches /\ screen \in Tables /\ conn \in Conns
    BY NoRowsIs, NoRowsIsBatch, ClosedIs
  <2>2. wire \in Seq(Sends)
    OBVIOUS
  <2>3. page \in Pages
    BY DEF Pages
  <2> QED BY <2>1, <2>2, <2>3 DEF StreamTyped
<1>4. TurnSane
  BY <1>1 DEF TurnSane
<1>5. RowsWhole /\ BacklogWhole
  BY <1>1 DEF RowsWhole, BacklogWhole, DonesStand
<1>6. PageWhole
  <2>1. UpTo(0) = {}
    BY DEF UpTo
  <2> QED BY <1>1, <2>1 DEF PageWhole, DonesStand
<1>7. WireWhole /\ ConnWhole
  BY ClosedIs DEF WireWhole, ConnWhole
<1> QED BY <1>2, <1>3, <1>4, <1>5, <1>6, <1>7 DEF ReaderIInv, ReaderInv, Typed

LEMMA ReaderStep ==
  ASSUME ReaderIInv, [Next]_vars
  PROVE  ReaderIInv'
<1>1. Typed /\ TurnSane /\ LogTyped /\ [LogNext]_lvars
  BY StreamIsLog DEF ReaderIInv, Typed
<1>2. Typed'
  BY <1>1, LogTypedStep, StreamTypedStep DEF Typed
<1>3. TurnSane'
  BY <1>1, TurnSaneStep
<1>4. ASSUME Whole' PROVE ReaderInv'
  <2>1. ReaderInv
    BY <1>1, <1>4, WholeBefore DEF ReaderIInv
  <2>2. RowsWhole /\ BacklogWhole /\ PageWhole /\ WireWhole
    BY <2>1 DEF ReaderInv
  <2>3. RowsWhole'
    BY <1>1, <1>4, <2>2, RowsWholeStep
  <2>4. BacklogWhole'
    BY <1>1, <1>4, <2>2, BacklogWholeStep
  <2>5. PageWhole'
    BY <1>1, <1>4, <2>2, PageWholeStep
  <2>6. WireWhole' /\ ConnWhole'
    BY <1>1, <1>4, <2>1, WireConnStep
  <2> QED BY <2>3, <2>4, <2>5, <2>6 DEF ReaderInv
<1> QED BY <1>2, <1>3, <1>4 DEF ReaderIInv

\* A screen that shows the end of the turn in time shows what came before it.
LEMMA EndIsShown ==
  ASSUME ReaderIInv
  PROVE  EndShowsAll
<1> SUFFICES ASSUME turn.attempt = 1, history.lost = 0, ~history.misread, turn.events <= Backlog,
                    NEW s \in DOMAIN screen, Done(screen[s]),
                    run = "settled" => screen[s][2] <= turn.spoken,
                    NEW k \in 1..screen[s][2]
             PROVE  turn.base + k \in DOMAIN screen
  BY DEF EndShowsAll
<1>1. PageWhole /\ Typed
  BY DEF ReaderIInv, ReaderInv, Whole
<1>2. turn.base \in Nat /\ turn.spoken \in Nat /\ s \in Nat
  BY <1>1, NumbersTyped, NumbersSent DEF Typed
<1>3. PICK n \in Nat : n = screen[s][2]
  <2>1. screen[s] \in Event
    BY <1>1, TableHas DEF Typed, StreamTyped
  <2> QED BY <2>1, BoundsAreNumbers DEF Event
<1>4. s = turn.base + n
  BY <1>1, <1>3 DEF PageWhole, DonesStand
<1>5. InTime(s)
  BY <1>2, <1>3, <1>4 DEF InTime
<1>6. turn.base + k \in UpTo(s)
  BY <1>2, <1>3, <1>4 DEF UpTo
<1> QED BY <1>1, <1>5, <1>6 DEF PageWhole

\* Who reads the end of a turn from use-run-event-stream.ts has read all of the turn,
\* whichever way each event came, unless a process, a write or the backlog failed it.
THEOREM ReadersSeeTheWholeTurn == Spec => []EndShowsAll
<1>1. Init => ReaderIInv
  BY InitReader
<1>2. ReaderIInv /\ [Next]_vars => ReaderIInv'
  BY ReaderStep
<1>3. ReaderIInv => EndShowsAll
  BY EndIsShown
<1> QED BY <1>1, <1>2, <1>3, PTL DEF Spec

=============================================================================
