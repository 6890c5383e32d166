----------------------------- MODULE RunStream -----------------------------
(***************************************************************************)
(* A reader watching one run: the live bus (lib/broker/live-bus.ts), the    *)
(* event stream route (app/api/runs/[id]/events/stream/route.ts) and the    *)
(* hook of the page (components/runs/use-run-event-stream.ts), over the     *)
(* rows of RunLog.                                                          *)
(*                                                                         *)
(* An event reaches the screen along three ways.  The bus hands it to a     *)
(* connection of the same process at once, or from its backlog when the     *)
(* connection is made.  The connection polls the rows above its cursor.     *)
(* The page loads the whole list of rows every few seconds.  A connection   *)
(* ends by the done event or when a poll finds the run settled, and a       *)
(* browser reconnects every source that the page has not closed, from the   *)
(* number of the last frame it received.                                    *)
(***************************************************************************)
EXTENDS RunLog

CONSTANTS
  Backlog,        \* MAX_BUFFERED_EVENTS_PER_RUN
  MaxReconnects,  \* MAX_RECONNECT_ATTEMPTS
  MaxTrips        \* bound: crashes, dropped connections, refused connects, failed polls

ASSUME StreamAssumption == {Backlog, MaxReconnects, MaxTrips} \subseteq Nat \ {0}

VARIABLES
  backlog,  \* the bus of the executing process: its buffered events, by seq
  local,    \* the stream's server process is the one that executes the run
  conn,     \* the route: open, sinceSeq, and the poll in flight
  wire,     \* frames sent and not received: the sends, each read by seq
  page,     \* the hook: its EventSource, its last id, its finished mark
  screen,   \* what the page shows: from seq to event
  trips     \* how many crashes and failures there were

svars == <<backlog, local, conn, wire, page, screen, trips>>
vars == <<lvars, svars>>

NoPoll == [at |-> "idle", from |-> 0, status |-> FALSE, again |-> FALSE, againStatus |-> FALSE]
Closed == [open |-> FALSE, cursor |-> 0, poll |-> NoPoll]

TypeOK ==
  /\ LogTypeOK
  /\ IsRows(backlog) /\ Cardinality(DOMAIN backlog) <= Backlog /\ local \in BOOLEAN
  /\ conn.open \in BOOLEAN /\ conn.cursor \in Nat
  /\ conn.poll.at \in {"idle", "rows", "status"}
  /\ \A i \in 1..Len(wire) : IsRows(wire[i]) /\ DOMAIN wire[i] # {}
  /\ (page.source # "open" => ~conn.open /\ wire = <<>>)
  /\ page.source \in {"none", "connecting", "open"} /\ page.lastId \in Nat
  /\ page.tries \in 0..MaxReconnects /\ page.finished \in BOOLEAN
  /\ IsRows(screen)
  /\ trips \in 0..MaxTrips

Init ==
  /\ LogInit
  /\ backlog = NoRows /\ local = FALSE
  /\ conn = Closed /\ wire = <<>>
  /\ page = [source |-> "none", lastId |-> 0, tries |-> 0, finished |-> FALSE]
  /\ screen = NoRows /\ trips = 0

-----------------------------------------------------------------------------
(* The route.                                                               *)

\* What is sent goes out in the order of seq.
Sent(events) == IF DOMAIN events = {} THEN wire ELSE Append(wire, events)
Ends(events) == \E s \in DOMAIN events : Done(events[s])

\* The live callback, called for each of the events in turn: it skips what is at or
\* below the cursor, and the done event closes the stream.
Fresh(events, cursor) == Keep(events, {s \in DOMAIN events : s > cursor})
UpToDone(events) ==
  Keep(events, {s \in DOMAIN events : \A d \in DOMAIN events : Done(events[d]) => s <= d})
Passing(c, sent) == [c EXCEPT !.cursor = Max0({@} \cup DOMAIN sent)]
Deliver(c, events) ==
  LET fresh == Fresh(events, c.cursor)
  IN /\ wire' = Sent(UpToDone(fresh))
     /\ conn' = IF Ends(fresh) THEN Closed ELSE Passing(c, fresh)

\* poll: one that finds another in flight is remembered, with its wish for the status.
StartPoll(c, status) ==
  IF c.poll.at = "idle"
    THEN [c EXCEPT !.poll = [NoPoll EXCEPT !.at = "rows", !.from = c.cursor, !.status = status]]
    ELSE [c EXCEPT !.poll = [c.poll EXCEPT !.again = TRUE, !.againStatus = @ \/ status]]

EndPoll(c) ==
  LET ended == [c EXCEPT !.poll = NoPoll]
  IN IF c.poll.again THEN StartPoll(ended, c.poll.againStatus) ELSE ended

\* The fallback timer asks for the status, a notification does not.
PollAsked(status) ==
  /\ conn.open
  /\ ~(conn.poll.again /\ (status => conn.poll.againStatus))
  /\ status \/ \E s \in DOMAIN rows : s > conn.cursor
  /\ conn' = StartPoll(conn, status)
  /\ UNCHANGED <<lvars, backlog, local, wire, page, screen, trips>>

\* listRunEventsSince from the cursor the poll began with: every row is sent,
\* whatever the live callback has sent meanwhile.
PollDelivers ==
  /\ conn.open /\ conn.poll.at = "rows"
  /\ LET read == Fresh(rows, conn.poll.from)
         c == Passing(conn, read)
     IN /\ wire' = Sent(read)
        /\ conn' = IF Ends(read) THEN Closed
                   ELSE IF conn.poll.status
                     THEN [c EXCEPT !.poll.at = "status", !.poll.from = 0]
                   ELSE EndPoll(c)
  /\ UNCHANGED <<lvars, backlog, local, page, screen, trips>>

\* Altered: the status is read and the stream stays.
PollReadsStatus_Stays ==
  /\ conn.open /\ conn.poll.at = "status"
  /\ conn' = EndPoll(conn)
  /\ UNCHANGED <<lvars, backlog, local, wire, page, screen, trips>>

PollReadsStatus ==
  /\ conn.open /\ conn.poll.at = "status"
  /\ conn' = IF run = "settled" THEN Closed ELSE EndPoll(conn)
  /\ UNCHANGED <<lvars, backlog, local, wire, page, screen, trips>>

PollFails ==
  /\ conn.open /\ conn.poll.at # "idle" /\ trips < MaxTrips
  /\ trips' = trips + 1
  /\ conn' = EndPoll(conn)
  /\ UNCHANGED <<lvars, backlog, local, wire, page, screen>>

-----------------------------------------------------------------------------
(* The page.                                                                *)

\* Altered: a stream hears what comes after it was opened, and no backlog.
Connect_NoReplay ==
  /\ page.source = "connecting"
  /\ LET opened == [Closed EXCEPT !.open = TRUE, !.cursor = page.lastId]
     IN Deliver(StartPoll(opened, TRUE), NoRows)
  /\ page' = [page EXCEPT !.source = "open", !.tries = 0]
  /\ UNCHANGED <<lvars, backlog, local, screen, trips>>

\* GET: subscribeToRunEvents replays the backlog above ?since= or Last-Event-ID, and
\* a first poll asks for the status. onopen forgets the failed attempts.
Connect ==
  /\ page.source = "connecting"
  /\ LET opened == [Closed EXCEPT !.open = TRUE, !.cursor = page.lastId]
     IN Deliver(StartPoll(opened, TRUE), IF local THEN backlog ELSE NoRows)
  /\ page' = [page EXCEPT !.source = "open", !.tries = 0]
  /\ UNCHANGED <<lvars, backlog, local, screen, trips>>

\* onerror: a finished run is left to the browser, which reconnects; another counts
\* its attempts, and the source is closed at MAX_RECONNECT_ATTEMPTS.
onerror ==
  page' = IF page.finished THEN [page EXCEPT !.source = "connecting"]
          ELSE [page EXCEPT !.tries = @ + 1,
                            !.source = IF page.tries + 1 >= MaxReconnects
                                         THEN "none" ELSE "connecting"]

\* The server closed the stream and all of it has arrived.
StreamEnds ==
  /\ page.source = "open" /\ ~conn.open /\ wire = <<>>
  /\ onerror
  /\ UNCHANGED <<lvars, backlog, local, conn, wire, screen, trips>>

\* The network fails: frames on the way are lost; or a connect is refused.
Disconnect ==
  /\ page.source \in {"open", "connecting"} /\ trips < MaxTrips
  /\ trips' = trips + 1
  /\ conn' = Closed /\ wire' = <<>>
  /\ onerror
  /\ UNCHANGED <<lvars, backlog, local, screen>>

mergeRunEvents(current, incoming) == Merged(incoming, current)

\* onmessage, a frame at a time.
Unread(s) ==
  LET rest == Keep(wire[1], DOMAIN wire[1] \ {s})
  IN IF DOMAIN rest = {} THEN Tail(wire) ELSE [wire EXCEPT ![1] = rest]

Receive ==
  /\ wire # <<>> /\ page.source = "open"
  /\ \E s \in DOMAIN wire[1] :
       /\ \A t \in DOMAIN wire[1] : s <= t
       /\ screen' = mergeRunEvents(screen, Single(s, wire[1][s]))
       /\ IF Done(wire[1][s])
            THEN /\ page' = [page EXCEPT !.source = "none", !.finished = TRUE, !.lastId = 0]
                 /\ conn' = Closed /\ wire' = <<>>
            ELSE /\ page' = [page EXCEPT !.lastId = s]
                 /\ wire' = Unread(s) /\ UNCHANGED conn
  /\ UNCHANGED <<lvars, backlog, local, trips>>

\* Altered: a finished run is passed over before its rows are merged in.
Discover_PassesFinished ==
  /\ screen' = IF run = "settled" THEN screen ELSE mergeRunEvents(screen, rows)
  /\ page' =
       IF run = "settled" THEN [page EXCEPT !.finished = TRUE]
       ELSE IF page.source # "none" THEN page
       ELSE [page EXCEPT !.source = "connecting", !.lastId = Max0(DOMAIN rows)]
  /\ UNCHANGED <<lvars, backlog, local, conn, wire, trips>>

\* discoverRuns and applyList: the rows are merged in, and a run that may still speak
\* is streamed from the end of the list.
Discover ==
  /\ screen' = mergeRunEvents(screen, rows)
  /\ page' =
       IF run = "settled" THEN [page EXCEPT !.finished = TRUE]
       ELSE IF page.source # "none" THEN page
       ELSE [page EXCEPT !.source = "connecting", !.lastId = Max0(DOMAIN rows)]
  /\ UNCHANGED <<lvars, backlog, local, conn, wire, trips>>

-----------------------------------------------------------------------------
(* The dispatcher, with the bus it publishes on.                            *)

\* A backlog that is full forgets the oldest event.
Buffered(kept) ==
  IF Cardinality(DOMAIN kept) > Backlog
    THEN Keep(kept, {s \in DOMAIN kept : \E t \in DOMAIN kept : t < s}) ELSE kept

\* onEvent: publishRunEvent, and the event is buffered for its row.
Publish(done) ==
  /\ Speak(done)
  /\ LET live == Single(NextSeq, NextEvent(done))
     IN /\ backlog' = Buffered(Merged(backlog, live))
        /\ IF local /\ conn.open THEN Deliver(conn, live) ELSE UNCHANGED <<conn, wire>>
  /\ UNCHANGED <<local, page, screen, trips>>

\* The backlog is cleared when a turn that returned is settled, not when it threw.
SettleAndClear(threw) ==
  /\ Settle
  /\ backlog' = IF threw THEN backlog ELSE NoRows
  /\ UNCHANGED <<local, conn, wire, page, screen, trips>>

\* A stream of the same process goes down with it.
Crash ==
  /\ Die /\ trips < MaxTrips
  /\ trips' = trips + 1
  /\ backlog' = NoRows
  /\ IF local THEN conn' = Closed /\ wire' = <<>> ELSE UNCHANGED <<conn, wire>>
  /\ UNCHANGED <<local, page, screen>>

\* The turn may be executed by the process of the stream or by another.
Start ==
  /\ Begin /\ local' \in BOOLEAN
  /\ UNCHANGED <<backlog, conn, wire, page, screen, trips>>

Writing == Persist \/ Lose \/ End \/ WriterAppends \/ WriterFails

Next ==
  \/ Start \/ Crash
  \/ \E done \in BOOLEAN : Publish(done)
  \/ \E threw \in BOOLEAN : SettleAndClear(threw)
  \/ (Writing \/ WriterBegins) /\ UNCHANGED svars
  \/ \E status \in BOOLEAN : PollAsked(status)
  \/ PollDelivers \/ PollReadsStatus \/ PollFails
  \/ Connect \/ StreamEnds \/ Disconnect \/ Receive
  \/ Discover

Spec == Init /\ [][Next]_vars

\* Timers fire, the database answers and the browser retries. Nothing has to speak,
\* write or fail.
Dispatching ==
  \/ Start \/ (\E threw \in BOOLEAN : SettleAndClear(threw))
  \/ Writing /\ UNCHANGED svars
Fairness ==
  /\ WF_vars(Dispatching)
  /\ WF_vars(PollAsked(TRUE)) /\ WF_vars(PollDelivers \/ PollReadsStatus)
  /\ WF_vars(Connect \/ StreamEnds \/ Receive)
  /\ WF_vars(Discover)

FairSpec == Spec /\ Fairness

-----------------------------------------------------------------------------
(* Properties.                                                              *)

\* A screen that shows the end of a turn shows all of it, as long as the process
\* lived, no write was lost, the backlog held the turn and the end was in time.
EndShowsAll ==
  turn.attempt = 1 /\ history.lost = 0 /\ ~history.misread /\ turn.events <= Backlog =>
    \A s \in DOMAIN screen : Done(screen[s]) /\ (run = "settled" => screen[s][2] <= turn.spoken) =>
      \A k \in 1..screen[s][2] : turn.base + k \in DOMAIN screen

\* A page that keeps watching comes to show every row of a settled run as it is.
ScreenConverges ==
  run = "settled" ~> \A s \in DOMAIN rows : s \in DOMAIN screen /\ screen[s] = rows[s]

\* No stream is held open for a run that is settled.
StreamsEnd == (run = "settled" /\ conn.open) ~> ~conn.open
=============================================================================
