------------------------------ MODULE RunBroker ------------------------------
(***************************************************************************)
(* The run queue of lib/broker/runs.ts (the `runs` table and the one SQL    *)
(* statement or transaction behind each operation), together with the       *)
(* executions that call it: dispatchNextRun, executeRun and                 *)
(* executeClaimedRun of lib/dispatcher/worker.ts, reduced to the points at  *)
(* which an execution touches the table.                                    *)
(*                                                                         *)
(* A row is a record of `runs`; an execution is the detached promise that   *)
(* one successful claim starts.  The execution's number stands for the      *)
(* run_token the claim minted: both are fresh at every claim.  An execution *)
(* never re-reads who owns its row, so it may outlive its lease and go on   *)
(* acting on a row that another worker has claimed since.                   *)
(*                                                                         *)
(* Order of claims.  claimNextRun orders by priority and age but locks with *)
(* SKIP LOCKED, so a row that any other statement happens to hold is passed *)
(* over: every claimable row may be the one taken, and the model takes any. *)
(***************************************************************************)
EXTENDS Integers, FiniteSets

CONSTANTS
  None,          \* SQL NULL
  Workers,       \* server processes running the dispatcher
  WorkerHost,    \* the machine of each worker (currentHostId)
  AgentHost,     \* the host_id of each agent's runtime profile, None if unset
  TaskPage,      \* ensureTaskPage: the page that belongs to each task
  Requests,      \* what callers enqueue: [task, agent, page, session]
  MaxAttempts,   \* runs.max_attempts
  MaxRequests,   \* bound: rows inserted by enqueueRun
  MaxRuns,       \* bound: rows in all, retries included
  MaxStops,      \* bound: rows a person asks to stop
  MaxClaims,     \* bound: successful claims
  MaxCrashes,    \* bound: worker processes killed
  MaxPauses,     \* bound: leases that lapse although the worker is alive
  MaxDbFaults    \* bound: statements the database fails or whose reply is lost

RunIds  == 1..MaxRuns
Claims  == 1..MaxClaims
NoToken == 0

Agents   == {q.agent : q \in Requests} \cup {None}
Tasks    == {q.task : q \in Requests} \cup {None}
Sessions == {q.session : q \in Requests} \cup {None}
Pages    == {q.page : q \in Requests} \cup {TaskPage[t] : t \in Tasks \ {None}} \cup {None}

ASSUME BrokerAssumption ==
  /\ MaxAttempts \in Nat \ {0}
  /\ MaxRequests \in Nat /\ MaxRuns \in Nat /\ MaxStops \in Nat /\ MaxClaims \in Nat
  /\ MaxCrashes \in Nat /\ MaxPauses \in Nat /\ MaxDbFaults \in Nat
  /\ None \notin Workers /\ None \notin RunIds

VARIABLES
  runs,     \* the runs table; a row not inserted yet has status "absent"
  exec,     \* executions, by the claim that started each
  asked,    \* rows an Ask action has read as active and is about to settle
  crashes, pauses, dbFaults   \* how much of each bound is used up

vars == <<runs, exec, asked, crashes, pauses, dbFaults>>

Terminal  == {"completed", "failed", "cancelled"}
Held      == {"dispatched", "running"}
Status    == {"absent", "queued"} \cup Held \cup Terminal
Verdicts  == {"completed", "cancelled", "failed", "retryable"}
Alive     == {"claimed", "started", "turn", "settling", "recovering"}
Phases    == {"free", "ended", "dead"} \cup Alive

Row == [task : Tasks, agent : Agents, page : Pages, session : Sessions,
        status : Status, attempt : 1..MaxAttempts, retryOf : RunIds \cup {None},
        worker : Workers \cup {None}, token : Claims \cup {NoToken},
        lease : {"none", "live", "lapsed"}, stop : BOOLEAN]

Execution == [run : RunIds \cup {None}, worker : Workers \cup {None}, pc : Phases,
              verdict : Verdicts \cup {"none"}, writing : BOOLEAN]

QueuedRow(q, session, attempt, retryOf) ==
  [task |-> q.task, agent |-> q.agent, page |-> q.page, session |-> session,
   status |-> "queued", attempt |-> attempt, retryOf |-> retryOf,
   worker |-> None, token |-> NoToken, lease |-> "none", stop |-> FALSE]

AbsentRow ==
  [task |-> None, agent |-> None, page |-> None, session |-> None,
   status |-> "absent", attempt |-> 1, retryOf |-> None,
   worker |-> None, token |-> NoToken, lease |-> "none", stop |-> FALSE]

FreeExecution == [run |-> None, worker |-> None, pc |-> "free",
                  verdict |-> "none", writing |-> FALSE]

TypeOK ==
  /\ runs \in [RunIds -> Row]
  /\ exec \in [Claims -> Execution]
  /\ asked \subseteq RunIds
  /\ crashes \in 0..MaxCrashes /\ pauses \in 0..MaxPauses /\ dbFaults \in 0..MaxDbFaults

Init ==
  /\ runs = [r \in RunIds |-> AbsentRow]
  /\ exec = [c \in Claims |-> FreeExecution]
  /\ asked = {}
  /\ crashes = 0 /\ pauses = 0 /\ dbFaults = 0

-----------------------------------------------------------------------------
(* Reading the tables.                                                     *)

Active(row) == row.status \notin Terminal \cup {"absent"}

\* runs_task_agent_active_uidx: NULLs compare equal (COALESCE(..., -1)).
Key(row) == <<row.task, row.agent, row.page, row.session>>
\* Altered: the index covers the queue only, not the runs in a worker's hands.
KeyTaken_QueueOnly(table, row, but) ==
  \E r \in RunIds \ {but} : table[r].status = "queued" /\ Key(table[r]) = Key(row)

KeyTaken(table, row, but) ==
  \E r \in RunIds \ {but} : Active(table[r]) /\ Key(table[r]) = Key(row)

\* The next BIGSERIAL id; none is left once the bound is reached.
FreshIds == {n \in RunIds : /\ runs[n].status = "absent"
                            /\ \A m \in 1..(n - 1) : runs[m].status # "absent"}
FreshClaims == {c \in Claims : /\ exec[c].pc = "free"
                               /\ \A d \in 1..(c - 1) : exec[d].pc # "free"}

Requested == {r \in RunIds : runs[r].status # "absent" /\ runs[r].retryOf = None}
Stopped == {r \in RunIds : runs[r].stop}
IsAlive(c) == exec[c].pc \in Alive
\* executeRun clears its interval before the outer catch runs.
Heartbeats(c) == exec[c].pc \in Alive \ {"recovering"}

Goto(c, pc) == exec' = [exec EXCEPT ![c].pc = pc]
\* The promise is over, with what it held in memory.
End(c, pc) == [exec[c] EXCEPT !.pc = pc, !.verdict = "none"]
Finish(c) == exec' = [exec EXCEPT ![c] = End(c, "ended")]
Decide(c, pc, verdict) ==
  exec' = [exec EXCEPT ![c] = [@ EXCEPT !.pc = pc, !.verdict = verdict]]
Counters == <<crashes, pauses, dbFaults>>
\* What the executions and the poller leave alone.
Rest == <<asked, Counters>>
-----------------------------------------------------------------------------
(* The table's operations, as callers outside the dispatcher use them.      *)

\* INSERT of a queued row; the unique index refuses a second active one.
enqueueRun(q) ==
  /\ Cardinality(Requested) < MaxRequests
  /\ \E n \in FreshIds :
       LET row == QueuedRow(q, q.session, 1, None)
       IN  ~KeyTaken(runs, row, n) /\ runs' = [runs EXCEPT ![n] = row]
  /\ UNCHANGED <<exec, Rest>>

\* A Stop: recorded on the row whatever process is running it, if any is.
requestRunCancellation(r) ==
  /\ Active(runs[r]) /\ Cardinality(Stopped \cup {r}) <= MaxStops
  /\ runs' = [runs EXCEPT ![r].stop = TRUE]
  /\ UNCHANGED <<exec, Rest>>

\* Altered: the settle leaves the token on the row.
SettledRow_KeepsToken(row, outcome) == [row EXCEPT !.status = outcome]

SettledRow(row, outcome) == [row EXCEPT !.status = outcome, !.token = NoToken]

\* cancelAskRun's fallback: the Stop could not be recorded and no control of this
\* process answered.  The action reads the row, and later settles it itself.
ReadForAsk(r) ==
  /\ dbFaults < MaxDbFaults
  /\ Active(runs[r])
  /\ asked' = asked \cup {r}
  /\ dbFaults' = dbFaults + 1
  /\ UNCHANGED <<runs, exec, crashes, pauses>>

SettleFromAsk(r) ==
  /\ r \in asked
  /\ runs' = [runs EXCEPT ![r] = SettledRow(@, "cancelled")]
  /\ asked' = asked \ {r}
  /\ UNCHANGED <<exec, Counters>>

\* Altered: the sweep takes settled rows too; it takes rows whose lease is live;
\* it takes only rows that were claimed and never started.
Expired_AnyStatus(row) == row.status # "absent" /\ row.lease = "lapsed"
Expired_NoLease(row) == row.status \in Held
Expired_DispatchedOnly(row) == row.status = "dispatched" /\ row.lease = "lapsed"

\* One UPDATE: every held row whose lease has run out goes back to the queue.
\* The token and the attempt are left as they are.
Expired(row) == row.status \in Held /\ row.lease = "lapsed"
sweepExpiredLeases ==
  /\ \E r \in RunIds : Expired(runs[r])
  /\ runs' = [r \in RunIds |->
       IF Expired(runs[r])
       THEN [runs[r] EXCEPT !.status = "queued", !.worker = None, !.lease = "none"]
       ELSE runs[r]]
  /\ UNCHANGED <<exec, Rest>>

-----------------------------------------------------------------------------
(* One execution, from the claim to the end of its promise.                 *)

\* Altered: select-then-update, so a row being claimed can be claimed again.
Claimable_Held(w) == {r \in RunIds : /\ runs[r].status \in {"queued", "dispatched"}
                                     /\ AgentHost[runs[r].agent] \in {None, WorkerHost[w]}}

Claimable(w) == {r \in RunIds : /\ runs[r].status = "queued"
                                /\ AgentHost[runs[r].agent] \in {None, WorkerHost[w]}}

\* One UPDATE sets status, owner, lease and a fresh token.
ClaimRow(w, pc) ==
  \E r \in Claimable(w), c \in FreshClaims :
    /\ runs' = [runs EXCEPT ![r] = [@ EXCEPT !.status = "dispatched", !.worker = w,
                                             !.lease = "live", !.token = c]]
    /\ exec' = [exec EXCEPT ![c] = [FreeExecution EXCEPT !.run = r, !.worker = w,
                                                        !.pc = pc]]

claimNextRun(w) == ClaimRow(w, "claimed") /\ UNCHANGED Rest

\* "The claim committed but the response never got home": nobody executes the row.
LoseClaim(w) ==
  /\ dbFaults < MaxDbFaults
  /\ ClaimRow(w, "dead")
  /\ dbFaults' = dbFaults + 1
  /\ UNCHANGED <<asked, crashes, pauses>>

\* A refusal the worker settles itself: no agent, agent or runtime disabled,
\* a row it could not load, a profile that is not installed.
RefuseRun(c, verdict) ==
  /\ exec[c].pc \in {"claimed", "started"}
  /\ Decide(c, "settling", verdict)
  /\ UNCHANGED <<runs, Rest>>

\* An error nobody caught on the way to the turn (the worktree, a lookup): the
\* outer catch of dispatchNextRun classifies it without reading the stop flag.
ThrowBeforeTurn(c, verdict) ==
  /\ exec[c].pc \in {"claimed", "started"}
  /\ Decide(c, "recovering", verdict)
  /\ UNCHANGED <<runs, Rest>>

\* Whose claim it is now is not asked: any 'dispatched' row is marked.
markRunStarted(c) ==
  /\ exec[c].pc = "claimed" /\ runs[exec[c].run].agent # None
  /\ runs' = [runs EXCEPT ![exec[c].run].status = IF @ = "dispatched" THEN "running" ELSE @]
  /\ Goto(c, "started")
  /\ UNCHANGED Rest

BeginTurn(c) ==
  /\ exec[c].pc = "started"
  /\ Goto(c, "turn")
  /\ UNCHANGED <<runs, Rest>>

\* sendTurnWithIdentity returns.  The done event decides, and the agent decides
\* what it says: "cancelled" is its word, with or without a Stop on the row.
FinishTurn(c, verdict) ==
  /\ exec[c].pc = "turn"
  /\ Decide(c, "settling", verdict)
  /\ UNCHANGED <<runs, Rest>>

\* sendTurnWithIdentity throws: the flag on the row decides.
FailTurn(c, verdict) ==
  /\ exec[c].pc = "turn"
  /\ verdict \in {"failed", "retryable"}
  /\ Decide(c, "settling", IF runs[exec[c].run].stop THEN "cancelled" ELSE verdict)
  /\ UNCHANGED <<runs, Rest>>

\* A page tool of the agent: the route checks the token, and a row without a
\* page gets the task's page some awaits later, in whatever state it is by then
\* (the turn may have ended too: the route runs by itself).
AuthorisePageWrite(c) ==
  LET row == runs[exec[c].run] IN
  /\ exec[c].pc = "turn" /\ ~exec[c].writing
  /\ row.token = c /\ Active(row)
  /\ row.task # None /\ row.page = None
  /\ exec' = [exec EXCEPT ![c].writing = TRUE]
  /\ UNCHANGED <<runs, Rest>>

\* The stamp changes the row's key, so the unique index may refuse it.
setRunPageContext(c) ==
  LET r == exec[c].run
      stamped == [runs[r] EXCEPT !.page = TaskPage[runs[r].task]]
  IN
  /\ exec[c].writing
  /\ exec' = [exec EXCEPT ![c].writing = FALSE]
  /\ \/ /\ ~(Active(stamped) /\ KeyTaken(runs, stamped, r))
        /\ runs' = [runs EXCEPT ![r] = stamped]
     \/ /\ Active(stamped) /\ KeyTaken(runs, stamped, r)
        /\ UNCHANGED runs
  /\ UNCHANGED Rest

-----------------------------------------------------------------------------
(* SETTLE.  The transaction asks neither the status nor the owner.          *)

Outcome(verdict) == IF verdict = "retryable" THEN "failed" ELSE verdict
\* Altered: the attempt cap is off by one.
Retries_OffByOne(r, verdict) == verdict = "retryable" /\ runs[r].attempt <= MaxAttempts

Retries(r, verdict) == verdict = "retryable" /\ runs[r].attempt < MaxAttempts
\* The session is not among the columns a retry inherits.
RetryOf(r) == QueuedRow(runs[r], None, runs[r].attempt + 1, r)
Collides(r, verdict) == Retries(r, verdict) /\ KeyTaken(runs, RetryOf(r), r)

\* The committed transaction: the row, and the retry that goes with it.
CommitSettle(r, verdict) ==
  LET settled == [runs EXCEPT ![r] = SettledRow(@, Outcome(verdict))] IN
  \/ /\ ~Retries(r, verdict)
     /\ runs' = settled
  \/ /\ Retries(r, verdict) /\ ~KeyTaken(settled, RetryOf(r), r)
     /\ \E n \in FreshIds : runs' = [settled EXCEPT ![n] = RetryOf(r)]

\* What the promise does next when the settle throws: executeClaimedRun falls
\* into dispatchNextRun's catch, which finds a retryable error; that catch
\* swallows a second throw.
AfterThrow(c) ==
  \/ exec[c].pc = "settling"   /\ Decide(c, "recovering", "retryable")
  \/ exec[c].pc = "recovering" /\ Finish(c)

settleRun(c) ==
  /\ exec[c].pc \in {"settling", "recovering"}
  /\ CommitSettle(exec[c].run, exec[c].verdict)
  /\ Finish(c)
  /\ UNCHANGED Rest

\* The retry's INSERT hits the unique index: ROLLBACK, and the error escapes.
RollBackSettle(c) ==
  /\ exec[c].pc \in {"settling", "recovering"}
  /\ Collides(exec[c].run, exec[c].verdict)
  /\ AfterThrow(c)
  /\ UNCHANGED <<runs, Rest>>

\* The connection breaks before the COMMIT, or after it.
BreakSettle(c) ==
  /\ dbFaults < MaxDbFaults
  /\ exec[c].pc \in {"settling", "recovering"}
  /\ UNCHANGED runs \/ CommitSettle(exec[c].run, exec[c].verdict)
  /\ AfterThrow(c)
  /\ dbFaults' = dbFaults + 1
  /\ UNCHANGED <<asked, crashes, pauses>>

-----------------------------------------------------------------------------
(* Leases, and what happens to processes.                                   *)

\* executeRun's timer: whatever state and owner the row has by now.
renewLease(c) ==
  /\ Heartbeats(c)
  /\ runs' = [runs EXCEPT ![exec[c].run].lease = "live"]
  /\ UNCHANGED <<exec, Rest>>

\* Sixty seconds without a renewal (four missed heartbeats): nobody executes the
\* row any more, or the one who does was paused or cut off for that long.
LapseLease(r) ==
  /\ runs[r].lease = "live"
  /\ runs' = [runs EXCEPT ![r].lease = "lapsed"]
  /\ \/ /\ \A c \in Claims : IsAlive(c) => exec[c].run # r
        /\ UNCHANGED pauses
     \/ /\ pauses < MaxPauses
        /\ \E c \in Claims : IsAlive(c) /\ exec[c].run = r
        /\ pauses' = pauses + 1
  /\ UNCHANGED <<exec, asked, crashes, dbFaults>>

\* The registry is in process only: its executions are gone after a restart.
CrashWorker(w) ==
  /\ crashes < MaxCrashes
  /\ \E c \in Claims : IsAlive(c) /\ exec[c].worker = w
  /\ exec' = [c \in Claims |->
       IF exec[c].worker # w THEN exec[c]
       ELSE [(IF IsAlive(c) THEN End(c, "dead") ELSE exec[c]) EXCEPT !.writing = FALSE]]
  /\ crashes' = crashes + 1
  /\ UNCHANGED <<runs, asked, pauses, dbFaults>>

-----------------------------------------------------------------------------
Advance(c) ==
  \/ markRunStarted(c) \/ BeginTurn(c)
  \/ \E v \in {"failed", "retryable"} : RefuseRun(c, v) \/ ThrowBeforeTurn(c, v)
  \/ \E v \in Verdicts : FinishTurn(c, v) \/ FailTurn(c, v)
  \/ settleRun(c) \/ RollBackSettle(c)

Next ==
  \/ \E q \in Requests : enqueueRun(q)
  \/ \E w \in Workers : claimNextRun(w) \/ LoseClaim(w) \/ CrashWorker(w)
  \/ \E c \in Claims : Advance(c) \/ BreakSettle(c) \/ renewLease(c)
  \/ \E c \in Claims : AuthorisePageWrite(c) \/ setRunPageContext(c)
  \/ \E r \in RunIds : requestRunCancellation(r) \/ ReadForAsk(r) \/ SettleFromAsk(r)
  \/ \E r \in RunIds : LapseLease(r)
  \/ sweepExpiredLeases

Spec == Init /\ [][Next]_vars

\* The poller ticks for ever (claim and sweep), time passes, and every await of
\* an execution returns: sendTurn has a wall-clock cap.  Nothing else is owed.
Fairness ==
  /\ \A w \in Workers : WF_vars(claimNextRun(w))
  /\ \A c \in Claims : WF_vars(Advance(c))
  /\ \A r \in RunIds : WF_vars(LapseLease(r) /\ UNCHANGED pauses)
  /\ WF_vars(sweepExpiredLeases)

FairSpec == Spec /\ Fairness

-----------------------------------------------------------------------------
(* What the broker promises.                                                *)

\* The active-run guard (migrations 0001, 0004, 0007): however rows move between
\* queue, worker, retry and page, two of them in progress never share a key.
ActiveKeyUnique ==
  \A r, s \in RunIds :
    r # s /\ Active(runs[r]) /\ Active(runs[s]) => Key(runs[r]) # Key(runs[s])

\* run_token, "minted at claim, dead at settle" (runs.ts, claimNextRun): a row in
\* a worker's hands carries the token of the claim that gave it to that worker, a
\* token is always that of the newest claim of its row, however many executions
\* are still acting on the row, and a settled row carries none.
HeldByItsClaim(r) ==
  runs[r].status \in Held =>
    runs[r].token # NoToken /\ runs[r].worker = exec[runs[r].token].worker
TokenIsNewest(r) ==
  runs[r].token # NoToken =>
    /\ exec[runs[r].token].run = r
    /\ \A c \in Claims : exec[c].run = r => c <= runs[r].token
NoTokenOnceSettled(r) == runs[r].status \in Terminal => runs[r].token = NoToken
TokenDiscipline ==
  \A r \in RunIds : HeldByItsClaim(r) /\ TokenIsNewest(r) /\ NoTokenOnceSettled(r)

\* The sweep and the unguarded statements of stale executions never bring a
\* settled row back into the queue or into a worker's hands.
TerminalIsForever ==
  [][\A r \in RunIds : runs[r].status \in Terminal => runs'[r].status \in Terminal]_vars

\* The lease: as long as heartbeats have arrived in time, a row is executed by one
\* worker at a time, also across crashes, sweeps, new claims and lost replies.
OneExecutionPerRun ==
  pauses = 0 =>
    \A c, d \in Claims : IsAlive(c) /\ IsAlive(d) /\ exec[c].run = exec[d].run => c = d

\* As long as heartbeats and statements have done what they should, a settle is
\* the only one of its row.
Undisturbed == pauses = 0 /\ dbFaults = 0

\* settleRun: then no row is retried twice, whichever worker executes it again.
NoForkedRetry ==
  Undisturbed => \A r, s \in RunIds :
    r # s /\ runs[r].retryOf # None => runs[r].retryOf # runs[s].retryOf

\* settleRun: and then an outcome is final, although the UPDATE does not ask for it.
OutcomeIsFinal ==
  [][Undisturbed' => \A r \in RunIds :
       runs[r].status \in Terminal => runs'[r].status = runs[r].status]_vars

\* RECOVER: a row that was enqueued is settled in the end, whatever crashed.
EveryRunSettles ==
  \A r \in RunIds : Active(runs[r]) ~> runs[r].status \in Terminal
=============================================================================
