------------------------------ MODULE Approvals ------------------------------
(***************************************************************************)
(* A turn that waits for a person: lib/hermes/approval-helpers.ts, the      *)
(* permission race of lib/acp/client.ts, and the routes a person answers    *)
(* through.  The answer may be given in another process than the one that   *)
(* waits, so the waiter listens to three sources (its process's map, a      *)
(* Postgres NOTIFY, a poll of the row) and to a timer; a promise takes the  *)
(* first of them.                                                          *)
(*                                                                         *)
(* A row of `approvals` is its status, with "approved" split by whether an  *)
(* option was chosen: "selected" or "bare".                                 *)
(***************************************************************************)
EXTENDS Integers, FiniteSets, Sequences

CONSTANTS
  None,
  Asks,               \* requests, by their external id
  Permissions,        \* those raced against a second timer (acp/client.ts)
  Procs,              \* server processes
  Surfaces,           \* "card": finds pending requests only; "inbox": any request
  MaxClicks,          \* bound: answers given in all
  MaxClicksPerAsk,    \* bound: answers given to one request
  MaxCrashes,         \* bound: processes killed
  MaxFaults           \* bound: statements and connections that fail

Clicks == 1..MaxClicks

ASSUME ApprovalAssumption ==
  /\ Permissions \subseteq Asks /\ None \notin Procs /\ None \notin Asks
  /\ Surfaces \subseteq {"card", "inbox"}
  /\ MaxClicks \in Nat /\ MaxClicksPerAsk \in Nat /\ MaxCrashes \in Nat /\ MaxFaults \in Nat

VARIABLES
  row,       \* the approvals table
  waiter,    \* the turn that asked: where it is, and what it heard first
  told,      \* what the agent was answered
  clicks,    \* the answers people are giving
  up,        \* processes whose LISTEN connection delivers
  wire,      \* NOTIFYs on their way to a process
  crashes, faults

vars == <<row, waiter, told, clicks, up, wire, crashes, faults>>
Bounds == <<crashes, faults>>

Decisions == {"selected", "bare", "denied"}
Outcomes == {"selected", "denied", "timeout", "error"}
RowStates == {"absent", "pending", "timeout"} \cup Decisions
Stages == {"idle", "creating", "created", "subscribing", "waiting", "closing", "returned", "dead"}
Words == [ask : Asks, outcome : Outcomes]

TypeOK ==
  /\ row \in [Asks -> RowStates]
  /\ waiter \in [Asks -> [pc : Stages, home : Procs \cup {None}, heard : Outcomes \cup {"nothing"}]]
  /\ told \in [Asks -> Outcomes \cup {"nothing"}]
  /\ clicks \in [Clicks -> [ask : Asks \cup {None}, decision : Decisions \cup {"none"},
                            home : Procs \cup {None}, pc : {"free", "looked", "recorded", "over"}]]
  /\ up \subseteq Procs /\ wire \in [Procs -> Seq(Words)]
  /\ crashes \in 0..MaxCrashes /\ faults \in 0..MaxFaults

Init ==
  /\ row = [a \in Asks |-> "absent"]
  /\ waiter = [a \in Asks |-> [pc |-> "idle", home |-> None, heard |-> "nothing"]]
  /\ told = [a \in Asks |-> "nothing"]
  /\ clicks = [k \in Clicks |-> [ask |-> None, decision |-> "none", home |-> None, pc |-> "free"]]
  /\ up = {} /\ wire = [p \in Procs |-> <<>>]
  /\ crashes = 0 /\ faults = 0

-----------------------------------------------------------------------------
(* One decision, one outcome.                                              *)

\* Altered: an approval without an option is taken for an approval.
outcomeFor_AnyApproval(d) == IF d = "denied" THEN "denied" ELSE "selected"

outcomeFor(d) == IF d = "selected" THEN "selected" ELSE "denied"

\* Altered: the poll looks the row up the way the card does, among the pending ones.
readSettledOutcome_PendingOnly(a) == "nothing"

readSettledOutcome(a) ==
  IF row[a] \in {"absent", "pending"} THEN "nothing"
  ELSE IF row[a] = "timeout" THEN "timeout"
  ELSE outcomeFor(row[a])

At(a, pc) == waiter[a].pc = pc
HomeOf(a) == waiter[a].home
InMap(a) == waiter[a].pc \in {"subscribing", "waiting", "closing"}
Subscribed(a) == waiter[a].pc \in {"waiting", "closing"}
\* A promise takes the first answer.
Hearing(a, o) == IF waiter[a].heard = "nothing" THEN [waiter[a] EXCEPT !.heard = o] ELSE waiter[a]
Hear(a, o) == waiter' = [waiter EXCEPT ![a] = Hearing(a, o)]
Enter(a, pc) == waiter' = [waiter EXCEPT ![a].pc = pc]
\* So does the race of the permission handler.
Tell(a, o) == told' = [told EXCEPT ![a] = IF @ = "nothing" THEN o ELSE @]
Fault == faults < MaxFaults /\ faults' = faults + 1

-----------------------------------------------------------------------------
(* The turn that asks.                                                     *)

\* The handler of session/request_permission, or the connect tool: the race's
\* timer starts now.
Ask(a, p) ==
  /\ At(a, "idle")
  /\ waiter' = [waiter EXCEPT ![a] = [@ EXCEPT !.pc = "creating", !.home = p]]
  /\ UNCHANGED <<row, told, clicks, up, wire, Bounds>>

createPendingApproval(a) ==
  /\ At(a, "creating")
  /\ row' = [row EXCEPT ![a] = "pending"]
  /\ Enter(a, "created")
  /\ UNCHANGED <<told, clicks, up, wire, Bounds>>

\* The insert fails, or the card that a connect request then adds to the transcript;
\* the turn gives up.
AskFails(a) ==
  /\ At(a, "creating") \/ (At(a, "created") /\ a \notin Permissions)
  /\ Fault /\ Enter(a, "returned") /\ Tell(a, "error")
  /\ UNCHANGED <<row, clicks, up, wire, crashes>>

\* waitForApproval up to its first await: the waiter is in the process's map.
waitForApproval(a) ==
  /\ At(a, "created") /\ Enter(a, "subscribing")
  /\ UNCHANGED <<row, told, clicks, up, wire, Bounds>>

\* subscribeToNotifications dials if need be, and resolves even if that fails;
\* the poll and the timer are armed next.
Subscribe(a) ==
  /\ At(a, "subscribing") /\ Enter(a, "waiting")
  /\ \/ up' = up \cup {HomeOf(a)} /\ UNCHANGED faults
     \/ HomeOf(a) \notin up /\ Fault /\ UNCHANGED up
  /\ UNCHANGED <<row, told, clicks, wire, crashes>>

Poll(a) ==
  /\ At(a, "waiting") /\ readSettledOutcome(a) # "nothing"
  /\ Hear(a, readSettledOutcome(a))
  /\ UNCHANGED <<row, told, clicks, up, wire, Bounds>>

\* The waiter's timer.  The race's timer is for the same time and started before
\* the row was created, so where there is one it has fired.
TimerFires(a) ==
  /\ At(a, "waiting") /\ (a \in Permissions => told[a] # "nothing")
  /\ Hear(a, "timeout")
  /\ UNCHANGED <<row, told, clicks, up, wire, Bounds>>

RaceTimesOut(a) ==
  /\ a \in Permissions /\ told[a] = "nothing"
  /\ waiter[a].pc \in Stages \ {"idle", "returned", "dead"}
  /\ Tell(a, "timeout")
  /\ UNCHANGED <<row, waiter, clicks, up, wire, Bounds>>

\* Altered: whatever the row says by now is overwritten; the row is left as it is.
markApprovalTimedOut_Unguarded(a) ==
  /\ At(a, "waiting") /\ waiter[a].heard = "timeout" /\ Enter(a, "closing")
  /\ row' = [row EXCEPT ![a] = "timeout"]
  /\ UNCHANGED <<told, clicks, up, wire, Bounds>>
markApprovalTimedOut_NoUpdate(a) ==
  /\ At(a, "waiting") /\ waiter[a].heard = "timeout" /\ Enter(a, "closing")
  /\ UNCHANGED <<row, told, clicks, up, wire, Bounds>>

\* Scoped to rows still pending; a failure is swallowed.
markApprovalTimedOut(a) ==
  /\ At(a, "waiting") /\ waiter[a].heard = "timeout"
  /\ Enter(a, "closing")
  /\ \/ row' = [row EXCEPT ![a] = IF @ = "pending" THEN "timeout" ELSE @] /\ UNCHANGED faults
     \/ UNCHANGED row /\ Fault
  /\ UNCHANGED <<told, clicks, up, wire, crashes>>

\* The promise resolves; the finally takes the waiter out of the map.
Return(a) ==
  /\ \/ At(a, "waiting") /\ waiter[a].heard \notin {"nothing", "timeout"}
     \/ At(a, "closing")
  /\ Enter(a, "returned") /\ Tell(a, waiter[a].heard)
  /\ UNCHANGED <<row, clicks, up, wire, Bounds>>

-----------------------------------------------------------------------------
(* A person answers.                                                       *)

Answering(a) == {k \in Clicks : clicks[k].ask = a}
FreshClicks == {k \in Clicks : clicks[k].pc = "free" /\ \A j \in 1..(k - 1) : clicks[j].pc # "free"}

\* The card looks its request up among the pending ones (getApprovalByExternalId);
\* the inbox takes the row whatever its status (getApproval).
Visible(a, s) == IF s = "card" THEN row[a] = "pending" ELSE row[a] # "absent"

Look(k, a, d, p) ==
  /\ k \in FreshClicks /\ Cardinality(Answering(a)) < MaxClicksPerAsk
  /\ \E s \in Surfaces : Visible(a, s)
  /\ clicks' = [clicks EXCEPT ![k] = [ask |-> a, decision |-> d, home |-> p, pc |-> "looked"]]
  /\ UNCHANGED <<row, waiter, told, up, wire, Bounds>>

\* resolveApproval: the UPDATE does not ask what the row says by now.
resolveApproval(k) ==
  /\ clicks[k].pc = "looked"
  /\ row' = [row EXCEPT ![clicks[k].ask] = clicks[k].decision]
  /\ clicks' = [clicks EXCEPT ![k].pc = "recorded"]
  /\ UNCHANGED <<waiter, told, up, wire, Bounds>>

\* The waiter of this process first, then a NOTIFY to every process that listens.
announceDecision(k) ==
  LET a == clicks[k].ask
      word == [ask |-> a, outcome |-> outcomeFor(clicks[k].decision)]
  IN
  /\ clicks[k].pc = "recorded"
  /\ clicks' = [clicks EXCEPT ![k].pc = "over"]
  /\ IF InMap(a) /\ HomeOf(a) = clicks[k].home THEN Hear(a, word.outcome) ELSE UNCHANGED waiter
  /\ \/ /\ wire' = [p \in Procs |-> IF p \in up THEN Append(wire[p], word) ELSE wire[p]]
        /\ UNCHANGED faults
     \/ UNCHANGED wire /\ Fault
  /\ UNCHANGED <<row, told, up, crashes>>

\* The emitter hands the notice to whoever has subscribed, if anyone has.
Deliver(p) ==
  /\ wire[p] # <<>>
  /\ LET word == Head(wire[p]) IN
     IF Subscribed(word.ask) /\ HomeOf(word.ask) = p THEN Hear(word.ask, word.outcome)
     ELSE UNCHANGED waiter
  /\ wire' = [wire EXCEPT ![p] = Tail(@)]
  /\ UNCHANGED <<row, told, clicks, up, Bounds>>

-----------------------------------------------------------------------------
(* Connections and processes.                                              *)

\* "A notification sent while it was down is gone for good."
DropListen(p) ==
  /\ p \in up /\ Fault
  /\ up' = up \ {p} /\ wire' = [wire EXCEPT ![p] = <<>>]
  /\ UNCHANGED <<row, waiter, told, clicks, crashes>>

\* The next subscribe, to any channel, dials again and listens to all of them.
Redial(p) ==
  /\ p \notin up /\ \E a \in Asks : Subscribed(a) /\ HomeOf(a) = p
  /\ up' = up \cup {p}
  /\ UNCHANGED <<row, waiter, told, clicks, wire, Bounds>>

Crash(p) ==
  /\ crashes < MaxCrashes /\ crashes' = crashes + 1
  /\ \E a \in Asks : HomeOf(a) = p /\ waiter[a].pc \notin {"returned", "dead"}
  /\ waiter' = [a \in Asks |->
       IF HomeOf(a) = p /\ ~At(a, "returned") THEN [waiter[a] EXCEPT !.pc = "dead"] ELSE waiter[a]]
  /\ clicks' = [k \in Clicks |->
       IF clicks[k].home # p \/ clicks[k].pc = "free" THEN clicks[k]
       ELSE IF clicks[k].pc = "looked" THEN [clicks[k] EXCEPT !.pc = "over", !.decision = "none"]
       ELSE [clicks[k] EXCEPT !.pc = "over"]]
  /\ up' = up \ {p} /\ wire' = [wire EXCEPT ![p] = <<>>]
  /\ UNCHANGED <<row, told, faults>>

-----------------------------------------------------------------------------
Turn(a) ==
  \/ createPendingApproval(a) \/ waitForApproval(a) \/ Subscribe(a) \/ Poll(a)
  \/ markApprovalTimedOut(a) \/ Return(a)

Next ==
  \/ \E a \in Asks : Turn(a) \/ AskFails(a) \/ TimerFires(a) \/ RaceTimesOut(a)
  \/ \E a \in Asks, p \in Procs : Ask(a, p)
  \/ \E k \in Clicks, a \in Asks, d \in Decisions, p \in Procs : Look(k, a, d, p)
  \/ \E k \in Clicks : resolveApproval(k) \/ announceDecision(k)
  \/ \E p \in Procs : Deliver(p) \/ DropListen(p) \/ Redial(p) \/ Crash(p)

Spec == Init /\ [][Next]_vars

\* The turn's awaits return and its interval fires.  Of the timers, only the waiter's
\* behind a race that is over is owed; no message and no click is.
Fairness ==
  /\ \A a \in Asks : WF_vars(Turn(a))
  /\ \A a \in Permissions : WF_vars(TimerFires(a))

FairSpec == Spec /\ Fairness

-----------------------------------------------------------------------------
(* What an approval promises.                                              *)

Recorded(a) ==
  IF row[a] \in {"absent", "pending"} THEN "open"
  ELSE IF row[a] = "timeout" THEN "timeout" ELSE outcomeFor(row[a])

Promise == INSTANCE ApprovalPromise WITH answer <- [a \in Asks |-> Recorded(a)], told <- told

\* With one person answering, whatever is lost, delayed, timed out or killed, the
\* waiters and routes keep the promise: a person's answer is recorded for good, and
\* what the agent is told is that answer or that none came.
KeepsPromise == Promise!Spec

\* An agent is told to go ahead only if a person chose an option for this very
\* request, however many people answer it and by whichever way the word travels.
Consented(a) ==
  \E k \in Clicks : /\ clicks[k].ask = a /\ clicks[k].decision = "selected"
                    /\ clicks[k].pc \in {"recorded", "over"}
ConsentIsReal == \A a \in Asks : told[a] = "selected" => Consented(a)

\* The poll: "a run that hangs after somebody clicked Approve" does not happen,
\* though every notice be lost and no timer fire.
DecisionArrives ==
  \A a \in Asks :
    (row[a] \in Decisions /\ ~At(a, "dead")) ~> (told[a] # "nothing" \/ At(a, "dead"))

\* R3.6: a request whose agent has moved on does not stay pending, and clickable,
\* unless its process died or a statement failed (the update is best-effort).
NoStaleCard ==
  \A a \in Asks :
    (told[a] # "nothing" /\ row[a] = "pending")
      ~> (row[a] # "pending" \/ At(a, "dead") \/ faults > 0)
=============================================================================
