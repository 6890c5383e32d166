----------------------------- MODULE Dispatcher -----------------------------
(***************************************************************************)
(* The memory of the server processes that execute runs: what              *)
(* lib/dispatcher/worker.ts keeps in module-level maps and app/api/         *)
(* dispatcher/tick drives.  RunBroker is the table those processes share,   *)
(* and every step here is one of its steps or leaves the table alone.       *)
(*                                                                         *)
(* inFlightRuns, runCancelControls and cancelWatchers are keyed by run id,  *)
(* agentInFlightCounts by agent.  An execution that outlives its lease may  *)
(* therefore share its entries with a later execution of the same row in    *)
(* the same process.  runCancelControls and cancelWatchers are set and      *)
(* deleted in the same synchronous stretch of code, so one variable,        *)
(* registered, stands for both.                                             *)
(***************************************************************************)
EXTENDS RunBroker

CONSTANTS
  MaxConcurrent,     \* DISPATCHER_MAX_CONCURRENT_RUNS
  AgentMax,          \* agent.maxConcurrentRuns
  MissingProfiles,   \* agents whose hermesProfile is not in this install
  MaxTicks           \* bound: ticks of one process awaiting their claim at a time

ASSUME DispatcherAssumption ==
  /\ MaxConcurrent \in Nat \ {0} /\ MaxTicks \in Nat \ {0}
  /\ AgentMax \in [Agents -> Nat \ {0}]
  /\ MissingProfiles \subseteq Agents

VARIABLES
  ticks,        \* ticks past the capacity check, their claim not answered yet
  inFlight,     \* the keys of inFlightRuns
  slots,        \* agentInFlightCounts
  stage,        \* how far an execution is in the part that the finally undoes
  registered,   \* whose control and watcher the maps hold for a run
  timers,       \* executions whose watcher interval is running
  interrupted   \* executions whose agent has been asked to stop

memory == <<ticks, inFlight, slots, stage, registered, timers, interrupted>>
dvars == <<vars, memory>>

\* "slot": counted in agentInFlightCounts; "try": inside the try whose finally
\* gives the slot back; "control": its agent can be interrupted as well.
Stages == {"none", "slot", "try", "control"}
InTry(c) == stage[c] \in {"try", "control"}

AgentOf(c) == runs[exec[c].run].agent
LiveOn(w) == {c \in Claims : IsAlive(c) /\ exec[c].worker = w}
HoldsSlot(w, a) == {c \in LiveOn(w) : stage[c] # "none" /\ AgentOf(c) = a}

DTypeOK ==
  /\ TypeOK
  /\ ticks \in [Workers -> 0..MaxTicks]
  /\ inFlight \in [Workers -> SUBSET RunIds]
  /\ slots \in [Workers -> [Agents -> 0..MaxClaims]]
  /\ stage \in [Claims -> Stages]
  /\ registered \in [Workers -> [RunIds -> Claims \cup {NoToken}]]
  /\ timers \subseteq Claims /\ interrupted \subseteq Claims

DInit ==
  /\ Init
  /\ ticks = [w \in Workers |-> 0]
  /\ inFlight = [w \in Workers |-> {}]
  /\ slots = [w \in Workers |-> [a \in Agents |-> 0]]
  /\ stage = [c \in Claims |-> "none"]
  /\ registered = [w \in Workers |-> [r \in RunIds |-> NoToken]]
  /\ timers = {} /\ interrupted = {}

-----------------------------------------------------------------------------
(* A tick: dispatchNextRun up to the detached promise.                      *)

\* The ceiling is read before the claim is awaited, so several ticks may pass.
PassCapacity(w) ==
  /\ Cardinality(inFlight[w]) < MaxConcurrent
  /\ ticks[w] < MaxTicks
  /\ ticks' = [ticks EXCEPT ![w] = @ + 1]
  /\ UNCHANGED <<vars, inFlight, slots, stage, registered, timers, interrupted>>

TickDone(w) == ticks[w] > 0 /\ ticks' = [ticks EXCEPT ![w] = @ - 1]

TickClaims(w) ==
  /\ TickDone(w)
  /\ claimNextRun(w)
  /\ inFlight' = [inFlight EXCEPT ![w] = @ \cup {exec'[c].run : c \in FreshClaims}]
  /\ UNCHANGED <<slots, stage, registered, timers, interrupted>>

TickFindsNothing(w) ==
  /\ TickDone(w)
  /\ Claimable(w) = {}
  /\ UNCHANGED <<vars, inFlight, slots, stage, registered, timers, interrupted>>

TickLosesClaim(w) ==
  /\ TickDone(w)
  /\ LoseClaim(w)
  /\ UNCHANGED <<inFlight, slots, stage, registered, timers, interrupted>>

-----------------------------------------------------------------------------
(* The way to the turn.                                                    *)

\* The refusals before markRunStarted, and errors nobody caught before the slot.
RefuseEarly(c, verdict) ==
  /\ exec[c].pc = "claimed" /\ RefuseRun(c, verdict)
  /\ UNCHANGED memory

ThrowEarly(c, verdict) ==
  /\ stage[c] = "none" /\ ThrowBeforeTurn(c, verdict)
  /\ UNCHANGED memory

Start(c) == markRunStarted(c) /\ UNCHANGED memory

\* Altered: the count is not looked at again after the sleep.
TakeSlot_Unchecked(c) ==
  /\ exec[c].pc = "started" /\ stage[c] = "none"
  /\ slots' = [slots EXCEPT ![exec[c].worker][AgentOf(c)] = @ + 1]
  /\ stage' = [stage EXCEPT ![c] = "slot"]
  /\ UNCHANGED <<vars, ticks, inFlight, registered, timers, interrupted>>

\* The slot wait ends.  Nothing is awaited between the check and the increment.
\* The wait does not look at the stop flag.
TakeSlot(c) ==
  /\ exec[c].pc = "started" /\ stage[c] = "none"
  /\ slots[exec[c].worker][AgentOf(c)] < AgentMax[AgentOf(c)]
  /\ slots' = [slots EXCEPT ![exec[c].worker][AgentOf(c)] = @ + 1]
  /\ stage' = [stage EXCEPT ![c] = "slot"]
  /\ UNCHANGED <<vars, ticks, inFlight, registered, timers, interrupted>>

\* The early return for a profile that is not installed lies between the
\* increment and the try, so the slot is not given back.
RefuseProfile(c) ==
  /\ stage[c] = "slot" /\ exec[c].pc = "started" /\ AgentOf(c) \in MissingProfiles
  /\ RefuseRun(c, "failed")
  /\ UNCHANGED memory

EnterTurn(c) ==
  /\ stage[c] = "slot" /\ AgentOf(c) \notin MissingProfiles
  /\ BeginTurn(c)
  /\ stage' = [stage EXCEPT ![c] = "try"]
  /\ UNCHANGED <<ticks, inFlight, slots, registered, timers, interrupted>>

-----------------------------------------------------------------------------
(* The turn, and how a stop reaches it.                                    *)

\* Altered: only the in-process control is kept.
RegisterControl_NoWatcher(c) ==
  /\ exec[c].pc = "turn" /\ stage[c] = "try"
  /\ stage' = [stage EXCEPT ![c] = "control"]
  /\ registered' = [registered EXCEPT ![exec[c].worker][exec[c].run] = c]
  /\ UNCHANGED <<vars, ticks, inFlight, slots, timers, interrupted>>

\* onControl: the agent has a session that can be cancelled.
RegisterControl(c) ==
  /\ exec[c].pc = "turn" /\ stage[c] = "try"
  /\ stage' = [stage EXCEPT ![c] = "control"]
  /\ registered' = [registered EXCEPT ![exec[c].worker][exec[c].run] = c]
  /\ timers' = timers \cup {c}
  /\ UNCHANGED <<vars, ticks, inFlight, slots, interrupted>>

\* requestRunCancel finds the control, when the click is served by a bundle of
\* the process that registered it.
StopHere(w, r) ==
  /\ runs[r].stop /\ registered[w][r] # NoToken
  /\ interrupted' = interrupted \cup {registered[w][r]}
  /\ UNCHANGED <<vars, ticks, inFlight, slots, stage, registered, timers>>

\* The watcher of an execution reads the stop flag of its row.
WatcherNotices(c) ==
  /\ c \in timers /\ runs[exec[c].run].stop
  /\ interrupted' = interrupted \cup {c}
  /\ timers' = timers \ {c}
  /\ UNCHANGED <<vars, ticks, inFlight, slots, stage, registered>>

\* Altered: the finally forgets the slot.
LeaveTry_KeepsSlot(c) ==
  LET w == exec[c].worker
      r == exec[c].run
  IN
  /\ timers' = timers \ {registered[w][r]}
  /\ registered' = [registered EXCEPT ![w][r] = NoToken]
  /\ stage' = [stage EXCEPT ![c] = "none"]
  /\ UNCHANGED slots

\* The finally: the slot, and whatever control and watcher the run has by now.
LeaveTry(c) ==
  LET w == exec[c].worker
      r == exec[c].run
  IN
  /\ slots' = [slots EXCEPT ![w][AgentOf(c)] = IF @ = 0 THEN 0 ELSE @ - 1]
  /\ timers' = timers \ {registered[w][r]}
  /\ registered' = [registered EXCEPT ![w][r] = NoToken]
  /\ stage' = [stage EXCEPT ![c] = "none"]

\* Altered: the promise returns with its verdict and nothing is settled.
TurnEnds_NoSettle(c, verdict) ==
  /\ stage[c] = "control" /\ exec[c].pc = "turn" /\ verdict \in Verdicts
  /\ Finish(c) /\ LeaveTry(c)
  /\ UNCHANGED <<runs, Rest, ticks, inFlight, interrupted>>

\* A turn that ended leaves the try before it settles; one that threw is settled
\* in the catch and leaves the try afterwards.
TurnEnds(c, verdict) ==
  /\ stage[c] = "control" /\ FinishTurn(c, verdict)
  /\ LeaveTry(c)
  /\ UNCHANGED <<ticks, inFlight, interrupted>>

TurnThrows(c, verdict) == FailTurn(c, verdict) /\ UNCHANGED memory

\* Altered: an execution that turned to its outer catch is forgotten already.
Forget_Early(c) ==
  inFlight' = [inFlight EXCEPT ![exec[c].worker] = @ \ {exec[c].run}]

\* The finally of dispatchNextRun, by run id.
Forget(c) ==
  inFlight' = IF exec'[c].pc = "ended"
              THEN [inFlight EXCEPT ![exec[c].worker] = @ \ {exec[c].run}]
              ELSE inFlight

Settle(c) ==
  /\ settleRun(c) \/ RollBackSettle(c) \/ BreakSettle(c)
  /\ Forget(c)
  /\ \/ InTry(c) /\ LeaveTry(c)
     \/ ~InTry(c) /\ UNCHANGED <<slots, stage, registered, timers>>
  /\ UNCHANGED <<ticks, interrupted>>

-----------------------------------------------------------------------------
\* A process dies, and its memory with it.
Crash(w) ==
  /\ CrashWorker(w)
  /\ ticks' = [ticks EXCEPT ![w] = 0]
  /\ inFlight' = [inFlight EXCEPT ![w] = {}]
  /\ slots' = [slots EXCEPT ![w] = [a \in Agents |-> 0]]
  /\ registered' = [registered EXCEPT ![w] = [r \in RunIds |-> NoToken]]
  /\ stage' = [c \in Claims |-> IF exec[c].worker = w THEN "none" ELSE stage[c]]
  /\ timers' = {c \in timers : exec[c].worker # w}
  /\ UNCHANGED interrupted

\* What happens to the table without touching this memory.
Elsewhere ==
  /\ \/ \E q \in Requests : enqueueRun(q)
     \/ \E r \in RunIds : requestRunCancellation(r) \/ ReadForAsk(r) \/ SettleFromAsk(r)
     \/ \E r \in RunIds : LapseLease(r)
     \/ \E c \in Claims : renewLease(c) \/ AuthorisePageWrite(c) \/ setRunPageContext(c)
     \/ sweepExpiredLeases
  /\ UNCHANGED memory

Tick(w) == PassCapacity(w) \/ TickClaims(w) \/ TickFindsNothing(w) \/ TickLosesClaim(w)

\* What an execution does when nothing goes wrong on the way, and what may.
Proceed(c) ==
  \/ Start(c) \/ TakeSlot(c) \/ RefuseProfile(c) \/ EnterTurn(c) \/ RegisterControl(c)
  \/ \E v \in {"failed", "retryable"} : RefuseEarly(c, v)
  \/ \E v \in Verdicts : TurnEnds(c, v)
  \/ Settle(c)

GoWrong(c) ==
  \/ \E v \in {"failed", "retryable"} : ThrowEarly(c, v)
  \/ \E v \in Verdicts : TurnThrows(c, v)

DNext ==
  \/ \E w \in Workers : Tick(w) \/ Crash(w)
  \/ \E w \in Workers, r \in RunIds : StopHere(w, r)
  \/ \E c \in Claims : Proceed(c) \/ GoWrong(c) \/ WatcherNotices(c)
  \/ Elsewhere

DSpec == DInit /\ [][DNext]_dvars

\* A turn that somebody wants stopped is taken to be one that hangs.
Hangs(c) == exec[c].pc = "turn" /\ runs[exec[c].run].stop /\ c \notin interrupted

\* The poller ticks, time passes, awaits return; a waiting execution polls for its
\* slot; a turn reports its control and the watcher's interval fires.  A turn that
\* hangs need not end, and nobody is obliged to press Stop, to crash, to throw or to
\* fail.
DFairness ==
  /\ \A w \in Workers : WF_dvars(PassCapacity(w)) /\ WF_dvars(TickClaims(w) \/ TickFindsNothing(w))
  /\ \A c \in Claims : /\ WF_dvars(~Hangs(c) /\ Proceed(c))
                       /\ WF_dvars(RegisterControl(c)) /\ WF_dvars(WatcherNotices(c))
  /\ \A r \in RunIds : WF_dvars(LapseLease(r) /\ UNCHANGED <<pauses, memory>>)
  /\ WF_dvars(sweepExpiredLeases /\ UNCHANGED memory)

DFairSpec == DSpec /\ DFairness

-----------------------------------------------------------------------------
(* What the dispatcher promises.                                           *)

\* Every step of the processes is a step of the run table's specification, so
\* whatever holds of RunBroker holds here.
ImplementsBroker == Spec

\* agent.maxConcurrentRuns: no process runs more turns of an agent at once,
\* whatever path the earlier ones left by.
AgentCeiling ==
  \A w \in Workers, a \in Agents \ {None} : Cardinality(HoldsSlot(w, a)) <= AgentMax[a]

\* Each path out of a turn, a throw in the catch included, gives back the slot of the agent,
\* and no path gives back two (the way out of a run whose profile is missing gives none).
SlotsComeBack ==
  \A w \in Workers, a \in Agents \ ({None} \cup MissingProfiles) : slots[w][a] = Cardinality(HoldsSlot(w, a))

\* inFlightRuns knows every execution of its process, and nothing else.
RegistryIsExact ==
  \A w \in Workers : inFlight[w] = {exec[c].run : c \in LiveOn(w)}

\* A stop recorded on a row whose turn is running is noticed by that turn, in
\* whatever process it runs (worker.ts, requestRunCancel), unless the turn ends.
StopReachesTurn ==
  \A c \in Claims :
    (exec[c].pc = "turn" /\ runs[exec[c].run].stop)
      ~> (c \in interrupted \/ exec[c].pc # "turn")

\* A claimed run gets its slot and its end: the executions of one agent do not
\* keep each other waiting for ever, and one that hangs is stopped.
ExecutionsEnd == \A c \in Claims : IsAlive(c) ~> ~IsAlive(c)
=============================================================================
