------------------------------ MODULE AcpTurn ------------------------------
(***************************************************************************)
(* One turn of an agent process: sendTurn of lib/acp/client.ts, and what    *)
(* the dispatcher makes of its result.                                      *)
(*                                                                         *)
(* Three parties share the turn.  The callback of connectWith walks through *)
(* the handshake, the session and the prompt, and drains the agent's        *)
(* updates.  The agent may send anything its place in the protocol allows,  *)
(* fall silent or die, and what it had already written is read even after   *)
(* it was signalled.  sendTurn itself waits for the callback or for one of  *)
(* two clocks, then kills the process and returns; the callback, the open   *)
(* permission requests and the waits on terminals live on.                  *)
(*                                                                         *)
(* Time is counted in ticks and no tick passes a timer that is due, so that *)
(* the order of the limits is the code's: CancelGrace, InactivityLimit,     *)
(* PermissionLimit and TerminalLimit, TurnLimit.                            *)
(***************************************************************************)
EXTENDS Naturals, Sequences, FiniteSetsExt

CONSTANTS
  Asks,              \* permission requests the agent may make
  Terms,             \* terminals the agent may create
  WantsResume,       \* opts.resumeSessionId is set
  CancelGrace,       \* CANCEL_ESCALATION_MS
  InactivityLimit,   \* inactivityTimeoutMs
  PermissionLimit,   \* permissionTimeoutMs
  TerminalLimit,     \* TERMINAL_EXIT_TIMEOUT_MS
  TurnLimit,         \* turnTimeoutMs
  MaxUpdates         \* bound: session/update notifications that become events

ASSUME AcpAssumption ==
  /\ WantsResume \in BOOLEAN
  /\ {CancelGrace, InactivityLimit, PermissionLimit, TerminalLimit, TurnLimit}
       \subseteq Nat \ {0}
  /\ MaxUpdates \in Nat

VARIABLES
  phase,       \* where the callback of connectWith stands
  replayed,    \* session/load handed back some history
  resumed,     \* the turn continues the session it asked for
  controlled,  \* onControl was called
  prompt,      \* what became of session/prompt
  inbox,       \* the update queue
  heard,       \* how many updates the queue has taken
  link,        \* the connection to the agent
  asks,        \* each permission request
  terms,       \* each terminal: the registry's entry and the process
  stop,        \* the cancel control
  clock,       \* ages: of the turn, the silence, the cancel
  log,         \* the updates and the dones that pushEvent put in the transcript
  told,        \* the other lines of it that matter: notices, ends of terminals
  returned,    \* sendTurn has returned
  verdict      \* how the dispatcher settled the run

vars == <<phase, replayed, resumed, controlled, prompt, inbox, heard, link, asks,
         terms, stop, clock, log, told, returned, verdict>>
callback == <<phase, replayed, resumed, controlled, prompt>>
queue == <<inbox, heard>>
transcript == <<log, told>>
end == <<returned, verdict>>

Phases == {"initialize", "load", "new", "authenticate", "ready", "prompt", "over"}
Requesting == {"initialize", "load", "new", "authenticate"}
Prompts == {"none", "pending", "ok", "cancelled", "error", "closed"}
Ends == {"ok", "cancelled", "error", "closed", "cap", "wedged"}
Verdicts == {"none", "completed", "cancelled", "retryable", "failed"}

Ask == [state : {"none", "open", "settled"}, age : 0..PermissionLimit]
Terminal == [proc : {"none", "running", "dying", "dead"}, known : BOOLEAN,
             listened : BOOLEAN, exit : BOOLEAN, waiting : BOOLEAN, age : 0..TerminalLimit]
Events == ({"update"} \X (1..MaxUpdates)) \cup ({"done"} \X Ends)
Told == [forgotten : BOOLEAN, exits : [Terms -> 0..2]]

TypeOK ==
  /\ phase \in Phases /\ prompt \in Prompts
  /\ replayed \in BOOLEAN /\ resumed \in BOOLEAN /\ controlled \in BOOLEAN
  /\ inbox \in Seq(1..MaxUpdates) /\ heard \in 0..MaxUpdates
  /\ link \in {"up", "down"}
  /\ asks \in [Asks -> Ask] /\ terms \in [Terms -> Terminal]
  /\ stop \in {"no", "asked", "spent"}
  /\ clock \in [turn : 0..TurnLimit, silence : 0..InactivityLimit, cancel : 0..CancelGrace]
  /\ log \in Seq(Events) /\ told \in Told
  /\ returned \in BOOLEAN /\ verdict \in Verdicts

Stopped == [turn |-> 0, silence |-> 0, cancel |-> 0]

Init ==
  /\ phase = "initialize" /\ prompt = "none"
  /\ replayed = FALSE /\ resumed = FALSE /\ controlled = FALSE
  /\ inbox = <<>> /\ heard = 0
  /\ link = "up"
  /\ asks = [p \in Asks |-> [state |-> "none", age |-> 0]]
  /\ terms = [t \in Terms |-> [proc |-> "none", known |-> FALSE, listened |-> FALSE,
                               exit |-> FALSE, waiting |-> FALSE, age |-> 0]]
  /\ stop = "no" /\ clock = Stopped
  /\ log = <<>>
  /\ told = [forgotten |-> FALSE, exits |-> [t \in Terms |-> 0]]
  /\ returned = FALSE /\ verdict = "none"

Dones == {i \in DOMAIN log : log[i][1] = "done"}
turnSettled == Dones # {}

\* touch, alone and as part of pushEvent. Where nothing else is said of the
\* transcript the event is one that no property reads.
touch == clock' = [clock EXCEPT !.silence = 0]
pushEvent(event) == log' = Append(log, event) /\ touch
tell(line) == told' = line /\ touch
\* The clocks of sendTurn stop with it: what they do later has no effect.
pushDone(how) == log' = Append(log, <<"done", how>>) /\ clock' = Stopped

-----------------------------------------------------------------------------
(* The end of sendTurn: its finally reaps the terminals and the process.    *)

\* killTerminalProcess on a terminal that has not reported its exit.
Slain(t) == IF terms[t].proc = "running" /\ ~terms[t].exit THEN "dying" ELSE terms[t].proc

Reaped(t) == [terms[t] EXCEPT !.proc = Slain(t), !.listened = FALSE, !.known = FALSE]
disposeAll == terms' = [t \in Terms |-> IF terms[t].known THEN Reaped(t) ELSE terms[t]]

ReturnNow ==
  \/ ~returned /\ returned' = TRUE /\ disposeAll
  \/ returned /\ UNCHANGED <<returned, terms>>

\* The callback ends with its own done; if sendTurn is still in its race, it
\* wins it, and no timer runs before sendTurn has returned.
Conclude(how) ==
  /\ phase' = "over" /\ pushDone(how)
  /\ ReturnNow

-----------------------------------------------------------------------------
(* The callback of connectWith.                                             *)

Initialized ==
  /\ phase = "initialize" /\ link = "up"
  /\ phase' = IF WantsResume THEN "load" ELSE "new"
  /\ touch
  /\ UNCHANGED <<replayed, resumed, controlled, prompt, queue, link, asks, terms,
                 stop, transcript, end>>

\* The agent does not advertise session/load.
NoLoad ==
  /\ phase = "initialize" /\ link = "up" /\ WantsResume
  /\ phase' = "new" /\ touch
  /\ UNCHANGED <<replayed, resumed, controlled, prompt, queue, link, asks, terms,
                 stop, transcript, end>>

\* The agent replays the conversation while session/load is in flight.
ReplayHistory ==
  /\ phase = "load" /\ link = "up"
  /\ replayed' = TRUE /\ touch
  /\ UNCHANGED <<phase, resumed, controlled, prompt, queue, link, asks, terms,
                 stop, transcript, end>>

\* The session exists: onControl is called, with no await before it.
OpenSession(forgotten) ==
  /\ phase' = "ready" /\ controlled' = TRUE
  /\ tell([told EXCEPT !.forgotten = forgotten])

\* Altered: the answer of session/load is taken for the session.
Loaded_TrustsAnswer(ok) ==
  /\ phase = "load" /\ link = "up"
  /\ \/ ok /\ resumed' = TRUE /\ OpenSession(FALSE)
     \/ ~ok /\ phase' = "new" /\ UNCHANGED <<resumed, controlled, clock, told>>
  /\ UNCHANGED <<replayed, prompt, queue, link, asks, terms, stop, log, end>>

Loaded(ok) ==
  /\ phase = "load" /\ link = "up"
  /\ \/ ok /\ replayed /\ resumed' = TRUE /\ OpenSession(FALSE)
     \/ ~(ok /\ replayed) /\ phase' = "new" /\ UNCHANGED <<resumed, controlled, clock, told>>
  /\ UNCHANGED <<replayed, prompt, queue, link, asks, terms, stop, log, end>>

SessionCreated ==
  /\ phase \in {"new", "authenticate"} /\ link = "up"
  /\ OpenSession(WantsResume)
  /\ UNCHANGED <<replayed, resumed, prompt, queue, link, asks, terms, stop, log, end>>

\* The one refusal with a remedy, tried once: authenticate, then ask again.
AuthRequired ==
  /\ phase = "new" /\ link = "up"
  /\ phase' = "authenticate" /\ touch
  /\ UNCHANGED <<replayed, resumed, controlled, prompt, queue, link, asks, terms,
                 stop, transcript, end>>

\* session/set_mode and session/set_config_option, whose failure is only noted,
\* and then the prompt, not awaited.
SendPrompt(refused) ==
  /\ phase = "ready"
  /\ phase' = "prompt" /\ prompt' = IF link = "up" THEN "pending" ELSE "closed"
  /\ IF refused THEN touch ELSE UNCHANGED clock
  /\ UNCHANGED <<replayed, resumed, controlled, queue, link, asks, terms, stop,
                 transcript, end>>

\* A request of the callback is refused, or the connection closed under it.
RequestFails ==
  /\ phase \in Requesting
  /\ Conclude(IF link = "down" THEN "closed" ELSE "error")
  /\ UNCHANGED <<replayed, resumed, controlled, prompt, queue, link, asks, stop, told, verdict>>

\* The prompt settles, and the queue is closed with it.
PromptSettles(how) ==
  /\ prompt = "pending" /\ how \in {"ok", "cancelled", "error"} /\ link = "up"
  /\ how = "cancelled" => stop # "no"
  /\ prompt' = how
  /\ UNCHANGED <<phase, replayed, resumed, controlled, queue, link, asks, terms,
                 stop, clock, transcript, end>>

\* The queue takes what is no history of a session/load, from the handshake on.
SessionUpdate ==
  /\ phase \notin {"load", "over"} /\ prompt \in {"none", "pending"}
  /\ link = "up" /\ heard < MaxUpdates
  /\ inbox' = Append(inbox, heard + 1) /\ heard' = heard + 1 /\ touch
  /\ UNCHANGED <<callback, link, asks, terms, stop, transcript, end>>

Drain ==
  /\ phase = "prompt" /\ inbox # <<>>
  /\ pushEvent(<<"update", Head(inbox)>>)
  /\ inbox' = Tail(inbox)
  /\ UNCHANGED <<callback, heard, link, asks, terms, stop, told, end>>

Drained == prompt # "pending" /\ inbox = <<>>

EndPrompt ==
  /\ phase = "prompt" /\ Drained
  /\ Conclude(prompt)
  /\ UNCHANGED <<replayed, resumed, controlled, prompt, queue, link, asks, stop, told, verdict>>

-----------------------------------------------------------------------------
(* session/request_permission: the request and its answer enter the         *)
(* transcript, whichever way it is answered and however late.               *)

Settle(p) == asks' = [asks EXCEPT ![p] = [state |-> "settled", age |-> 0]]

\* A request nobody is asked about, because of the agent's permissionMode or of
\* autoAllowToolPrefixes, is settled as it is made.
RequestPermission(p, attended) ==
  /\ phase = "prompt" /\ link = "up" /\ asks[p].state = "none"
  /\ \/ attended /\ asks' = [asks EXCEPT ![p] = [state |-> "open", age |-> 0]]
     \/ ~attended /\ Settle(p)
  /\ touch
  /\ UNCHANGED <<callback, queue, link, terms, stop, transcript, end>>

\* The callback of the approvals layer answers, or throws.
PermissionAnswered(p) ==
  /\ asks[p].state = "open"
  /\ Settle(p) /\ touch
  /\ UNCHANGED <<callback, queue, link, terms, stop, transcript, end>>

PermissionDue(p) == asks[p].state = "open" /\ asks[p].age = PermissionLimit

PermissionExpires(p) ==
  /\ PermissionDue(p)
  /\ Settle(p) /\ touch
  /\ UNCHANGED <<callback, queue, link, terms, stop, transcript, end>>

-----------------------------------------------------------------------------
(* terminal/create, wait_for_exit, kill, release.                           *)

\* settleTerminalExit: the first end of a terminal is reported, and answers
\* those who wait for it.
ExitTold(t) == IF terms[t].exit THEN 0 ELSE 1
settleTerminalExit(t, proc) ==
  [terms[t] EXCEPT !.proc = proc, !.exit = TRUE, !.waiting = terms[t].exit /\ @, !.age = 0]

\* A shell that cannot be spawned is a terminal all the same, at its end.
Opened(spawns) == [proc |-> IF spawns THEN "running" ELSE "dead", known |-> TRUE, listened |-> spawns,
                   exit |-> ~spawns, waiting |-> FALSE, age |-> 0]

TerminalCreate(t, spawns) ==
  /\ phase = "prompt" /\ link = "up" /\ terms[t].proc = "none"
  /\ terms' = [terms EXCEPT ![t] = Opened(spawns)]
  /\ IF spawns THEN touch /\ UNCHANGED told
               ELSE tell([told EXCEPT !.exits[t] = 1])
  /\ UNCHANGED <<callback, queue, link, asks, stop, log, end>>

TerminalOutput(t) ==
  /\ terms[t].proc = "running" /\ terms[t].listened
  /\ touch
  /\ UNCHANGED <<callback, queue, link, asks, terms, stop, transcript, end>>

\* node-pty's onExit, when somebody still listens for it.
TerminalExit(t) ==
  /\ terms[t].proc \in {"running", "dying"}
  /\ \/ /\ terms[t].listened
        /\ terms' = [terms EXCEPT ![t] = settleTerminalExit(t, "dead")]
        /\ tell([told EXCEPT !.exits[t] = @ + ExitTold(t)])
     \/ /\ ~terms[t].listened
        /\ terms' = [terms EXCEPT ![t].proc = "dead"]
        /\ UNCHANGED <<clock, told>>
  /\ UNCHANGED <<callback, queue, link, asks, stop, log, end>>

TerminalWait(t) ==
  /\ phase = "prompt" /\ link = "up" /\ terms[t].proc # "none" /\ ~terms[t].waiting
  /\ terms' = [terms EXCEPT ![t] = [@ EXCEPT !.waiting = terms[t].known /\ ~terms[t].exit, !.age = 0]]
  /\ touch
  /\ UNCHANGED <<callback, queue, link, asks, stop, transcript, end>>

\* Altered: the bound on a wait goes with the registry entry.
WaitDue_Known(t) == terms[t].waiting /\ terms[t].age = TerminalLimit /\ terms[t].known

WaitDue(t) == terms[t].waiting /\ terms[t].age = TerminalLimit

\* The terminal is killed, by the id its process had, and its end reported.
WaitExpires(t) ==
  /\ WaitDue(t)
  /\ terms' = [terms EXCEPT ![t] = [settleTerminalExit(t, IF @.proc = "running" THEN "dying" ELSE @.proc)
                                     EXCEPT !.waiting = FALSE]]
  /\ tell([told EXCEPT !.exits[t] = @ + ExitTold(t)])
  /\ UNCHANGED <<callback, queue, link, asks, stop, log, end>>

TerminalKill(t) ==
  /\ phase = "prompt" /\ link = "up" /\ terms[t].known
  /\ terms' = [terms EXCEPT ![t].proc = Slain(t)]
  /\ touch
  /\ UNCHANGED <<callback, queue, link, asks, stop, transcript, end>>

\* Altered: a released terminal is forgotten, not killed.
TerminalRelease_NoKill(t) ==
  /\ phase = "prompt" /\ link = "up" /\ terms[t].known
  /\ terms' = [terms EXCEPT ![t].listened = FALSE, ![t].known = FALSE]
  /\ touch
  /\ UNCHANGED <<callback, queue, link, asks, stop, transcript, end>>

TerminalRelease(t) ==
  /\ phase = "prompt" /\ link = "up" /\ terms[t].known
  /\ terms' = [terms EXCEPT ![t] = Reaped(t)]
  /\ touch
  /\ UNCHANGED <<callback, queue, link, asks, stop, transcript, end>>

-----------------------------------------------------------------------------
(* Stop, the two clocks, and the process.                                   *)

\* control.cancel: session/cancel, and a timer. runCancelControls forgets the
\* control when sendTurn has returned.
Cancel ==
  /\ controlled /\ ~returned /\ stop = "no"
  /\ stop' = "asked"
  /\ UNCHANGED <<callback, queue, link, asks, terms, clock, transcript, end>>

CancelDue == ~returned /\ stop = "asked" /\ clock.cancel = CancelGrace

\* child.kill, which the process may take its time over: Disconnect.
Escalate ==
  /\ CancelDue
  /\ stop' = "spent"
  /\ UNCHANGED <<callback, queue, link, asks, terms, clock, transcript, end>>

\* The process is gone and its pipes are read to the end: what the callback
\* awaited is refused. It may also die without a signal.
Disconnect ==
  /\ link = "up"
  /\ link' = "down"
  /\ prompt' = IF prompt = "pending" THEN "closed" ELSE prompt
  /\ UNCHANGED <<phase, replayed, resumed, controlled, queue, asks, terms,
                 stop, clock, transcript, end>>

TurnDue == ~returned /\ clock.turn = TurnLimit
SilenceDue == ~returned /\ ~turnSettled /\ clock.silence = InactivityLimit

\* Altered: sendTurn awaits its callback after giving up on it.
GiveUp_Awaits(how) ==
  /\ IF how = "cap" THEN TurnDue ELSE SilenceDue
  /\ phase = "over"
  /\ pushDone(how)
  /\ ReturnNow
  /\ UNCHANGED <<callback, queue, link, asks, stop, told, verdict>>

\* The race is lost: done, and the callback is left to itself.
GiveUp(how) ==
  /\ IF how = "cap" THEN TurnDue ELSE SilenceDue
  /\ pushDone(how)
  /\ ReturnNow
  /\ UNCHANGED <<callback, queue, link, asks, stop, told, verdict>>

\* What worker.ts reads from the result: its first done, and a text.
Disposition(how) ==
  CASE how = "ok"        -> {"completed"}
    [] how = "cancelled" -> {"cancelled"}
    [] how = "error"     -> {"retryable", "failed", "cancelled"}
    [] OTHER             -> {"retryable"}   \* closed, cap, wedged

\* Altered: the last done of the transcript decides.
Decisive_Last == log[Max(Dones)][2]

FirstDone == Min(Dones)
Decisive == log[FirstDone][2]

SettleRun ==
  /\ returned /\ verdict = "none"
  /\ verdict' \in Disposition(Decisive)
  /\ UNCHANGED <<callback, queue, link, asks, terms, stop, clock, transcript, returned>>

-----------------------------------------------------------------------------

TimerDue ==
  \/ CancelDue \/ TurnDue \/ SilenceDue
  \/ \E p \in Asks : PermissionDue(p)
  \/ \E t \in Terms : WaitDue(t)
Timing ==
  ~returned \/ (\E p \in Asks : asks[p].state = "open") \/ (\E t \in Terms : terms[t].waiting)

Older(age, limit, running) == IF running /\ age < limit THEN age + 1 ELSE age

Tick ==
  /\ Timing /\ ~TimerDue
  /\ clock' = [turn    |-> Older(clock.turn, TurnLimit, ~returned),
               silence |-> Older(clock.silence, InactivityLimit, ~returned),
               cancel  |-> Older(clock.cancel, CancelGrace, ~returned /\ stop = "asked")]
  /\ asks' = [p \in Asks |->
       [asks[p] EXCEPT !.age = Older(@, PermissionLimit, asks[p].state = "open")]]
  /\ terms' = [t \in Terms |->
       [terms[t] EXCEPT !.age = Older(@, TerminalLimit, terms[t].waiting)]]
  /\ UNCHANGED <<callback, queue, link, stop, transcript, end>>

Timer ==
  \/ Escalate \/ (\E how \in {"cap", "wedged"} : GiveUp(how))
  \/ (\E p \in Asks : PermissionExpires(p)) \/ (\E t \in Terms : WaitExpires(t))

Agent ==
  \/ Initialized \/ NoLoad \/ ReplayHistory \/ SessionCreated \/ AuthRequired
  \/ (\E ok \in BOOLEAN : Loaded(ok) \/ SendPrompt(ok))
  \/ SessionUpdate \/ (\E how \in Prompts : PromptSettles(how))
  \/ \E p \in Asks, attended \in BOOLEAN : RequestPermission(p, attended)
  \/ \E t \in Terms : \/ TerminalCreate(t, TRUE) \/ TerminalCreate(t, FALSE)
                      \/ TerminalWait(t) \/ TerminalKill(t) \/ TerminalRelease(t)
  \/ Disconnect

Next ==
  \/ Agent \/ RequestFails \/ Drain \/ EndPrompt
  \/ (\E p \in Asks : PermissionAnswered(p))
  \/ (\E t \in Terms : TerminalOutput(t) \/ TerminalExit(t))
  \/ Cancel \/ SettleRun \/ Timer \/ Tick

Spec == Init /\ [][Next]_vars

\* Time passes, timers fire, and the promises of this process are resumed. The
\* agent, the person asked and the commands of the terminals owe nothing.
FairSpec ==
  /\ Spec /\ WF_vars(Tick) /\ WF_vars(Timer)
  /\ WF_vars(Drain) /\ WF_vars(EndPrompt) /\ WF_vars(SettleRun)

-----------------------------------------------------------------------------
(* Properties.                                                              *)

\* A run the dispatcher counts as completed has the agent's whole reply, every
\* update the connection ever took for this turn, in order, in front of the
\* first done, where the readers of the stream stop.
CompletedReplyIsWhole ==
  verdict = "completed" =>
    FirstDone = heard + 1 /\ \A i \in 1..heard : log[i] = <<"update", i>>

\* A turn that asked to continue a session either got its history back, or says
\* in its transcript that the agent no longer remembers.
MemoryIsReal ==
  controlled /\ WantsResume =>
    IF resumed THEN replayed ELSE told.forgotten

\* No command the agent started before sendTurn returned is left to itself.
NothingOutlivesTheTurn ==
  [][~returned /\ returned' => \A t \in Terms : terms'[t].proc # "running"]_vars

\* Whatever the agent does, hang or die or flood, the turn comes back and the
\* run is settled.
TurnSettles == <>(verdict # "none")

\* What the agent asks of others ends once: no card stays open for ever, a wait for a
\* terminal is answered, also when the terminal was released or reaped under it, and of
\* a normal exit, a kill, a failed spawn and an expired wait one reports the terminal's
\* end, however they race.
RequestsEndOnce ==
  /\ \A p \in Asks : asks[p].state = "open" ~> asks[p].state = "settled"
  /\ \A t \in Terms : terms[t].waiting ~> ~terms[t].waiting
  /\ [](\A t \in Terms : told.exits[t] <= 1)
=============================================================================
