--------------------------- MODULE AcpTurnProofs ---------------------------
(***************************************************************************)
(* Proofs about AcpTurn, for any number of updates, permission requests and *)
(* terminals and any limits: an agent is not taken to remember what it does *)
(* not, no command is left to itself, each terminal ends once, and a reply  *)
(* that counts as completed is whole.                                       *)
(***************************************************************************)
EXTENDS AcpTurn, TLAPS

Shape ==
  /\ phase \in Phases /\ {replayed, resumed, controlled, returned} \subseteq BOOLEAN
  /\ terms \in [Terms -> Terminal] /\ told \in Told

\* A session that was continued had its history replayed; one that was not, says so.
Remembers ==
  /\ resumed => replayed /\ phase \in {"ready", "prompt", "over"}
  /\ controlled /\ WantsResume /\ ~resumed => told.forgotten

\* A command that runs is in the registry until sendTurn returns, and has not been reported.
Housed == ~returned => \A t \in Terms : terms[t].proc = "running" => terms[t].known /\ ~terms[t].exit

\* What the transcript says of the ends of a terminal is what the registry knows.
Counted == \A t \in Terms : /\ told.exits[t] = IF terms[t].exit THEN 1 ELSE 0
                            /\ terms[t].proc = "none" => ~terms[t].exit /\ ~terms[t].waiting

Inv == Shape /\ Remembers /\ Housed /\ Counted

LEMMA InitInv == Init => Inv
  <1> SUFFICES ASSUME Init PROVE Inv
    OBVIOUS
  <1>1. terms \in [Terms -> Terminal]
    <2>1. 0 \in 0..TerminalLimit
      BY AcpAssumption
    <2> QED BY <2>1 DEF Init, Terminal
  <1>2. told \in Told
    BY DEF Init, Told
  <1> QED BY <1>1, <1>2 DEF Init, Inv, Shape, Phases, Remembers, Housed, Counted

-----------------------------------------------------------------------------
(* Terminals.                                                               *)

\* What disposeAll and terminal/release make of a terminal.
LEMMA ReapedTerminal ==
  ASSUME NEW t \in Terms, terms[t] \in Terminal
  PROVE  /\ Reaped(t) \in Terminal /\ Reaped(t).proc = Slain(t)
         /\ Reaped(t).exit = terms[t].exit /\ Reaped(t).waiting = terms[t].waiting
  BY DEF Reaped, Slain, Terminal

\* What the report of an end makes of it.
LEMMA SettledTerminal ==
  ASSUME NEW t \in Terms, terms[t] \in Terminal, NEW proc \in {"none", "running", "dying", "dead"}
  PROVE  /\ settleTerminalExit(t, proc) \in Terminal
         /\ settleTerminalExit(t, proc).proc = proc /\ settleTerminalExit(t, proc).exit = TRUE
         /\ settleTerminalExit(t, proc).known = terms[t].known
  <1>1. 0 \in 0..TerminalLimit
    BY AcpAssumption
  <1> QED BY <1>1 DEF settleTerminalExit, Terminal

LEMMA OpenedTerminal ==
  ASSUME NEW spawns \in BOOLEAN
  PROVE  Opened(spawns) \in Terminal
  <1>1. 0 \in 0..TerminalLimit
    BY AcpAssumption
  <1> QED BY <1>1 DEF Opened, Terminal

\* A line about the end of a terminal.
LEMMA ToldExit ==
  ASSUME Inv, NEW t \in Terms, told' = [told EXCEPT !.exits[t] = 1]
  PROVE  /\ told' \in Told /\ told'.forgotten = told.forgotten /\ told'.exits[t] = 1
         /\ \A u \in Terms \ {t} : told'.exits[u] = told.exits[u]
  BY DEF Inv, Shape, Told

\* A step of one terminal: the invariant is about this one.
LEMMA OneTerminal ==
  ASSUME Inv, NEW t \in Terms, NEW T \in Terminal, terms' = [terms EXCEPT ![t] = T],
         UNCHANGED <<callback, returned>>,
         told' \in Told /\ told'.forgotten = told.forgotten,
         \A u \in Terms \ {t} : told'.exits[u] = told.exits[u],
         told'.exits[t] = IF T.exit THEN 1 ELSE 0,
         T.proc = "none" => ~T.exit /\ ~T.waiting,
         ~returned => (T.proc = "running" => T.known /\ ~T.exit)
  PROVE  Inv'
  <1>1. terms' \in [Terms -> Terminal] /\ terms'[t] = T /\ \A u \in Terms \ {t} : terms'[u] = terms[u]
    BY DEF Inv, Shape
  <1>2. Shape' /\ Remembers'
    BY <1>1 DEF Inv, Shape, Remembers, callback
  <1>3. Housed'
    BY <1>1 DEF Inv, Housed
  <1>4. Counted'
    BY <1>1 DEF Inv, Counted
  <1> QED BY <1>2, <1>3, <1>4 DEF Inv

LEMMA TerminalInv ==
  ASSUME Inv, NEW t \in Terms,
         \/ \E spawns \in BOOLEAN : TerminalCreate(t, spawns)
         \/ TerminalOutput(t) \/ TerminalExit(t) \/ TerminalWait(t) \/ WaitExpires(t)
         \/ TerminalKill(t) \/ TerminalRelease(t)
  PROVE  Inv'
  <1>1. terms[t] \in Terminal /\ told \in Told /\ told.exits[t] = IF terms[t].exit THEN 1 ELSE 0
    BY DEF Inv, Shape, Counted
  <1>2. /\ terms[t].proc = "none" => ~terms[t].exit /\ ~terms[t].waiting
        /\ ~returned => (terms[t].proc = "running" => terms[t].known /\ ~terms[t].exit)
    BY DEF Inv, Counted, Housed
  <1>3. told.exits[t] + ExitTold(t) = 1
    BY <1>1 DEF ExitTold
  <1>4. ASSUME NEW spawns \in BOOLEAN, TerminalCreate(t, spawns) PROVE Inv'
    <2>1. terms' = [terms EXCEPT ![t] = Opened(spawns)] /\ UNCHANGED <<callback, returned>>
      BY <1>4 DEF TerminalCreate, end
    <2>2. CASE spawns
      <3>1. told' = told
        BY <1>4, <2>2 DEF TerminalCreate
      <3>2. told.exits[t] = 0
        BY <1>1, <1>2, <1>4 DEF TerminalCreate
      <3> QED BY <1>1, <2>1, <2>2, <3>1, <3>2, OpenedTerminal, OneTerminal DEF Opened
    <2>3. CASE ~spawns
      <3>1. told' = [told EXCEPT !.exits[t] = 1]
        BY <1>4, <2>3 DEF TerminalCreate, tell
      <3>2. Opened(spawns) \in Terminal /\ Opened(spawns).exit = TRUE /\ Opened(spawns).proc = "dead"
        BY <2>3, OpenedTerminal DEF Opened
      <3> QED BY <2>1, <3>1, <3>2, ToldExit, OneTerminal
    <2> QED BY <2>2, <2>3
  <1>5. CASE TerminalOutput(t)
    BY <1>5 DEF TerminalOutput, transcript, end, callback, Inv, Shape, Remembers, Housed, Counted
  <1>6. CASE TerminalExit(t)
    <2>1. UNCHANGED <<callback, returned>>
      BY <1>6 DEF TerminalExit, end
    <2>2. CASE terms' = [terms EXCEPT ![t] = settleTerminalExit(t, "dead")] /\ terms[t].listened
      <3>1. told' = [told EXCEPT !.exits[t] = 1]
        BY <1>3, <1>6, <2>2 DEF TerminalExit, tell
      <3> DEFINE T == settleTerminalExit(t, "dead")
      <3>2. T \in Terminal /\ T.proc = "dead" /\ T.exit = TRUE
        BY <1>1, SettledTerminal
      <3>3. terms' = [terms EXCEPT ![t] = T]
        BY <2>2
      <3> HIDE DEF T
      <3> QED BY <2>1, <3>1, <3>2, <3>3, ToldExit, OneTerminal
    <2>3. CASE ~terms[t].listened
      <3> DEFINE T == [terms[t] EXCEPT !.proc = "dead"]
      <3>1. terms' = [terms EXCEPT ![t] = T] /\ told' = told
        BY <1>6, <2>3 DEF TerminalExit
      <3>2. T \in Terminal /\ T.proc = "dead" /\ T.exit = terms[t].exit
        BY <1>1 DEF Terminal
      <3> HIDE DEF T
      <3> QED BY <1>1, <2>1, <3>1, <3>2, OneTerminal
    <2> QED BY <1>6, <2>2, <2>3 DEF TerminalExit
  <1>7. CASE TerminalWait(t)
    <2> DEFINE T == [terms[t] EXCEPT !.waiting = terms[t].known /\ ~terms[t].exit, !.age = 0]
    <2>1. terms' = [terms EXCEPT ![t] = T] /\ told' = told /\ UNCHANGED <<callback, returned>>
      BY <1>7 DEF TerminalWait, transcript, end
    <2>2. 0 \in 0..TerminalLimit
      BY AcpAssumption
    <2>3. T \in Terminal /\ T.proc = terms[t].proc /\ T.exit = terms[t].exit /\ T.known = terms[t].known
      BY <1>1, <2>2 DEF Terminal
    <2>4. terms[t].proc # "none"
      BY <1>7 DEF TerminalWait
    <2> HIDE DEF T
    <2> QED BY <1>1, <1>2, <2>1, <2>3, <2>4, OneTerminal
  <1>8. CASE WaitExpires(t)
    <2> DEFINE proc == IF terms[t].proc = "running" THEN "dying" ELSE terms[t].proc
               T == [settleTerminalExit(t, proc) EXCEPT !.waiting = FALSE]
    <2>1. terms' = [terms EXCEPT ![t] = T] /\ UNCHANGED <<callback, returned>>
      BY <1>8 DEF WaitExpires, end
    <2>2. told' = [told EXCEPT !.exits[t] = 1]
      BY <1>3, <1>8 DEF WaitExpires, tell
    <2>3. proc \in {"none", "running", "dying", "dead"} /\ proc # "running"
      BY <1>1 DEF Terminal
    <2> HIDE DEF proc
    <2>4. settleTerminalExit(t, proc) \in Terminal /\ settleTerminalExit(t, proc).proc = proc
          /\ settleTerminalExit(t, proc).exit = TRUE
      BY <1>1, <2>3, SettledTerminal
    <2>5. T \in Terminal /\ T.proc = proc /\ T.exit = TRUE
      BY <2>4 DEF Terminal
    <2>6. proc # "none"
      BY <1>2, <1>8 DEF WaitExpires, WaitDue, proc
    <2> HIDE DEF T
    <2> QED BY <2>1, <2>2, <2>3, <2>5, <2>6, ToldExit, OneTerminal
  <1>9. CASE TerminalKill(t)
    <2> DEFINE T == [terms[t] EXCEPT !.proc = Slain(t)]
    <2>1. terms' = [terms EXCEPT ![t] = T] /\ told' = told /\ UNCHANGED <<callback, returned>>
      BY <1>9 DEF TerminalKill, transcript, end
    <2>2. T \in Terminal /\ T.proc = Slain(t) /\ T.exit = terms[t].exit /\ T.waiting = terms[t].waiting
      BY <1>1 DEF Terminal, Slain
    <2> HIDE DEF T
    <2> QED BY <1>1, <1>2, <2>1, <2>2, OneTerminal DEF Slain
  <1>10. CASE TerminalRelease(t)
    <2>1. terms' = [terms EXCEPT ![t] = Reaped(t)] /\ told' = told /\ UNCHANGED <<callback, returned>>
      BY <1>10 DEF TerminalRelease, transcript, end
    <2>2. Slain(t) # "running" \/ returned
      BY <1>2 DEF Slain
    <2> QED BY <1>1, <1>2, <2>1, <2>2, ReapedTerminal, OneTerminal DEF Slain
  <1> QED BY <1>4, <1>5, <1>6, <1>7, <1>8, <1>9, <1>10

-----------------------------------------------------------------------------
(* The end of sendTurn.                                                     *)

\* What runs is in the registry, and disposeAll takes it down.
LEMMA ReturnInv ==
  ASSUME Inv, ReturnNow, UNCHANGED <<replayed, resumed, controlled, told>>, phase' \in {phase, "over"}
  PROVE  Inv' /\ (~returned => \A t \in Terms : terms'[t].proc # "running")
  <1>1. Shape /\ Remembers /\ Housed /\ Counted
    BY DEF Inv
  <1>2. Remembers'
    BY <1>1 DEF Remembers
  <1>3. phase' \in Phases
    BY <1>1 DEF Shape, Phases
  <1>4. CASE returned
    BY <1>1, <1>2, <1>3, <1>4 DEF ReturnNow, Inv, Shape, Housed, Counted
  <1>5. CASE ~returned
    <2>1. returned' = TRUE /\ terms' = [t \in Terms |-> IF terms[t].known THEN Reaped(t) ELSE terms[t]]
      BY <1>5 DEF ReturnNow, disposeAll
    <2>2. ASSUME NEW t \in Terms
          PROVE  /\ terms'[t] \in Terminal /\ terms'[t].exit = terms[t].exit
                 /\ terms'[t].waiting = terms[t].waiting
                 /\ terms'[t].proc # "running" /\ (terms'[t].proc = "none" => terms[t].proc = "none")
      <3>1. terms[t] \in Terminal /\ (terms[t].proc = "running" => terms[t].known /\ ~terms[t].exit)
        BY <1>1, <1>5 DEF Shape, Housed
      <3>2. CASE terms[t].known
        <4>1. terms'[t] = Reaped(t)
          BY <2>1, <3>2
        <4>2. Slain(t) # "running" /\ (Slain(t) = "none" => terms[t].proc = "none")
          BY <3>1 DEF Slain
        <4> QED BY <3>1, <4>1, <4>2, ReapedTerminal
      <3>3. CASE ~terms[t].known
        BY <2>1, <3>1, <3>3
      <3> QED BY <3>2, <3>3
    <2>3. terms' \in [Terms -> Terminal]
      BY <2>1, <2>2
    <2>4. Shape'
      BY <1>1, <1>3, <2>1, <2>3 DEF Shape
    <2>5. Housed' /\ Counted'
      BY <1>1, <2>1, <2>2 DEF Housed, Counted
    <2> QED BY <1>2, <2>2, <2>4, <2>5 DEF Inv
  <1> QED BY <1>4, <1>5

Returning == RequestFails \/ EndPrompt \/ \E how \in {"cap", "wedged"} : GiveUp(how)

LEMMA ReturningReturns ==
  ASSUME Returning
  PROVE  ReturnNow /\ UNCHANGED <<replayed, resumed, controlled, told>> /\ phase' \in {phase, "over"}
  BY DEF Returning, RequestFails, EndPrompt, GiveUp, Conclude, callback

-----------------------------------------------------------------------------
(* The other steps.                                                         *)

\* The callback up to its prompt, the queue, the requests and the process.
LEMMA CallbackInv ==
  ASSUME Inv,
         \/ Initialized \/ NoLoad \/ ReplayHistory \/ SessionCreated \/ AuthRequired
         \/ \E ok \in BOOLEAN : Loaded(ok) \/ SendPrompt(ok)
         \/ SessionUpdate \/ Drain \/ Disconnect \/ Cancel \/ Escalate \/ SettleRun
         \/ \E how \in Prompts : PromptSettles(how)
         \/ \E p \in Asks : \/ \E attended \in BOOLEAN : RequestPermission(p, attended)
                             \/ PermissionAnswered(p) \/ PermissionExpires(p)
         \/ UNCHANGED vars
  PROVE  Inv' /\ returned' = returned
  <1>1. Shape /\ Remembers /\ Housed /\ Counted
    BY DEF Inv
  <1>2. UNCHANGED <<terms, returned>>
    BY DEF Initialized, NoLoad, ReplayHistory, SessionCreated, AuthRequired, Loaded, SendPrompt, SessionUpdate,
           Drain, Disconnect, Cancel, Escalate, SettleRun, PromptSettles, RequestPermission, PermissionAnswered,
           PermissionExpires, vars, end
  <1>3. /\ told' \in Told /\ told'.exits = told.exits
        /\ phase' \in Phases /\ {replayed', resumed', controlled'} \subseteq BOOLEAN
        /\ Remembers'
    <2>1. CASE SessionCreated
      <3>1. told' = [told EXCEPT !.forgotten = WantsResume] /\ phase' = "ready" /\ controlled' = TRUE
        BY <2>1 DEF SessionCreated, OpenSession, tell
      <3>2. told' \in Told /\ told'.exits = told.exits /\ told'.forgotten = WantsResume
        BY <1>1, <3>1, AcpAssumption DEF Shape, Told
      <3> QED BY <1>1, <2>1, <3>1, <3>2 DEF SessionCreated, Shape, Phases, Remembers
    <2>2. ASSUME NEW ok \in BOOLEAN, Loaded(ok)
          PROVE  /\ told' \in Told /\ told'.exits = told.exits
                 /\ phase' \in Phases /\ {replayed', resumed', controlled'} \subseteq BOOLEAN
                 /\ Remembers'
      <3>1. CASE ok /\ replayed
        <4>1. told' = [told EXCEPT !.forgotten = FALSE] /\ phase' = "ready" /\ controlled' = TRUE /\ resumed' = TRUE
          BY <2>2, <3>1 DEF Loaded, OpenSession, tell
        <4>2. told' \in Told /\ told'.exits = told.exits
          BY <1>1, <4>1 DEF Shape, Told
        <4> QED BY <1>1, <2>2, <3>1, <4>1, <4>2 DEF Loaded, Shape, Phases, Remembers
      <3>2. CASE ~(ok /\ replayed)
        <4>1. phase = "load" /\ phase' = "new" /\ UNCHANGED <<replayed, resumed, controlled, told>>
          BY <2>2, <3>2 DEF Loaded
        <4> QED BY <1>1, <4>1 DEF Shape, Phases, Remembers
      <3> QED BY <3>1, <3>2
    <2>3. CASE Initialized \/ NoLoad \/ ReplayHistory \/ AuthRequired \/ \E refused \in BOOLEAN : SendPrompt(refused)
      <3>1. /\ UNCHANGED <<resumed, controlled, told>> /\ (replayed' = replayed \/ replayed' = TRUE)
            /\ \/ phase' = "prompt" /\ phase = "ready"
               \/ phase' \in {"load", "new", "authenticate"} /\ phase \in Requesting
        BY <2>3 DEF Initialized, NoLoad, ReplayHistory, AuthRequired, SendPrompt, transcript, Requesting
      <3>2. phase' \in Phases /\ (resumed => phase' = "prompt")
        BY <1>1, <3>1 DEF Remembers, Phases, Requesting
      <3>3. replayed' \in BOOLEAN /\ (replayed => replayed')
        <4>1. replayed \in BOOLEAN
          BY <1>1 DEF Shape
        <4>2. CASE replayed' = replayed
          BY <4>1, <4>2
        <4>3. CASE replayed' = TRUE
          BY <4>3
        <4> QED BY <3>1, <4>2, <4>3
      <3> QED BY <1>1, <3>1, <3>2, <3>3 DEF Shape, Remembers
    <2>4. CASE UNCHANGED <<phase, replayed, resumed, controlled, told>>
      BY <1>1, <2>4 DEF Shape, Remembers
    <2> QED BY <2>1, <2>2, <2>3, <2>4
            DEF SessionUpdate, Drain, Disconnect, Cancel, Escalate, SettleRun, PromptSettles, RequestPermission,
                PermissionAnswered, PermissionExpires, vars, callback, transcript
  <1>4. Shape' /\ Housed' /\ Counted'
    BY <1>1, <1>2, <1>3 DEF Shape, Housed, Counted
  <1> QED BY <1>2, <1>3, <1>4 DEF Inv

LEMMA TickInv ==
  ASSUME Inv, Tick
  PROVE  Inv' /\ returned' = returned
  <1>1. Shape /\ Remembers /\ Housed /\ Counted
    BY DEF Inv
  <1>2. UNCHANGED <<callback, told, returned>>
    BY DEF Tick, transcript, end
  <1>3. ASSUME NEW t \in Terms
        PROVE  /\ terms'[t] \in Terminal /\ terms'[t].proc = terms[t].proc /\ terms'[t].known = terms[t].known
               /\ terms'[t].exit = terms[t].exit /\ terms'[t].waiting = terms[t].waiting
    <2>1. terms[t] \in Terminal
      BY <1>1 DEF Shape
    <2>2. Older(terms[t].age, TerminalLimit, terms[t].waiting) \in 0..TerminalLimit
      <3>1. terms[t].age \in 0..TerminalLimit /\ TerminalLimit \in Nat
        BY <2>1, AcpAssumption DEF Terminal
      <3> QED BY <3>1 DEF Older
    <2>3. terms'[t] = [terms[t] EXCEPT !.age = Older(terms[t].age, TerminalLimit, terms[t].waiting)]
      BY DEF Tick
    <2> QED BY <2>1, <2>2, <2>3 DEF Terminal
  <1>4. terms' \in [Terms -> Terminal]
    BY <1>3 DEF Tick
  <1>5. Shape' /\ Remembers'
    BY <1>1, <1>2, <1>4 DEF callback, Shape, Remembers
  <1>6. Housed' /\ Counted'
    BY <1>1, <1>2, <1>3 DEF Housed, Counted
  <1> QED BY <1>2, <1>5, <1>6 DEF Inv

LEMMA StepInv ==
  ASSUME Inv, [Next]_vars
  PROVE  Inv' /\ (~returned /\ returned' => \A t \in Terms : terms'[t].proc # "running")
  <1>1. CASE Returning
    BY <1>1, ReturningReturns, ReturnInv
  <1>2. ASSUME NEW t \in Terms,
               \/ \E spawns \in BOOLEAN : TerminalCreate(t, spawns)
               \/ TerminalOutput(t) \/ TerminalExit(t) \/ TerminalWait(t) \/ WaitExpires(t)
               \/ TerminalKill(t) \/ TerminalRelease(t)
        PROVE  Inv' /\ returned' = returned
    <2>1. returned' = returned
      BY <1>2 DEF TerminalCreate, TerminalOutput, TerminalExit, TerminalWait, WaitExpires, TerminalKill,
                  TerminalRelease, end
    <2> QED BY <1>2, <2>1, TerminalInv
  <1>3. CASE Tick
    BY <1>3, TickInv
  <1>4. CASE \/ Initialized \/ NoLoad \/ ReplayHistory \/ SessionCreated \/ AuthRequired
             \/ \E ok \in BOOLEAN : Loaded(ok) \/ SendPrompt(ok)
             \/ SessionUpdate \/ Drain \/ Disconnect \/ Cancel \/ Escalate \/ SettleRun
             \/ \E how \in Prompts : PromptSettles(how)
             \/ \E p \in Asks : \/ \E attended \in BOOLEAN : RequestPermission(p, attended)
                                 \/ PermissionAnswered(p) \/ PermissionExpires(p)
             \/ UNCHANGED vars
    BY <1>4, CallbackInv
  <1>5. Inv' /\ returned' = returned
          => Inv' /\ (~returned /\ returned' => \A t \in Terms : terms'[t].proc # "running")
    OBVIOUS
  <1> QED BY <1>1, <1>2, <1>3, <1>4, <1>5 DEF Next, Agent, Timer, Returning

LEMMA InvInvariant == Spec => []Inv
  BY InitInv, StepInv, PTL DEF Spec

\* The agent's memory is not made up: whatever it answers to session/load, a turn that asked
\* to continue a session had its history replayed, or says that it is forgotten (client.ts).
THEOREM MemoryStaysReal == Spec => []MemoryIsReal
  <1>1. Inv => MemoryIsReal
    BY DEF Inv, Remembers, MemoryIsReal
  <1> QED BY <1>1, InvInvariant, PTL

\* However many terminals an agent creates, releases and abandons, and however the turn ends,
\* none of its commands is left running when sendTurn returns (client.ts, terminals).
THEOREM NothingIsLeftRunning == Spec => NothingOutlivesTheTurn
  <1>1. Inv /\ [Next]_vars
          => [~returned /\ returned' => \A t \in Terms : terms'[t].proc # "running"]_vars
    BY StepInv
  <1> QED BY <1>1, InvInvariant, PTL DEF Spec, NothingOutlivesTheTurn

\* The end of a terminal is reported at most once, however an exit, a kill, a failed spawn and
\* an expired wait race (settleTerminalExit): the safety part of RequestsEndOnce.
THEOREM EndsAreToldOnce == Spec => [](\A t \in Terms : told.exits[t] <= 1)
  <1>1. Inv => \A t \in Terms : told.exits[t] <= 1
    BY DEF Inv, Counted
  <1> QED BY <1>1, InvInvariant, PTL

-----------------------------------------------------------------------------
(* The reply.                                                              *)

Queue ==
  /\ inbox \in Seq(1..MaxUpdates) /\ heard \in 0..MaxUpdates /\ log \in Seq(Events)
  /\ prompt \in Prompts /\ (phase = "prompt" => prompt # "none")

\* Until the first done, the transcript and the queue behind it hold what was heard, in order.
Unbroken ==
  ~turnSettled =>
    /\ Len(log) + Len(inbox) = heard
    /\ \A i \in 1..Len(log) : log[i] = <<"update", i>>
    /\ \A i \in 1..Len(inbox) : inbox[i] = Len(log) + i

IsFirstDone(n) == n \in DOMAIN log /\ log[n][1] = "done" /\ \A i \in 1..(n - 1) : log[i][1] # "done"
Whole(n) == n = heard + 1 /\ \A i \in 1..heard : log[i] = <<"update", i>>

\* A first done that says ok ends the callback, with the queue empty: nothing is heard after it.
Concluded ==
  turnSettled => \E n \in Nat : IsFirstDone(n) /\ (log[n][2] = "ok" => phase = "over" /\ Whole(n))

SettledByDone ==
  /\ returned => turnSettled
  /\ verdict = "completed" => \E n \in Nat : IsFirstDone(n) /\ log[n][2] = "ok"

ReplyInv == Queue /\ Unbroken /\ Concluded /\ SettledByDone

\* The dispatcher's find returns the done that has none before it.
LEMMA FirstDoneIs ==
  ASSUME log \in Seq(Events), NEW n \in Nat, IsFirstDone(n)
  PROVE  FirstDone = n /\ \A m \in Nat : IsFirstDone(m) => m = n
  <1>1. \A m \in Nat : IsFirstDone(m) => m = n
    BY DEF IsFirstDone
  <1>2. n \in Dones /\ \A m \in Dones : n <= m
    BY DEF IsFirstDone, Dones
  <1>3. Dones \subseteq Nat
    BY DEF Dones
  <1>4. \A x \in Dones : (\A y \in Dones : x <= y) => x = n
    BY <1>2, <1>3
  <1> QED BY <1>1, <1>2, <1>4 DEF FirstDone, Min

LEMMA InitReply == Init => ReplyInv
  <1> SUFFICES ASSUME Init PROVE ReplyInv
    OBVIOUS
  <1>1. ~turnSettled
    BY DEF Init, turnSettled, Dones
  <1>2. 0 \in 0..MaxUpdates
    BY AcpAssumption
  <1> QED BY <1>1, <1>2 DEF Init, ReplyInv, Queue, Unbroken, Concluded, SettledByDone, Prompts

\* A step that writes neither update nor done, takes nothing from the queue and settles nothing.
LEMMA QuietReply ==
  ASSUME ReplyInv, UNCHANGED <<inbox, heard, log, returned, verdict>>,
         prompt' \in Prompts, phase' = "prompt" => prompt' # "none",
         phase = "over" => phase' = "over"
  PROVE  ReplyInv'
  <1>1. Queue'
    BY DEF ReplyInv, Queue
  <1>2. Unbroken' /\ SettledByDone'
    BY DEF ReplyInv, Unbroken, SettledByDone, turnSettled, Dones, IsFirstDone
  <1>3. Concluded'
    BY DEF ReplyInv, Concluded, turnSettled, Dones, IsFirstDone, Whole
  <1> QED BY <1>1, <1>2, <1>3 DEF ReplyInv

\* What is appended later leaves a first done where it was.
LEMMA FirstDoneStays ==
  ASSUME log \in Seq(Events), heard \in Nat, NEW e \in Events, log' = Append(log, e), NEW n \in Nat,
         IsFirstDone(n)
  PROVE  IsFirstDone(n)' /\ log'[n] = log[n] /\ (heard' = heard /\ Whole(n) => Whole(n)') /\ turnSettled'
  <1>1. n \in 1..Len(log) /\ \A i \in 1..Len(log) : log'[i] = log[i]
    BY DEF IsFirstDone
  <1>2. IsFirstDone(n)' /\ log'[n] = log[n]
    BY <1>1 DEF IsFirstDone
  <1>3. heard' = heard /\ Whole(n) => Whole(n)'
    <2>1. Whole(n) => \A i \in 1..heard : i \in 1..Len(log)
      BY <1>1 DEF Whole
    <2> QED BY <1>1, <2>1 DEF Whole
  <1>4. turnSettled'
    BY <1>2 DEF IsFirstDone, turnSettled, Dones
  <1> QED BY <1>2, <1>3, <1>4

LEMMA HeadIsFirst ==
  ASSUME NEW S, NEW s \in Seq(S), s # <<>> PROVE Head(s) \in S /\ Head(s) = s[1]
  OBVIOUS

\* pushEvent of an update: the head of the queue moves to the end of the transcript.
LEMMA DrainReply == ASSUME ReplyInv, Drain PROVE ReplyInv'
  <1> DEFINE e == <<"update", Head(inbox)>>
  <1>1. /\ Queue /\ inbox # <<>> /\ log' = Append(log, e) /\ inbox' = Tail(inbox)
        /\ UNCHANGED <<phase, prompt, heard, returned, verdict>>
    BY DEF ReplyInv, Drain, pushEvent, callback, end
  <1>2. /\ Head(inbox) \in 1..MaxUpdates /\ inbox' \in Seq(1..MaxUpdates) /\ Len(inbox) \in Nat
        /\ Len(inbox) >= 1 /\ Len(inbox') = Len(inbox) - 1 /\ heard \in Nat /\ Head(inbox) = inbox[1]
        /\ \A i \in 1..Len(inbox') : inbox'[i] = inbox[i + 1]
    <2>1. inbox \in Seq(1..MaxUpdates) /\ Len(inbox) \in Nat /\ Len(inbox) >= 1 /\ heard \in Nat
      BY <1>1, AcpAssumption DEF Queue
    <2>2. Head(inbox) \in 1..MaxUpdates /\ Head(inbox) = inbox[1]
      BY <1>1, <2>1, HeadIsFirst
    <2>3. inbox' \in Seq(1..MaxUpdates) /\ Len(inbox') = Len(inbox) - 1
      BY <1>1, <2>1
    <2>4. \A i \in 1..Len(inbox') : inbox'[i] = inbox[i + 1]
      BY <1>1, <2>1
    <2> QED BY <2>1, <2>2, <2>3, <2>4
  <1>3. e \in Events /\ e[1] = "update"
    BY <1>2 DEF Events
  <1>4. log \in Seq(Events) /\ log' \in Seq(Events) /\ Len(log') = Len(log) + 1 /\ log'[Len(log) + 1] = e
        /\ Len(log) \in Nat /\ \A i \in 1..Len(log) : log'[i] = log[i]
    <2> HIDE DEF e
    <2> QED BY <1>1, <1>3 DEF Queue
  <1>5. Queue'
    BY <1>1, <1>2, <1>4 DEF Queue
  <1>6. CASE turnSettled
    <2>1. PICK n \in Nat : IsFirstDone(n) /\ (log[n][2] = "ok" => phase = "over" /\ Whole(n))
      BY <1>6 DEF ReplyInv, Concluded
    <2>2. IsFirstDone(n)' /\ log'[n] = log[n] /\ (Whole(n) => Whole(n)') /\ turnSettled'
      <3> HIDE DEF e
      <3> QED BY <1>1, <1>2, <1>3, <1>4, <2>1, FirstDoneStays
    <2>3. Concluded'
      BY <1>1, <2>1, <2>2 DEF Concluded
    <2>4. verdict = "completed" => log[n][2] = "ok"
      BY <1>4, <2>1, FirstDoneIs DEF ReplyInv, SettledByDone
    <2> QED BY <1>1, <1>5, <2>2, <2>3, <2>4 DEF ReplyInv, Unbroken, SettledByDone
  <1>7. CASE ~turnSettled
    <2>1. /\ Len(log) + Len(inbox) = heard
          /\ \A i \in 1..Len(log) : log[i] = <<"update", i>>
          /\ \A i \in 1..Len(inbox) : inbox[i] = Len(log) + i
      BY <1>7 DEF ReplyInv, Unbroken
    <2>2. inbox[1] = Len(log) + 1
      BY <1>2, <2>1
    <2>3. ~turnSettled'
      <3> HIDE DEF e
      <3>1. \A i \in 1..Len(log) : log'[i][1] # "done"
        BY <1>4, <2>1
      <3> QED BY <1>3, <1>4, <3>1 DEF turnSettled, Dones
    <2>4. heard \in Nat
      BY <1>1, AcpAssumption DEF Queue
    <2>5. \A i \in 1..Len(log') : log'[i] = <<"update", i>>
      <3>1. e = <<"update", Len(log) + 1>>
        BY <1>2, <2>2
      <3> HIDE DEF e
      <3> QED BY <1>4, <2>1, <3>1
    <2>6. \A i \in 1..Len(inbox') : inbox'[i] = Len(log') + i
      <3> HIDE DEF e
      <3>1. ASSUME NEW i \in 1..Len(inbox') PROVE inbox'[i] = Len(log') + i
        <4>1. i + 1 \in 1..Len(inbox)
          BY <1>2
        <4>2. inbox'[i] = inbox[i + 1] /\ i \in Nat /\ Len(log) \in Nat /\ Len(log') = Len(log) + 1
          BY <1>2, <1>4
        <4> QED BY <2>1, <4>1, <4>2
      <3> QED BY <3>1
    <2>7. Len(log') + Len(inbox') = heard'
      <3>1. Len(log') = Len(log) + 1 /\ Len(log) \in Nat /\ heard' = heard
        BY <1>1, <1>4
      <3>2. Len(inbox') = Len(inbox) - 1 /\ Len(inbox) \in Nat
        BY <1>2
      <3> QED BY <2>1, <3>1, <3>2
    <2>8. Unbroken'
      BY <2>5, <2>6, <2>7 DEF Unbroken
    <2>9. ~returned /\ verdict # "completed"
      BY <1>4, <1>7 DEF ReplyInv, SettledByDone, IsFirstDone, turnSettled, Dones
    <2> QED BY <1>1, <1>5, <2>3, <2>8, <2>9 DEF ReplyInv, Concluded, SettledByDone
  <1> QED BY <1>6, <1>7

\* pushEvent of a done. Only the drained prompt of the callback says ok.
LEMMA DoneReply ==
  ASSUME ReplyInv, NEW how \in Ends, log' = Append(log, <<"done", how>>), UNCHANGED <<inbox, heard, prompt, verdict>>,
         phase' \in {phase, "over"},
         how = "ok" => phase' = "over" /\ inbox = <<>>
  PROVE  ReplyInv'
  <1> DEFINE e == <<"done", how>>
  <1>1. Queue /\ e \in Events /\ e[1] = "done" /\ e[2] = how /\ log' = Append(log, e)
    BY DEF ReplyInv, Events
  <1> HIDE DEF e
  <1>2. log \in Seq(Events) /\ log' \in Seq(Events) /\ Len(log') = Len(log) + 1 /\ log'[Len(log) + 1] = e
        /\ Len(log) \in Nat /\ \A i \in 1..Len(log) : log'[i] = log[i]
    BY <1>1 DEF Queue
  <1>nat. heard \in Nat
    BY <1>1, AcpAssumption DEF Queue
  <1>3. Queue'
    BY <1>1, <1>2 DEF Queue
  <1>4. turnSettled'
    BY <1>1, <1>2 DEF turnSettled, Dones
  <1>5. CASE turnSettled
    <2>1. PICK n \in Nat : IsFirstDone(n) /\ (log[n][2] = "ok" => phase = "over" /\ Whole(n))
      BY <1>5 DEF ReplyInv, Concluded
    <2>2. IsFirstDone(n)' /\ log'[n] = log[n] /\ (Whole(n) => Whole(n)')
      BY <1>1, <1>2, <1>nat, <2>1, FirstDoneStays
    <2>3. Concluded'
      BY <2>1, <2>2 DEF Concluded
    <2>4. verdict = "completed" => log[n][2] = "ok"
      BY <1>2, <2>1, FirstDoneIs DEF ReplyInv, SettledByDone
    <2> QED BY <1>3, <1>4, <2>2, <2>3, <2>4 DEF ReplyInv, Unbroken, SettledByDone
  <1>6. CASE ~turnSettled
    <2>0. PICK n \in Nat : n = Len(log) + 1
      BY <1>2
    <2>1. \A i \in 1..Len(log) : log[i] = <<"update", i>>
      BY <1>6 DEF ReplyInv, Unbroken
    <2>2. IsFirstDone(n)' /\ log'[n][2] = how
      <3>1. \A i \in 1..(n - 1) : log'[i][1] # "done"
        BY <1>2, <2>0, <2>1
      <3>2. n \in DOMAIN log' /\ log'[n] = e
        BY <1>2, <2>0
      <3> QED BY <1>1, <3>1, <3>2 DEF IsFirstDone
    <2>3. how = "ok" => phase' = "over" /\ Whole(n)'
      <3> SUFFICES ASSUME how = "ok" PROVE Whole(n)'
        OBVIOUS
      <3>1. Len(log) + Len(inbox) = heard /\ Len(inbox) = 0
        BY <1>6 DEF ReplyInv, Unbroken
      <3> QED BY <1>2, <1>nat, <2>0, <2>1, <3>1 DEF Whole
    <2>4. verdict # "completed"
      BY <1>2, <1>6 DEF ReplyInv, SettledByDone, IsFirstDone, turnSettled, Dones
    <2>5. Concluded'
      BY <2>2, <2>3 DEF Concluded
    <2> QED BY <1>3, <1>4, <2>4, <2>5 DEF ReplyInv, Unbroken, SettledByDone
  <1> QED BY <1>5, <1>6

\* The queue takes an update: nothing was concluded, or not with ok.
LEMMA UpdateReply == ASSUME ReplyInv, SessionUpdate PROVE ReplyInv'
  <1>1. /\ Queue /\ inbox' = Append(inbox, heard + 1) /\ heard' = heard + 1 /\ heard < MaxUpdates /\ phase # "over"
        /\ UNCHANGED <<phase, prompt, log, returned, verdict>>
    BY DEF ReplyInv, SessionUpdate, callback, transcript, end
  <1>2. heard \in Nat /\ heard + 1 \in 1..MaxUpdates /\ heard + 1 \in 0..MaxUpdates
    BY <1>1, AcpAssumption DEF Queue
  <1>3. /\ inbox' \in Seq(1..MaxUpdates) /\ Len(inbox') = Len(inbox) + 1 /\ inbox'[Len(inbox) + 1] = heard + 1
        /\ Len(inbox) \in Nat /\ \A i \in 1..Len(inbox) : inbox'[i] = inbox[i]
    BY <1>1, <1>2 DEF Queue
  <1>4. Queue'
    BY <1>1, <1>2, <1>3 DEF Queue
  <1>5. Unbroken'
    <2> SUFFICES ASSUME ~turnSettled' PROVE Unbroken'
      BY DEF Unbroken
    <2>1. /\ Len(log) + Len(inbox) = heard
          /\ \A i \in 1..Len(log) : log[i] = <<"update", i>>
          /\ \A i \in 1..Len(inbox) : inbox[i] = Len(log) + i
      BY <1>1 DEF ReplyInv, Unbroken, turnSettled, Dones
    <2>2. Len(log) \in Nat
      BY <1>1 DEF Queue
    <2>3. \A i \in 1..Len(inbox') : inbox'[i] = Len(log) + i
      <3> SUFFICES ASSUME NEW i \in 1..Len(inbox') PROVE inbox'[i] = Len(log) + i
        OBVIOUS
      <3>1. CASE i = Len(inbox) + 1
        BY <1>3, <2>1, <2>2, <3>1
      <3>2. CASE i # Len(inbox) + 1
        <4>1. i \in 1..Len(inbox)
          BY <1>3, <3>2
        <4> QED BY <1>3, <2>1, <4>1
      <3> QED BY <3>1, <3>2
    <2>4. Len(log) + Len(inbox') = heard'
      <3>1. Len(inbox') = Len(inbox) + 1 /\ heard' = heard + 1 /\ Len(inbox) \in Nat
        BY <1>1, <1>3
      <3> QED BY <1>2, <2>1, <2>2, <3>1
    <2> QED BY <1>1, <2>1, <2>3, <2>4 DEF Unbroken
  <1>6. Concluded'
    <2>1. turnSettled => \E n \in Nat : IsFirstDone(n) /\ log[n][2] # "ok"
      BY <1>1 DEF ReplyInv, Concluded
    <2> QED BY <1>1, <2>1 DEF Concluded, turnSettled, Dones, IsFirstDone
  <1>7. SettledByDone'
    BY <1>1 DEF ReplyInv, SettledByDone, turnSettled, Dones, IsFirstDone
  <1> QED BY <1>4, <1>5, <1>6, <1>7 DEF ReplyInv

\* worker.ts: completed is what it makes of a first done that says ok, and of nothing else.
LEMMA SettleReply == ASSUME ReplyInv, SettleRun PROVE ReplyInv'
  <1>1. /\ Queue /\ returned /\ verdict' \in Disposition(Decisive)
        /\ UNCHANGED <<phase, prompt, inbox, heard, log, returned>>
    BY DEF ReplyInv, SettleRun, callback, queue, transcript
  <1>2. PICK n \in Nat : IsFirstDone(n)
    BY <1>1 DEF ReplyInv, SettledByDone, Concluded
  <1>3. Decisive = log[n][2]
    BY <1>1, <1>2, FirstDoneIs DEF Decisive, Queue
  <1>4. verdict' = "completed" => log[n][2] = "ok"
    BY <1>1, <1>3 DEF Disposition
  <1>5. Queue' /\ Unbroken' /\ Concluded' /\ turnSettled'
    BY <1>1 DEF ReplyInv, Queue, Unbroken, Concluded, SettledByDone, turnSettled, Dones, IsFirstDone, Whole
  <1>6. IsFirstDone(n)' /\ log'[n] = log[n]
    BY <1>1, <1>2 DEF IsFirstDone
  <1> QED BY <1>4, <1>5, <1>6 DEF ReplyInv, SettledByDone

LEMMA ReplyStep == ASSUME ReplyInv, [Next]_vars PROVE ReplyInv'
  <1>ty. Queue
    BY DEF ReplyInv
  <1>1. CASE SessionUpdate
    BY <1>1, UpdateReply
  <1>2. CASE Drain
    BY <1>2, DrainReply
  <1>3. CASE SettleRun
    BY <1>3, SettleReply
  <1>4. CASE RequestFails
    <2>1. PICK how \in {"closed", "error"} : Conclude(how)
      BY <1>4 DEF RequestFails
    <2>2. /\ log' = Append(log, <<"done", how>>) /\ phase' = "over" /\ UNCHANGED <<inbox, heard, prompt, verdict>>
      BY <1>4, <2>1 DEF RequestFails, Conclude, pushDone, queue
    <2> QED BY <2>2, DoneReply DEF Ends
  <1>5. CASE EndPrompt
    <2>1. /\ log' = Append(log, <<"done", prompt>>) /\ phase' = "over" /\ UNCHANGED <<inbox, heard, prompt, verdict>>
          /\ inbox = <<>> /\ prompt # "pending" /\ phase = "prompt"
      BY <1>5 DEF EndPrompt, Conclude, pushDone, queue, Drained
    <2>2. prompt \in Ends
      BY <1>ty, <2>1 DEF Queue, Prompts, Ends
    <2> QED BY <2>1, <2>2, DoneReply
  <1>6. ASSUME NEW how \in {"cap", "wedged"}, GiveUp(how) PROVE ReplyInv'
    <2>1. /\ log' = Append(log, <<"done", how>>) /\ phase' = phase /\ UNCHANGED <<inbox, heard, prompt, verdict>>
      BY <1>6 DEF GiveUp, pushDone, callback, queue
    <2> QED BY <1>6, <2>1, DoneReply DEF Ends
  <1>7. CASE UNCHANGED <<inbox, heard, log, returned, verdict>>
    <2>1. CASE UNCHANGED <<phase, prompt>>
      BY <1>ty, <1>7, <2>1, QuietReply DEF Queue
    <2>2. CASE prompt' = prompt /\ phase' # "prompt" /\ phase # "over"
      BY <1>ty, <1>7, <2>2, QuietReply DEF Queue
    <2>3. CASE Disconnect \/ \E how \in Prompts : PromptSettles(how)
      <3>1. phase' = phase /\ prompt' \in Prompts /\ (prompt # "none" => prompt' # "none")
        BY <1>ty, <2>3 DEF Disconnect, PromptSettles, Queue, Prompts
      <3> QED BY <1>ty, <1>7, <3>1, QuietReply DEF Queue
    <2>4. ASSUME NEW refused \in BOOLEAN, SendPrompt(refused) PROVE ReplyInv'
      <3>1. prompt' \in {"pending", "closed"} /\ phase # "over"
        BY <2>4 DEF SendPrompt
      <3> QED BY <1>7, <3>1, QuietReply DEF Prompts
    <2> QED
      BY <1>1, <1>2, <1>3, <1>4, <1>5, <1>6, <1>7, <2>1, <2>2, <2>3, <2>4
      DEF Next, Agent, Timer, Tick, vars, callback, Initialized, NoLoad, ReplayHistory, SessionCreated, AuthRequired,
          Loaded, OpenSession, RequestPermission, TerminalCreate, TerminalWait, TerminalKill, TerminalRelease,
          PermissionAnswered, TerminalOutput, TerminalExit, Cancel, Escalate, PermissionExpires, WaitExpires
  <1>8. \/ SessionUpdate \/ Drain \/ SettleRun \/ RequestFails \/ EndPrompt
        \/ \E how \in {"cap", "wedged"} : GiveUp(how)
        \/ UNCHANGED <<inbox, heard, log, returned, verdict>>
    BY DEF Next, Agent, Timer, Tick, vars, queue, transcript, end, Initialized, NoLoad, ReplayHistory, SessionCreated,
           AuthRequired, Loaded, SendPrompt, PromptSettles, Disconnect, RequestPermission, TerminalCreate, TerminalWait,
           TerminalKill, TerminalRelease, PermissionAnswered, TerminalOutput, TerminalExit, Cancel, Escalate,
           PermissionExpires, WaitExpires
  <1> QED BY <1>1, <1>2, <1>3, <1>4, <1>5, <1>6, <1>7, <1>8

\* A run counted as completed shows the whole reply (worker.ts, executeClaimedRun; client.ts,
\* the drain of sendTurn): whatever else ends a turn, with updates still queued or still to
\* come, does not get to say ok first.
THEOREM CompletedRepliesAreWhole == Spec => []CompletedReplyIsWhole
  <1>1. ReplyInv => CompletedReplyIsWhole
    <2> SUFFICES ASSUME ReplyInv, verdict = "completed" PROVE CompletedReplyIsWhole
      BY DEF CompletedReplyIsWhole
    <2>1. log \in Seq(Events) /\ turnSettled
      BY DEF ReplyInv, Queue, SettledByDone, IsFirstDone, turnSettled, Dones
    <2>2. PICK n \in Nat : IsFirstDone(n) /\ (log[n][2] = "ok" => Whole(n))
      BY <2>1 DEF ReplyInv, Concluded
    <2>3. FirstDone = n /\ log[n][2] = "ok"
      BY <2>1, <2>2, FirstDoneIs DEF ReplyInv, SettledByDone
    <2> QED BY <2>2, <2>3 DEF Whole, CompletedReplyIsWhole
  <1>2. ReplyInv /\ [Next]_vars => ReplyInv'
    BY ReplyStep
  <1> QED BY InitReply, <1>1, <1>2, PTL DEF Spec

=============================================================================
