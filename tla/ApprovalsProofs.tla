--------------------------- MODULE ApprovalsProofs ---------------------------
(***************************************************************************)
(* Proofs about Approvals, for every set of requests and processes and for  *)
(* every value of the bounds: nothing but a person's choice lets an agent   *)
(* go ahead, and with one answer per request the waiters and routes         *)
(* implement ApprovalPromise.                                              *)
(***************************************************************************)
EXTENDS Approvals, FiniteSetTheorems, TLAPS

\* Where the answers, and the words on the wire, may come from.
RowType == row \in [Asks -> RowStates]
WaiterType == waiter \in [Asks -> [pc : Stages, home : Procs \cup {None}, heard : Outcomes \cup {"nothing"}]]
ToldType == told \in [Asks -> Outcomes \cup {"nothing"}]
ClickType == clicks \in [Clicks -> [ask : Asks \cup {None}, decision : Decisions \cup {"none"},
                                    home : Procs \cup {None}, pc : {"free", "looked", "recorded", "over"}]]
WireType == wire \in [Procs -> Seq(Words)]
\* A click knows its request from the moment it looks it up.
Aimed(k) == clicks[k].pc # "free" => clicks[k].ask \in Asks
Deciding(k) == clicks[k].pc \in {"looked", "recorded"} => clicks[k].decision \in Decisions

\* A turn that asked lives in a process.
Housed(a) == waiter[a].pc # "idle" => waiter[a].home \in Procs

TypeInv ==
  /\ TypeOK
  /\ \A k \in Clicks : Aimed(k) /\ Deciding(k)
  /\ \A a \in Asks : Housed(a)

\* A waiter hears once, and stays where it is.
LEMMA Hears ==
  ASSUME WaiterType, NEW a \in Asks, NEW o \in Outcomes, Hear(a, o)
  PROVE  /\ WaiterType'
         /\ \A b \in Asks : waiter'[b].pc = waiter[b].pc /\ waiter'[b].home = waiter[b].home
         /\ \A b \in Asks : \/ waiter'[b].heard = waiter[b].heard
                            \/ b = a /\ waiter'[b].heard = o
  <1>1. /\ Hearing(a, o) \in [pc : Stages, home : Procs \cup {None}, heard : Outcomes \cup {"nothing"}]
        /\ Hearing(a, o).pc = waiter[a].pc /\ Hearing(a, o).home = waiter[a].home
        /\ Hearing(a, o).heard \in {waiter[a].heard, o}
    BY DEF WaiterType, Hearing
  <1> QED BY <1>1 DEF WaiterType, Hear

\* A waiter that moves on keeps its process and what it has heard.
LEMMA Enters ==
  ASSUME WaiterType, NEW a \in Asks, NEW pc \in Stages, Enter(a, pc)
  PROVE  /\ WaiterType'
         /\ waiter'[a].pc = pc /\ \A b \in Asks \ {a} : waiter'[b] = waiter[b]
         /\ \A b \in Asks : waiter'[b].heard = waiter[b].heard /\ waiter'[b].home = waiter[b].home
  BY DEF WaiterType, Enter

\* The agent is told once.
LEMMA Tells ==
  ASSUME ToldType, NEW a \in Asks, NEW o \in Outcomes, Tell(a, o)
  PROVE  /\ ToldType'
         /\ \A b \in Asks : \/ told'[b] = told[b]
                            \/ b = a /\ told[b] = "nothing" /\ told'[b] = o
  BY DEF ToldType, Tell

\* outcomeFor never makes a timeout or an error of a decision.
LEMMA OutcomeOfDecision ==
  ASSUME NEW d PROVE outcomeFor(d) \in {"selected", "denied"} /\ outcomeFor(d) \in Outcomes
  BY DEF outcomeFor, Outcomes

\* The poll reads an outcome or nothing.
LEMMA PollReads ==
  ASSUME NEW a \in Asks
  PROVE  readSettledOutcome(a) \in Outcomes \cup {"nothing"}
  BY DEF readSettledOutcome, outcomeFor, Outcomes

\* Initially.
LEMMA InitType == Init => TypeInv
  <1> SUFFICES ASSUME Init PROVE TypeInv
    OBVIOUS
  <1>1. TypeOK
    BY ApprovalAssumption DEF ApprovalAssumption, Init, TypeOK, RowStates, Stages, Outcomes, Decisions
  <1>2. (\A k \in Clicks : Aimed(k) /\ Deciding(k)) /\ \A a \in Asks : Housed(a)
    BY DEF Init, Aimed, Deciding, Housed
  <1> QED BY <1>1, <1>2 DEF TypeInv

\* TypeOK by its parts, for the provers.
LEMMA TypeParts ==
  TypeOK <=> /\ RowType /\ WaiterType /\ ToldType /\ ClickType /\ WireType
             /\ up \subseteq Procs /\ crashes \in 0..MaxCrashes /\ faults \in 0..MaxFaults
  BY DEF TypeOK, RowType, WaiterType, ToldType, ClickType, WireType

\* Every step keeps the types, the aim of every click and the home of every turn.
LEMMA TypeStep == TypeInv /\ [Next]_vars => TypeInv'
  <1> SUFFICES ASSUME TypeInv, [Next]_vars PROVE TypeInv'
    OBVIOUS
  <1>ty. /\ RowType /\ WaiterType /\ ToldType /\ ClickType /\ WireType
         /\ up \subseteq Procs /\ crashes \in 0..MaxCrashes /\ faults \in 0..MaxFaults
         /\ MaxCrashes \in Nat /\ MaxFaults \in Nat
         /\ \A k \in Clicks : Aimed(k) /\ Deciding(k)
         /\ \A a \in Asks : Housed(a) /\ <<>> \in Seq(Words)
    BY ApprovalAssumption, TypeParts DEF TypeInv, ApprovalAssumption
  <1>sets. /\ {"created", "returned", "subscribing", "waiting", "closing", "creating", "dead"} \subseteq Stages
           /\ {"timeout", "error"} \subseteq Outcomes
           /\ {"pending", "timeout"} \cup Decisions \subseteq RowStates
    BY DEF Stages, Outcomes, RowStates, Decisions
  <1>faults. (UNCHANGED faults \/ Fault) => faults' \in 0..MaxFaults
    BY <1>ty DEF Fault
  <1>same. /\ UNCHANGED row => RowType'
           /\ UNCHANGED waiter => WaiterType' /\ \A a \in Asks : Housed(a)'
           /\ UNCHANGED told => ToldType'
           /\ UNCHANGED wire => WireType'
           /\ UNCHANGED clicks => ClickType' /\ \A k \in Clicks : (Aimed(k) /\ Deciding(k))'
           /\ UNCHANGED up => up' \subseteq Procs
           /\ UNCHANGED crashes => crashes' \in 0..MaxCrashes
    BY <1>ty DEF RowType, WaiterType, ToldType, WireType, ClickType, Aimed, Deciding, Housed
  <1>goal. ASSUME RowType', WaiterType', ToldType', WireType', ClickType',
                  up' \subseteq Procs, crashes' \in 0..MaxCrashes, faults' \in 0..MaxFaults,
                  \A k \in Clicks : (Aimed(k) /\ Deciding(k))', \A a \in Asks : Housed(a)'
           PROVE  TypeInv'
    BY <1>goal DEF TypeInv, TypeOK, RowType, WaiterType, ToldType, WireType, ClickType
  <1>1. ASSUME NEW a \in Asks, Turn(a) PROVE TypeInv'
    <2>1. /\ UNCHANGED <<clicks, wire, crashes>> /\ (UNCHANGED faults \/ Fault)
          /\ up' \subseteq Procs
      BY <1>1, <1>ty
      DEF Turn, createPendingApproval, waitForApproval, Subscribe, Poll, markApprovalTimedOut, Return, Bounds,
          At, HomeOf, Housed
    <2>2. RowType'
      BY <1>1, <1>ty, <1>sets
      DEF Turn, createPendingApproval, waitForApproval, Subscribe, Poll, markApprovalTimedOut, Return, RowType
    <2>3. WaiterType' /\ \A b \in Asks : Housed(b)'
      <3>1. CASE Poll(a)
        BY <1>ty, <3>1, Hears, PollReads DEF Poll, Housed
      <3>2. CASE ~Poll(a)
        BY <1>1, <1>ty, <1>sets, <3>2, Enters
        DEF Turn, createPendingApproval, waitForApproval, Subscribe, markApprovalTimedOut, Return, At, Housed
      <3> QED BY <3>1, <3>2
    <2>4. ToldType'
      <3>1. CASE Return(a)
        <4>1. waiter[a].heard \in Outcomes \cup {"nothing"} /\ Tell(a, waiter[a].heard)
          BY <1>ty, <3>1 DEF WaiterType, Return
        <4> QED BY <1>ty, <4>1 DEF ToldType, Tell
      <3>2. CASE ~Return(a)
        BY <1>1, <1>ty, <3>2
        DEF Turn, createPendingApproval, waitForApproval, Subscribe, Poll, markApprovalTimedOut, ToldType
      <3> QED BY <3>1, <3>2
    <2> QED BY <1>goal, <1>same, <1>faults, <2>1, <2>2, <2>3, <2>4
  <1>2. ASSUME NEW a \in Asks, AskFails(a) \/ TimerFires(a) \/ RaceTimesOut(a) PROVE TypeInv'
    <2>1. WaiterType' /\ ToldType' /\ \A b \in Asks : Housed(b)'
      BY <1>2, <1>ty, <1>same, <1>sets, Hears, Enters, Tells DEF AskFails, TimerFires, RaceTimesOut, At, Housed
    <2> QED BY <1>2, <1>goal, <1>same, <1>faults, <1>ty, <2>1
            DEF AskFails, TimerFires, RaceTimesOut, Bounds
  <1>3. ASSUME NEW a \in Asks, NEW p \in Procs, Ask(a, p) PROVE TypeInv'
    <2>1. WaiterType' /\ \A b \in Asks : Housed(b)'
      BY <1>3, <1>ty, <1>sets DEF Ask, WaiterType, Housed
    <2> QED BY <1>3, <1>goal, <1>same, <1>ty, <2>1 DEF Ask, Bounds
  <1>4. ASSUME NEW k \in Clicks, NEW a \in Asks, NEW d \in Decisions, NEW p \in Procs, Look(k, a, d, p)
        PROVE  TypeInv'
    <2>1. ClickType' /\ \A j \in Clicks : (Aimed(j) /\ Deciding(j))'
      BY <1>4, <1>ty DEF Look, ClickType, Aimed, Deciding
    <2> QED BY <1>4, <1>goal, <1>same, <1>ty, <2>1 DEF Look, Bounds
  <1>5. ASSUME NEW k \in Clicks, resolveApproval(k) PROVE TypeInv'
    <2>1. clicks[k].ask \in Asks /\ clicks[k].decision \in Decisions
      BY <1>5, <1>ty DEF resolveApproval, Aimed, Deciding
    <2>2. RowType'
      BY <1>5, <1>ty, <1>sets, <2>1 DEF resolveApproval, RowType
    <2>3. ClickType' /\ \A j \in Clicks : (Aimed(j) /\ Deciding(j))'
      BY <1>5, <1>ty, <2>1 DEF resolveApproval, ClickType, Aimed, Deciding
    <2> QED BY <1>5, <1>goal, <1>same, <1>ty, <2>2, <2>3 DEF resolveApproval, Bounds
  <1>6. ASSUME NEW k \in Clicks, announceDecision(k) PROVE TypeInv'
    <2> DEFINE a == clicks[k].ask
               word == [ask |-> a, outcome |-> outcomeFor(clicks[k].decision)]
    <2>1. a \in Asks /\ word \in Words
      BY <1>6, <1>ty, OutcomeOfDecision DEF announceDecision, Aimed, Words
    <2>2. WaiterType' /\ \A b \in Asks : Housed(b)'
      BY <1>6, <1>ty, <1>same, <2>1, Hears, OutcomeOfDecision DEF announceDecision, Housed
    <2>3. WireType'
      <3>1. CASE UNCHANGED wire
        BY <1>same, <3>1
      <3>2. CASE wire' = [p \in Procs |-> IF p \in up THEN Append(wire[p], word) ELSE wire[p]]
        <4>1. \A p \in Procs : Append(wire[p], word) \in Seq(Words)
          BY <1>ty, <2>1 DEF WireType
        <4> HIDE DEF word
        <4> QED BY <1>ty, <3>2, <4>1 DEF WireType
      <3> QED BY <1>6, <3>1, <3>2 DEF announceDecision
    <2>4. ClickType' /\ \A j \in Clicks : (Aimed(j) /\ Deciding(j))'
      BY <1>6, <1>ty DEF announceDecision, ClickType, Aimed, Deciding
    <2>5. UNCHANGED <<row, told, up, crashes>> /\ (UNCHANGED faults \/ Fault)
      BY <1>6 DEF announceDecision
    <2> QED BY <1>goal, <1>same, <1>faults, <2>2, <2>3, <2>4, <2>5
  <1>7. ASSUME NEW p \in Procs, Deliver(p) PROVE TypeInv'
    <2>1. Head(wire[p]) \in Words /\ Tail(wire[p]) \in Seq(Words)
      BY <1>7, <1>ty DEF Deliver, WireType
    <2>2. WaiterType' /\ \A b \in Asks : Housed(b)'
      BY <1>7, <1>ty, <1>same, <2>1, Hears DEF Deliver, Words, Housed
    <2>3. WireType'
      BY <1>7, <1>ty, <2>1 DEF Deliver, WireType
    <2> QED BY <1>7, <1>goal, <1>same, <1>ty, <2>2, <2>3 DEF Deliver, Bounds
  <1>8. ASSUME NEW p \in Procs, DropListen(p) \/ Redial(p) PROVE TypeInv'
    <2>1. wire' = [wire EXCEPT ![p] = <<>>] \/ UNCHANGED wire
      BY <1>8 DEF DropListen, Redial
    <2>2. WireType'
      <3>1. CASE wire' = [wire EXCEPT ![p] = <<>>]
        BY <1>ty, <3>1 DEF WireType
      <3>2. CASE UNCHANGED wire
        BY <1>same, <3>2
      <3> QED BY <2>1, <3>1, <3>2
    <2> QED BY <1>8, <1>goal, <1>same, <1>faults, <1>ty, <2>2 DEF DropListen, Redial, Bounds
  <1>9. ASSUME NEW p \in Procs, Crash(p) PROVE TypeInv'
    <2>1. WaiterType' /\ \A b \in Asks : Housed(b)'
      <3>1. waiter' = [b \in Asks |->
              IF waiter[b].home = p /\ waiter[b].pc # "returned" THEN [waiter[b] EXCEPT !.pc = "dead"] ELSE waiter[b]]
        BY <1>9 DEF Crash, HomeOf, At
      <3>2. "dead" \in Stages
        BY <1>sets
      <3> QED BY <1>ty, <3>1, <3>2 DEF WaiterType, Housed
    <2>2. ClickType' /\ \A j \in Clicks : (Aimed(j) /\ Deciding(j))'
      <3>1. clicks' = [k \in Clicks |->
              IF clicks[k].home # p \/ clicks[k].pc = "free" THEN clicks[k]
              ELSE IF clicks[k].pc = "looked" THEN [clicks[k] EXCEPT !.pc = "over", !.decision = "none"]
              ELSE [clicks[k] EXCEPT !.pc = "over"]]
        BY <1>9 DEF Crash
      <3>2. ASSUME NEW j \in Clicks
            PROVE  /\ clicks'[j] \in [ask : Asks \cup {None}, decision : Decisions \cup {"none"},
                                      home : Procs \cup {None}, pc : {"free", "looked", "recorded", "over"}]
                   /\ (Aimed(j) /\ Deciding(j))'
        <4>1. clicks[j] \in [ask : Asks \cup {None}, decision : Decisions \cup {"none"},
                             home : Procs \cup {None}, pc : {"free", "looked", "recorded", "over"}]
          BY <1>ty DEF ClickType
        <4> QED BY <1>ty, <3>1, <4>1 DEF Aimed, Deciding
      <3> QED BY <3>1, <3>2 DEF ClickType
    <2>3. /\ crashes < MaxCrashes /\ crashes' = crashes + 1 /\ up' = up \ {p}
          /\ wire' = [wire EXCEPT ![p] = <<>>] /\ UNCHANGED <<row, told, faults>>
      BY <1>9 DEF Crash
    <2>4. WireType' /\ crashes' \in 0..MaxCrashes
      BY <1>ty, <2>3 DEF WireType
    <2> QED BY <1>goal, <1>same, <1>ty, <2>1, <2>2, <2>3, <2>4
  <1>10. ASSUME UNCHANGED vars PROVE TypeInv'
    BY <1>10, <1>goal, <1>same, <1>ty DEF vars, Bounds
  <1> QED BY <1>1, <1>2, <1>3, <1>4, <1>5, <1>6, <1>7, <1>8, <1>9, <1>10 DEF Next

\* The types of all variables, for every value of the constants.
THEOREM TypeCorrect == Spec => []TypeInv
  BY InitType, TypeStep, PTL DEF Spec

-----------------------------------------------------------------------------
(* Whatever the waiter hears, the agent is told, the wire carries or the     *)
(* record says, a person said it about this request.                        *)

\* The person whose answer o is.
Behind(k, a, o) ==
  /\ clicks[k].ask = a /\ clicks[k].pc \in {"recorded", "over"}
  /\ clicks[k].decision \in Decisions /\ outcomeFor(clicks[k].decision) = o
Backed(a, o) == o \in {"selected", "denied"} => \E k \in Clicks : Behind(k, a, o)

HeardBacked(a) == Backed(a, waiter[a].heard)
ToldBacked(a) == Backed(a, told[a])
RowBacked(a) == row[a] \in Decisions => Backed(a, outcomeFor(row[a]))
WireBacked(p) == \A i \in 1..Len(wire[p]) : Backed(wire[p][i].ask, wire[p][i].outcome)

Backing ==
  /\ \A a \in Asks : HeardBacked(a) /\ ToldBacked(a) /\ RowBacked(a)
  /\ \A p \in Procs : WireBacked(p)

\* An answer given is never taken back, nor turned into another.
LEMMA BackedStays ==
  ASSUME TypeInv, [Next]_vars, NEW a, NEW o, Backed(a, o)
  PROVE  Backed(a, o)'
  <1> SUFFICES ASSUME NEW k \in Clicks, Behind(k, a, o) PROVE Behind(k, a, o)'
    BY DEF Backed
  <1>ty. ClickType
    BY TypeParts DEF TypeInv
  <1>1. clicks' = clicks => Behind(k, a, o)'
    BY DEF Behind
  <1>2. ASSUME NEW b \in Asks, Turn(b) \/ AskFails(b) \/ TimerFires(b) \/ RaceTimesOut(b) PROVE clicks' = clicks
    BY <1>2
    DEF Turn, createPendingApproval, waitForApproval, Subscribe, Poll, markApprovalTimedOut, Return,
        AskFails, TimerFires, RaceTimesOut
  <1>3. ASSUME NEW b \in Asks, NEW p \in Procs, Ask(b, p) PROVE clicks' = clicks
    BY <1>3 DEF Ask
  <1>4. ASSUME NEW j \in Clicks, NEW b \in Asks, NEW d \in Decisions, NEW p \in Procs, Look(j, b, d, p)
        PROVE  Behind(k, a, o)'
    <2>1. clicks[j].pc = "free" /\ clicks'[k] = clicks[k]
      BY <1>4, <1>ty DEF Look, FreshClicks, ClickType, Behind
    <2> QED BY <2>1 DEF Behind
  <1>5. ASSUME NEW j \in Clicks, resolveApproval(j) \/ announceDecision(j) PROVE Behind(k, a, o)'
    BY <1>5, <1>ty DEF resolveApproval, announceDecision, ClickType, Behind
  <1>6. ASSUME NEW p \in Procs, Deliver(p) \/ DropListen(p) \/ Redial(p) PROVE clicks' = clicks
    BY <1>6 DEF Deliver, DropListen, Redial
  <1>7. ASSUME NEW p \in Procs, Crash(p) PROVE Behind(k, a, o)'
    BY <1>7, <1>ty DEF Crash, ClickType, Behind
  <1>8. UNCHANGED vars => clicks' = clicks
    BY DEF vars
  <1> QED BY <1>1, <1>2, <1>3, <1>4, <1>5, <1>6, <1>7, <1>8 DEF Next

\* Initially nobody has heard or said anything.
LEMMA InitBacking == Init => Backing
  BY DEF Init, Backing, HeardBacked, ToldBacked, RowBacked, WireBacked, Backed, Decisions

\* The poll reports what the record says.
LEMMA PollIsBacked ==
  ASSUME RowType, NEW a \in Asks, RowBacked(a), readSettledOutcome(a) # "nothing"
  PROVE  Backed(a, readSettledOutcome(a))
  <1>1. CASE row[a] = "timeout"
    BY <1>1 DEF readSettledOutcome, Backed
  <1>2. CASE row[a] # "timeout"
    <2>1. row[a] \in Decisions /\ readSettledOutcome(a) = outcomeFor(row[a])
      BY <1>2 DEF readSettledOutcome, RowType, RowStates
    <2> QED BY <2>1 DEF RowBacked
  <1> QED BY <1>1, <1>2

\* Every step keeps each source of answers backed.
LEMMA BackingStep == TypeInv /\ Backing /\ [Next]_vars => Backing'
  <1> SUFFICES ASSUME TypeInv, Backing, [Next]_vars PROVE Backing'
    OBVIOUS
  <1>ty. RowType /\ WaiterType /\ ToldType /\ ClickType /\ WireType /\ \A k \in Clicks : Aimed(k) /\ Deciding(k)
    BY TypeParts DEF TypeInv
  <1>keep. \A a, o : Backed(a, o) => Backed(a, o)'
    BY BackedStays
  <1>heard. ASSUME NEW a \in Asks, waiter'[a].heard = waiter[a].heard PROVE HeardBacked(a)'
    BY <1>heard, <1>keep DEF Backing, HeardBacked, Backed, Behind
  <1>told. ASSUME NEW a \in Asks, told'[a] = told[a] PROVE ToldBacked(a)'
    BY <1>told, <1>keep DEF Backing, ToldBacked, Backed, Behind
  <1>row. ASSUME NEW a \in Asks, row'[a] = row[a] \/ row'[a] \notin Decisions PROVE RowBacked(a)'
    BY <1>row, <1>keep DEF Backing, RowBacked, Backed, Behind
  <1>wire. ASSUME NEW p \in Procs, wire'[p] = wire[p] \/ wire'[p] = <<>> PROVE WireBacked(p)'
    <2> SUFFICES ASSUME NEW i \in 1..Len(wire'[p]) PROVE Backed(wire[p][i].ask, wire[p][i].outcome)'
      BY DEF WireBacked
    <2>1. wire'[p] = wire[p] /\ Backed(wire[p][i].ask, wire[p][i].outcome)
      BY <1>wire DEF Backing, WireBacked
    <2> QED BY <1>keep, <2>1 DEF Backed, Behind
  <1>hear. ASSUME NEW a \in Asks, NEW o \in Outcomes, Hear(a, o), Backed(a, o), NEW b \in Asks
           PROVE  HeardBacked(b)'
    <2>1. \/ waiter'[b].heard = waiter[b].heard
          \/ b = a /\ waiter'[b].heard = o
      BY <1>hear, <1>ty, Hears
    <2> QED BY <1>heard, <1>hear, <1>keep, <2>1 DEF HeardBacked, Backed, Behind
  <1>1. ASSUME NEW a \in Asks, Turn(a) PROVE Backing'
    <2>1. \A p \in Procs : WireBacked(p)'
      BY <1>1, <1>wire
      DEF Turn, createPendingApproval, waitForApproval, Subscribe, Poll, markApprovalTimedOut, Return
    <2>2. ASSUME NEW b \in Asks PROVE RowBacked(b)'
      BY <1>1, <1>ty, <1>row
      DEF Turn, createPendingApproval, waitForApproval, Subscribe, Poll, markApprovalTimedOut, Return,
          RowType, Decisions
    <2>3. ASSUME NEW b \in Asks PROVE HeardBacked(b)'
      <3>1. CASE Poll(a)
        <4>1. readSettledOutcome(a) \in Outcomes /\ Backed(a, readSettledOutcome(a)) /\ Hear(a, readSettledOutcome(a))
          BY <1>ty, <3>1, PollReads, PollIsBacked DEF Poll, Backing
        <4> QED BY <1>hear, <4>1
      <3>2. CASE ~Poll(a)
        <4>1. waiter'[b].heard = waiter[b].heard
          BY <1>1, <1>ty, <3>2, Enters
          DEF Turn, createPendingApproval, waitForApproval, Subscribe, markApprovalTimedOut, Return, Stages
        <4> QED BY <1>heard, <4>1
      <3> QED BY <3>1, <3>2
    <2>4. ASSUME NEW b \in Asks PROVE ToldBacked(b)'
      <3>1. CASE Return(a)
        <4>1. told'[b] = told[b] \/ (b = a /\ told'[b] = waiter[a].heard)
          BY <1>ty, <3>1 DEF Return, Tell, ToldType
        <4> QED BY <1>told, <1>keep, <4>1 DEF Backing, HeardBacked, ToldBacked, Backed, Behind
      <3>2. CASE ~Return(a)
        BY <1>1, <1>told, <3>2
        DEF Turn, createPendingApproval, waitForApproval, Subscribe, Poll, markApprovalTimedOut
      <3> QED BY <3>1, <3>2
    <2> QED BY <2>1, <2>2, <2>3, <2>4 DEF Backing
  <1>2. ASSUME NEW a \in Asks, AskFails(a) \/ TimerFires(a) \/ RaceTimesOut(a) PROVE Backing'
    <2>1. (\A p \in Procs : WireBacked(p)') /\ \A b \in Asks : RowBacked(b)'
      BY <1>2, <1>wire, <1>row DEF AskFails, TimerFires, RaceTimesOut
    <2>2. ASSUME NEW b \in Asks PROVE HeardBacked(b)'
      <3>1. waiter'[b].heard = waiter[b].heard \/ waiter'[b].heard = "timeout"
        BY <1>2, <1>ty, Enters, Hears DEF AskFails, TimerFires, RaceTimesOut, Stages, Outcomes
      <3> QED BY <1>heard, <3>1 DEF HeardBacked, Backed
    <2>3. ASSUME NEW b \in Asks PROVE ToldBacked(b)'
      <3>1. told'[b] = told[b] \/ told'[b] \in {"timeout", "error"}
        BY <1>2, <1>ty DEF AskFails, TimerFires, RaceTimesOut, Tell, ToldType
      <3> QED BY <1>told, <3>1 DEF ToldBacked, Backed
    <2> QED BY <2>1, <2>2, <2>3 DEF Backing
  <1>3. ASSUME NEW a \in Asks, NEW p \in Procs, Ask(a, p) PROVE Backing'
    <2>1. \A b \in Asks : waiter'[b].heard = waiter[b].heard
      BY <1>3, <1>ty DEF Ask, WaiterType
    <2> QED BY <1>3, <1>heard, <1>told, <1>row, <1>wire, <2>1 DEF Backing, Ask
  <1>4. ASSUME NEW k \in Clicks, NEW a \in Asks, NEW d \in Decisions, NEW p \in Procs, Look(k, a, d, p)
        PROVE  Backing'
    BY <1>4, <1>heard, <1>told, <1>row, <1>wire DEF Backing, Look
  <1>5. ASSUME NEW k \in Clicks, resolveApproval(k) PROVE Backing'
    <2>1. PICK a \in Asks, d \in Decisions : a = clicks[k].ask /\ d = clicks[k].decision
      BY <1>5, <1>ty DEF resolveApproval, Aimed, Deciding
    <2>2. Behind(k, a, outcomeFor(d))'
      BY <1>5, <1>ty, <2>1 DEF resolveApproval, Behind, ClickType
    <2>3. row' = [row EXCEPT ![a] = d]
      BY <1>5, <2>1 DEF resolveApproval
    <2>4. ASSUME NEW b \in Asks PROVE RowBacked(b)'
      <3>1. CASE b = a
        <4>1. row'[b] = d
          BY <1>ty, <2>3, <3>1 DEF RowType
        <4> QED BY <2>2, <3>1, <4>1 DEF RowBacked, Backed
      <3>2. CASE b # a
        BY <1>ty, <1>row, <2>3, <3>2 DEF RowType
      <3> QED BY <3>1, <3>2
    <2> QED BY <1>5, <1>heard, <1>told, <1>wire, <2>4 DEF Backing, resolveApproval
  <1>6. ASSUME NEW k \in Clicks, announceDecision(k) PROVE Backing'
    <2> DEFINE a == clicks[k].ask
               o == outcomeFor(clicks[k].decision)
    <2>1. a \in Asks /\ o \in Outcomes /\ Backed(a, o)
      BY <1>6, <1>ty, OutcomeOfDecision DEF announceDecision, Aimed, Deciding, Backed, Behind
    <2>2. \A b \in Asks : HeardBacked(b)'
      BY <1>6, <1>hear, <1>heard, <2>1 DEF announceDecision
    <2>3. ASSUME NEW p \in Procs PROVE WireBacked(p)'
      <3>1. wire'[p] = wire[p] \/ wire'[p] = Append(wire[p], [ask |-> a, outcome |-> o])
        BY <1>6 DEF announceDecision
      <3>2. CASE wire'[p] = Append(wire[p], [ask |-> a, outcome |-> o])
        <4> SUFFICES ASSUME NEW i \in 1..Len(wire'[p]) PROVE Backed(wire[p][i].ask, wire[p][i].outcome)'
          BY DEF WireBacked
        <4>1. wire[p] \in Seq(Words) /\ [ask |-> a, outcome |-> o] \in Words
          BY <1>ty, <2>1 DEF WireType, Words
        <4>2. \/ i \in 1..Len(wire[p]) /\ wire'[p][i] = wire[p][i]
              \/ wire'[p][i] = [ask |-> a, outcome |-> o]
          BY <3>2, <4>1
        <4>3. Backed(wire'[p][i].ask, wire'[p][i].outcome)
          BY <2>1, <4>2 DEF Backing, WireBacked
        <4> QED BY <1>keep, <4>3 DEF Backed, Behind
      <3> QED BY <1>wire, <3>1, <3>2
    <2> QED BY <1>6, <1>told, <1>row, <2>2, <2>3 DEF Backing, announceDecision
  <1>7. ASSUME NEW p \in Procs, Deliver(p) PROVE Backing'
    <2>1. wire[p] \in Seq(Words) /\ wire[p] # <<>> /\ Head(wire[p]) = wire[p][1] /\ 1 \in 1..Len(wire[p])
      BY <1>7, <1>ty DEF Deliver, WireType
    <2>2. /\ Head(wire[p]).ask \in Asks /\ Head(wire[p]).outcome \in Outcomes
          /\ Backed(Head(wire[p]).ask, Head(wire[p]).outcome)
      <3>1. Head(wire[p]) \in Words
        BY <2>1
      <3> QED BY <2>1, <3>1 DEF Words, Backing, WireBacked
    <2>3. \A b \in Asks : HeardBacked(b)'
      BY <1>7, <1>hear, <1>heard, <2>2 DEF Deliver
    <2>4. ASSUME NEW q \in Procs PROVE WireBacked(q)'
      <3>1. CASE q = p
        <4>1. wire'[p] = Tail(wire[p])
          BY <1>7, <1>ty DEF Deliver, WireType
        <4> SUFFICES ASSUME NEW i \in 1..Len(wire'[p]) PROVE Backed(wire[p][i].ask, wire[p][i].outcome)'
          BY <3>1 DEF WireBacked
        <4>2. i + 1 \in 1..Len(wire[p]) /\ wire'[p][i] = wire[p][i + 1]
          BY <2>1, <4>1
        <4>3. Backed(wire'[p][i].ask, wire'[p][i].outcome)
          BY <4>2 DEF Backing, WireBacked
        <4> QED BY <1>keep, <4>3 DEF Backed, Behind
      <3>2. CASE q # p
        BY <1>7, <1>ty, <1>wire, <3>2 DEF Deliver, WireType
      <3> QED BY <3>1, <3>2
    <2> QED BY <1>7, <1>told, <1>row, <2>3, <2>4 DEF Backing, Deliver
  <1>8. ASSUME NEW p \in Procs, DropListen(p) \/ Redial(p) \/ Crash(p) PROVE Backing'
    <2>1. wire' = wire \/ wire' = [wire EXCEPT ![p] = <<>>]
      BY <1>8 DEF DropListen, Redial, Crash
    <2>2. \A q \in Procs : WireBacked(q)'
      BY <1>ty, <1>wire, <2>1 DEF WireType
    <2>3. \A b \in Asks : waiter'[b].heard = waiter[b].heard
      <3>1. CASE Crash(p)
        BY <1>ty, <3>1 DEF Crash, WaiterType
      <3>2. CASE ~Crash(p)
        BY <1>8, <3>2 DEF DropListen, Redial
      <3> QED BY <3>1, <3>2
    <2>4. UNCHANGED <<row, told>>
      BY <1>8 DEF DropListen, Redial, Crash
    <2> QED BY <1>heard, <1>told, <1>row, <2>2, <2>3, <2>4 DEF Backing
  <1>9. ASSUME UNCHANGED vars PROVE Backing'
    BY <1>9, <1>heard, <1>told, <1>row, <1>wire DEF vars, Backing
  <1> QED BY <1>1, <1>2, <1>3, <1>4, <1>5, <1>6, <1>7, <1>8, <1>9 DEF Next

\* An agent goes ahead only where a person chose an option for its own request,
\* for any number of people, processes, crashes and lost messages.
THEOREM ConsentHolds == Spec => []ConsentIsReal
  <1>1. Init => TypeInv /\ Backing
    BY InitType, InitBacking
  <1>2. TypeInv /\ Backing /\ [Next]_vars => (TypeInv /\ Backing)'
    BY TypeStep, BackingStep
  <1>3. TypeInv /\ Backing => ConsentIsReal
    BY DEF Backing, ToldBacked, Backed, Behind, ConsentIsReal, Consented, outcomeFor
  <1> QED BY <1>1, <1>2, <1>3, PTL DEF Spec

-----------------------------------------------------------------------------
(* With one answer per request the record follows the person who gives it,   *)
(* and the waiters and routes implement ApprovalPromise.                    *)

OneClick == \A j, k \in Clicks : clicks[j].ask = clicks[k].ask /\ clicks[k].ask \in Asks => j = k

\* The record says what was decided, from the update on.
RowFollows(k) ==
  clicks[k].pc \in {"recorded", "over"} /\ clicks[k].decision \in Decisions => row[clicks[k].ask] = clicks[k].decision

\* The row comes before anyone can look at it.
Late(a) == waiter[a].pc \in {"idle", "creating"} => row[a] = "absent"
Seen(k) == clicks[k].pc = "looked" => row[clicks[k].ask] # "absent"

Following ==
  /\ OneClick
  /\ \A k \in Clicks : RowFollows(k) /\ Seen(k)
  /\ \A a \in Asks : Late(a)

\* Initially.
LEMMA InitFollowing == Init => Following
  BY ApprovalAssumption
  DEF ApprovalAssumption, Init, Following, OneClick, RowFollows, Seen, Late

\* Whoever looks first is the only one to answer.
LEMMA FirstLook ==
  ASSUME NEW a \in Asks, Cardinality(Answering(a)) < 1
  PROVE  \A k \in Clicks : clicks[k].ask # a
  <1>1. IsFiniteSet(Answering(a))
    BY ApprovalAssumption, FS_Interval, FS_Subset DEF ApprovalAssumption, Answering, Clicks
  <1>2. Answering(a) = {}
    BY <1>1, FS_CardinalityType, FS_EmptySet
  <1> QED BY <1>2 DEF Answering

\* Every step keeps the record behind the one answer.
LEMMA FollowingStep ==
  ASSUME MaxClicksPerAsk = 1
  PROVE  TypeInv /\ Following /\ [Next]_vars => Following'
  <1> SUFFICES ASSUME TypeInv, Following, [Next]_vars PROVE Following'
    OBVIOUS
  <1>ty. RowType /\ WaiterType /\ ClickType /\ \A k \in Clicks : Aimed(k) /\ Deciding(k)
    BY TypeParts DEF TypeInv
  <1>clicks. ASSUME UNCHANGED clicks, UNCHANGED row PROVE OneClick' /\ \A k \in Clicks : (RowFollows(k) /\ Seen(k))'
    BY <1>clicks DEF Following, OneClick, RowFollows, Seen
  <1>late. ASSUME NEW a \in Asks, row'[a] = row[a],
                  waiter'[a].pc = waiter[a].pc \/ waiter'[a].pc \notin {"idle", "creating"}
           PROVE  Late(a)'
    BY <1>late DEF Following, Late
  <1>1. ASSUME NEW a \in Asks, createPendingApproval(a) PROVE Following'
    <2>1. /\ row[a] = "absent" /\ row' = [row EXCEPT ![a] = "pending"] /\ UNCHANGED clicks
          /\ waiter'[a].pc = "created" /\ \A b \in Asks \ {a} : waiter'[b] = waiter[b]
      BY <1>1, <1>ty, Enters DEF createPendingApproval, At, Following, Late, Stages
    <2>2. OneClick'
      BY <2>1 DEF Following, OneClick
    <2>3. ASSUME NEW k \in Clicks PROVE (RowFollows(k) /\ Seen(k))'
      BY <1>ty, <2>1 DEF Following, RowFollows, Seen, RowType, Aimed, Decisions
    <2>4. ASSUME NEW b \in Asks PROVE Late(b)'
      BY <1>ty, <1>late, <2>1 DEF Late, RowType
    <2> QED BY <2>2, <2>3, <2>4 DEF Following
  <1>2. ASSUME NEW a \in Asks, markApprovalTimedOut(a) PROVE Following'
    <2>1. /\ \A b \in Asks : row'[b] = row[b] \/ (row[b] = "pending" /\ row'[b] = "timeout")
          /\ UNCHANGED clicks /\ waiter[a].pc = "waiting"
          /\ waiter'[a].pc = "closing" /\ \A b \in Asks \ {a} : waiter'[b] = waiter[b]
      BY <1>2, <1>ty, Enters DEF markApprovalTimedOut, At, RowType, Stages
    <2>2. OneClick'
      BY <2>1 DEF Following, OneClick
    <2>3. ASSUME NEW k \in Clicks PROVE (RowFollows(k) /\ Seen(k))'
      BY <1>ty, <2>1 DEF Following, RowFollows, Seen, Aimed, Decisions
    <2>4. ASSUME NEW b \in Asks PROVE Late(b)'
      BY <2>1 DEF Following, Late
    <2> QED BY <2>2, <2>3, <2>4 DEF Following
  <1>3. ASSUME NEW a \in Asks,
               waitForApproval(a) \/ Subscribe(a) \/ Poll(a) \/ Return(a) \/ AskFails(a)
                 \/ TimerFires(a) \/ RaceTimesOut(a)
        PROVE  Following'
    <2>1. UNCHANGED <<row, clicks>>
      BY <1>3 DEF waitForApproval, Subscribe, Poll, Return, AskFails, TimerFires, RaceTimesOut
    <2>2. ASSUME NEW b \in Asks
          PROVE  waiter'[b].pc = waiter[b].pc \/ waiter'[b].pc \notin {"idle", "creating"}
      <3>1. CASE Poll(a) \/ TimerFires(a) \/ RaceTimesOut(a)
        BY <1>ty, <3>1, Hears, PollReads DEF Poll, TimerFires, RaceTimesOut, Outcomes
      <3>2. CASE waitForApproval(a) \/ Subscribe(a) \/ Return(a) \/ AskFails(a)
        BY <1>ty, <3>2, Enters DEF waitForApproval, Subscribe, Return, AskFails, Stages
      <3> QED BY <1>3, <3>1, <3>2
    <2> QED BY <1>clicks, <1>late, <2>1, <2>2 DEF Following
  <1>4. ASSUME NEW a \in Asks, NEW p \in Procs, Ask(a, p) PROVE Following'
    <2>1. /\ waiter[a].pc = "idle" /\ UNCHANGED <<row, clicks>>
          /\ \A b \in Asks \ {a} : waiter'[b] = waiter[b]
      BY <1>4, <1>ty DEF Ask, At, WaiterType
    <2>2. ASSUME NEW b \in Asks PROVE Late(b)'
      BY <2>1 DEF Following, Late
    <2> QED BY <1>clicks, <2>1, <2>2 DEF Following
  <1>5. ASSUME NEW k \in Clicks, NEW a \in Asks, NEW d \in Decisions, NEW p \in Procs, Look(k, a, d, p)
        PROVE  Following'
    <2>1. /\ clicks' = [clicks EXCEPT ![k] = [ask |-> a, decision |-> d, home |-> p, pc |-> "looked"]]
          /\ row[a] # "absent" /\ UNCHANGED <<row, waiter>>
          /\ \A j \in Clicks : clicks[j].ask # a
      BY <1>5, FirstLook DEF Look, Visible
    <2>2. OneClick'
      BY <1>ty, <2>1 DEF Following, OneClick, ClickType
    <2>3. ASSUME NEW j \in Clicks PROVE (RowFollows(j) /\ Seen(j))'
      BY <1>ty, <2>1 DEF Following, RowFollows, Seen, ClickType
    <2> QED BY <1>late, <2>1, <2>2, <2>3 DEF Following
  <1>6. ASSUME NEW k \in Clicks, resolveApproval(k) PROVE Following'
    <2>1. PICK a \in Asks, d \in Decisions : a = clicks[k].ask /\ d = clicks[k].decision
      BY <1>6, <1>ty DEF resolveApproval, Aimed, Deciding
    <2>2. /\ clicks[k].pc = "looked" /\ clicks' = [clicks EXCEPT ![k].pc = "recorded"]
          /\ row' = [row EXCEPT ![a] = d] /\ UNCHANGED waiter
      BY <1>6, <2>1 DEF resolveApproval
    <2>3. OneClick'
      BY <1>ty, <2>2 DEF Following, OneClick, ClickType
    <2>4. ASSUME NEW j \in Clicks PROVE (RowFollows(j) /\ Seen(j))'
      <3>1. CASE j = k
        BY <1>ty, <2>1, <2>2, <3>1 DEF RowFollows, Seen, ClickType, RowType
      <3>2. CASE j # k
        <4>1. clicks'[j] = clicks[j] /\ clicks[j].ask # a
          BY <1>ty, <2>1, <2>2, <3>2 DEF Following, OneClick, ClickType
        <4>2. clicks[j].ask \in Asks => row'[clicks[j].ask] = row[clicks[j].ask]
          BY <1>ty, <2>2, <4>1 DEF RowType
        <4> QED BY <1>ty, <4>1, <4>2 DEF Following, RowFollows, Seen, Aimed
      <3> QED BY <3>1, <3>2
    <2>5. ASSUME NEW b \in Asks PROVE Late(b)'
      <3>1. waiter[a].pc \notin {"idle", "creating"}
        BY <2>1, <2>2 DEF Following, Late, Seen
      <3> QED BY <1>ty, <1>late, <2>2, <3>1 DEF Late, RowType
    <2> QED BY <2>3, <2>4, <2>5 DEF Following
  <1>7. ASSUME NEW k \in Clicks, announceDecision(k) PROVE Following'
    <2>1. clicks[k].pc = "recorded" /\ clicks' = [clicks EXCEPT ![k].pc = "over"] /\ UNCHANGED row
      BY <1>7 DEF announceDecision
    <2>2. OneClick' /\ \A j \in Clicks : (RowFollows(j) /\ Seen(j))'
      BY <1>ty, <2>1 DEF Following, OneClick, RowFollows, Seen, ClickType
    <2>3. ASSUME NEW b \in Asks PROVE waiter'[b].pc = waiter[b].pc
      BY <1>7, <1>ty, Hears, OutcomeOfDecision DEF announceDecision, Aimed
    <2> QED BY <1>late, <2>1, <2>2, <2>3 DEF Following
  <1>8. ASSUME NEW p \in Procs, Deliver(p) \/ DropListen(p) \/ Redial(p) PROVE Following'
    <2>1. UNCHANGED <<row, clicks>>
      BY <1>8 DEF Deliver, DropListen, Redial
    <2>2. ASSUME NEW b \in Asks PROVE waiter'[b].pc = waiter[b].pc
      <3>1. CASE Deliver(p)
        <4>1. Head(wire[p]) \in Words
          BY <3>1, TypeParts DEF TypeInv, WireType, Deliver
        <4> QED BY <1>ty, <3>1, <4>1, Hears DEF Deliver, Words
      <3>2. CASE ~Deliver(p)
        BY <1>8, <3>2 DEF DropListen, Redial
      <3> QED BY <3>1, <3>2
    <2> QED BY <1>clicks, <1>late, <2>1, <2>2 DEF Following
  <1>9. ASSUME NEW p \in Procs, Crash(p) PROVE Following'
    <2>1. UNCHANGED row
      BY <1>9 DEF Crash
    <2>2. ASSUME NEW b \in Asks PROVE waiter'[b].pc = waiter[b].pc \/ waiter'[b].pc = "dead"
      BY <1>9, <1>ty DEF Crash, WaiterType
    <2>3. ASSUME NEW k \in Clicks
          PROVE  /\ clicks'[k].ask = clicks[k].ask
                 /\ \/ clicks'[k] = clicks[k]
                    \/ clicks'[k].pc = "over" /\ clicks'[k].decision = "none"
                    \/ /\ clicks'[k].pc = "over" /\ clicks[k].pc \in {"recorded", "over"}
                       /\ clicks'[k].decision = clicks[k].decision
      BY <1>9, <1>ty DEF Crash, ClickType
    <2>4. OneClick' /\ \A k \in Clicks : (RowFollows(k) /\ Seen(k))'
      BY <2>1, <2>3 DEF Following, OneClick, RowFollows, Seen, Decisions
    <2> QED BY <1>late, <2>1, <2>2, <2>4 DEF Following
  <1>10. ASSUME UNCHANGED vars PROVE Following'
    BY <1>10, <1>clicks, <1>late DEF vars, Following
  <1> QED BY <1>1, <1>2, <1>3, <1>4, <1>5, <1>6, <1>7, <1>8, <1>9, <1>10 DEF Next, Turn

\* The agent is told what the record says, or that no answer came.
LEMMA TellsTheRecord ==
  ASSUME RowType, ToldType, Following, \A k \in Clicks : Aimed(k), NEW a \in Asks, NEW o \in Outcomes \cup {"nothing"},
         Backed(a, o), Tell(a, o), UNCHANGED row
  PROVE  [Promise!Next]_(Promise!vars)
  <1> DEFINE answer == [b \in Asks |-> Recorded(b)]
  <1>1. answer' = answer
    BY DEF Recorded
  <1>2. CASE told[a] # "nothing" \/ o = "nothing"
    BY <1>1, <1>2 DEF Tell, ToldType, Promise!vars
  <1>3. CASE told[a] = "nothing" /\ o # "nothing"
    <2>1. o \in {"selected", "denied"} => answer[a] = o
      <3> SUFFICES ASSUME NEW k \in Clicks, Behind(k, a, o) PROVE answer[a] = o
        BY DEF Backed
      <3>1. row[a] = clicks[k].decision /\ clicks[k].decision \in Decisions
        BY DEF Behind, Following, RowFollows
      <3> QED BY <3>1 DEF Recorded, Behind, Decisions
    <2>2. told' = [told EXCEPT ![a] = o]
      BY <1>3 DEF Tell, ToldType
    <2>3. o \in Promise!Answers \cup Promise!NoAnswer
      BY <1>3 DEF Promise!Answers, Promise!NoAnswer, Outcomes
    <2>4. Promise!Tell(a, o)
      BY <1>1, <1>3, <2>1, <2>2, <2>3 DEF Promise!Tell, Promise!Answers, Promise!NoAnswer
    <2> QED BY <2>3, <2>4 DEF Promise!Next
  <1> QED BY <1>2, <1>3

\* Every step of waiters and routes is a step of the promise, or none.
LEMMA PromiseStep ==
  ASSUME TypeInv, Backing, Following, [Next]_vars
  PROVE  [Promise!Next]_(Promise!vars)
  <1> DEFINE answer == [b \in Asks |-> Recorded(b)]
             Kept == [Promise!Next]_(Promise!vars)
  <1>ty. RowType /\ WaiterType /\ ToldType /\ ClickType /\ \A k \in Clicks : Aimed(k) /\ Deciding(k)
    BY TypeParts DEF TypeInv
  <1>stutter. ASSUME UNCHANGED <<row, told>> PROVE Kept
    BY <1>stutter DEF Recorded, Promise!vars
  <1>1. ASSUME NEW a \in Asks, createPendingApproval(a) PROVE Kept
    <2>1. row[a] = "absent" /\ row' = [row EXCEPT ![a] = "pending"] /\ UNCHANGED told
      BY <1>1 DEF createPendingApproval, At, Following, Late
    <2>2. answer' = answer
      BY <1>ty, <2>1 DEF Recorded, RowType
    <2> QED BY <2>1, <2>2 DEF Promise!vars
  <1>2. ASSUME NEW a \in Asks, markApprovalTimedOut(a) PROVE Kept
    <2>1. CASE row[a] = "pending" /\ row' = [row EXCEPT ![a] = "timeout"]
      <3>1. answer[a] = "open" /\ answer' = [answer EXCEPT ![a] = "timeout"]
        BY <1>ty, <2>1 DEF Recorded, RowType
      <3>2. Promise!Expire(a)
        BY <1>2, <3>1 DEF markApprovalTimedOut, Promise!Expire
      <3> QED BY <3>2 DEF Promise!Next
    <2>2. CASE row' = row
      BY <1>2, <1>stutter, <2>2 DEF markApprovalTimedOut
    <2> QED BY <1>2, <1>ty, <2>1, <2>2 DEF markApprovalTimedOut, RowType
  <1>3. ASSUME NEW a \in Asks, Return(a) PROVE Kept
    <2>1. /\ waiter[a].heard \in Outcomes \cup {"nothing"} /\ Backed(a, waiter[a].heard)
          /\ Tell(a, waiter[a].heard) /\ UNCHANGED row
      BY <1>3, <1>ty DEF Return, WaiterType, Backing, HeardBacked
    <2> QED BY <1>ty, <2>1, TellsTheRecord
  <1>4. ASSUME NEW a \in Asks, AskFails(a) \/ RaceTimesOut(a) PROVE Kept
    <2>1. PICK o \in {"error", "timeout"} : Tell(a, o)
      BY <1>4 DEF AskFails, RaceTimesOut
    <2>2. Backed(a, o) /\ o \in Outcomes /\ UNCHANGED row
      BY <1>4 DEF Backed, Outcomes, AskFails, RaceTimesOut
    <2> QED BY <1>ty, <2>1, <2>2, TellsTheRecord
  <1>5. ASSUME NEW k \in Clicks, resolveApproval(k) PROVE Kept
    <2>1. PICK a \in Asks, d \in Decisions : a = clicks[k].ask /\ d = clicks[k].decision
      BY <1>5, <1>ty DEF resolveApproval, Aimed, Deciding
    <2>2. clicks[k].pc = "looked" /\ row' = [row EXCEPT ![a] = d] /\ UNCHANGED told
      BY <1>5, <2>1 DEF resolveApproval
    <2>3. row[a] \notin Decisions
      <3> SUFFICES ASSUME row[a] \in Decisions PROVE FALSE
        OBVIOUS
      <3>1. PICK j \in Clicks : Behind(j, a, outcomeFor(row[a]))
        BY OutcomeOfDecision DEF Backing, RowBacked, Backed
      <3>2. j = k
        BY <2>1, <3>1 DEF Behind, Following, OneClick
      <3> QED BY <2>2, <3>1, <3>2 DEF Behind
    <2>4. answer[a] \notin Promise!Answers
      BY <1>ty, <2>3 DEF Recorded, RowType, RowStates, Promise!Answers
    <2>5. answer' = [answer EXCEPT ![a] = outcomeFor(d)]
      <3>1. ASSUME NEW b \in Asks PROVE Recorded(b)' = IF b = a THEN outcomeFor(d) ELSE Recorded(b)
        BY <1>ty, <2>2 DEF Recorded, RowType, Decisions, outcomeFor
      <3> QED BY <3>1
    <2>6. outcomeFor(d) \in Promise!Answers
      BY OutcomeOfDecision DEF Promise!Answers
    <2>7. Promise!Answer(a, outcomeFor(d))
      BY <2>2, <2>4, <2>5 DEF Promise!Answer
    <2> QED BY <2>6, <2>7 DEF Promise!Next
  <1>6. ASSUME NEW a \in Asks, waitForApproval(a) \/ Subscribe(a) \/ Poll(a) \/ TimerFires(a) PROVE Kept
    BY <1>6, <1>stutter DEF waitForApproval, Subscribe, Poll, TimerFires
  <1>7. ASSUME NEW a \in Asks, NEW p \in Procs, Ask(a, p) PROVE Kept
    BY <1>7, <1>stutter DEF Ask
  <1>8. ASSUME NEW k \in Clicks, NEW a \in Asks, NEW d \in Decisions, NEW p \in Procs, Look(k, a, d, p) PROVE Kept
    BY <1>8, <1>stutter DEF Look
  <1>9. ASSUME NEW k \in Clicks, announceDecision(k) PROVE Kept
    BY <1>9, <1>stutter DEF announceDecision
  <1>10. ASSUME NEW p \in Procs, Deliver(p) \/ DropListen(p) \/ Redial(p) \/ Crash(p) PROVE Kept
    BY <1>10, <1>stutter DEF Deliver, DropListen, Redial, Crash
  <1>11. ASSUME UNCHANGED vars PROVE Kept
    BY <1>11, <1>stutter DEF vars
  <1> HIDE DEF Kept
  <1>12. Kept
    BY <1>1, <1>2, <1>3, <1>4, <1>5, <1>6, <1>7, <1>8, <1>9, <1>10, <1>11 DEF Next, Turn
  <1> QED BY <1>12 DEF Kept

\* With one answer per request, three channels, two timers, crashes and lost
\* messages amount to the promise: recorded for good, told once, told the truth.
THEOREM PromiseIsKept ==
  ASSUME MaxClicksPerAsk = 1
  PROVE  Spec => KeepsPromise
  <1>1. Init => TypeInv /\ Backing /\ Following
    BY InitType, InitBacking, InitFollowing
  <1>2. TypeInv /\ Backing /\ Following /\ [Next]_vars => (TypeInv /\ Backing /\ Following)'
    BY TypeStep, BackingStep, FollowingStep
  <1>3. Init => Promise!Init
    BY DEF Init, Promise!Init, Recorded
  <1>4. TypeInv /\ Backing /\ Following /\ [Next]_vars
          => [Promise!Next]_(Promise!vars)
    BY PromiseStep
  <1> QED BY <1>1, <1>2, <1>3, <1>4, PTL DEF Spec, KeepsPromise, Promise!Spec
=============================================================================
