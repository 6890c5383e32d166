----------------------------- MODULE TeamBoard -----------------------------
(***************************************************************************)
(* The board of a team: its tasks (lib/broker/teams.ts), the effects of the *)
(* tools its members call (lib/teams/tools.ts), the actions of the room's   *)
(* page, and the sweep that takes the work of silent members               *)
(* (lib/teams/reliability.ts).                                              *)
(*                                                                         *)
(* The effect of a tool reads the task, decides whether its caller may, and *)
(* writes later.  A sweep reads the health of every member in one statement *)
(* and acts on what it read in many.  Which calls of a member run their     *)
(* effect at all is TeamCalls.                                              *)
(***************************************************************************)
EXTENDS Integers, Sequences

CONSTANTS
  None,
  Slots,        \* team_members
  Leader,       \* the slot whose role is 'leader'
  Plans,        \* what may be created: an owner or None, and the tasks it waits for
  Statuses,     \* the statuses a call of team_update_task asks for
  Handlers,     \* tool calls that run at once
  Tabs,         \* pages that show the room, each sweeping on its poll
  Watched,      \* every word of a member is swept before TEAM_SILENCE_MS have passed
  MaxTasks, MaxCalls, MaxRoom,
  MaxExcuses,   \* bound: cards, choices of a directory and stops: silences that are explained
  MaxCrashes,   \* bound: handlers and sweeps that die or fail
  MaxHalfSweeps \* bound: sweeps that die after a mark, before its releases

ASSUME TeamAssumption ==
  /\ Slots \subseteq Nat /\ None \notin Slots /\ Leader \in Slots
  /\ Statuses \subseteq {"open", "claimed", "in_progress", "blocked", "cancelled"}
  /\ Plans \subseteq [owner : Slots \cup {None}, deps : SUBSET (1..MaxTasks)]
  /\ Watched \in BOOLEAN
  /\ {MaxTasks, MaxCalls, MaxRoom, MaxExcuses, MaxCrashes, MaxHalfSweeps} \subseteq Nat

VARIABLES
  board,   \* team_tasks: the rows created so far
  work,    \* the handlers of tool calls
  member,  \* team_members, and what is heard of them
  sweep,   \* the sweeps
  grace,   \* a room-wide stop within its grace window
  spent    \* what has been used of the bounds

vars == <<board, work, member, sweep, grace, spent>>

Tasks == 1..MaxTasks
Status == {"open", "claimed", "in_progress", "blocked", "done", "cancelled"}
Settled == {"done", "cancelled"}
\* HELD_TASK_STATUSES: a blocked task waits for the graph, not for its owner.
Held == {"claimed", "in_progress"}
Row == [owner : Slots \cup {None}, status : Status, deps : SUBSET Tasks]

Call == [slot : Slots, tool : {"create"}, task : {None}, arg : Plans]
        \cup [slot : Slots, tool : {"claim", "report"}, task : Tasks, arg : {None}]
        \cup [slot : Slots, tool : {"update"}, task : Tasks, arg : Statuses]

Idle == [pc |-> "idle", call |-> None, opens |-> {}]
NoSweep == [pc |-> "idle", lost |-> {}, back |-> {}, held |-> [s \in Slots |-> {}],
            slot |-> None, left |-> {}, heard |-> {}]
Unspent == [calls |-> 0, room |-> 0, excuses |-> 0, crashes |-> 0, half |-> 0]

TypeOK ==
  /\ \E n \in 0..MaxTasks : board \in [1..n -> Row]
  /\ work \in [Handlers -> [pc : {"effect", "write", "commit"}, call : Call, opens : SUBSET Tasks]
                           \cup {Idle}]
  /\ member \in [Slots -> [mode : {"idle", "working", "waiting"},
                           word : {"fresh", "seen", "silent"}, lost : BOOLEAN]]
  /\ sweep \in [Tabs -> [pc : {"idle", "sweeping"}, lost : SUBSET Slots, back : SUBSET Slots,
                        held : [Slots -> SUBSET Tasks], slot : Slots \cup {None},
                        left : SUBSET Tasks, heard : SUBSET Slots]]
  /\ grace \in BOOLEAN

Init ==
  /\ board = <<>> /\ work = [h \in Handlers |-> Idle]
  /\ member = [s \in Slots |-> [mode |-> "idle", word |-> "seen", lost |-> FALSE]]
  /\ sweep = [b \in Tabs |-> NoSweep] /\ grace = FALSE
  /\ spent = Unspent

Spend(what, most) == spent[what] < most /\ spent' = [spent EXCEPT ![what] = @ + 1]

-----------------------------------------------------------------------------
(* The rows of the board.                                                   *)

Created == DOMAIN board
Ready(t) == \A d \in board[t].deps : board[d].status \in Settled

\* claimableTasks, and the WHERE clause of claimTeamTask.
Claimable(t) == board[t].owner = None /\ board[t].status \in {"open", "blocked"} /\ Ready(t)
HeldBy(s) == {t \in Created : board[t].owner = s /\ board[t].status \in Held}

\* The rows a report has written and not committed: another statement on them waits.
Locked(t) == \E h \in Handlers : work[h].pc = "commit" /\ t \in {work[h].call.task} \cup work[h].opens

\* What the health of a slot is derived from includes the updated_at of the tasks it
\* holds: a write to one of them by anybody counts as a word of its owner.
Heard(S) == [s \in Slots |-> IF s \in S THEN [member[s] EXCEPT !.word = "fresh"] ELSE member[s]]
Holder(row) == IF row.status \in Held THEN {row.owner} ELSE {}
Put(t, row) == /\ ~Locked(t)
               /\ board' = [board EXCEPT ![t] = row]
               /\ member' = Heard(Holder(row))

createTeamTask(plan) ==
  LET row == [owner |-> plan.owner, deps |-> plan.deps,
              status |-> IF plan.deps # {} THEN "blocked"
                         ELSE IF plan.owner # None THEN "claimed" ELSE "open"]
  IN /\ Len(board) < MaxTasks
     /\ board' = Append(board, row) /\ member' = Heard(Holder(row))

\* Altered: the UPDATE trusts what the board offered, and asks only that the task is not settled.
claimTeamTask_Trusting(t, s) ==
  IF board[t].status \notin Settled THEN Put(t, [board[t] EXCEPT !.owner = s, !.status = "claimed"])
  ELSE ~Locked(t) /\ UNCHANGED <<board, member>>

\* The owner is asked for in the UPDATE itself, and the blockers once more.
claimTeamTask(t, s) ==
  IF Claimable(t) THEN Put(t, [board[t] EXCEPT !.owner = s, !.status = "claimed"])
  ELSE ~Locked(t) /\ UNCHANGED <<board, member>>

updateTeamTaskStatus(t, status) == Put(t, [board[t] EXCEPT !.status = status])

\* The tasks that the transaction of a report of t opens: it sees what is committed and
\* its own row.
OpenedBy(t) == {u \in Created \ {t} : /\ board[u].status = "blocked" /\ board[u].owner = None
                                      /\ \A d \in board[u].deps : d = t \/ board[d].status \in Settled}
Reported(t, opens) == [u \in Created |-> IF u = t THEN [board[u] EXCEPT !.status = "done"]
                                         ELSE IF u \in opens THEN [board[u] EXCEPT !.status = "open"]
                                         ELSE board[u]]

releaseTeamTask(t) ==
  Put(t, [board[t] EXCEPT !.owner = None, !.status = IF @ \in Settled THEN @ ELSE "open"])

-----------------------------------------------------------------------------
(* The effects of the tools.                                                *)

Goto(h, pc) == work' = [work EXCEPT ![h].pc = pc]

\* A call arrives: resolveTeamCaller stamps the heartbeat of its slot.
AgentCalls(h, call) ==
  /\ work[h].pc = "idle" /\ member[call.slot].mode = "working"
  /\ call.tool # "create" => call.task \in Created
  /\ work' = [work EXCEPT ![h] = [Idle EXCEPT !.pc = "effect", !.call = call]]
  /\ member' = Heard({call.slot}) /\ Spend("calls", MaxCalls)
  /\ UNCHANGED <<board, sweep, grace>>

\* The first half of an effect reads the task and decides whether the caller may.
MemberSettable == {"claimed", "in_progress", "blocked"}
Permitted(call) ==
  \/ call.tool = "create" /\ call.slot = Leader /\ call.arg.deps \subseteq Created
  \/ call.tool = "claim"
  \/ /\ call.tool = "update"
     /\ call.slot = Leader \/ (board[call.task].owner = call.slot /\ call.arg \in MemberSettable)
  \/ /\ call.tool = "report" /\ board[call.task].status \notin Settled
     /\ call.slot = Leader \/ board[call.task].owner = call.slot

EffectReads(h) ==
  /\ work[h].pc = "effect"
  /\ work' = IF Permitted(work[h].call) THEN [work EXCEPT ![h].pc = "write"] ELSE [work EXCEPT ![h] = Idle]
  /\ UNCHANGED <<board, member, sweep, grace, spent>>

\* The second half writes, whatever has changed since.
EffectWrites(h) ==
  LET call == work[h].call
  IN /\ work[h].pc = "write" /\ work' = [work EXCEPT ![h] = Idle]
     /\ \/ call.tool = "create" /\ createTeamTask(call.arg)
        \/ call.tool = "claim" /\ claimTeamTask(call.task, call.slot)
        \/ call.tool = "update" /\ updateTeamTaskStatus(call.task, call.arg)
     /\ UNCHANGED <<sweep, grace, spent>>

\* The transaction of team_report_done: its UPDATEs, then its COMMIT.
ReportWrites(h) ==
  LET t == work[h].call.task
  IN /\ work[h].pc = "write" /\ work[h].call.tool = "report"
     /\ \A u \in {t} \cup OpenedBy(t) : ~Locked(u)
     /\ work' = [work EXCEPT ![h].pc = "commit", ![h].opens = OpenedBy(t)]
     /\ UNCHANGED <<board, member, sweep, grace, spent>>

\* Its report is a message of the caller.
ReportCommits(h) ==
  /\ work[h].pc = "commit" /\ work' = [work EXCEPT ![h] = Idle]
  /\ board' = Reported(work[h].call.task, work[h].opens)
  /\ member' = Heard({work[h].call.slot})
  /\ UNCHANGED <<sweep, grace, spent>>

\* A statement throws or the process dies: what is not committed rolls back.
CallFails(h) ==
  /\ work[h].pc # "idle" /\ Spend("crashes", MaxCrashes)
  /\ work' = [work EXCEPT ![h] = Idle]
  /\ UNCHANGED <<board, member, sweep, grace>>

HandlerStep(h) == EffectReads(h) \/ EffectWrites(h) \/ ReportWrites(h) \/ ReportCommits(h)
ToolCalls == \E h \in Handlers : \/ \E call \in Call : AgentCalls(h, call)
                                 \/ HandlerStep(h) \/ CallFails(h)

-----------------------------------------------------------------------------
(* The people in the room: each action is one statement or transaction.     *)

ByRoom == Spend("room", MaxRoom) /\ UNCHANGED <<work, sweep, grace>>
createTeamTaskAction(plan) == plan.deps \subseteq Created /\ createTeamTask(plan) /\ ByRoom
claimTeamTaskAction(t, s) == claimTeamTask(t, s) /\ ByRoom
setTeamTaskStatusAction(t, status) == updateTeamTaskStatus(t, status) /\ ByRoom
\* It asks for no status, and files the report in the name of the owner.
reportTeamTaskDoneAction(t) ==
  /\ \A u \in {t} \cup OpenedBy(t) : ~Locked(u)
  /\ board' = Reported(t, OpenedBy(t)) /\ member' = Heard({board[t].owner}) /\ ByRoom

Room ==
  \/ \E plan \in Plans : createTeamTaskAction(plan)
  \/ \E t \in Created : \/ \E s \in Slots : claimTeamTaskAction(t, s)
                        \/ \E status \in Statuses \cup {"done"} : setTeamTaskStatusAction(t, status)
                        \/ reportTeamTaskDoneAction(t)

-----------------------------------------------------------------------------
(* The members: their runs, what is heard of them, and the clock.           *)

MembersUnchanged == UNCHANGED <<board, work, sweep>>
Becomes(s, mode) == member' = [member EXCEPT ![s].mode = mode, ![s].word = "fresh"]

RunStarts(s) == member[s].mode = "idle" /\ Becomes(s, "working") /\ UNCHANGED <<grace, spent>> /\ MembersUnchanged
RunEnds(s) == member[s].mode # "idle" /\ Becomes(s, "idle") /\ UNCHANGED <<grace, spent>> /\ MembersUnchanged
\* The run of a member emits an event; one that hangs does so no more.
Speaks(s) == /\ member[s].mode = "working" /\ member[s].word # "fresh" /\ Becomes(s, "working")
             /\ UNCHANGED <<grace, spent>> /\ MembersUnchanged
\* An approval card, or the choice of a directory.
AsksPerson(s) == /\ member[s].mode = "working" /\ Becomes(s, "waiting") /\ Spend("excuses", MaxExcuses)
                 /\ UNCHANGED grace /\ MembersUnchanged
PersonAnswers(s) == /\ member[s].mode = "waiting" /\ Becomes(s, "working")
                    /\ UNCHANGED <<grace, spent>> /\ MembersUnchanged
\* TEAM_SILENCE_MS pass.
FallsSilent(s) == /\ member[s].word = "seen" \/ (~Watched /\ member[s].word = "fresh")
                  /\ member' = [member EXCEPT ![s].word = "silent"]
                  /\ UNCHANGED <<grace, spent>> /\ MembersUnchanged

stopTeamRoom == ~grace /\ grace' = TRUE /\ Spend("excuses", MaxExcuses) /\ UNCHANGED member /\ MembersUnchanged
GraceEnds == grace /\ grace' = FALSE /\ UNCHANGED <<member, spent>> /\ MembersUnchanged

Members ==
  \/ \E s \in Slots : \/ RunStarts(s) \/ RunEnds(s) \/ Speaks(s) \/ AsksPerson(s)
                      \/ PersonAnswers(s) \/ FallsSilent(s)
  \/ stopTeamRoom \/ GraceEnds

-----------------------------------------------------------------------------
(* sweepTeamSlots.                                                          *)

SweepUnchanged == UNCHANGED <<work, grace>>
Silent(s) == member[s].word = "silent"
\* Altered: a slot answers for its run only, not for the tasks it holds.
Accountable_Runs(s) == member[s].mode # "idle"

Accountable(s) == HeldBy(s) # {} \/ member[s].mode # "idle"
Explained(s) == member[s].mode = "waiting" \/ grace
\* Members are walked by rank: the leader, then in the order they joined.
First(S, s) == s \in S /\ \A o \in S \ {s} : s = Leader \/ (o # Leader /\ s < o)

SweepReads(b) ==
  /\ sweep[b].pc = "idle"
  /\ sweep' = [sweep EXCEPT ![b] =
       [pc |-> "sweeping", slot |-> None, left |-> {},
        lost |-> {s \in Slots : ~member[s].lost /\ Silent(s) /\ Accountable(s) /\ ~Explained(s)},
        back |-> {s \in Slots : member[s].lost /\ ~Silent(s)},
        held |-> [s \in Slots |-> HeldBy(s)],
        heard |-> {s \in Slots : ~Silent(s)}]]
  /\ UNCHANGED <<board, member, spent>> /\ SweepUnchanged

\* The rest of a list after its first: a slot that another sweep was faster with is
\* spliced out of the list that is being walked, so that the next one is skipped.
After(S, s, done) == IF done THEN S \ {s} ELSE {o \in S \ {s} : ~First(S \ {s}, o)}

SweepMarks(b) ==
  /\ sweep[b].pc = "sweeping" /\ sweep[b].left = {}
  /\ \E s \in Slots :
       LET mine == ~member[s].lost
       IN /\ First(sweep[b].lost, s)
          /\ member' = [member EXCEPT ![s].lost = TRUE]
          /\ sweep' = [sweep EXCEPT ![b].lost = After(@, s, mine), ![b].slot = s,
                                    ![b].left = IF mine THEN sweep[b].held[s] ELSE {}]
  /\ UNCHANGED <<board, spent>> /\ SweepUnchanged

SweepReleases(b, t) ==
  /\ t \in sweep[b].left /\ releaseTeamTask(t)
  /\ sweep' = [sweep EXCEPT ![b].left = @ \ {t}]
  /\ UNCHANGED spent /\ SweepUnchanged

SweepRecovers(b) ==
  /\ sweep[b].pc = "sweeping" /\ sweep[b].lost = {} /\ sweep[b].left = {}
  /\ \E s \in Slots :
       /\ First(sweep[b].back, s)
       /\ member' = [member EXCEPT ![s].lost = FALSE]
       /\ sweep' = [sweep EXCEPT ![b].back = After(@, s, member[s].lost)]
  /\ UNCHANGED <<board, spent>> /\ SweepUnchanged

SweepEnds(b) ==
  /\ sweep[b].pc = "sweeping" /\ sweep[b].lost = {} /\ sweep[b].left = {} /\ sweep[b].back = {}
  /\ sweep' = [sweep EXCEPT ![b] = NoSweep]
  /\ member' = [s \in Slots |-> IF s \in sweep[b].heard /\ member[s].word = "fresh"
                                THEN [member[s] EXCEPT !.word = "seen"] ELSE member[s]]
  /\ UNCHANGED <<board, spent>> /\ SweepUnchanged

SweepDies(b) ==
  /\ sweep[b].pc # "idle" /\ sweep' = [sweep EXCEPT ![b] = NoSweep]
  /\ IF sweep[b].left # {} THEN Spend("half", MaxHalfSweeps) ELSE Spend("crashes", MaxCrashes)
  /\ UNCHANGED <<board, member>> /\ SweepUnchanged

SweepStep(b) == \/ SweepReads(b) \/ SweepMarks(b) \/ (\E t \in Tasks : SweepReleases(b, t))
                \/ SweepRecovers(b) \/ SweepEnds(b)
Sweeps == \E b \in Tabs : SweepStep(b) \/ SweepDies(b)

-----------------------------------------------------------------------------
Next == ToolCalls \/ Room \/ Members \/ Sweeps
Spec == Init /\ [][Next]_vars

\* A handler runs on; people answer cards; the grace of a stop ends by the clock; a page
\* that is open polls.
Fairness ==
  /\ \A h \in Handlers : WF_vars(HandlerStep(h))
  /\ \A s \in Slots : WF_vars(PersonAnswers(s))
  /\ WF_vars(GraceEnds)
  /\ \A b \in Tabs : WF_vars(SweepStep(b))
FairSpec == Spec /\ Fairness

-----------------------------------------------------------------------------
(* Properties.                                                              *)

\* While somebody looks at the room, work is never stuck on a member that has gone: a task
\* whose owner is silent for no reason is handed back or taken further, or its owner is
\* heard of again.
TasksComeBack ==
  \A s \in Slots, t \in Tasks :
    (t \in HeldBy(s) /\ Silent(s)) ~> (t \notin HeldBy(s) \/ ~Silent(s))

\* Nobody loses a task while he works on it, and nobody takes one over behind the board: a
\* task changes hands only by going back to the board from a member that was declared lost
\* (with one page open: a sweep of a second one acts on tasks that it read before the first
\* gave them back, and takes them from their next owner).
TasksKeepTheirOwner ==
  [][\A t \in Created :
       board[t].owner \in {None, board'[t].owner} \/ (board'[t].owner = None /\ member[board[t].owner].lost)]_vars

\* The note that closes reliability.ts calls the sweep safe under concurrency: what it is
\* handing back is never the task of a member that it did not declare lost.
NobodyElsesTask == \A b \in Tabs : \A t \in sweep[b].left : board[t].owner \in {sweep[b].slot, None}
=============================================================================
