----------------------------- MODULE Worktrees -----------------------------
(***************************************************************************)
(* The checkouts of runs (lib/run-worktrees): the bare clone they share,    *)
(* the tree and the branch that every run gets, the retention pass, the     *)
(* reaper of a booting server, and the merge of an approved run into the    *)
(* source repository.                                                       *)
(*                                                                         *)
(* Whatever goes on in the clone takes the advisory lock of its path, but   *)
(* the merge, which takes none.  What is done under the lock is one step    *)
(* here where dying half way leaves nothing new behind.  A commit is the    *)
(* run that made it, 0 for those of people; a branch is the set of its      *)
(* commits.  Git itself is external.                                        *)
(***************************************************************************)
EXTENDS Integers, FiniteSets

CONSTANTS
  None,
  KeepLast,     \* keepLast of the retention pass
  Budget,       \* maxTotalBytes, in checkouts
  QuietBoot,    \* no run is enqueued between the reaper's query and its end
  MaxRuns,
  MaxMishaps,   \* bound: executions, passes, reapers and merges that die, rows deleted by hand
  MaxPasses,    \* bound: retention passes, and reapers
  MaxApprovals  \* bound: approvals, handled at once or not

ASSUME WorktreesAssumption ==
  /\ {KeepLast, Budget, MaxRuns, MaxMishaps, MaxPasses, MaxApprovals} \subseteq Nat
  /\ QuietBoot \in BOOLEAN
  /\ \A commits \in SUBSET (0..MaxRuns) : commits # None

Runs == 1..MaxRuns
Settled == {"completed", "failed"}
Commits == 0..MaxRuns
Merges == 1..MaxApprovals
TheReaper == 0

VARIABLES
  row,     \* runs.status of each run, "active" from its enqueue on; "forgotten" once it is deleted
  review,  \* the runs whose page suggestions are pending and undismissed
  exec,    \* where the execution of each run is
  tree,    \* the checkout of each run: on disk, and registered with the clone
  branch,  \* agent/run/<id>, or None
  base,    \* the clone's copy of the base branch, None while there is no clone
  source,  \* the base branch of the source repository
  lock,    \* who holds the advisory lock: a run, TheReaper, or None
  doomed,  \* what the retention pass has decided to remove
  reaper,  \* the reaper: its pc, the runs it knows of, the branches it has left
  merge,   \* the approvals
  checked, \* the merges whose integration tree has the base branch checked out
  approved,\* history: the runs that somebody approved
  spent    \* what has been used of the bounds

clone == <<tree, branch, base>>
vars == <<row, review, exec, clone, source, lock, doomed, reaper, merge, checked, approved, spent>>

NoTree == [disk |-> FALSE, registered |-> FALSE]
Checkout == [disk |-> TRUE, registered |-> TRUE]
NoReaper == [pc |-> "idle", known |-> {}, left |-> {}]
NoMerge == [pc |-> "idle", run |-> None]
Answered == [pc |-> "answered", run |-> None]
Kinds == {"mishaps", "passes", "reapers"}

TypeOK ==
  /\ row \in [Runs -> {"none", "active", "forgotten"} \cup Settled] /\ review \subseteq Runs
  /\ exec \in [Runs -> {"idle", "create", "running"}]
  /\ tree \in [Runs -> [disk : BOOLEAN, registered : BOOLEAN]]
  /\ branch \in [Runs -> (SUBSET Commits) \cup {None}]
  /\ base \in (SUBSET Commits) \cup {None} /\ source \subseteq Commits
  /\ lock \in Runs \cup {TheReaper, None}
  /\ doomed \subseteq Runs
  /\ reaper \in [pc : {"idle", "read", "reap"}, known : SUBSET Runs, left : SUBSET Runs]
  /\ merge \in [Merges -> [pc : {"idle", "fetch", "integrate", "push", "done", "failed", "answered"}, run : Runs \cup {None}]]
  /\ checked \subseteq Merges /\ approved \subseteq Runs
  /\ spent \in [Kinds -> Nat]

Init ==
  /\ row = [r \in Runs |-> "none"] /\ review = {} /\ exec = [r \in Runs |-> "idle"]
  /\ tree = [r \in Runs |-> NoTree] /\ branch = [r \in Runs |-> None]
  /\ base = None /\ source = {} /\ lock = None
  /\ doomed = {} /\ reaper = NoReaper
  /\ merge = [m \in Merges |-> NoMerge] /\ checked = {}
  /\ approved = {} /\ spent = [k \in Kinds |-> 0]

Spend(what, most) == spent[what] < most /\ spent' = [spent EXCEPT ![what] = @ + 1]
Goto(r, pc) == exec' = [exec EXCEPT ![r] = pc]
RunsUnchanged == UNCHANGED <<row, review, exec>>
OthersUnchanged == UNCHANGED <<doomed, reaper, merge, checked, approved>>
-----------------------------------------------------------------------------
(* The execution of a run (worker.ts), and RunWorktreeManager.create.       *)

Enqueue(r) ==
  /\ row[r] = "none" /\ \A q \in 1..(r - 1) : row[q] # "none"
  /\ QuietBoot => reaper.pc = "idle"
  /\ row' = [row EXCEPT ![r] = "active"]
  /\ UNCHANGED <<review, exec, clone, source, lock, spent>> /\ OthersUnchanged

\* Claimed at first, or again once the lease of an execution that died has lapsed.
Claimed(r) == row[r] = "active" /\ exec[r] = "idle"

\* A fetch into a clone made by `git clone --bare` has no refspec: it moves no branch.
ensureBareClone(r) ==
  /\ Claimed(r) /\ lock = None /\ Goto(r, "create")
  /\ base' = IF base = None THEN source ELSE base
  /\ UNCHANGED <<row, review, tree, branch, source, lock, spent>> /\ OthersUnchanged

\* `git worktree prune`: registrations without a directory go.
Pruned == [q \in Runs |-> IF tree[q].disk THEN tree[q] ELSE NoTree]

\* Altered: the branch of an earlier attempt is left.
WipedBranch_Stays(r) == branch[r]

\* The wipe ends with `git branch -D`.
WipedBranch(r) == None

\* What an earlier attempt has left is wiped; `git worktree add -b` is then refused if the
\* branch, the directory or its registration exist.
Create(r) ==
  LET wiped == [Pruned EXCEPT ![r] = NoTree]
  IN /\ exec[r] = "create" /\ lock = None
     /\ IF WipedBranch(r) = None
          THEN /\ branch' = [branch EXCEPT ![r] = base] /\ tree' = [wiped EXCEPT ![r] = Checkout]
               /\ Goto(r, "running") /\ UNCHANGED row
          ELSE /\ row' = [row EXCEPT ![r] = "failed"] /\ Goto(r, "idle")
               /\ tree' = wiped /\ UNCHANGED branch
     /\ UNCHANGED <<review, base, source, lock, spent>> /\ OthersUnchanged

\* The tree and the branch of a run after each command of create, the last one half done too.
Halfway(r) ==
  {<<tree[r], branch[r]>>, <<[tree[r] EXCEPT !.disk = FALSE], branch[r]>>, <<NoTree, branch[r]>>,
   <<NoTree, None>>, <<NoTree, base>>, <<[disk |-> FALSE, registered |-> TRUE], base>>, <<Checkout, base>>}

\* The turn ends: it may have committed, and written suggestions to a page.  The tree stays.
Settles(r) ==
  /\ exec[r] = "running" /\ Goto(r, "idle")
  /\ \E status \in Settled : row' = [row EXCEPT ![r] = status]
  /\ \E work \in {{}, {r}} : branch' = [branch EXCEPT ![r] = IF @ = None THEN None ELSE @ \cup work]
  /\ \E suggested \in {{}, {r}} : review' = review \cup suggested
  /\ UNCHANGED <<tree, base, source, lock, spent>> /\ OthersUnchanged

\* The suggestions are accepted, rejected or dismissed.
Decides(r) ==
  /\ r \in review /\ review' = review \ {r}
  /\ UNCHANGED <<row, exec, clone, source, lock, spent>> /\ OthersUnchanged

\* The process dies.
Dies(r) ==
  /\ exec[r] # "idle" /\ Goto(r, "idle") /\ Spend("mishaps", MaxMishaps)
  /\ IF exec[r] = "create" /\ lock = None
       THEN \E left \in Halfway(r) : /\ tree' = [tree EXCEPT ![r] = left[1]]
                                    /\ branch' = [branch EXCEPT ![r] = left[2]]
       ELSE UNCHANGED <<tree, branch>>
  /\ UNCHANGED <<row, review, base, source, lock>> /\ OthersUnchanged

CreateStep(r) == ensureBareClone(r) \/ Create(r)
Turn(r) == Enqueue(r) \/ CreateStep(r) \/ Settles(r) \/ Dies(r)

-----------------------------------------------------------------------------
(* reclaimRunWorktrees, and the reaper.                                     *)

\* What a pass may touch at all: the run is settled and its review is closed.
Expendable == {r \in Runs : tree[r].disk /\ row[r] \in Settled /\ r \notin review}
Newer(S, r) == Cardinality({q \in S : q > r})
OnDisk == {r \in Runs : tree[r].disk}
\* The newest KeepLast directories are spared, but the oldest of those that are over the budget.
Spared == {r \in Expendable : Newer(OnDisk, r) < KeepLast}
Evicted == {r \in Spared : Newer(Spared, r) >= Budget}

\* Altered: the budget evicts the oldest of whatever is on disk.
Reclaimable_AnyOfBudget == (Expendable \ Spared) \cup {r \in OnDisk : Newer(OnDisk, r) >= Budget}

Reclaimable == (Expendable \ Spared) \cup Evicted

PassUnchanged == RunsUnchanged /\ UNCHANGED <<base, source, merge, checked, approved>>
RetentionReads ==
  /\ doomed = {} /\ Reclaimable # {} /\ doomed' = Reclaimable /\ Spend("passes", MaxPasses)
  /\ PassUnchanged /\ UNCHANGED <<tree, branch, lock, reaper>>

\* Altered: the branch goes with the tree, as the head of retention.ts has it.
RetentionRemoves_DeletesBranch(r) ==
  /\ r \in doomed /\ lock = None /\ doomed' = doomed \ {r}
  /\ tree' = [tree EXCEPT ![r] = NoTree] /\ branch' = [branch EXCEPT ![r] = None]
  /\ PassUnchanged /\ UNCHANGED <<lock, reaper, spent>>

\* RunWorktreeManager.remove, told to discard changes; the branch stays for the review.
RetentionRemoves(r) ==
  /\ r \in doomed /\ lock = None /\ doomed' = doomed \ {r}
  /\ tree' = [tree EXCEPT ![r] = NoTree]
  /\ PassUnchanged /\ UNCHANGED <<branch, lock, reaper, spent>>

RetentionDies ==
  /\ doomed # {} /\ doomed' = {} /\ Spend("mishaps", MaxMishaps)
  /\ PassUnchanged /\ UNCHANGED <<tree, branch, lock, reaper>>

\* SELECT id FROM runs, on the first tick of a process (there is nothing to reap before there
\* is a clone).
ReaperReads ==
  /\ reaper.pc = "idle" /\ base # None /\ Spend("reapers", MaxPasses)
  /\ reaper' = [NoReaper EXCEPT !.pc = "read", !.known = {r \in Runs : row[r] \notin {"none", "forgotten"}}]
  /\ PassUnchanged /\ UNCHANGED <<tree, branch, lock, doomed>>
\* It looks up the trees, prunes, and then lists the branches; a tree that the prune has
\* unregistered cannot be removed any more, and its branch is given up.
ReaperLocks ==
  /\ reaper.pc = "read" /\ lock = None
  /\ lock' = TheReaper /\ tree' = Pruned
  /\ reaper' = [pc |-> "reap", known |-> {},
                left |-> {r \in Runs \ reaper.known : branch[r] # None /\ Pruned[r] = tree[r]}]
  /\ PassUnchanged /\ UNCHANGED <<branch, doomed, spent>>
ReapTree(r) ==
  /\ r \in reaper.left /\ tree[r].registered /\ tree' = [tree EXCEPT ![r] = NoTree]
  /\ PassUnchanged /\ UNCHANGED <<branch, lock, doomed, reaper, spent>>
ReapBranch(r) ==
  /\ r \in reaper.left /\ ~tree[r].registered
  /\ branch' = [branch EXCEPT ![r] = None] /\ reaper' = [reaper EXCEPT !.left = @ \ {r}]
  /\ PassUnchanged /\ UNCHANGED <<tree, lock, doomed, spent>>
ReaperEnds ==
  /\ reaper.pc = "reap" /\ reaper.left = {} /\ reaper' = NoReaper /\ lock' = None
  /\ PassUnchanged /\ UNCHANGED <<tree, branch, doomed, spent>>
ReaperDies ==
  /\ reaper.pc # "idle" /\ reaper' = NoReaper /\ Spend("mishaps", MaxMishaps)
  /\ lock' = IF lock = TheReaper THEN None ELSE lock
  /\ PassUnchanged /\ UNCHANGED <<tree, branch, doomed>>

\* The row of a settled run is deleted by hand, as the scripts of the repository do.
Forget(r) ==
  /\ row[r] \in Settled /\ row' = [row EXCEPT ![r] = "forgotten"] /\ review' = review \ {r}
  /\ Spend("mishaps", MaxMishaps)
  /\ UNCHANGED <<exec, clone, source, lock>> /\ OthersUnchanged

ReaperStep == ReaperLocks \/ (\E r \in Runs : ReapTree(r) \/ ReapBranch(r)) \/ ReaperEnds
Passes == \/ RetentionReads \/ RetentionDies \/ ReaperReads \/ ReaperStep \/ ReaperDies
          \/ \E r \in Runs : RetentionRemoves(r) \/ Forget(r)

-----------------------------------------------------------------------------
(* approveAndMergeRun and mergeRunBranch.                                   *)

MergeUnchanged == RunsUnchanged /\ UNCHANGED <<tree, branch, lock, doomed, reaper>>
MergeGoto(m, pc) == merge' = [merge EXCEPT ![m].pc = pc]

Approve(m, r) ==
  /\ merge[m].pc = "idle" /\ (\A n \in 1..(m - 1) : merge[n].pc # "idle") /\ row[r] = "completed"
  /\ merge' = [merge EXCEPT ![m] = [pc |-> "fetch", run |-> r]] /\ approved' = approved \cup {r}
  /\ MergeUnchanged /\ UNCHANGED <<base, source, checked, spent>>

\* A forced fetch of the base branch, refused while some tree has it checked out.
Fetch(m) ==
  /\ merge[m].pc = "fetch"
  /\ IF checked = {} THEN base' = source /\ MergeGoto(m, "integrate")
     ELSE merge' = [merge EXCEPT ![m] = Answered] /\ UNCHANGED base
  /\ MergeUnchanged /\ UNCHANGED <<source, checked, approved, spent>>

\* An integration tree with the base branch, and in it a fast-forward, or a merge, which may
\* conflict.
Integrate(m) ==
  LET work == branch[merge[m].run]
      forwards == work # None /\ base \subseteq work
  IN /\ merge[m].pc = "integrate"
     /\ \/ checked = {} /\ checked' = {m} /\ work # None /\ base' = base \cup work /\ MergeGoto(m, "push")
        \/ checked = {} /\ checked' = {m} /\ ~forwards /\ MergeGoto(m, "failed") /\ UNCHANGED base
        \/ checked # {} /\ merge' = [merge EXCEPT ![m] = Answered] /\ UNCHANGED <<base, checked>>
     /\ MergeUnchanged /\ UNCHANGED <<source, approved, spent>>

\* Altered: the push is forced.
Deliver_Forced(m) ==
  /\ merge[m].pc = "push"
  /\ \/ source' = base /\ MergeGoto(m, "done")
     \/ MergeGoto(m, "failed") /\ UNCHANGED source
  /\ MergeUnchanged /\ UNCHANGED <<base, checked, approved, spent>>

\* A push, or a merge inside the source: each only forwards, and the source may refuse.
Deliver(m) ==
  /\ merge[m].pc = "push"
  /\ \/ (source \subseteq base \/ base \subseteq source) /\ source' = source \cup base /\ MergeGoto(m, "done")
     \/ MergeGoto(m, "failed") /\ UNCHANGED source
  /\ MergeUnchanged /\ UNCHANGED <<base, checked, approved, spent>>

\* The finally removes the integration tree, and the person is answered.
Return(m) ==
  /\ merge[m].pc \in {"done", "failed"} /\ merge' = [merge EXCEPT ![m] = Answered]
  /\ checked' = checked \ {m}
  /\ MergeUnchanged /\ UNCHANGED <<base, source, approved, spent>>

\* Its integration tree stays, under a name that nothing reclaims.
MergeDies(m) ==
  /\ merge[m].pc \notin {"idle", "answered"} /\ Spend("mishaps", MaxMishaps)
  /\ merge' = [merge EXCEPT ![m] = Answered]
  /\ MergeUnchanged /\ UNCHANGED <<base, source, checked, approved>>

\* People commit to the source meanwhile.
PersonCommits ==
  /\ 0 \notin source /\ source' = source \cup {0}
  /\ MergeUnchanged /\ UNCHANGED <<base, merge, checked, approved, spent>>

Approvals == \/ PersonCommits
             \/ \E m \in Merges : \/ \E r \in Runs : Approve(m, r)
                                  \/ Fetch(m) \/ Integrate(m) \/ Deliver(m)
                                  \/ Return(m) \/ MergeDies(m)

-----------------------------------------------------------------------------
Next == (\E r \in Runs : Turn(r) \/ Decides(r)) \/ Passes \/ Approvals
Spec == Init /\ [][Next]_vars

\* An execution runs on and is claimed again when it died; the reaper runs on.
Fairness == (\A r \in Runs : WF_vars(CreateStep(r))) /\ WF_vars(ReaperStep)
FairSpec == Spec /\ Fairness

-----------------------------------------------------------------------------
(* Properties.                                                              *)

\* Neither a pass nor the reaper deletes the ground under a running agent, or a checkout
\* whose review is open (while no run is enqueued beside a reaper that has read: QuietBoot).
InUse(r) == exec[r] = "running" \/ r \in review
TreesInUseStay == \A r \in Runs : InUse(r) => tree[r].disk /\ tree[r].registered /\ branch[r] # None

\* Whatever an attempt that died has left behind, and whoever else works in the clone, the
\* next execution of the run gets a tree, unless its process dies.
RunsGetTheirTree ==
  \A r \in Runs : exec[r] = "create" ~> (exec[r] = "running" \/ (exec[r] = "idle" /\ row[r] = "active"))

\* The answer "merged" is the truth, although merges take no lock: the work of the run is in
\* the source, to which only approved runs and people contribute, and which loses nothing.
DeliveryIsHonest ==
  /\ [](\A m \in Merges : merge[m].pc = "done" => branch[merge[m].run] \in {None} \cup SUBSET source)
  /\ [](source \subseteq approved \cup {0})
  /\ [][source \subseteq source']_vars

\* A completed run can be reviewed and approved at any later time, also when its checkout
\* has been reclaimed: its branch stays what it was.
ReviewOutlivesTheTree ==
  [][\A r \in Runs : row[r] = "completed" => branch[r] # None /\ branch'[r] = branch[r]]_vars
=============================================================================
