-------------------------- MODULE WorktreesProofs --------------------------
(***************************************************************************)
(* Proofs about Worktrees, for every number of runs, passes, approvals and  *)
(* mishaps: trees in use stay and branches outlive their trees, where no    *)
(* run is enqueued beside a reaper, and a merge delivers what it says.      *)
(***************************************************************************)
EXTENDS Worktrees, TLAPS

-----------------------------------------------------------------------------
(* Types.                                                                   *)

\* While a run has an execution, it is active and there is a clone.
Executing == \A r \in Runs : exec[r] # "idle" => row[r] = "active" /\ base # None
\* A merge that is under way is one of a run, and once it has fetched there is a clone.
Based == \A m \in Merges : /\ merge[m].pc \notin {"idle", "answered"} => merge[m].run \in Runs
                           /\ merge[m].pc \in {"integrate", "push"} => base # None

Ground == TypeOK /\ Executing /\ Based

LEMMA CommitsAreNot == \A S \in SUBSET Commits : S # None
  BY WorktreesAssumption DEF Commits

LEMMA PrunedType ==
  ASSUME tree \in [Runs -> [disk : BOOLEAN, registered : BOOLEAN]]
  PROVE  Pruned \in [Runs -> [disk : BOOLEAN, registered : BOOLEAN]]
  BY DEF Pruned, NoTree

LEMMA SpendType ==
  ASSUME spent \in [Kinds -> Nat], NEW what \in Kinds, NEW most, Spend(what, most)
  PROVE  spent' \in [Kinds -> Nat]
  BY DEF Spend

LEMMA InitGround == Init => Ground
  <1> SUFFICES ASSUME Init PROVE Ground
    OBVIOUS
  <1>1. TypeOK
    BY DEF Init, TypeOK, NoTree, NoReaper, NoMerge, Kinds, TheReaper
  <1>2. Executing /\ Based
    BY DEF Init, Executing, Based, NoMerge
  <1> QED BY <1>1, <1>2 DEF Ground

\* What the executions do.
LEMMA TurnGround ==
  ASSUME Ground, NEW r \in Runs, Turn(r) \/ Decides(r)
  PROVE  Ground'
  <1> USE DEF Ground
  <1>1. CASE Enqueue(r)
    BY <1>1 DEF Enqueue, TypeOK, Executing, Based, OthersUnchanged, clone, Settled
  <1>2. CASE ensureBareClone(r)
    <2>1. TypeOK'
      BY <1>2 DEF ensureBareClone, Goto, TypeOK, OthersUnchanged
    <2>2. base' # None
      BY <1>2, CommitsAreNot DEF ensureBareClone, TypeOK
    <2> QED BY <1>2, <2>1, <2>2 DEF ensureBareClone, Claimed, Goto, TypeOK, Executing, Based, OthersUnchanged
  <1>3. CASE Create(r)
    <2>1. TypeOK'
      BY <1>3, PrunedType DEF Create, WipedBranch, Goto, TypeOK, OthersUnchanged, NoTree, Checkout
    <2> QED BY <1>3, <2>1 DEF Create, WipedBranch, Goto, TypeOK, Executing, Based, OthersUnchanged
  <1>4. CASE Settles(r)
    <2>1. branch' \in [Runs -> (SUBSET Commits) \cup {None}]
      <3>1. PICK work \in {{}, {r}} : branch' = [branch EXCEPT ![r] = IF @ = None THEN None ELSE @ \cup work]
        BY <1>4 DEF Settles
      <3>2. work \subseteq Commits
        BY WorktreesAssumption DEF Commits, Runs
      <3>3. (IF branch[r] = None THEN None ELSE branch[r] \cup work) \in (SUBSET Commits) \cup {None}
        <4>1. CASE branch[r] = None
          BY <4>1
        <4>2. CASE branch[r] # None
          <5>1. branch[r] \in SUBSET Commits
            BY <4>2 DEF TypeOK
          <5>2. branch[r] \cup work \in SUBSET Commits
            BY <5>1, <3>2
          <5> QED BY <4>2, <5>2
        <4> QED BY <4>1, <4>2
      <3> QED BY <3>1, <3>3 DEF TypeOK
    <2>2. TypeOK'
      BY <1>4, <2>1 DEF Settles, Goto, TypeOK, OthersUnchanged
    <2> QED BY <1>4, <2>2 DEF Settles, Goto, TypeOK, Executing, Based, OthersUnchanged
  <1>5. CASE Dies(r)
    <2>1. spent' \in [Kinds -> Nat]
      BY <1>5, SpendType DEF Dies, TypeOK, Kinds
    <2>2. /\ tree' \in [Runs -> [disk : BOOLEAN, registered : BOOLEAN]]
          /\ branch' \in [Runs -> (SUBSET Commits) \cup {None}]
      <3>1. CASE exec[r] = "create" /\ lock = None
        <4>1. PICK left \in Halfway(r) : tree' = [tree EXCEPT ![r] = left[1]] /\ branch' = [branch EXCEPT ![r] = left[2]]
          BY <1>5, <3>1 DEF Dies
        <4>2. left[1] \in [disk : BOOLEAN, registered : BOOLEAN] /\ left[2] \in (SUBSET Commits) \cup {None}
          <5> DEFINE T == [disk : BOOLEAN, registered : BOOLEAN]
                     B == (SUBSET Commits) \cup {None}
          <5>1. /\ tree[r] \in T /\ [tree[r] EXCEPT !.disk = FALSE] \in T
                /\ NoTree \in T /\ [disk |-> FALSE, registered |-> TRUE] \in T /\ Checkout \in T
            BY DEF TypeOK, NoTree, Checkout
          <5>2. branch[r] \in B /\ None \in B /\ base \in B
            BY DEF TypeOK
          <5> HIDE DEF T, B
          <5>3. PICK t \in T, b \in B : left = <<t, b>>
            <6> DEFINE gone == [tree[r] EXCEPT !.disk = FALSE]
                       bare == [disk |-> FALSE, registered |-> TRUE]
            <6>1. left \in {<<tree[r], branch[r]>>, <<gone, branch[r]>>, <<NoTree, branch[r]>>, <<NoTree, None>>,
                            <<NoTree, base>>, <<bare, base>>, <<Checkout, base>>}
              BY <4>1 DEF Halfway
            <6>2. gone \in T /\ bare \in T
              BY <5>1
            <6> HIDE DEF gone, bare
            <6> QED BY <5>1, <5>2, <6>1, <6>2
          <5>4. left[1] \in T /\ left[2] \in B
            BY <5>3
          <5> QED BY <5>4 DEF T, B
        <4>3. PICK t \in [disk : BOOLEAN, registered : BOOLEAN] : tree' = [tree EXCEPT ![r] = t]
          BY <4>1, <4>2
        <4>4. PICK b \in (SUBSET Commits) \cup {None} : branch' = [branch EXCEPT ![r] = b]
          BY <4>1, <4>2
        <4>5. tree' \in [Runs -> [disk : BOOLEAN, registered : BOOLEAN]]
          BY <4>3 DEF TypeOK
        <4> QED BY <4>4, <4>5 DEF TypeOK
      <3>2. CASE ~(exec[r] = "create" /\ lock = None)
        BY <1>5, <3>2 DEF Dies, TypeOK
      <3> QED BY <3>1, <3>2
    <2>3. TypeOK'
      BY <1>5, <2>1, <2>2 DEF Dies, Goto, TypeOK, OthersUnchanged
    <2> QED BY <1>5, <2>3 DEF Dies, Goto, TypeOK, Executing, Based, OthersUnchanged
  <1>6. CASE Decides(r)
    BY <1>6 DEF Decides, TypeOK, Executing, Based, OthersUnchanged, clone
  <1> QED BY <1>1, <1>2, <1>3, <1>4, <1>5, <1>6 DEF Turn, CreateStep

\* What the pass, the reaper and the scripts do.
LEMMA PassGround ==
  ASSUME Ground, Passes
  PROVE  Ground'
  <1> USE DEF Ground
  <1>a. ASSUME PassUnchanged, TypeOK' PROVE Ground'
    BY <1>a DEF PassUnchanged, RunsUnchanged, Executing, Based
  <1>1. CASE RetentionReads
    <2>1. spent' \in [Kinds -> Nat]
      BY <1>1, SpendType DEF RetentionReads, TypeOK, Kinds
    <2>2. Reclaimable \subseteq Runs
      BY DEF Reclaimable, Evicted, Spared, Expendable
    <2>3. TypeOK'
      BY <1>1, <2>1, <2>2 DEF RetentionReads, TypeOK, PassUnchanged, RunsUnchanged
    <2> QED BY <1>1, <1>a, <2>3 DEF RetentionReads
  <1>2. CASE RetentionDies
    <2>1. spent' \in [Kinds -> Nat]
      BY <1>2, SpendType DEF RetentionDies, TypeOK, Kinds
    <2>2. TypeOK'
      BY <1>2, <2>1 DEF RetentionDies, TypeOK, PassUnchanged, RunsUnchanged
    <2> QED BY <1>2, <1>a, <2>2 DEF RetentionDies
  <1>3. CASE ReaperReads
    <2>1. spent' \in [Kinds -> Nat]
      BY <1>3, SpendType DEF ReaperReads, TypeOK, Kinds
    <2>2. TypeOK'
      BY <1>3, <2>1 DEF ReaperReads, TypeOK, PassUnchanged, RunsUnchanged, NoReaper
    <2> QED BY <1>3, <1>a, <2>2 DEF ReaperReads
  <1>4. CASE ReaperLocks
    <2>1. TypeOK'
      BY <1>4, PrunedType DEF ReaperLocks, TypeOK, PassUnchanged, RunsUnchanged
    <2> QED BY <1>4, <1>a, <2>1 DEF ReaperLocks
  <1>5. ASSUME NEW r \in Runs, ReapTree(r) PROVE Ground'
    <2>1. TypeOK'
      BY <1>5 DEF ReapTree, TypeOK, PassUnchanged, RunsUnchanged, NoTree
    <2> QED BY <1>5, <1>a, <2>1 DEF ReapTree
  <1>6. ASSUME NEW r \in Runs, ReapBranch(r) PROVE Ground'
    <2>1. TypeOK'
      BY <1>6 DEF ReapBranch, TypeOK, PassUnchanged, RunsUnchanged
    <2> QED BY <1>6, <1>a, <2>1 DEF ReapBranch
  <1>7. CASE ReaperEnds
    <2>1. TypeOK'
      BY <1>7 DEF ReaperEnds, TypeOK, PassUnchanged, RunsUnchanged, NoReaper
    <2> QED BY <1>7, <1>a, <2>1 DEF ReaperEnds
  <1>8. CASE ReaperDies
    <2>1. spent' \in [Kinds -> Nat]
      BY <1>8, SpendType DEF ReaperDies, TypeOK, Kinds
    <2>2. TypeOK'
      BY <1>8, <2>1 DEF ReaperDies, TypeOK, PassUnchanged, RunsUnchanged, NoReaper
    <2> QED BY <1>8, <1>a, <2>2 DEF ReaperDies
  <1>9. ASSUME NEW r \in Runs, RetentionRemoves(r) PROVE Ground'
    <2>1. TypeOK'
      BY <1>9 DEF RetentionRemoves, TypeOK, PassUnchanged, RunsUnchanged, NoTree
    <2> QED BY <1>9, <1>a, <2>1 DEF RetentionRemoves
  <1>10. ASSUME NEW r \in Runs, Forget(r) PROVE Ground'
    <2>1. spent' \in [Kinds -> Nat]
      BY <1>10, SpendType DEF Forget, TypeOK, Kinds
    <2>2. TypeOK'
      BY <1>10, <2>1 DEF Forget, TypeOK, OthersUnchanged, clone
    <2> QED BY <1>10, <2>2 DEF Forget, TypeOK, Executing, Based, OthersUnchanged, clone, Settled
  <1> QED BY <1>1, <1>2, <1>3, <1>4, <1>5, <1>6, <1>7, <1>8, <1>9, <1>10 DEF Passes, ReaperStep

\* What the merges do.
LEMMA ApprovalGround ==
  ASSUME Ground, Approvals
  PROVE  Ground'
  <1> USE DEF Ground
  <1>m. ASSUME NEW m \in Merges, NEW pc \in {"push", "done", "failed", "integrate"}, MergeGoto(m, pc)
        PROVE  merge' \in [Merges -> [pc : {"idle", "fetch", "integrate", "push", "done", "failed", "answered"}, run : Runs \cup {None}]]
    BY <1>m DEF MergeGoto, TypeOK
  <1>n. ASSUME NEW m \in Merges, merge' = [merge EXCEPT ![m] = Answered]
        PROVE  merge' \in [Merges -> [pc : {"idle", "fetch", "integrate", "push", "done", "failed", "answered"}, run : Runs \cup {None}]]
    BY <1>n DEF Answered, TypeOK
  <1>b. ASSUME NEW m \in Merges, NEW pc \in {"push", "done", "failed", "integrate"}, MergeGoto(m, pc),
               merge[m].run \in Runs, base' # None
        PROVE  Based'
    BY <1>b DEF MergeGoto, TypeOK, Based
  <1>c. ASSUME NEW m \in Merges, merge' = [merge EXCEPT ![m] = Answered], UNCHANGED base
        PROVE  Based'
    BY <1>c DEF Answered, TypeOK, Based
  <1>1. CASE PersonCommits
    <2>1. source' \subseteq Commits
      BY <1>1, WorktreesAssumption DEF PersonCommits, TypeOK, Commits
    <2> QED BY <1>1, <2>1 DEF PersonCommits, MergeUnchanged, RunsUnchanged, TypeOK, Executing, Based
  <1>2. ASSUME NEW m \in Merges, NEW r \in Runs, Approve(m, r) PROVE Ground'
    BY <1>2 DEF Approve, MergeUnchanged, RunsUnchanged, TypeOK, Executing, Based
  <1>3. ASSUME NEW m \in Merges, Fetch(m) PROVE Ground'
    <2>1. base' \in (SUBSET Commits) \cup {None} /\ (base # None => base' # None)
      BY <1>3, CommitsAreNot DEF Fetch, TypeOK
    <2>2. TypeOK'
      BY <1>3, <2>1, <1>m, <1>n DEF Fetch, MergeUnchanged, RunsUnchanged, TypeOK
    <2>3. Based'
      <3>1. CASE checked = {}
        <4>1. base' # None
          BY <1>3, <3>1, CommitsAreNot DEF Fetch, TypeOK
        <4>2. MergeGoto(m, "integrate") /\ merge[m].run \in Runs
          BY <1>3, <3>1 DEF Fetch, Based
        <4> QED BY <4>1, <4>2, <1>b
      <3>2. CASE checked # {}
        BY <1>3, <3>2, <1>c DEF Fetch
      <3> QED BY <3>1, <3>2
    <2> QED BY <1>3, <2>1, <2>2, <2>3 DEF Fetch, MergeUnchanged, RunsUnchanged, Executing
  <1>4. ASSUME NEW m \in Merges, Integrate(m) PROVE Ground'
    <2>1. base # None /\ base \in SUBSET Commits
      BY <1>4 DEF Integrate, Based, TypeOK
    <2>2. merge[m].run \in Runs
      BY <1>4 DEF Integrate, Based
    <2>3. CASE base' = base
      <3>1. TypeOK'
        BY <1>4, <2>3, <1>m, <1>n DEF Integrate, MergeUnchanged, RunsUnchanged, TypeOK
      <3>2. Based'
        BY <1>4, <2>1, <2>2, <2>3, <1>b, <1>c DEF Integrate
      <3> QED BY <1>4, <2>1, <2>3, <3>1, <3>2 DEF Integrate, MergeUnchanged, RunsUnchanged, Executing
    <2>4. CASE base' # base
      <3>1. /\ checked' = {m} /\ branch[merge[m].run] # None /\ base' = base \cup branch[merge[m].run]
            /\ MergeGoto(m, "push")
        BY <1>4, <2>4 DEF Integrate
      <3>2. PICK w \in SUBSET Commits : base' = base \cup w
        BY <3>1, <2>2 DEF TypeOK
      <3>3. base' \in SUBSET Commits /\ base' # None
        BY <2>1, <3>2, CommitsAreNot
      <3>4. TypeOK'
        BY <1>4, <3>1, <3>3, <1>m DEF Integrate, MergeUnchanged, RunsUnchanged, TypeOK
      <3>5. Based'
        BY <2>2, <3>1, <3>3, <1>b
      <3> QED BY <1>4, <3>3, <3>4, <3>5 DEF Integrate, MergeUnchanged, RunsUnchanged, Executing
    <2> QED BY <2>3, <2>4
  <1>5. ASSUME NEW m \in Merges, Deliver(m) PROVE Ground'
    <2>1. base # None /\ base \in SUBSET Commits
      BY <1>5 DEF Deliver, Based, TypeOK
    <2>2. TypeOK'
      BY <1>5, <2>1, <1>m DEF Deliver, MergeUnchanged, RunsUnchanged, TypeOK
    <2>3. Based'
      BY <1>5, <2>1, <1>b DEF Deliver, Based
    <2> QED BY <1>5, <2>1, <2>2, <2>3 DEF Deliver, MergeUnchanged, RunsUnchanged, Executing
  <1>6. ASSUME NEW m \in Merges, Return(m) PROVE Ground'
    <2>1. TypeOK'
      BY <1>6, <1>n DEF Return, MergeUnchanged, RunsUnchanged, TypeOK
    <2> QED BY <1>6, <2>1, <1>c DEF Return, MergeUnchanged, RunsUnchanged, Executing
  <1>7. ASSUME NEW m \in Merges, MergeDies(m) PROVE Ground'
    <2>1. spent' \in [Kinds -> Nat]
      BY <1>7, SpendType DEF MergeDies, TypeOK, Kinds
    <2>2. TypeOK'
      BY <1>7, <2>1, <1>n DEF MergeDies, MergeUnchanged, RunsUnchanged, TypeOK
    <2> QED BY <1>7, <2>2, <1>c DEF MergeDies, MergeUnchanged, RunsUnchanged, Executing
  <1> QED BY <1>1, <1>2, <1>3, <1>4, <1>5, <1>6, <1>7 DEF Approvals

LEMMA StutterGround ==
  ASSUME Ground, UNCHANGED vars
  PROVE  Ground'
  BY DEF Ground, vars, clone, TypeOK, Executing, Based

LEMMA StepGround ==
  ASSUME Ground, [Next]_vars
  PROVE  Ground'
  BY TurnGround, PassGround, ApprovalGround, StutterGround DEF Next

LEMMA GroundInvariant == Spec => []Ground
  BY InitGround, StepGround, PTL DEF Spec

-----------------------------------------------------------------------------
(* Trees and branches, where no run is enqueued beside a reaper.            *)

Known(r) == row[r] \notin {"none", "forgotten"}

KeptOf(r) ==
  /\ InUse(r) => tree[r].disk /\ tree[r].registered /\ branch[r] # None
  \* What is reviewed has ended, and what the pass has read has ended and is not reviewed.
  /\ r \in review => row[r] \in Settled
  /\ r \in doomed => row[r] \in Settled \cup {"forgotten"} /\ r \notin review
  \* What a reaper does not know has no row, and neither has what it has left to reap.
  /\ reaper.pc = "read" => (Known(r) => r \in reaper.known)
  /\ r \in reaper.left => reaper.pc = "reap" /\ ~Known(r)
  /\ row[r] = "completed" => branch[r] # None

Kept == \A r \in Runs : KeptOf(r)

LEMMA InitKept == Init => Kept
  BY DEF Init, Kept, KeptOf, InUse, NoReaper

\* What prunes take is not in use.
LEMMA PrunesSpare ==
  ASSUME Ground, NEW r \in Runs, tree[r].disk
  PROVE  Pruned[r] = tree[r]
  BY DEF Pruned

LEMMA TurnKept ==
  ASSUME QuietBoot, Ground, Kept, NEW r \in Runs, Turn(r) \/ Decides(r), NEW q \in Runs
  PROVE  KeptOf(q)'
  <1>1. KeptOf(q) /\ KeptOf(r)
    BY DEF Kept
  <1>2. TypeOK /\ Executing
    BY DEF Ground
  <1>3. CASE Enqueue(r)
    BY <1>1, <1>2, <1>3 DEF Enqueue, KeptOf, Known, InUse, TypeOK, Executing, OthersUnchanged, clone, Settled
  <1>4. CASE ensureBareClone(r)
    BY <1>1, <1>2, <1>4 DEF ensureBareClone, Claimed, Goto, KeptOf, Known, InUse, TypeOK, Executing, OthersUnchanged
  <1>5. CASE Create(r)
    <2>1. CASE q = r
      <3>1. row[r] = "active" /\ base # None
        BY <1>2, <1>5 DEF Create, Executing
      <3>2. tree'[r] = Checkout /\ branch'[r] = base
        BY <1>2, <1>5 DEF Create, WipedBranch, TypeOK, Pruned
      <3> QED BY <1>1, <1>2, <1>5, <2>1, <3>1, <3>2
              DEF Create, WipedBranch, Goto, KeptOf, Known, InUse, TypeOK, OthersUnchanged, Checkout, Settled
    <2>2. CASE q # r
      <3>1. branch'[q] = branch[q] /\ tree'[q] = Pruned[q] /\ exec'[q] = exec[q]
        BY <1>2, <1>5, <2>2 DEF Create, WipedBranch, Goto, TypeOK, Pruned
      <3>2. InUse(q) => tree'[q] = tree[q]
        BY <1>1, <3>1, PrunesSpare DEF KeptOf, Ground
      <3> QED BY <1>1, <1>2, <1>5, <3>1, <3>2 DEF Create, WipedBranch, KeptOf, Known, InUse, OthersUnchanged
    <2> QED BY <2>1, <2>2
  <1>6. CASE Settles(r)
    <2>1. exec[r] = "running" /\ row[r] = "active"
      BY <1>2, <1>6 DEF Settles, Executing
    <2>2. CASE q = r
      <3>1. row'[r] \in Settled /\ tree' = tree
        BY <1>2, <1>6 DEF Settles, TypeOK
      <3>2. branch'[r] # None
        <4>1. PICK work \in {{}, {r}} : branch' = [branch EXCEPT ![r] = IF @ = None THEN None ELSE @ \cup work]
          BY <1>6 DEF Settles
        <4>2. branch[r] \in SUBSET Commits
          BY <1>1, <1>2, <2>1 DEF KeptOf, InUse, TypeOK
        <4>3. branch[r] \cup work \in SUBSET Commits
          <5>1. work \subseteq Commits
            BY WorktreesAssumption DEF Commits, Runs
          <5> QED BY <4>2, <5>1
        <4>4. branch'[r] = branch[r] \cup work
          BY <1>2, <4>1, <4>2, CommitsAreNot DEF TypeOK
        <4> QED BY <4>3, <4>4, CommitsAreNot
      <3> QED BY <1>1, <1>6, <2>1, <2>2, <3>1, <3>2
              DEF Settles, KeptOf, Known, InUse, OthersUnchanged, Settled
    <2>3. CASE q # r
      <3>1. branch'[q] = branch[q] /\ row'[q] = row[q] /\ exec'[q] = exec[q] /\ (q \in review' <=> q \in review)
        BY <1>2, <1>6, <2>3 DEF Settles, Goto, TypeOK
      <3> QED BY <1>1, <1>6, <3>1 DEF Settles, KeptOf, Known, InUse, OthersUnchanged
    <2> QED BY <2>2, <2>3
  <1>7. CASE Dies(r)
    <2>1. row[r] = "active"
      BY <1>2, <1>7 DEF Dies, Executing
    <2>2. CASE q = r
      BY <1>1, <1>2, <1>7, <2>1, <2>2 DEF Dies, Goto, KeptOf, Known, InUse, TypeOK, OthersUnchanged, Settled
    <2>3. CASE q # r
      <3>1. branch'[q] = branch[q] /\ tree'[q] = tree[q] /\ exec'[q] = exec[q]
        BY <1>2, <1>7, <2>3 DEF Dies, Goto, TypeOK
      <3> QED BY <1>1, <1>7, <3>1 DEF Dies, KeptOf, Known, InUse, OthersUnchanged
    <2> QED BY <2>2, <2>3
  <1>8. CASE Decides(r)
    BY <1>1, <1>8 DEF Decides, KeptOf, Known, InUse, OthersUnchanged, clone
  <1> QED BY <1>3, <1>4, <1>5, <1>6, <1>7, <1>8 DEF Turn, CreateStep

LEMMA PassKept ==
  ASSUME Ground, Kept, Passes, NEW q \in Runs
  PROVE  KeptOf(q)'
  <1>1. KeptOf(q) /\ TypeOK /\ Executing
    BY DEF Kept, Ground
  <1>2. CASE RetentionReads
    <2>1. \A r \in Reclaimable : row[r] \in Settled /\ r \notin review
      BY DEF Reclaimable, Evicted, Spared, Expendable
    <2> QED BY <1>1, <1>2, <2>1 DEF RetentionReads, KeptOf, Known, InUse, PassUnchanged, RunsUnchanged
  <1>3. CASE RetentionDies
    BY <1>1, <1>3 DEF RetentionDies, KeptOf, Known, InUse, PassUnchanged, RunsUnchanged
  <1>4. CASE ReaperReads
    BY <1>1, <1>4 DEF ReaperReads, NoReaper, KeptOf, Known, InUse, PassUnchanged, RunsUnchanged
  <1>5. CASE ReaperLocks
    <2>1. InUse(q) => tree'[q] = tree[q]
      BY <1>1, <1>5, PrunesSpare DEF ReaperLocks, KeptOf
    <2>2. q \in reaper'.left => ~Known(q)
      BY <1>1, <1>5 DEF ReaperLocks, KeptOf
    <2> QED BY <1>1, <1>5, <2>1, <2>2 DEF ReaperLocks, KeptOf, Known, InUse, PassUnchanged, RunsUnchanged
  <1>6. ASSUME NEW r \in Runs, ReapTree(r) PROVE KeptOf(q)'
    <2>1. KeptOf(r)
      BY DEF Kept
    <2> QED BY <1>1, <1>6, <2>1 DEF ReapTree, KeptOf, Known, InUse, TypeOK, Executing, Settled, PassUnchanged, RunsUnchanged
  <1>7. ASSUME NEW r \in Runs, ReapBranch(r) PROVE KeptOf(q)'
    <2>1. KeptOf(r)
      BY DEF Kept
    <2> QED BY <1>1, <1>7, <2>1 DEF ReapBranch, KeptOf, Known, InUse, TypeOK, Executing, Settled, PassUnchanged, RunsUnchanged
  <1>8. CASE ReaperEnds
    BY <1>1, <1>8 DEF ReaperEnds, NoReaper, KeptOf, Known, InUse, PassUnchanged, RunsUnchanged
  <1>9. CASE ReaperDies
    BY <1>1, <1>9 DEF ReaperDies, NoReaper, KeptOf, Known, InUse, PassUnchanged, RunsUnchanged
  <1>10. ASSUME NEW r \in Runs, RetentionRemoves(r) PROVE KeptOf(q)'
    <2>1. KeptOf(r)
      BY DEF Kept
    <2>2. exec[r] = "idle" /\ r \notin review
      BY <1>1, <1>10, <2>1 DEF RetentionRemoves, KeptOf, Executing, Settled, TypeOK
    <2> QED BY <1>1, <1>10, <2>2 DEF RetentionRemoves, KeptOf, Known, InUse, TypeOK, PassUnchanged, RunsUnchanged
  <1>11. ASSUME NEW r \in Runs, Forget(r) PROVE KeptOf(q)'
    BY <1>1, <1>11 DEF Forget, KeptOf, Known, InUse, TypeOK, Settled, OthersUnchanged, clone
  <1> QED BY <1>2, <1>3, <1>4, <1>5, <1>6, <1>7, <1>8, <1>9, <1>10, <1>11 DEF Passes, ReaperStep

LEMMA ApprovalKept ==
  ASSUME Kept, Approvals \/ UNCHANGED vars
  PROVE  Kept'
  <1>1. UNCHANGED <<row, review, exec, tree, branch, doomed, reaper>>
    BY DEF Approvals, PersonCommits, Approve, Fetch, Integrate, Deliver, Return, MergeDies,
           MergeUnchanged, RunsUnchanged, vars, clone
  <1> QED BY <1>1 DEF Kept, KeptOf, Known, InUse

LEMMA StepKept ==
  ASSUME QuietBoot, Ground, Kept, [Next]_vars
  PROVE  Kept'
  <1>1. CASE \E r \in Runs : Turn(r) \/ Decides(r)
    BY <1>1, TurnKept DEF Kept
  <1>2. CASE Passes
    BY <1>2, PassKept DEF Kept
  <1>3. CASE Approvals \/ UNCHANGED vars
    BY <1>3, ApprovalKept
  <1> QED BY <1>1, <1>2, <1>3 DEF Next

LEMMA KeptInvariant ==
  ASSUME QuietBoot
  PROVE  Spec => []Kept
  <1>1. Ground /\ Kept /\ [Next]_vars => Kept'
    BY StepKept
  <1> QED BY <1>1, InitKept, GroundInvariant, PTL DEF Spec

\* Where no run is enqueued beside a reaper, neither a retention pass nor a reaper takes the
\* checkout of a running agent, or one whose review is open (retention.ts, reaper.ts).
THEOREM TreesStay ==
  ASSUME QuietBoot
  PROVE  Spec => []TreesInUseStay
  <1>1. Kept => TreesInUseStay
    BY DEF Kept, KeptOf, TreesInUseStay
  <1> QED BY <1>1, KeptInvariant, PTL

-----------------------------------------------------------------------------
(* What has ended stays as it is.                                           *)

Ended == {"completed", "forgotten"}

\* Only a reaper touches the branch of a run that is over, and only one that it has left.
LEMMA EndedStays ==
  ASSUME Ground, [Next]_vars, NEW r \in Runs, row[r] \in Ended
  PROVE  /\ row'[r] \in Ended
         /\ branch'[r] = branch[r] \/ (branch'[r] = None /\ r \in reaper.left)
  <1>1. TypeOK /\ Executing /\ exec[r] = "idle"
    BY DEF Ground, Executing, Ended
  <1>2. ASSUME NEW q \in Runs, Turn(q) \/ Decides(q)
        PROVE  row'[r] \in Ended /\ branch'[r] = branch[r]
    <2>1. CASE Enqueue(q)
      BY <1>1, <2>1 DEF Enqueue, clone, TypeOK, Ended
    <2>2. CASE ensureBareClone(q)
      BY <2>2 DEF ensureBareClone
    <2>3. CASE Create(q)
      BY <1>1, <2>3 DEF Create, WipedBranch, TypeOK
    <2>4. CASE Settles(q)
      BY <1>1, <2>4 DEF Settles, TypeOK
    <2>5. CASE Dies(q)
      BY <1>1, <2>5 DEF Dies, TypeOK
    <2>6. CASE Decides(q)
      BY <2>6 DEF Decides, clone
    <2> QED BY <1>2, <2>1, <2>2, <2>3, <2>4, <2>5, <2>6 DEF Turn, CreateStep
  <1>3. CASE Passes
    <2>1. ASSUME NEW q \in Runs, ReapBranch(q) \/ Forget(q) PROVE row'[r] \in Ended
      BY <1>1, <2>1 DEF ReapBranch, Forget, PassUnchanged, RunsUnchanged, TypeOK, Ended
    <2>2. ASSUME NEW q \in Runs, ReapBranch(q)
          PROVE  branch'[r] = branch[r] \/ (branch'[r] = None /\ r \in reaper.left)
      BY <1>1, <2>2 DEF ReapBranch, TypeOK
    <2>3. ASSUME NEW q \in Runs, Forget(q) PROVE branch' = branch
      BY <2>3 DEF Forget, clone
    <2> QED BY <1>3, <2>1, <2>2, <2>3
            DEF Passes, ReaperStep, RetentionReads, RetentionDies, ReaperReads, ReaperLocks, ReapTree, ReaperEnds,
                ReaperDies, RetentionRemoves, PassUnchanged, RunsUnchanged
  <1>4. CASE Approvals \/ UNCHANGED vars
    BY <1>4 DEF Approvals, PersonCommits, Approve, Fetch, Integrate, Deliver, Return, MergeDies,
                MergeUnchanged, RunsUnchanged, vars, clone
  <1> QED BY <1>2, <1>3, <1>4 DEF Next

\* Where no run is enqueued beside a reaper, a completed run can be reviewed and approved at any
\* later time: its branch outlives its checkout, and stays what it was.
THEOREM ReviewsStayPossible ==
  ASSUME QuietBoot
  PROVE  Spec => ReviewOutlivesTheTree
  <1>1. ASSUME Ground, Kept, [Next]_vars
        PROVE  [\A r \in Runs : row[r] = "completed" => branch[r] # None /\ branch'[r] = branch[r]]_vars
    <2> SUFFICES ASSUME NEW r \in Runs, row[r] = "completed"
                 PROVE  branch[r] # None /\ branch'[r] = branch[r]
      OBVIOUS
    <2>1. branch[r] # None /\ r \notin reaper.left
      BY <1>1 DEF Kept, KeptOf, Known
    <2>2. row[r] \in Ended
      BY DEF Ended
    <2> QED BY <1>1, <2>1, <2>2, EndedStays
  <1> QED BY <1>1, KeptInvariant, GroundInvariant, PTL DEF Spec, ReviewOutlivesTheTree

-----------------------------------------------------------------------------
(* Merges.                                                                  *)

MergedOf(m) ==
  \* The run of a merge that is under way was approved, and is over.
  /\ merge[m].pc \notin {"idle", "answered"} =>
       merge[m].run \in approved /\ row[merge[m].run] \in Ended
  \* Its integration tree keeps the other merges from the base branch of the clone.
  /\ merge[m].pc \in {"push", "done", "failed"} => m \in checked
  /\ merge[m].pc = "push" => branch[merge[m].run] \in {None} \cup SUBSET base
  /\ merge[m].pc = "done" => branch[merge[m].run] \in {None} \cup SUBSET source

\* Nothing gets into the source, or the clone, but from people and from approved runs.
Traced ==
  /\ source \subseteq approved \cup {0}
  /\ base # None => base \subseteq approved \cup {0}
  /\ \A r \in Runs : branch[r] # None => branch[r] \subseteq approved \cup {0, r}

Honest == Traced /\ \A m \in Merges : MergedOf(m)

LEMMA InitHonest == Init => Honest
  BY DEF Init, Honest, Traced, MergedOf, NoMerge

\* A step that does not move the base, the source or the merges keeps the merges honest.
LEMMA OtherMerges ==
  ASSUME Ground, Honest, [Next]_vars, NEW m \in Merges, merge'[m] = merge[m],
         approved \subseteq approved', merge[m].pc \in {"push", "done", "failed"} => m \in checked',
         merge[m].pc = "push" => base' = base, source \subseteq source'
  PROVE  MergedOf(m)'
  <1>1. MergedOf(m)
    BY DEF Honest
  <1>2. CASE merge[m].pc \in {"idle", "answered"}
    BY <1>1, <1>2 DEF MergedOf
  <1>3. CASE merge[m].pc \notin {"idle", "answered"}
    <2>1. merge[m].run \in Runs /\ row[merge[m].run] \in Ended
      BY <1>1, <1>3 DEF MergedOf, Ground, Based
    <2>2. /\ row'[merge[m].run] \in Ended
          /\ branch'[merge[m].run] = branch[merge[m].run] \/ branch'[merge[m].run] = None
      BY <2>1, EndedStays
    <2> QED BY <1>1, <1>3, <2>1, <2>2 DEF MergedOf
  <1> QED BY <1>2, <1>3

LEMMA TurnHonest ==
  ASSUME Ground, Honest, NEW r \in Runs, Turn(r) \/ Decides(r)
  PROVE  Honest'
  <1>1. TypeOK /\ Traced
    BY DEF Ground, Honest
  <1>2. UNCHANGED <<source, merge, checked, approved>>
    BY DEF Turn, CreateStep, Enqueue, ensureBareClone, Create, Settles, Dies, Decides, OthersUnchanged
  <1>3. base # None => base' = base
    BY DEF Turn, CreateStep, Enqueue, ensureBareClone, Create, Settles, Dies, Decides, OthersUnchanged, clone
  <1>4. ASSUME NEW m \in Merges PROVE MergedOf(m)'
    <2>1. merge[m].pc = "push" => base' = base
      BY <1>3 DEF Ground, Based
    <2>2. [Next]_vars
      BY DEF Next
    <2>3. merge[m].pc \in {"push", "done", "failed"} => m \in checked'
      BY <1>2 DEF Honest, MergedOf
    <2> QED BY <1>2, <2>1, <2>2, <2>3, OtherMerges
  <1>5. Traced'
    <2>1. base' # None => base' \subseteq approved \cup {0}
      BY <1>1 DEF Turn, CreateStep, Enqueue, ensureBareClone, Create, Settles, Dies, Decides, OthersUnchanged,
                  clone, Traced
    <2>2. ASSUME NEW q \in Runs, branch'[q] # None PROVE branch'[q] \subseteq approved \cup {0, q}
      <3>1. CASE Create(r)
        <4>1. branch'[q] = branch[q] \/ branch'[q] = base
          BY <1>1, <3>1 DEF Create, WipedBranch, TypeOK
        <4> QED BY <1>1, <2>2, <4>1 DEF Traced
      <3>2. CASE Settles(r)
        <4>1. PICK work \in {{}, {r}} : branch' = [branch EXCEPT ![r] = IF @ = None THEN None ELSE @ \cup work]
          BY <3>2 DEF Settles
        <4>2. CASE q = r
          <5>1. branch[r] # None /\ branch'[r] = branch[r] \cup work
            BY <1>1, <2>2, <4>1, <4>2 DEF TypeOK
          <5> QED BY <1>1, <4>2, <5>1 DEF Traced
        <4>3. CASE q # r
          BY <1>1, <2>2, <4>1, <4>3 DEF TypeOK, Traced
        <4> QED BY <4>2, <4>3
      <3>3. CASE Dies(r)
        <4>1. branch'[q] \in {branch[q], None, base}
          <5>1. CASE exec[r] = "create" /\ lock = None
            <6>1. PICK left \in Halfway(r) : branch' = [branch EXCEPT ![r] = left[2]]
              BY <3>3, <5>1 DEF Dies
            <6>2. left[2] \in {branch[r], None, base}
              BY <6>1 DEF Halfway
            <6> QED BY <1>1, <6>1, <6>2 DEF TypeOK
          <5>2. CASE ~(exec[r] = "create" /\ lock = None)
            BY <3>3, <5>2 DEF Dies
          <5> QED BY <5>1, <5>2
        <4> QED BY <1>1, <2>2, <4>1 DEF Traced
      <3>4. CASE Enqueue(r) \/ ensureBareClone(r) \/ Decides(r)
        BY <1>1, <2>2, <3>4 DEF Enqueue, ensureBareClone, Decides, clone, Traced
      <3> QED BY <3>1, <3>2, <3>3, <3>4 DEF Turn, CreateStep
    <2> QED BY <1>1, <1>2, <2>1, <2>2 DEF Traced
  <1> QED BY <1>4, <1>5 DEF Honest

LEMMA PassHonest ==
  ASSUME Ground, Honest, Passes
  PROVE  Honest'
  <1>1. TypeOK /\ Traced
    BY DEF Ground, Honest
  <1>2. UNCHANGED <<base, source, merge, checked, approved>>
    BY DEF Passes, ReaperStep, RetentionReads, RetentionDies, ReaperReads, ReaperLocks, ReapTree, ReapBranch,
           ReaperEnds, ReaperDies, RetentionRemoves, Forget, PassUnchanged, OthersUnchanged, clone
  <1>3. ASSUME NEW m \in Merges PROVE MergedOf(m)'
    <2>1. [Next]_vars
      BY DEF Next
    <2>2. merge[m].pc \in {"push", "done", "failed"} => m \in checked'
      BY <1>2 DEF Honest, MergedOf
    <2> QED BY <1>2, <2>1, <2>2, OtherMerges
  <1>4. ASSUME NEW q \in Runs PROVE branch'[q] \in {branch[q], None}
    <2>1. ASSUME NEW r \in Runs, ReapBranch(r) PROVE branch'[q] \in {branch[q], None}
      BY <1>1, <2>1 DEF ReapBranch, TypeOK
    <2> QED BY <2>1 DEF Passes, ReaperStep, RetentionReads, RetentionDies, ReaperReads, ReaperLocks, ReapTree,
           ReaperEnds, ReaperDies, RetentionRemoves, Forget, clone
  <1>5. Traced'
    BY <1>1, <1>2, <1>4 DEF Traced
  <1> QED BY <1>3, <1>5 DEF Honest

LEMMA ApprovalHonest ==
  ASSUME Ground, Honest, Approvals
  PROVE  Honest' /\ source \subseteq source'
  <1>1. TypeOK /\ Traced
    BY DEF Ground, Honest
  <1>2. [Next]_vars
    BY DEF Next
  <1>3. UNCHANGED <<row, branch>>
    BY DEF Approvals, PersonCommits, Approve, Fetch, Integrate, Deliver, Return, MergeDies,
           MergeUnchanged, RunsUnchanged
  <1>4. source \subseteq source' /\ approved \subseteq approved'
    BY DEF Approvals, PersonCommits, Approve, Fetch, Integrate, Deliver, Return, MergeDies
  <1>5. \A m \in Merges : MergedOf(m)
    BY DEF Honest
  <1>6. CASE PersonCommits
    <2>1. Traced'
      BY <1>1, <1>3, <1>6 DEF PersonCommits, Traced
    <2>2. ASSUME NEW m \in Merges PROVE MergedOf(m)'
      BY <1>2, <1>4, <1>5, <1>6, OtherMerges DEF PersonCommits, MergedOf
    <2> QED BY <1>4, <2>1, <2>2 DEF Honest
  <1>7. ASSUME NEW m \in Merges, NEW r \in Runs, Approve(m, r) PROVE Honest'
    <2>1. Traced'
      BY <1>1, <1>3, <1>7 DEF Approve, Traced
    <2>2. ASSUME NEW n \in Merges PROVE MergedOf(n)'
      <3>1. CASE n = m
        BY <1>1, <1>3, <1>7, <3>1 DEF Approve, MergedOf, Ended, TypeOK
      <3>2. CASE n # m
        <4>1. merge'[n] = merge[n]
          BY <1>1, <1>7, <3>2 DEF Approve, TypeOK
        <4> QED BY <1>2, <1>4, <1>5, <1>7, <4>1, OtherMerges DEF Approve, MergedOf
      <3> QED BY <3>1, <3>2
    <2> QED BY <2>1, <2>2 DEF Honest
  <1>8. ASSUME NEW m \in Merges, Fetch(m) PROVE Honest'
    <2>1. Traced'
      BY <1>1, <1>3, <1>8 DEF Fetch, Traced
    <2>2. ASSUME NEW n \in Merges PROVE MergedOf(n)'
      <3>1. CASE n = m
        BY <1>1, <1>3, <1>5, <1>8, <3>1 DEF Fetch, MergeGoto, MergedOf, Answered, TypeOK
      <3>2. CASE n # m
        <4>1. merge'[n] = merge[n]
          BY <1>1, <1>8, <3>2 DEF Fetch, MergeGoto, TypeOK
        <4>2. merge[n].pc = "push" => base' = base
          BY <1>5, <1>8 DEF Fetch, MergedOf
        <4> QED BY <1>2, <1>4, <1>5, <1>8, <4>1, <4>2, OtherMerges DEF Fetch, MergedOf
      <3> QED BY <3>1, <3>2
    <2> QED BY <2>1, <2>2 DEF Honest
  <1>9. ASSUME NEW m \in Merges, Integrate(m) PROVE Honest'
    <2>1. /\ merge[m].run \in Runs /\ merge[m].run \in approved /\ row[merge[m].run] \in Ended /\ base # None
      BY <1>5, <1>9 DEF Integrate, MergedOf, Ground, Based
    <2>2. Traced'
      <3>1. base' = base \/ (branch[merge[m].run] # None /\ base' = base \cup branch[merge[m].run])
        BY <1>9 DEF Integrate
      <3>2. branch[merge[m].run] # None => branch[merge[m].run] \subseteq approved \cup {0}
        BY <1>1, <2>1 DEF Traced
      <3>3. base' \subseteq approved \cup {0}
        BY <1>1, <2>1, <3>1, <3>2 DEF Traced
      <3> QED BY <1>1, <1>3, <1>9, <3>3 DEF Integrate, Traced
    <2>3. ASSUME NEW n \in Merges PROVE MergedOf(n)'
      <3>1. CASE n = m
        BY <1>1, <1>3, <1>9, <2>1, <3>1 DEF Integrate, MergeGoto, MergedOf, Answered, TypeOK
      <3>2. CASE n # m
        <4>1. merge'[n] = merge[n]
          BY <1>1, <1>9, <3>2 DEF Integrate, MergeGoto, TypeOK
        <4>2. merge[n].pc \in {"push", "done", "failed"} => checked' = checked /\ base' = base
          BY <1>5, <1>9 DEF Integrate, MergedOf
        <4> QED BY <1>2, <1>4, <1>5, <4>1, <4>2, OtherMerges DEF MergedOf
      <3> QED BY <3>1, <3>2
    <2> QED BY <2>2, <2>3 DEF Honest
  <1>10. ASSUME NEW m \in Merges, Deliver(m) PROVE Honest'
    <2>1. /\ merge[m].run \in approved /\ row[merge[m].run] \in Ended /\ base # None /\ m \in checked
          /\ branch[merge[m].run] \in {None} \cup SUBSET base
      BY <1>5, <1>10 DEF Deliver, MergedOf, Ground, Based
    <2>2. Traced'
      BY <1>1, <1>3, <1>10, <2>1 DEF Deliver, Traced
    <2>3. ASSUME NEW n \in Merges PROVE MergedOf(n)'
      <3>1. CASE n = m
        BY <1>1, <1>3, <1>10, <2>1, <3>1 DEF Deliver, MergeGoto, MergedOf, TypeOK
      <3>2. CASE n # m
        <4>1. merge'[n] = merge[n]
          BY <1>1, <1>10, <3>2 DEF Deliver, MergeGoto, TypeOK
        <4> QED BY <1>2, <1>4, <1>5, <1>10, <4>1, OtherMerges DEF Deliver, MergedOf
      <3> QED BY <3>1, <3>2
    <2> QED BY <2>2, <2>3 DEF Honest
  <1>11. ASSUME NEW m \in Merges, Return(m) \/ MergeDies(m) PROVE Honest'
    <2>1. Traced'
      BY <1>1, <1>3, <1>11 DEF Return, MergeDies, Traced
    <2>2. ASSUME NEW n \in Merges PROVE MergedOf(n)'
      <3>1. CASE n = m
        BY <1>1, <1>11, <3>1 DEF Return, MergeDies, MergedOf, Answered, TypeOK
      <3>2. CASE n # m
        <4>1. merge'[n] = merge[n] /\ (n \in checked => n \in checked')
          BY <1>1, <1>11, <3>2 DEF Return, MergeDies, TypeOK
        <4> QED BY <1>2, <1>4, <1>5, <1>11, <4>1, OtherMerges DEF Return, MergeDies, MergedOf
      <3> QED BY <3>1, <3>2
    <2> QED BY <2>1, <2>2 DEF Honest
  <1> QED BY <1>4, <1>6, <1>7, <1>8, <1>9, <1>10, <1>11 DEF Approvals

LEMMA StepHonest ==
  ASSUME Ground, Honest, [Next]_vars
  PROVE  Honest' /\ source \subseteq source'
  <1>1. CASE \E r \in Runs : Turn(r) \/ Decides(r)
    <2>1. source' = source
      BY <1>1 DEF Turn, CreateStep, Enqueue, ensureBareClone, Create, Settles, Dies, Decides, clone
    <2> QED BY <1>1, <2>1, TurnHonest
  <1>2. CASE Passes
    <2>1. source' = source
      BY <1>2 DEF Passes, ReaperStep, RetentionReads, RetentionDies, ReaperReads, ReaperLocks, ReapTree, ReapBranch,
                  ReaperEnds, ReaperDies, RetentionRemoves, Forget, PassUnchanged
    <2> QED BY <1>2, <2>1, PassHonest
  <1>3. CASE Approvals
    BY <1>3, ApprovalHonest
  <1>4. CASE UNCHANGED vars
    BY <1>4 DEF vars, clone, Honest, Traced, MergedOf
  <1> QED BY <1>1, <1>2, <1>3, <1>4 DEF Next

\* The answer "merged" is the truth for every number of concurrent approvals, although merges
\* take no lock (merge.ts): the work of the run is in the source, to which only people and
\* approved runs contribute, and which loses nothing.
THEOREM DeliveryStaysHonest == Spec => DeliveryIsHonest
  <1>1. Honest => \A m \in Merges : merge[m].pc = "done" => branch[merge[m].run] \in {None} \cup SUBSET source
    BY DEF Honest, MergedOf
  <1>2. Honest => source \subseteq approved \cup {0}
    BY DEF Honest, Traced
  <1>3. Ground /\ Honest /\ [Next]_vars => Honest' /\ [source \subseteq source']_vars
    BY StepHonest
  <1> QED BY <1>1, <1>2, <1>3, InitHonest, GroundInvariant, PTL DEF Spec, DeliveryIsHonest

=============================================================================
